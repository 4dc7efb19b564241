--------------------------- MODULE UiRasterProofs ---------------------------
(***************************************************************************)
(* Passes, layouts, state and aliases of the interface, for any textures,  *)
(* rectangles and aliases, and a client that keeps the protocol: of its    *)
(* lapses only those are allowed that a theorem names.                     *)
(*                                                                         *)
(* The invariant says which pass the mode stands for, that every image has *)
(* the layout noted for it, that the state is what the client set, with    *)
(* what a diagram saved, and that the command buffer has it while a pass   *)
(* is open.  Commands are shown to blame nothing where that holds; then    *)
(* each operation is a chain of commands.                                  *)
(***************************************************************************)
EXTENDS UiRaster, TLAPS

-----------------------------------------------------------------------------
(* Recorders                                                               *)

Layouts == {"undefined", "attachment", "read", "present", "source", "target", "general"}

Fields == {"mode", "active", "state", "saved", "track", "layout", "pass", "dyn", "stale", "faults"}

\* What the lemmas need of a recorder's type.
Shaped(r) ==
    /\ r = [field \in Fields |-> r[field]]
    /\ r.track \in [Images -> Layouts] /\ r.layout \in [Images -> Layouts]
    /\ r.stale \in BOOLEAN

\* No pass is open, and what is noted of the layouts is so.
Idle(r) == r.pass = NoPass /\ r.track = r.layout

\* All but the layouts and the pass.
Same(r, q) ==
    /\ q.mode = r.mode /\ q.active = r.active /\ q.state = r.state /\ q.saved = r.saved
    /\ q.dyn = r.dyn /\ q.stale = r.stale /\ q.faults = r.faults

\* Commands recorded outside passes, without a fault, lead from r to q.
Moves(r, q, layout) == Shaped(q) /\ Idle(q) /\ Same(r, q) /\ q.layout = layout

LEMMA BlameNothing ==
    ASSUME NEW r, Shaped(r)
    PROVE  Blame(r, {}) = r
BY DEF Shaped, Fields, Blame

LEMMA NonePass == \A S : S # {} => Attached(S) # NoPass
<1>1. TAKE S
<1>2. DOMAIN Attached(S) = S /\ DOMAIN NoPass = {}
  BY DEF Attached, NoPass
<1> QED
  BY <1>2

LEMMA MainPassOpen == MainPass # NoPass
<1>1. DOMAIN MainPass = Main /\ DOMAIN NoPass = {}
  BY DEF MainPass, NoPass
<1> QED
  BY <1>1 DEF Main

LEMMA BarrierMoves ==
    ASSUME NEW r, Shaped(r), Idle(r),
           NEW image \in Images, NEW new \in Layouts \ {"undefined"}
    PROVE  Moves(r, Barrier(r, image, new), [r.layout EXCEPT ![image] = new])
<1> DEFINE q == [r EXCEPT !.track[image] = new, !.layout[image] = new]
<1>1. /\ Shaped(q) /\ Idle(q) /\ Same(r, q) /\ q.layout = [r.layout EXCEPT ![image] = new]
  BY DEF Shaped, Fields, Idle, Same
<1>2. Barrier(r, image, new) = Blame(q, {})
  BY DEF Barrier, Idle, When
<1> QED
  BY <1>1, <1>2, BlameNothing DEF Moves

LEMMA PassBegins ==
    ASSUME NEW r, Shaped(r), r.pass = NoPass,
           NEW pass, \A i \in DOMAIN pass : r.layout[i] = pass[i]
    PROVE  BeginPass(r, pass) = [r EXCEPT !.pass = pass]
<1> DEFINE q == [r EXCEPT !.pass = pass]
<1>1. Shaped(q)
  BY DEF Shaped, Fields
<1>2. BeginPass(r, pass) = Blame(q, {})
  BY DEF BeginPass, When
<1> QED
  BY <1>1, <1>2, BlameNothing

LEMMA PassEnds ==
    ASSUME NEW r, Shaped(r), r.pass # NoPass
    PROVE  EndPass(r) = [r EXCEPT !.pass = NoPass, !.dyn = Lost]
<1> DEFINE q == [r EXCEPT !.pass = NoPass, !.dyn = Lost]
<1>1. Shaped(q)
  BY DEF Shaped, Fields
<1>2. EndPass(r) = Blame(q, {})
  BY DEF EndPass, When
<1> QED
  BY <1>1, <1>2, BlameNothing

LEMMA Transfers ==
    ASSUME NEW r, Shaped(r), r.pass = NoPass, NEW image, NEW layout, r.layout[image] = layout
    PROVE  Transfer(r, image, layout) = r
<1>1. Transfer(r, image, layout) = Blame(r, {})
  BY DEF Transfer, When
<1> QED
  BY <1>1, BlameNothing

-----------------------------------------------------------------------------
(* What the ends of passes do                                              *)

\* From r to q, images that may be sampled stay so and written images stay written.
Reaches(r, q) ==
    /\ \A t \in Textures : q.layout[t] \in {r.layout[t], "read"}
    /\ \A a \in {"aliasColor", "aliasDepth"} : q.layout[a] \in {r.layout[a], "read"}
    /\ \A i \in Images : r.layout[i] # "undefined" => q.layout[i] # "undefined"

LEMMA NamedImages ==
    /\ Main \subseteq Images /\ Diagram \subseteq Images /\ Textures \subseteq Images
    /\ "post" \in Images /\ "spiderSmall" \in Images
    /\ "aliasColor" \in Images /\ "aliasDepth" \in Images
    /\ \A i \in Main : AliasOf[i] \in {"aliasColor", "aliasDepth"}
    /\ \A t \in Textures : t \notin Fixed
BY TexturesAssumption DEF Images, Fixed, Main, Diagram, AliasOf

LEMMA ReachesOn ==
    ASSUME NEW r, NEW p, NEW q, Reaches(r, p), Reaches(p, q)
    PROVE  Reaches(r, q)
BY DEF Reaches

LEMMA ReachesByLayout ==
    ASSUME NEW r, NEW q, r.layout \in [Images -> Layouts],
           NEW image \in Images, NEW new \in Layouts \ {"undefined"},
           new = "read" \/ image \in Fixed \ {"aliasColor", "aliasDepth"},
           q.layout = [r.layout EXCEPT ![image] = new]
    PROVE  Reaches(r, q)
BY NamedImages DEF Reaches

LEMMA SameOn ==
    ASSUME NEW r, NEW p, NEW q, NEW l, NEW m, Moves(r, p, l), Moves(p, q, m)
    PROVE  Moves(r, q, m)
BY DEF Moves, Same

LEMMA CopiedMoves ==
    ASSUME NEW r, Shaped(r), Idle(r), NEW image \in Main, NEW final \in Layouts \ {"undefined"}
    PROVE  Moves(r, Copied(r, image, final),
                 [r.layout EXCEPT ![image] = final, ![AliasOf[image]] = "read"])
<1> DEFINE alias == AliasOf[image]
           a == Barrier(r, image, "source")
           b == Barrier(a, alias, "target")
           c == Barrier(b, image, final)
           d == Barrier(c, alias, "read")
<1>0. image \in Images /\ alias \in Images /\ alias # image
  BY NamedImages DEF Main
<1>1. Moves(r, a, [r.layout EXCEPT ![image] = "source"])
  BY <1>0, BarrierMoves DEF Layouts
<1>2. Moves(a, b, [a.layout EXCEPT ![alias] = "target"])
  BY <1>0, <1>1, BarrierMoves DEF Layouts, Moves
<1>3. /\ Transfer(b, image, "source") = b
      /\ Transfer(b, alias, "target") = b
  <2>1. b.layout[image] = "source" /\ b.layout[alias] = "target"
    BY <1>0, <1>1, <1>2 DEF Moves, Shaped
  <2> QED
    BY <2>1, <1>2, Transfers DEF Moves, Idle
<1>4. Copied(r, image, final) = d
  BY <1>3 DEF Copied
<1>5. Moves(b, c, [b.layout EXCEPT ![image] = final])
  BY <1>0, <1>2, BarrierMoves DEF Layouts, Moves
<1>6. Moves(c, d, [c.layout EXCEPT ![alias] = "read"])
  BY <1>0, <1>5, BarrierMoves DEF Layouts, Moves
<1>7. Moves(r, d, [c.layout EXCEPT ![alias] = "read"])
  BY <1>1, <1>2, <1>5, <1>6, SameOn
<1>8. [c.layout EXCEPT ![alias] = "read"] = [r.layout EXCEPT ![image] = final, ![alias] = "read"]
  BY <1>0, <1>1, <1>2, <1>5 DEF Moves, Shaped
<1> QED
  BY <1>4, <1>7, <1>8

\* captureMainAliases() leaves the aliases of the colour current.
Captured(r, q) ==
    /\ Shaped(q) /\ Idle(q) /\ Reaches(r, q)
    /\ q.mode = r.mode /\ q.active = r.active /\ q.state = r.state /\ q.saved = r.saved
    /\ q.dyn = r.dyn /\ q.faults = r.faults
    /\ q.stale = (r.stale /\ "color" \notin Aliases)

LEMMA CopiedReaches ==
    ASSUME NEW r, r.layout \in [Images -> Layouts], NEW q, NEW image \in Main,
           NEW final \in Layouts \ {"undefined"},
           q.layout = [r.layout EXCEPT ![image] = final, ![AliasOf[image]] = "read"]
    PROVE  Reaches(r, q)
BY NamedImages DEF Reaches, Fixed, Main

LEMMA CaptureCaptures ==
    ASSUME NEW r, Shaped(r), Idle(r)
    PROVE  Captured(r, Capture(r))
<1> DEFINE copied == Copied(r, "color", "present")
           c == IF "color" \in Aliases THEN [copied EXCEPT !.stale = FALSE] ELSE r
           d == Copied(c, "depth", "attachment")
<1> HIDE DEF d
<1>0. /\ "color" \in Main /\ "depth" \in Main
      /\ "present" \in Layouts \ {"undefined"} /\ "attachment" \in Layouts \ {"undefined"}
  BY DEF Main, Layouts
<1>1. Captured(r, c)
  <2>1. CASE "color" \in Aliases
    <3>1. Moves(r, copied, [r.layout EXCEPT !["color"] = "present", ![AliasOf["color"]] = "read"])
      BY CopiedMoves DEF Main, Layouts
    <3>2. Reaches(r, copied)
      <4> HIDE DEF copied
      <4> QED
        BY <1>0, <3>1, CopiedReaches DEF Moves, Shaped
    <3> QED
      BY <2>1, <3>1, <3>2 DEF Captured, Moves, Shaped, Fields, Idle, Same, Reaches
  <2>2. CASE "color" \notin Aliases
    BY <2>2 DEF Captured, Reaches, Shaped
  <2> QED
    BY <2>1, <2>2
<1>2. Captured(r, d)
  <2>1. Moves(c, d, [c.layout EXCEPT !["depth"] = "attachment", ![AliasOf["depth"]] = "read"])
    BY <1>0, <1>1, CopiedMoves DEF Captured, d
  <2>2. Reaches(c, d)
    <3> HIDE DEF c
    <3>1. c.layout \in [Images -> Layouts]
      BY <1>1 DEF Captured, Shaped
    <3>2. d.layout = [c.layout EXCEPT !["depth"] = "attachment", ![AliasOf["depth"]] = "read"]
      BY <2>1 DEF Moves
    <3> QED
      BY <1>0, <3>1, <3>2, CopiedReaches
  <2>3. Reaches(r, d)
    BY <1>1, <2>2, ReachesOn DEF Captured
  <2> QED
    BY <1>1, <2>1, <2>3 DEF Captured, Moves, Same
<1>3. Capture(r) = IF "depth" \in Aliases THEN d ELSE c
  BY DEF Capture, d
<1> QED
  BY <1>1, <1>2, <1>3

-----------------------------------------------------------------------------
(* The open pass                                                           *)

IsFramebuffer(f) ==
    f \in [draw : BOOLEAN, read : BOOLEAN,
           color : Textures \cup {"color", None}, depth : {"depth", None}]

\* What may be sampled has the layout of what is, but for the attachments.
Readable(r, attached) ==
    /\ \A t \in Textures \ attached : r.layout[t] = "read"
    /\ \A a \in {"aliasColor", "aliasDepth"} : r.layout[a] \in {"undefined", "read"}

Settled(r) == r.mode = "NONE" /\ Idle(r) /\ Readable(r, {})

MainOpen(r) ==
    /\ ~fbo.draw
    /\ r.pass = MainPass
    /\ r.layout["color"] = "present" /\ r.layout["depth"] = "attachment"
    /\ r.track = [r.layout EXCEPT !["color"] = "attachment"]
    /\ Readable(r, {})

DiagramOpen(r) ==
    /\ ~fbo.draw
    /\ r.pass = Attached(Diagram)
    /\ r.track = r.layout
    /\ \A i \in Diagram : r.layout[i] = "attachment"
    /\ Readable(r, {})

FramebufferOpen(r) ==
    /\ fbo.draw /\ Complete(Bound) /\ r.active = Bound
    /\ r.pass = Attached(ImagesOf(Bound))
    /\ r.track = r.layout
    /\ Readable(r, ImagesOf(Bound))

\* The mode tells which pass is open, over which attachments.
Passes(r) ==
    \/ Settled(r)
    \/ r.mode = "DRAW" /\ MainOpen(r)
    \/ r.mode = "DIAGRAM_DRAW" /\ DiagramOpen(r)
    \/ r.mode = "FRAMEBUFFER_DRAW" /\ FramebufferOpen(r)

Grows(r, q) == \A i \in Images : r.layout[i] # "undefined" => q.layout[i] # "undefined"

\* end() closes the pass; the aliases show what it drew.
Ended(r, q) ==
    /\ Shaped(q) /\ Settled(q) /\ Grows(r, q)
    /\ q.state = r.state /\ q.saved = r.saved /\ q.faults = r.faults
    /\ q.stale => r.stale
    /\ "color" \in Aliases /\ q.stale =>
           \/ r.mode = "NONE"
           \/ r.mode = "FRAMEBUFFER_DRAW" /\ "color" \notin ImagesOf(Bound)

IsTarget(target) == target.color \in Images /\ target.depth \in Images \cup {None}

LEMMA BarriersToMoves ==
    ASSUME NEW r, Shaped(r), Idle(r), NEW target, IsTarget(target),
           NEW new \in Layouts \ {"undefined"}
    PROVE  Moves(r, BarriersTo(r, target, new),
                 [i \in Images |-> IF i \in ImagesOf(target) THEN new ELSE r.layout[i]])
<1> DEFINE colored == Barrier(r, target.color, new)
           both == Barrier(colored, target.depth, new)
           layout == [i \in Images |-> IF i \in ImagesOf(target) THEN new ELSE r.layout[i]]
<1>0. None \notin Images
  BY NoneAssumption
<1>1. Moves(r, colored, [r.layout EXCEPT ![target.color] = new])
  BY BarrierMoves DEF IsTarget
<1>2. CASE target.depth = None
  <2>1. BarriersTo(r, target, new) = colored
    BY <1>2 DEF BarriersTo
  <2>2. ImagesOf(target) = {target.color}
    BY <1>0, <1>2 DEF ImagesOf, IsTarget
  <2>3. [r.layout EXCEPT ![target.color] = new] = layout
    BY <2>2 DEF IsTarget, Shaped
  <2> QED
    BY <1>1, <2>1, <2>3
<1>3. CASE target.depth # None
  <2>1. BarriersTo(r, target, new) = both
    BY <1>3 DEF BarriersTo
  <2>2. ImagesOf(target) = {target.color, target.depth}
    BY <1>0, <1>3 DEF ImagesOf, IsTarget
  <2>3. Moves(colored, both, [colored.layout EXCEPT ![target.depth] = new])
    BY <1>1, <1>3, BarrierMoves DEF IsTarget, Moves
  <2>4. Moves(r, both, [colored.layout EXCEPT ![target.depth] = new])
    BY <1>1, <2>3, SameOn
  <2>5. [colored.layout EXCEPT ![target.depth] = new] = layout
    BY <1>1, <1>3, <2>2 DEF IsTarget, Shaped, Moves
  <2> QED
    BY <2>1, <2>4, <2>5
<1> QED
  BY <1>2, <1>3

LEMMA ReadableReaches ==
    ASSUME NEW r, NEW q, Readable(r, {}), Reaches(r, q)
    PROVE  Readable(q, {})
BY DEF Readable, Reaches

\* The framebuffer is one images can be attached to.
LEMMA BoundTarget ==
    ASSUME IsFramebuffer(fbo), Complete(Bound)
    PROVE  /\ IsTarget(Bound)
           /\ ImagesOf(Bound) \subseteq Images /\ ImagesOf(Bound) # {}
           /\ ImagesOf(Bound) \subseteq Textures \cup Main
           /\ \A i \in ImagesOf(Bound) : i \in Textures \/ i \in Fixed \ {"aliasColor", "aliasDepth"}
<1>1. None \notin Images
  BY NoneAssumption
<1> QED
  BY <1>1, NamedImages DEF IsFramebuffer, Complete, Bound, ImagesOf, IsTarget, Main, Fixed

LEMMA EndFramebuffer ==
    ASSUME NEW r, Shaped(r), r.mode = "FRAMEBUFFER_DRAW", FramebufferOpen(r), IsFramebuffer(fbo)
    PROVE  Ended(r, End(r))
<1> DEFINE closed == EndPass(r)
           read == BarriersTo(closed, r.active, "read")
           un == Uncaptured(r)
<1>1. closed = [r EXCEPT !.pass = NoPass, !.dyn = Lost]
  BY BoundTarget, NonePass, PassEnds DEF FramebufferOpen
<1>2. /\ Shaped(closed) /\ Idle(closed) /\ closed.layout = r.layout /\ closed.faults = r.faults
      /\ closed.state = r.state /\ closed.saved = r.saved /\ closed.stale = r.stale
  BY <1>1 DEF Shaped, Fields, Idle, FramebufferOpen
<1>3. Moves(closed, read,
            [i \in Images |-> IF i \in ImagesOf(Bound) THEN "read" ELSE closed.layout[i]])
  BY <1>2, BoundTarget, BarriersToMoves DEF FramebufferOpen, Layouts
<1>4. /\ Shaped(un) /\ Idle(un) /\ un.mode = "NONE" /\ un.faults = r.faults
      /\ un.state = r.state /\ un.saved = r.saved /\ un.stale = r.stale
      /\ un.layout = [i \in Images |-> IF i \in ImagesOf(Bound) THEN "read" ELSE r.layout[i]]
  <2> HIDE DEF closed
  <2>1. un = [read EXCEPT !.mode = "NONE", !.active = MainTarget]
    BY DEF Uncaptured, closed
  <2> HIDE DEF read, un
  <2> QED
    BY <1>2, <1>3, <2>1 DEF Moves, Same, Shaped, Fields, Idle
<1> HIDE DEF closed, read, un
<1>5. Readable(un, {}) /\ Grows(r, un)
  <2>1. ImagesOf(Bound) \subseteq Textures \cup Main
    BY BoundTarget DEF FramebufferOpen
  <2> QED
    BY <1>4, <2>1, NamedImages DEF FramebufferOpen, Readable, Grows, Main, Fixed
<1>6. CASE ImagesOf(Bound) \cap Main = {}
  <2>1. End(r) = un
    BY <1>6 DEF End, EndFramebufferDraw, FramebufferOpen, un
  <2>2. "color" \notin ImagesOf(Bound)
    BY <1>6 DEF Main
  <2> QED
    BY <1>4, <1>5, <2>1, <2>2 DEF Ended, Settled
<1>7. CASE ImagesOf(Bound) \cap Main # {}
  <2>1. End(r) = Capture(un)
    BY <1>7 DEF End, EndFramebufferDraw, FramebufferOpen, un
  <2>2. Captured(un, Capture(un))
    BY <1>4, CaptureCaptures
  <2>3. Readable(Capture(un), {}) /\ Grows(r, Capture(un))
    BY <1>5, <2>2, ReadableReaches DEF Captured, Grows, Reaches
  <2> QED
    BY <1>4, <2>1, <2>2, <2>3 DEF Ended, Settled, Captured
<1> QED
  BY <1>6, <1>7

\* What end() notes of the layouts is so again.
LEMMA ClosedMain ==
    ASSUME NEW r, Shaped(r), r.mode = "DRAW", MainOpen(r)
    PROVE  /\ Shaped(Closed(r)) /\ Idle(Closed(r)) /\ Closed(r).layout = r.layout
           /\ Closed(r) = [r EXCEPT !.pass = NoPass, !.dyn = Lost, !.track = r.layout]
<1>1. EndPass(r) = [r EXCEPT !.pass = NoPass, !.dyn = Lost]
  BY MainPassOpen, PassEnds DEF MainOpen
<1>2. Closed(r) = Track(Track(EndPass(r), "color", "present"), "depth", "attachment")
  BY DEF Closed
<1>3. [r.track EXCEPT !["color"] = "present", !["depth"] = "attachment"] = r.layout
  BY NamedImages DEF MainOpen, Shaped, Main
<1>4. Closed(r) = [r EXCEPT !.pass = NoPass, !.dyn = Lost, !.track = r.layout]
  <2> DEFINE e == EndPass(r)
             x == Track(e, "color", "present")
  <2>1. Shaped(e) /\ e.track = r.track
    BY <1>1 DEF Shaped, Fields
  <2>2. x = [e EXCEPT !.track = [r.track EXCEPT !["color"] = "present"]]
    <3> HIDE DEF e
    <3> QED
      BY <2>1 DEF Track, Shaped, Fields
  <2>3. Closed(r) = Track(x, "depth", "attachment")
    BY <1>2
  <2> HIDE DEF e, x
  <2>4. Track(x, "depth", "attachment") = [x EXCEPT !.track = r.layout]
    <3>1. x.track = [r.track EXCEPT !["color"] = "present"] /\ x = [field \in Fields |-> x[field]]
      BY <2>1, <2>2 DEF Shaped, Fields
    <3> QED
      BY <1>3, <3>1 DEF Track, Fields
  <2>5. [x EXCEPT !.track = r.layout] = [e EXCEPT !.track = r.layout]
    BY <2>1, <2>2 DEF Shaped, Fields
  <2> QED
    BY <1>1, <2>3, <2>4, <2>5 DEF e, Shaped, Fields
<1> QED
  BY <1>4 DEF Shaped, Fields, Idle

LEMMA EndMain ==
    ASSUME NEW r, Shaped(r), r.mode = "DRAW", MainOpen(r)
    PROVE  Ended(r, End(r))
<1> DEFINE closed == Closed(r)
           captured == Capture(closed)
<1>1. /\ Shaped(closed) /\ Idle(closed) /\ closed.layout = r.layout /\ closed.faults = r.faults
      /\ closed.state = r.state /\ closed.saved = r.saved /\ closed.stale = r.stale
  <2>1. /\ Shaped(closed) /\ Idle(closed) /\ closed.layout = r.layout
        /\ closed = [r EXCEPT !.pass = NoPass, !.dyn = Lost, !.track = r.layout]
    BY ClosedMain
  <2> HIDE DEF closed
  <2> QED
    BY <2>1 DEF Shaped, Fields
<1> HIDE DEF closed
<1>2. Captured(closed, captured)
  BY <1>1, CaptureCaptures
<1> HIDE DEF captured
<1>3. End(r) = [captured EXCEPT !.mode = "NONE"]
  BY DEF End, captured, closed
<1>4. Readable(captured, {})
  <2>1. Readable(closed, {})
    BY <1>1 DEF MainOpen, Readable
  <2> QED
    BY <1>2, <2>1, ReadableReaches DEF Captured
<1> QED
  BY <1>1, <1>2, <1>3, <1>4
  DEF Ended, Settled, Captured, Shaped, Fields, Idle, Readable, Reaches, Grows

LEMMA EndEnds ==
    ASSUME NEW r, Shaped(r), Passes(r), r.mode # "DIAGRAM_DRAW", IsFramebuffer(fbo)
    PROVE  Ended(r, End(r))
<1>1. CASE r.mode = "NONE"
  <2>1. End(r) = r
    BY <1>1 DEF End
  <2> QED
    BY <1>1, <2>1 DEF Passes, Ended, Grows
<1>2. CASE r.mode = "DRAW"
  BY <1>2, EndMain DEF Passes, Settled
<1>3. CASE r.mode = "FRAMEBUFFER_DRAW"
  BY <1>3, EndFramebuffer DEF Passes, Settled
<1> QED
  BY <1>1, <1>2, <1>3 DEF Passes, Settled

-----------------------------------------------------------------------------
(* The pass a draw opens                                                   *)

\* The command buffer has the state of the recorder.
Sees(r) == r.mode # "NONE" => r.dyn = Replayed(r)

\* That state, as commands for draws of this extent.
Commands(state, extent, off) ==
    [vp |-> <<state.vp, extent>>,
     sc |-> IF state.scOn THEN state.sc ELSE <<"full", extent>>,
     blend |-> <<state.blend, off>>]

LEMMA ReplayedOnMain ==
    ASSUME NEW r, ~fbo.draw, r.mode # "FRAMEBUFFER_DRAW"
    PROVE  Replayed(r) = Commands(r.state, "window", FALSE)
<1>1. DrawExtent(r) = "window"
  BY DEF DrawExtent
<1> QED
  BY <1>1 DEF Replayed, Commands

LEMMA ReplayedOffScreen ==
    ASSUME NEW r, r.mode = "FRAMEBUFFER_DRAW"
    PROVE  Replayed(r) = Commands(r.state, Extent(r.active.color), TRUE)
<1>1. DrawExtent(r) = Extent(r.active.color)
  BY DEF DrawExtent
<1> QED
  BY <1>1 DEF Replayed, Commands

LEMMA ReplayedSame ==
    ASSUME NEW r, NEW q, q.mode = r.mode, q.state = r.state, q.active = r.active
    PROVE  Replayed(q) = Replayed(r)
BY DEF Replayed, DrawExtent

\* The scissor of a framebuffer is computed anew when its pass begins.
Refitted(state, extent) == [state EXCEPT !.scGl = state.scGl, !.sc = <<state.scGl, extent>>]

\* What the switch to the draws of the bound target leaves.
Switched(r, q) ==
    /\ Shaped(q) /\ Passes(q) /\ Sees(q) /\ Grows(r, q)
    /\ q.faults = r.faults /\ q.saved = r.saved
    /\ q.mode = IF fbo.draw THEN (IF Complete(Bound) THEN "FRAMEBUFFER_DRAW" ELSE "NONE")
                ELSE IF r.mode = "DIAGRAM_DRAW" THEN "DIAGRAM_DRAW" ELSE "DRAW"
    /\ q.state = IF fbo.draw /\ Complete(Bound) /\ r.mode # "FRAMEBUFFER_DRAW"
                 THEN Refitted(r.state, Extent(fbo.color)) ELSE r.state
    /\ q.stale => r.stale
    /\ fbo.draw /\ "color" \in Aliases /\ q.stale => r.mode \in {"NONE", "FRAMEBUFFER_DRAW"}

LEMMA OpenMainOpens ==
    ASSUME NEW r, Shaped(r), Settled(r), ~fbo.draw
    PROVE  Switched(r, OpenMain(r))
<1> DEFINE a == Barrier(r, "color", "present")
           b == Barrier(a, "depth", "attachment")
           c == BeginPass(b, MainPass)
           d == Sync(c)
           q == OpenMain(r)
<1>0. "color" \in Images /\ "depth" \in Images
  BY NamedImages DEF Main
<1>1. Moves(r, a, [r.layout EXCEPT !["color"] = "present"])
  BY <1>0, BarrierMoves DEF Layouts, Settled
<1>2. Moves(a, b, [a.layout EXCEPT !["depth"] = "attachment"])
  BY <1>0, <1>1, BarrierMoves DEF Layouts, Moves
<1>3. /\ Moves(r, b, [a.layout EXCEPT !["depth"] = "attachment"])
      /\ b.layout = [r.layout EXCEPT !["color"] = "present", !["depth"] = "attachment"]
  BY <1>1, <1>2, SameOn DEF Moves
<1>4. c = [b EXCEPT !.pass = MainPass]
  <2>1. \A i \in DOMAIN MainPass : b.layout[i] = MainPass[i]
    BY <1>0, <1>3 DEF MainPass, Main, Shaped
  <2> QED
    BY <1>3, <2>1, PassBegins DEF Moves, Idle
<1>5. q = [Track(d, "color", "attachment") EXCEPT !.mode = "DRAW"]
  <2>1. Closed(r) = r
    BY DEF Closed, Settled
  <2> QED
    BY <2>1 DEF OpenMain
<1> HIDE DEF a, b, c, d, q
<1>6. d = [c EXCEPT !.dyn = Replayed(c)]
  BY DEF Sync, d
<1>7. /\ Shaped(q) /\ q.mode = "DRAW" /\ q.pass = MainPass /\ q.layout = b.layout
      /\ q.track = [b.layout EXCEPT !["color"] = "attachment"]
      /\ q.dyn = Replayed(c) /\ c.state = r.state /\ c.mode = "NONE"
      /\ q.state = r.state /\ q.saved = r.saved /\ q.faults = r.faults /\ q.stale = r.stale
  <2>1. /\ Shaped(b) /\ b.track = b.layout /\ b.state = r.state /\ b.saved = r.saved
        /\ b.mode = "NONE" /\ b.faults = r.faults /\ b.stale = r.stale
    BY <1>3 DEF Moves, Idle, Same, Settled
  <2> QED
    BY <1>0, <1>4, <1>5, <1>6, <2>1 DEF Shaped, Fields, Track, Layouts
<1>8. Readable(q, {}) /\ Grows(r, q)
  BY <1>0, <1>3, <1>7, NamedImages DEF Readable, Grows, Settled, Shaped, Main, Fixed
<1>9. MainOpen(q)
  BY <1>0, <1>3, <1>7, <1>8 DEF MainOpen, Shaped
<1>10. q.dyn = Replayed(q)
  <2>1. Replayed(c) = Commands(c.state, "window", FALSE)
    BY <1>7, ReplayedOnMain
  <2>2. Replayed(q) = Commands(q.state, "window", FALSE)
    BY <1>7, ReplayedOnMain
  <2> QED
    BY <1>7, <2>1, <2>2
<1> QED
  BY <1>7, <1>8, <1>9, <1>10 DEF Switched, Passes, Sees, Settled, q

LEMMA OpenFramebuffer ==
    ASSUME NEW r, Shaped(r), Passes(r), IsFramebuffer(fbo), fbo.draw, Complete(Bound),
           r.mode # "FRAMEBUFFER_DRAW"
    PROVE  Switched(r, SwitchFramebufferDraw(r))
<1> DEFINE e == End(r)
           b == BarriersTo(e, Bound, "attachment")
           c == BeginPass(b, Attached(ImagesOf(Bound)))
           d == [c EXCEPT !.active = Bound, !.mode = "FRAMEBUFFER_DRAW"]
           f == ScissorSet(d, d.state.scGl)
           q == SwitchFramebufferDraw(r)
<1>0. r.mode # "DIAGRAM_DRAW"
  BY DEF Passes, DiagramOpen, Settled
<1>1. Ended(r, e)
  BY <1>0, EndEnds
<1>2. q = Sync(f)
  BY DEF SwitchFramebufferDraw
<1> HIDE DEF e, q
<1>3. Moves(e, b, [i \in Images |-> IF i \in ImagesOf(Bound) THEN "attachment" ELSE e.layout[i]])
  BY <1>1, BoundTarget, BarriersToMoves DEF Ended, Settled, Layouts
<1>4. c = [b EXCEPT !.pass = Attached(ImagesOf(Bound))]
  <2> HIDE DEF b
  <2>1. \A i \in DOMAIN Attached(ImagesOf(Bound)) : b.layout[i] = Attached(ImagesOf(Bound))[i]
    BY <1>3, BoundTarget DEF Attached, Moves
  <2> QED
    BY <1>3, <2>1, PassBegins DEF Moves, Idle
<1> HIDE DEF b, c
<1>5. /\ Shaped(d) /\ d.mode = "FRAMEBUFFER_DRAW" /\ d.active = Bound
      /\ d.pass = Attached(ImagesOf(Bound)) /\ d.track = d.layout
      /\ d.layout = [i \in Images |-> IF i \in ImagesOf(Bound) THEN "attachment" ELSE e.layout[i]]
      /\ d.state = r.state /\ d.saved = r.saved /\ d.faults = r.faults /\ d.stale = e.stale
  <2>1. /\ Shaped(b) /\ b.track = b.layout
        /\ b.layout = [i \in Images |-> IF i \in ImagesOf(Bound) THEN "attachment" ELSE e.layout[i]]
        /\ b.state = r.state /\ b.saved = r.saved /\ b.faults = r.faults /\ b.stale = e.stale
    BY <1>1, <1>3 DEF Moves, Idle, Same, Ended
  <2> QED
    BY <1>4, <2>1 DEF Shaped, Fields
<1> HIDE DEF d
<1>6. DrawExtent(d) = Extent(fbo.color)
  BY <1>5 DEF DrawExtent, Bound
<1>7. /\ f.state = Refitted(r.state, Extent(fbo.color)) /\ Shaped(f)
      /\ f.mode = d.mode /\ f.active = d.active /\ f.pass = d.pass /\ f.track = d.track
      /\ f.layout = d.layout /\ f.saved = d.saved /\ f.faults = d.faults /\ f.stale = d.stale
  <2> DEFINE s == [d EXCEPT !.state.scGl = d.state.scGl,
                            !.state.sc = <<d.state.scGl, DrawExtent(d)>>]
  <2>1. f = [s EXCEPT !.dyn["sc"] = Replayed(s)["sc"]]
    BY <1>5 DEF ScissorSet, Told, Shaped, Fields
  <2>2. s.state = Refitted(r.state, Extent(fbo.color))
    BY <1>5, <1>6 DEF Shaped, Fields, Refitted
  <2>3. /\ Shaped(s) /\ s.mode = d.mode /\ s.active = d.active /\ s.pass = d.pass
        /\ s.track = d.track /\ s.layout = d.layout
        /\ s.saved = d.saved /\ s.faults = d.faults /\ s.stale = d.stale
    BY <1>5 DEF Shaped, Fields
  <2> HIDE DEF s, f
  <2> QED
    BY <2>1, <2>2, <2>3 DEF Shaped, Fields
<1> HIDE DEF f
<1>8. /\ Shaped(q) /\ q.dyn = Replayed(q)
      /\ q.state = f.state /\ q.mode = d.mode /\ q.active = d.active /\ q.pass = d.pass
      /\ q.track = d.track /\ q.layout = d.layout
      /\ q.saved = d.saved /\ q.faults = d.faults /\ q.stale = d.stale
  <2>1. q = [f EXCEPT !.dyn = Replayed(f)]
    BY <1>2 DEF Sync
  <2>2. /\ Shaped(q) /\ q.dyn = Replayed(f)
        /\ q.state = f.state /\ q.mode = d.mode /\ q.active = d.active /\ q.pass = d.pass
        /\ q.track = d.track /\ q.layout = d.layout
        /\ q.saved = d.saved /\ q.faults = d.faults /\ q.stale = d.stale
    BY <1>7, <2>1 DEF Shaped, Fields
  <2> QED
    BY <1>7, <2>2, ReplayedSame
<1>9. Readable(q, ImagesOf(Bound)) /\ Grows(r, q)
  <2>1. ImagesOf(Bound) \subseteq Textures \cup Main
    BY BoundTarget
  <2> QED
    BY <1>1, <1>5, <1>8, <2>1, NamedImages DEF Ended, Settled, Readable, Grows, Main, Fixed
<1> QED
  <2>1. q.mode = "FRAMEBUFFER_DRAW" /\ FramebufferOpen(q)
    BY <1>5, <1>8, <1>9 DEF FramebufferOpen
  <2>2. /\ q.stale => r.stale
        /\ "color" \in Aliases /\ q.stale => r.mode = "NONE"
    BY <1>1, <1>5, <1>8 DEF Ended
  <2> QED
    BY <1>5, <1>7, <1>8, <1>9, <2>1, <2>2 DEF Switched, Passes, Sees, q

LEMMA SwitchOverlayDrawSwitches ==
    ASSUME NEW r, Shaped(r), Passes(r), Sees(r), IsFramebuffer(fbo)
    PROVE  Switched(r, SwitchOverlayDraw(r))
<1>1. CASE fbo.draw
  <2>1. SwitchOverlayDraw(r) = SwitchFramebufferDraw(r)
    BY <1>1 DEF SwitchOverlayDraw
  <2>2. CASE r.mode = "FRAMEBUFFER_DRAW"
    <3>1. SwitchFramebufferDraw(r) = r
      BY <2>2 DEF SwitchFramebufferDraw
    <3>2. FramebufferOpen(r)
      BY <2>2 DEF Passes, Settled
    <3> QED
      BY <1>1, <2>1, <2>2, <3>1, <3>2 DEF Switched, Grows, FramebufferOpen
  <2>3. CASE r.mode # "FRAMEBUFFER_DRAW" /\ Complete(Bound)
    BY <1>1, <2>1, <2>3, OpenFramebuffer
  <2>4. CASE r.mode # "FRAMEBUFFER_DRAW" /\ ~Complete(Bound)
    <3>1. SwitchFramebufferDraw(r) = End(r)
      BY <2>4 DEF SwitchFramebufferDraw
    <3>2. r.mode # "DIAGRAM_DRAW"
      BY <1>1 DEF Passes, DiagramOpen, Settled
    <3>3. Ended(r, End(r))
      BY <3>2, EndEnds
    <3> QED
      BY <1>1, <2>1, <2>4, <3>1, <3>3 DEF Switched, Ended, Passes, Sees, Settled
  <2> QED
    BY <2>2, <2>3, <2>4
<1>2. CASE ~fbo.draw
  <2>1. r.mode \in {"NONE", "DRAW", "DIAGRAM_DRAW"}
    BY <1>2 DEF Passes, Settled, FramebufferOpen
  <2>2. SwitchOverlayDraw(r) = IF r.mode = "NONE" THEN OpenMain(r) ELSE r
    BY <1>2, <2>1 DEF SwitchOverlayDraw
  <2>3. CASE r.mode = "NONE"
    BY <1>2, <2>2, <2>3, OpenMainOpens DEF Passes
  <2>4. CASE r.mode # "NONE"
    BY <1>2, <2>1, <2>2, <2>4 DEF Switched, Grows
  <2> QED
    BY <2>3, <2>4
<1> QED
  BY <1>1, <1>2

-----------------------------------------------------------------------------
(* The inductive invariant                                                 *)

IsClient(c) ==
    c \in [vp : Rectangles, scOn : BOOLEAN, sc : Rectangles, scAt : Extents, blend : BOOLEAN,
           suspended : Suspension \cup {None}, boundary : BOOLEAN, post : BOOLEAN]

Types(r, c) == Shaped(r) /\ IsFramebuffer(fbo) /\ IsClient(c)

\* The lapses the proof allows: one does no harm but to the scissor, the other to the alias.
Obedient == Lapses \subseteq {"scissor", "alias"}

\* A client that keeps the protocol is in a diagram as long as the recorder is.
InStep(r, c) ==
    /\ c.suspended # None <=> r.mode = "DIAGRAM_DRAW"
    /\ c.boundary => r.mode = "NONE"

\* The recorder's state is the client's; a diagram has saved the state it replaced.
StateFields == {"vp", "scOn", "scGl", "sc", "blend"}
IsState(s) == s = [field \in StateFields |-> s[field]]

StateIs(s, c) ==
    /\ IsState(s)
    /\ s.vp = c.vp /\ s.scOn = c.scOn /\ s.sc = <<c.sc, c.scAt>> /\ s.blend = c.blend

SavedIs(s, was) ==
    /\ IsState(s)
    /\ s.vp = was.vp /\ s.scOn = was.scOn /\ s.scGl = was.sc /\ s.sc = <<was.sc, was.scAt>>
    /\ s.blend = FALSE

Agrees(r, c) ==
    /\ StateIs(r.state, c)
    /\ r.mode = "FRAMEBUFFER_DRAW" => c.scAt = Extent(fbo.color)
    /\ c.suspended = None => r.state.scGl = c.sc /\ r.saved = None
    /\ c.suspended # None => c.scAt = "window" /\ SavedIs(r.saved, c.suspended)

\* Where a draw off screen may sample the alias next, it is current.
OffScreen(r) ==
    \/ r.mode = "NONE"
    \/ r.mode = "FRAMEBUFFER_DRAW" /\ "color" \notin ImagesOf(Bound)

Shown(r, c) == "color" \in Aliases /\ c.post = FALSE /\ OffScreen(r) => r.stale = FALSE

Allowed(faults) ==
    /\ faults \cap {"pass", "target", "layout"} = {}
    /\ "state" \in faults => Lapse("scissor")
    /\ "alias" \in faults => Lapse("alias")

Inv(r, c) ==
    /\ Types(r, c) /\ Passes(r) /\ Sees(r)
    /\ InStep(r, c) /\ Agrees(r, c) /\ Shown(r, c) /\ Allowed(r.faults)

IInv == Inv(raster, client)

-----------------------------------------------------------------------------
(* Draws and clears                                                        *)

LEMMA WindowExtents ==
    ASSUME NEW i \in Fixed
    PROVE  Extent(i) = "window"
BY TexturesAssumption DEF Extent, Textures

LEMMA TargetOpen ==
    ASSUME NEW q, Inv(raster, client), Switched(raster, q), q.mode # "NONE"
    PROVE  /\ DOMAIN q.pass = ImagesOf(Target)
           /\ fbo.draw => q.mode = "FRAMEBUFFER_DRAW" /\ FramebufferOpen(q) /\ Target = Bound
           /\ ~fbo.draw => q.mode \in {"DRAW", "DIAGRAM_DRAW"} /\ Extent(Target.color) = "window"
<1>0. None \notin Images
  BY NoneAssumption
<1>1. CASE fbo.draw
  <2>1. q.mode = "FRAMEBUFFER_DRAW" /\ FramebufferOpen(q) /\ Target = Bound
    BY <1>1 DEF Switched, Passes, Settled, Target
  <2> QED
    BY <1>1, <2>1 DEF FramebufferOpen, Attached
<1>2. CASE ~fbo.draw /\ client.suspended # None
  <2>1. raster.mode = "DIAGRAM_DRAW" /\ q.mode = "DIAGRAM_DRAW" /\ q.pass = Attached(Diagram)
    BY <1>2 DEF Inv, InStep, Switched, Passes, DiagramOpen, Settled
  <2>2. Target = DiagramTarget
    BY <1>2 DEF Target
  <2>3. ImagesOf(Target) = Diagram
    BY <1>0, <2>2, NamedImages DEF ImagesOf, DiagramTarget, Diagram
  <2>4. Extent(Target.color) = "window"
    BY <2>2, WindowExtents DEF DiagramTarget, Fixed, Diagram
  <2> QED
    BY <1>2, <2>1, <2>3, <2>4 DEF Attached
<1>3. CASE ~fbo.draw /\ client.suspended = None
  <2>1. q.mode = "DRAW" /\ q.pass = MainPass
    BY <1>3 DEF Inv, InStep, Switched, Passes, MainOpen, Settled
  <2>2. Target = MainTarget
    BY <1>3 DEF Target
  <2>3. ImagesOf(Target) = Main
    BY <1>0, <2>2, NamedImages DEF ImagesOf, MainTarget, Main
  <2>4. Extent(Target.color) = "window"
    BY <2>2, WindowExtents DEF MainTarget, Fixed, Main
  <2> QED
    BY <1>3, <2>1, <2>3, <2>4 DEF MainPass
<1> QED
  BY <1>1, <1>2, <1>3

\* Where the pass is: what the recorder replays into it is what the client expects there.
LEMMA StateExpected ==
    ASSUME NEW q, Inv(raster, client), Switched(raster, q), q.mode # "NONE",
           ScissorFits, ~Lapse("scissor")
    PROVE  /\ q.dyn = Expected
           /\ (IF q.state.scOn THEN q.state.sc ELSE <<"full", DrawExtent(q)>>) = Expected.sc
<1> DEFINE e == Extent(Target.color)
<1>1. Expected = [vp |-> <<client.vp, e>>,
                  sc |-> IF client.scOn THEN <<client.sc, e>> ELSE <<"full", e>>,
                  blend |-> <<client.blend, fbo.draw>>]
  BY DEF Expected
<1>2. q.dyn = Commands(q.state, e, fbo.draw) /\ DrawExtent(q) = e
  <2>1. CASE fbo.draw
    <3>1. q.mode = "FRAMEBUFFER_DRAW" /\ q.active = Bound /\ Target = Bound
      BY <2>1, TargetOpen DEF FramebufferOpen
    <3>2. q.dyn = Commands(q.state, e, TRUE)
      BY <3>1, ReplayedOffScreen DEF Switched, Sees
    <3>3. DrawExtent(q) = e
      BY <3>1 DEF DrawExtent
    <3> QED
      BY <2>1, <3>2, <3>3
  <2>2. CASE ~fbo.draw
    <3>1. q.mode \in {"DRAW", "DIAGRAM_DRAW"} /\ e = "window"
      BY <2>2, TargetOpen
    <3>2. q.dyn = Commands(q.state, e, FALSE)
      BY <2>2, <3>1, ReplayedOnMain DEF Switched, Sees
    <3>3. DrawExtent(q) = e
      BY <2>2, <3>1 DEF DrawExtent
    <3> QED
      BY <2>2, <3>2, <3>3, Zenon DEF Inv, Types, IsFramebuffer
  <2> QED
    BY <2>1, <2>2
<1>3. /\ q.state.vp = client.vp /\ q.state.scOn = client.scOn /\ q.state.blend = client.blend
      /\ client.scOn => q.state.sc = <<client.sc, e>>
  <2>1. CASE fbo.draw
    <3>1. e = Extent(fbo.color) /\ raster.mode # "DIAGRAM_DRAW" /\ Complete(Bound)
      BY <2>1, TargetOpen DEF FramebufferOpen, Bound, Inv, Passes, DiagramOpen, Settled
    <3>2. StateIs(raster.state, client) /\ raster.state.scGl = client.sc
      BY <3>1 DEF Inv, InStep, Agrees
    <3>3. CASE raster.mode = "FRAMEBUFFER_DRAW"
      BY <2>1, <3>1, <3>2, <3>3 DEF Switched, StateIs, Inv, Agrees
    <3>4. CASE raster.mode # "FRAMEBUFFER_DRAW"
      BY <2>1, <3>1, <3>2, <3>4 DEF Switched, StateIs, Refitted, IsState, StateFields
    <3> QED
      BY <3>3, <3>4
  <2>2. CASE ~fbo.draw
    <3>1. q.state = raster.state /\ e = "window"
      BY <2>2, TargetOpen DEF Switched
    <3>2. client.scOn => client.scAt = "window"
      BY <2>2 DEF ScissorFits
    <3> QED
      BY <3>1, <3>2 DEF Inv, Agrees, StateIs
  <2> QED
    BY <2>1, <2>2
<1> HIDE DEF e
<1> QED
  BY <1>1, <1>2, <1>3 DEF Commands

\* All that a draw may sample can be sampled.
LEMMA SamplesReadable ==
    ASSUME NEW q, Obedient, Inv(raster, client), Switched(raster, q), q.mode # "NONE"
    PROVE  \A i \in Sampled : q.layout[i] = "read"
<1> TAKE i \in Sampled
<1>1. CASE i \in Textures \ ImagesOf(Target)
  <2>1. CASE fbo.draw
    BY <1>1, <2>1, TargetOpen DEF FramebufferOpen, Readable
  <2>2. CASE ~fbo.draw
    BY <1>1, <2>2, TargetOpen DEF Switched, Passes, MainOpen, DiagramOpen, Readable, Settled
  <2> QED
    BY <2>1, <2>2
<1>2. CASE i \notin Textures \ ImagesOf(Target)
  <2>1. i \in {"aliasColor", "aliasDepth"} /\ Written({i})
    BY <1>2, NamedImages, AliasesAssumption DEF Sampled, Main
  <2>2. raster.layout[i] # "undefined"
    BY <2>1 DEF Written, Obedient, Lapse
  <2>3. q.layout[i] # "undefined"
    BY <2>1, <2>2, NamedImages DEF Switched, Grows
  <2>4. q.layout[i] \in {"undefined", "read"}
    BY <2>1 DEF Switched, Passes, Settled, MainOpen, DiagramOpen, FramebufferOpen, Readable
  <2> QED
    BY <2>3, <2>4
<1> QED
  BY <1>1, <1>2

LEMMA AliasSampled ==
    ASSUME NEW q, Obedient, Inv(raster, client), Switched(raster, q), q.mode # "NONE",
           "aliasColor" \in Sampled, fbo.draw, q.stale
    PROVE  Lapse("alias")
<1>1. q.mode = "FRAMEBUFFER_DRAW" /\ Target = Bound
  BY TargetOpen
<1>2. "aliasColor" \notin Textures
  BY NamedImages DEF Fixed
<1>3. \A i \in Aliases : AliasOf[i] = "aliasColor" => i = "color"
  <2>1. AliasOf["depth"] # "aliasColor"
    BY DEF AliasOf
  <2>2. \A i \in Aliases : i = "color" \/ i = "depth"
    BY AliasesAssumption
  <2> QED
    BY <2>1, <2>2
<1>4. /\ "color" \in Aliases
      /\ "color" \notin ImagesOf(Target)
      /\ ~client.post \/ Lapse("alias")
  BY <1>2, <1>3 DEF Sampled
<1>5. OffScreen(raster) /\ raster.stale # FALSE
  BY <1>1, <1>4 DEF OffScreen, Switched, Inv, Types, Shaped
<1>6. client.post # FALSE
  BY <1>4, <1>5 DEF Inv, Shown
<1> QED
  BY <1>4, <1>6 DEF Inv, Types, IsClient

\* A draw or clear records nothing but what a lapse excuses.
Recorded(q, x) ==
    /\ Shaped(x)
    /\ x.mode = q.mode /\ x.active = q.active /\ x.state = q.state /\ x.saved = q.saved
    /\ x.track = q.track /\ x.layout = q.layout /\ x.pass = q.pass /\ x.dyn = q.dyn
    /\ x.stale = (q.stale \/ "color" \in ImagesOf(Target))
    /\ Allowed(x.faults)

LEMMA DrawRecorded ==
    ASSUME NEW q, Obedient, Inv(raster, client), Switched(raster, q), q.mode # "NONE", ScissorFits
    PROVE  Recorded(q, Drawn(q, Sampled))
<1> DEFINE faults == When(DOMAIN q.pass # ImagesOf(Target), "target")
                       \cup When(q.dyn # Expected, "state")
                       \cup When(\E i \in Sampled : q.layout[i] # "read", "layout")
                       \cup When("aliasColor" \in Sampled /\ fbo.draw /\ q.stale, "alias")
           x == Drawn(q, Sampled)
<1>1. When(DOMAIN q.pass # ImagesOf(Target), "target") = {}
  BY TargetOpen DEF When
<1>2. When(q.dyn # Expected, "state") # {} => Lapse("scissor")
  BY StateExpected DEF When
<1>3. When(\E i \in Sampled : q.layout[i] # "read", "layout") = {}
  BY SamplesReadable DEF When
<1>4. When("aliasColor" \in Sampled /\ fbo.draw /\ q.stale, "alias") # {} => Lapse("alias")
  BY AliasSampled DEF When
<1>5. Allowed(q.faults \cup faults)
  <2>1. Allowed(q.faults)
    BY DEF Inv, Switched
  <2> QED
    BY <1>1, <1>2, <1>3, <1>4, <2>1 DEF Allowed, When
<1>6. x = [[q EXCEPT !.faults = q.faults \cup faults]
             EXCEPT !.stale = q.stale \/ "color" \in DOMAIN q.pass]
  BY DEF Drawn, Wrote, Blame, Switched, Shaped, Fields
<1> HIDE DEF faults, x
<1>7. DOMAIN q.pass = ImagesOf(Target)
  BY TargetOpen
<1> QED
  BY <1>5, <1>6, <1>7 DEF Recorded, Switched, Shaped, Fields, x

LEMMA ClearRecorded ==
    ASSUME NEW q, NEW masked \in BOOLEAN,
           Inv(raster, client), Switched(raster, q), q.mode # "NONE", ScissorFits
    PROVE  Recorded(q, Cleared(q, masked))
<1> DEFINE rect == IF q.state.scOn THEN q.state.sc ELSE <<"full", DrawExtent(q)>>
           faults == When(DOMAIN q.pass # ImagesOf(Target), "target")
                       \cup When(rect # Expected.sc, "state")
           blamed == [q EXCEPT !.faults = q.faults \cup faults]
           drawn == [blamed EXCEPT !.stale = q.stale \/ "color" \in DOMAIN q.pass]
           x == Cleared(q, masked)
<1>1. When(DOMAIN q.pass # ImagesOf(Target), "target") = {}
  BY TargetOpen DEF When
<1>2. When(rect # Expected.sc, "state") # {} => Lapse("scissor")
  BY StateExpected DEF When
<1>3. Allowed(q.faults \cup faults)
  <2>1. Allowed(q.faults)
    BY DEF Inv, Switched
  <2> QED
    BY <1>1, <1>2, <2>1 DEF Allowed, When
<1>4. x = IF masked THEN Sync([drawn EXCEPT !.dyn = Lost]) ELSE drawn
  BY DEF Cleared, Wrote, Blame, Switched, Shaped, Fields
<1> HIDE DEF rect, faults, x
<1>5. DOMAIN q.pass = ImagesOf(Target)
  BY TargetOpen
<1>6. Recorded(q, drawn)
  BY <1>3, <1>5 DEF Recorded, Switched, Shaped, Fields
<1>7. CASE masked
  <2> DEFINE wiped == [drawn EXCEPT !.dyn = Lost]
  <2>1. /\ Shaped(wiped) /\ wiped.mode = q.mode /\ wiped.state = q.state
        /\ wiped.active = q.active
    BY DEF Switched, Shaped, Fields
  <2>2. Replayed(wiped) = q.dyn
    <3> HIDE DEF wiped
    <3> QED
      BY <2>1, ReplayedSame DEF Switched, Sees
  <2>3. x = [wiped EXCEPT !.dyn = q.dyn]
    BY <1>4, <1>7, <2>2 DEF Sync
  <2>4. x = drawn
    BY <2>3 DEF Switched, Shaped, Fields
  <2> QED
    BY <1>6, <2>4 DEF x
<1>8. CASE ~masked
  BY <1>4, <1>6, <1>8 DEF x
<1> QED
  BY <1>7, <1>8

-----------------------------------------------------------------------------
(* The steps of the client                                                 *)

LEMMA ExtentIs == \A i : Extent(i) \in Extents
BY DEF Extent, Extents

LEMMA SwitchedInv ==
    ASSUME NEW q, Inv(raster, client), Switched(raster, q)
    PROVE  Inv(q, WentOn)
<1> DEFINE c == WentOn
<1>1. c = [client EXCEPT !.boundary = FALSE, !.post = client.post /\ fbo.draw, !.scAt = ScissorAt]
  BY DEF WentOn, Inv, Types, IsClient
<1>2. IsClient(client) /\ IsFramebuffer(fbo) /\ ScissorAt \in Extents
  BY ExtentIs DEF Inv, Types, ScissorAt, IsClient
<1>3. IsClient(c)
  BY <1>1, <1>2 DEF IsClient, IsFramebuffer
<1>4. /\ c.vp = client.vp /\ c.scOn = client.scOn /\ c.sc = client.sc /\ c.scAt = ScissorAt
      /\ c.blend = client.blend /\ c.suspended = client.suspended /\ c.boundary = FALSE
      /\ c.post = (client.post /\ fbo.draw)
  BY <1>1, <1>2 DEF IsClient
<1> HIDE DEF c
<1>5. Types(q, c) /\ Passes(q) /\ Sees(q) /\ Allowed(q.faults)
  BY <1>2, <1>3 DEF Types, Switched, Inv
<1>6. InStep(q, c)
  <2>1. raster.mode = "DIAGRAM_DRAW" => ~fbo.draw
    BY DEF Inv, Passes, Settled, DiagramOpen
  <2> QED
    BY <1>4, <2>1 DEF InStep, Switched, Inv
<1>7. Agrees(q, c)
  <2>1. q.mode = "FRAMEBUFFER_DRAW" => fbo.draw /\ Complete(Bound) /\ c.scAt = Extent(fbo.color)
    BY <1>4 DEF ScissorAt, Switched
  <2>2. CASE client.suspended = None
    <3>1. StateIs(raster.state, client) /\ raster.state.scGl = client.sc /\ raster.saved = None
      BY <2>2 DEF Inv, Agrees
    <3>2. CASE fbo.draw /\ Complete(Bound)
      <4>1. ScissorAt = Extent(fbo.color)
        BY <3>2 DEF ScissorAt
      <4>2. StateIs(q.state, c) /\ q.state.scGl = c.sc
        <5>1. CASE raster.mode = "FRAMEBUFFER_DRAW"
          BY <1>4, <3>1, <3>2, <4>1, <5>1 DEF Switched, StateIs, Inv, Agrees
        <5>2. CASE raster.mode # "FRAMEBUFFER_DRAW"
          <6>1. q.state = Refitted(raster.state, Extent(fbo.color))
            BY <3>2, <5>2 DEF Switched
          <6> QED
            BY <1>4, <3>1, <4>1, <6>1 DEF StateIs, Refitted, IsState, StateFields
        <5> QED
          BY <5>1, <5>2
      <4> QED
        BY <1>4, <2>1, <2>2, <3>1, <4>2 DEF Agrees, Switched
    <3>3. CASE ~(fbo.draw /\ Complete(Bound))
      <4>1. ScissorAt = client.scAt
        BY <3>3 DEF ScissorAt
      <4>2. StateIs(q.state, c) /\ q.state.scGl = c.sc
        BY <1>4, <3>1, <3>3, <4>1 DEF Switched, StateIs
      <4> QED
        BY <1>4, <2>1, <2>2, <3>1, <4>2 DEF Agrees, Switched
    <3> QED
      BY <3>2, <3>3
  <2>3. CASE client.suspended # None
    <3>1. ~fbo.draw
      BY <2>3 DEF Inv, InStep, Passes, Settled, DiagramOpen
    <3>2. c.scAt = client.scAt /\ q.state = raster.state /\ q.saved = raster.saved
      BY <1>4, <3>1 DEF ScissorAt, Switched
    <3> QED
      BY <1>4, <2>1, <2>3, <3>2 DEF Agrees, Inv, StateIs
  <2> QED
    BY <2>2, <2>3
<1>8. Shown(q, c)
  <2> SUFFICES ASSUME "color" \in Aliases, c.post = FALSE, OffScreen(q), q.stale # FALSE
               PROVE  FALSE
    BY DEF Shown
  <2>1. q.stale /\ raster.stale
    BY DEF Switched, Shaped
  <2>2. fbo.draw
    BY DEF OffScreen, Switched
  <2>3. client.post = FALSE
    BY <1>2, <1>4, <2>2 DEF IsClient
  <2>4. raster.mode \in {"NONE", "FRAMEBUFFER_DRAW"}
    BY <2>1, <2>2 DEF Switched
  <2>5. OffScreen(raster)
    <3>1. raster.mode = "FRAMEBUFFER_DRAW" => FramebufferOpen(raster)
      BY DEF Inv, Passes, Settled
    <3>2. raster.mode = "FRAMEBUFFER_DRAW" => q.mode = "FRAMEBUFFER_DRAW"
      BY <2>2, <3>1 DEF FramebufferOpen, Switched
    <3> QED
      BY <2>4, <3>2 DEF OffScreen
  <2> QED
    BY <2>1, <2>3, <2>5 DEF Inv, Shown
<1> QED
  BY <1>5, <1>6, <1>7, <1>8 DEF Inv, c

LEMMA RecordedInv ==
    ASSUME NEW q, NEW x, Inv(raster, client), Switched(raster, q), q.mode # "NONE",
           Inv(q, WentOn), Recorded(q, x)
    PROVE  Inv(x, WentOn)
<1> DEFINE c == WentOn
<1> HIDE DEF c
<1>1. Inv(q, c)
  BY DEF c
<1>2. Types(x, c) /\ Allowed(x.faults)
  BY <1>1 DEF Inv, Types, Recorded
<1>3. Passes(x)
  <2>1. Passes(q)
    BY <1>1 DEF Inv
  <2> QED
    BY <2>1 DEF Recorded, Passes, Settled, Idle, Readable, MainOpen, DiagramOpen, FramebufferOpen
<1>4. Sees(x)
  BY <1>1, ReplayedSame DEF Inv, Sees, Recorded
<1>5. InStep(x, c) /\ Agrees(x, c)
  BY <1>1 DEF Inv, InStep, Agrees, Recorded
<1>6. Shown(x, c)
  <2> SUFFICES ASSUME OffScreen(x)
               PROVE  x.stale = q.stale /\ OffScreen(q)
    BY <1>1 DEF Shown, Inv
  <2>1. x.mode = q.mode /\ OffScreen(q)
    BY DEF Recorded, OffScreen
  <2>2. Target = Bound /\ "color" \notin ImagesOf(Bound)
    <3>1. q.mode = "FRAMEBUFFER_DRAW" /\ "color" \notin ImagesOf(Bound)
      BY <2>1 DEF OffScreen
    <3> QED
      BY <3>1, TargetOpen
  <2> QED
    BY <2>1, <2>2 DEF Recorded, Switched, Shaped
<1> QED
  BY <1>2, <1>3, <1>4, <1>5, <1>6 DEF Inv, c

LEMMA SameFramebuffer ==
    ASSUME UNCHANGED fbo, Inv(raster', client')
    PROVE  IInv'
BY DEF IInv, Inv, Types, Passes, MainOpen, DiagramOpen, FramebufferOpen, Settled, Sees, Replayed,
       DrawExtent, Bound, InStep, Agrees, Shown, OffScreen

LEMMA DrawStep ==
    ASSUME Obedient, IInv, Draw
    PROVE  IInv'
<1> DEFINE q == SwitchOverlayDraw(raster)
<1>1. /\ ScissorFits /\ client' = WentOn /\ UNCHANGED fbo
      /\ raster' = IF q.mode = "NONE" THEN q ELSE Drawn(q, Sampled)
  BY DEF Draw
<1>2. Inv(raster, client)
  BY DEF IInv
<1>3. Switched(raster, q)
  BY <1>2, SwitchOverlayDrawSwitches DEF Inv, Types
<1> HIDE DEF q
<1>4. Inv(q, WentOn)
  BY <1>2, <1>3, SwitchedInv
<1>5. q.mode # "NONE" => Inv(Drawn(q, Sampled), WentOn)
  BY <1>1, <1>2, <1>3, <1>4, DrawRecorded, RecordedInv
<1>6. Inv(raster', client')
  BY <1>1, <1>4, <1>5
<1> QED
  BY <1>1, <1>6, SameFramebuffer

LEMMA ClearStep ==
    ASSUME IInv, NEW how \in {"nothing", "rectangle", "masked"}, Clear(how)
    PROVE  IInv'
<1> DEFINE q == SwitchOverlayDraw(raster)
<1>1. /\ ScissorFits /\ client' = WentOn /\ UNCHANGED fbo
      /\ raster' = IF q.mode = "NONE" \/ how = "nothing" THEN q ELSE Cleared(q, how = "masked")
  BY DEF Clear
<1>2. Inv(raster, client)
  BY DEF IInv
<1>3. Switched(raster, q)
  BY <1>2, SwitchOverlayDrawSwitches DEF Inv, Types
<1> HIDE DEF q
<1>4. Inv(q, WentOn)
  BY <1>2, <1>3, SwitchedInv
<1>5. q.mode # "NONE" => Inv(Cleared(q, how = "masked"), WentOn)
  <2> DEFINE masked == how = "masked"
  <2>1. masked \in BOOLEAN
    OBVIOUS
  <2> HIDE DEF masked
  <2>2. q.mode # "NONE" => Inv(Cleared(q, masked), WentOn)
    BY <1>1, <1>2, <1>3, <1>4, <2>1, ClearRecorded, RecordedInv
  <2> QED
    BY <2>2 DEF masked
<1>6. Inv(raster', client')
  BY <1>1, <1>4, <1>5
<1> QED
  BY <1>1, <1>6, SameFramebuffer

-----------------------------------------------------------------------------
(* Setters                                                                 *)

CommandFields == {"vp", "sc", "blend"}

LEMMA CommandsFields ==
    ASSUME NEW vp, NEW sc, NEW blend, NEW d, d = [vp |-> vp, sc |-> sc, blend |-> blend]
    PROVE  d = [field \in CommandFields |-> d[field]]
BY DEF CommandFields

LEMMA ReplayedFields == \A r : Replayed(r) = [field \in CommandFields |-> Replayed(r)[field]]
<1>1. TAKE r
<1> DEFINE sc == IF r.state.scOn THEN r.state.sc ELSE <<"full", DrawExtent(r)>>
<1>2. Replayed(r) = [vp |-> <<r.state.vp, DrawExtent(r)>>, sc |-> sc,
                     blend |-> <<r.state.blend, r.mode = "FRAMEBUFFER_DRAW">>]
  BY DEF Replayed
<1> QED
  BY <1>2, CommandsFields

\* A setter changes the state, and the commands if a pass is open.
Updated(r, x, s) ==
    /\ Shaped(x) /\ Sees(x) /\ x.state = s
    /\ x.mode = r.mode /\ x.active = r.active /\ x.saved = r.saved /\ x.pass = r.pass
    /\ x.track = r.track /\ x.layout = r.layout /\ x.stale = r.stale /\ x.faults = r.faults

LEMMA ToldUpdates ==
    ASSUME NEW r, Shaped(r), Sees(r), NEW s, NEW field \in CommandFields, NEW q,
           q = [r EXCEPT !.state = s],
           \A f \in CommandFields \ {field} : Replayed(q)[f] = Replayed(r)[f]
    PROVE  Updated(r, Told(q, field), s)
<1> DEFINE x == Told(q, field)
<1>1. /\ Shaped(q) /\ q.state = s /\ q.dyn = r.dyn
      /\ q.mode = r.mode /\ q.active = r.active /\ q.saved = r.saved /\ q.pass = r.pass
      /\ q.track = r.track /\ q.layout = r.layout /\ q.stale = r.stale /\ q.faults = r.faults
  BY DEF Shaped, Fields
<1>2. CASE r.mode = "NONE"
  <2>1. x = q
    BY <1>1, <1>2 DEF Told
  <2> QED
    BY <1>1, <1>2, <2>1 DEF Updated, Sees
<1>3. CASE r.mode # "NONE"
  <2> DEFINE dyn == [r.dyn EXCEPT ![field] = Replayed(q)[field]]
  <2>1. dyn = Replayed(q)
    <3>1. r.dyn = [f \in CommandFields |-> Replayed(r)[f]]
      BY <1>3, ReplayedFields DEF Sees
    <3>2. Replayed(q) = [f \in CommandFields |-> Replayed(q)[f]]
      BY ReplayedFields
    <3>3. dyn = [f \in CommandFields |-> Replayed(q)[f]]
      BY <3>1
    <3> QED
      BY <3>2, <3>3
  <2>2. x = [q EXCEPT !.dyn = Replayed(q)]
    <3>1. x = [q EXCEPT !.dyn = dyn]
      BY <1>1, <1>3 DEF Told
    <3> QED
      BY <2>1, <3>1
  <2> HIDE DEF x
  <2>3. /\ Shaped(x) /\ x.state = s /\ x.dyn = Replayed(q)
        /\ x.mode = r.mode /\ x.active = r.active /\ x.saved = r.saved /\ x.pass = r.pass
        /\ x.track = r.track /\ x.layout = r.layout /\ x.stale = r.stale /\ x.faults = r.faults
    BY <1>1, <2>2 DEF Shaped, Fields
  <2>4. Replayed(x) = Replayed(q)
    BY <1>1, <2>3, ReplayedSame
  <2> QED
    BY <2>3, <2>4 DEF Updated, Sees, x
<1> QED
  BY <1>2, <1>3

LEMMA SetterStep ==
    ASSUME IInv, UNCHANGED fbo, NEW s, Updated(raster, raster', s), IsClient(client'),
           client'.suspended = client.suspended, client'.boundary = client.boundary,
           client'.post = client.post, StateIs(s, client'),
           client.suspended = None => s.scGl = client'.sc,
           raster.mode = "FRAMEBUFFER_DRAW" => client'.scAt = Extent(fbo.color),
           client.suspended # None => client'.scAt = "window"
    PROVE  IInv'
<1>1. Inv(raster, client)
  BY DEF IInv
<1>2. Types(raster', client') /\ Sees(raster') /\ Allowed(raster'.faults)
  BY <1>1 DEF Inv, Types, Updated
<1>3. Passes(raster')
  <2>1. Passes(raster)
    BY <1>1 DEF Inv
  <2> QED
    BY <2>1 DEF Updated, Passes, Settled, Idle, Readable, MainOpen, DiagramOpen, FramebufferOpen
<1>4. InStep(raster', client') /\ Shown(raster', client')
  BY <1>1 DEF Inv, InStep, Shown, OffScreen, Updated
<1>5. Agrees(raster', client')
  BY <1>1 DEF Inv, Agrees, Updated
<1>6. Inv(raster', client')
  BY <1>2, <1>3, <1>4, <1>5 DEF Inv
<1> QED
  BY <1>6, SameFramebuffer

LEMMA SetViewportStep ==
    ASSUME IInv, NEW rect \in Rects, SetViewport(rect)
    PROVE  IInv'
<1> DEFINE s == [raster.state EXCEPT !.vp = rect]
           q == [raster EXCEPT !.state = s]
<1>1. /\ Shaped(raster) /\ Sees(raster) /\ StateIs(raster.state, client) /\ IsClient(client)
      /\ Agrees(raster, client)
  BY DEF IInv, Inv, Types, Agrees
<1>2. s.vp = rect /\ IsState(s) /\ \A f \in StateFields \ {"vp"} : s[f] = raster.state[f]
  BY <1>1 DEF StateIs, IsState, StateFields
<1>3. q.state = s /\ q.mode = raster.mode /\ q.active = raster.active
  BY <1>1 DEF Shaped, Fields
<1>4. raster' = Told(q, "vp") /\ UNCHANGED fbo /\ client' = [client EXCEPT !.vp = rect]
  BY <1>1 DEF SetViewport, Shaped, Fields
<1>5. Updated(raster, raster', s)
  <2>1. \A f \in CommandFields \ {"vp"} : Replayed(q)[f] = Replayed(raster)[f]
    <3> HIDE DEF s, q
    <3>1. DrawExtent(q) = DrawExtent(raster)
      BY <1>3 DEF DrawExtent
    <3> QED
      BY <1>2, <1>3, <3>1 DEF Replayed, CommandFields, StateFields
  <2>2. "vp" \in CommandFields /\ q = [raster EXCEPT !.state = s]
    BY DEF CommandFields
  <2> HIDE DEF s, q
  <2> QED
    BY <1>1, <1>4, <2>1, <2>2, ToldUpdates
<1> HIDE DEF s, q
<1>6. IsClient(client') /\ \A f \in DOMAIN client \ {"vp"} : client'[f] = client[f]
  BY <1>1, <1>4 DEF IsClient, Rectangles
<1>7. /\ client'.vp = rect /\ client'.scOn = client.scOn /\ client'.sc = client.sc
      /\ client'.scAt = client.scAt /\ client'.blend = client.blend
      /\ client'.suspended = client.suspended /\ client'.boundary = client.boundary
      /\ client'.post = client.post
  BY <1>1, <1>4 DEF IsClient
<1>8. StateIs(s, client') /\ s.scGl = raster.state.scGl
  BY <1>1, <1>2, <1>7 DEF StateIs, StateFields
<1> QED
  BY <1>1, <1>4, <1>5, <1>6, <1>7, <1>8, SetterStep DEF Agrees

LEMMA SetScissorEnabledStep ==
    ASSUME IInv, NEW enabled \in BOOLEAN, SetScissorEnabled(enabled)
    PROVE  IInv'
<1> DEFINE s == [raster.state EXCEPT !.scOn = enabled]
           q == [raster EXCEPT !.state = s]
<1>1. /\ Shaped(raster) /\ Sees(raster) /\ StateIs(raster.state, client) /\ IsClient(client)
      /\ Agrees(raster, client)
  BY DEF IInv, Inv, Types, Agrees
<1>2. s.scOn = enabled /\ IsState(s) /\ \A f \in StateFields \ {"scOn"} : s[f] = raster.state[f]
  BY <1>1 DEF StateIs, IsState, StateFields
<1>3. q.state = s /\ q.mode = raster.mode /\ q.active = raster.active
  BY <1>1 DEF Shaped, Fields
<1>4. raster' = Told(q, "sc") /\ UNCHANGED fbo /\ client' = [client EXCEPT !.scOn = enabled]
  BY <1>1 DEF SetScissorEnabled, Shaped, Fields
<1>5. Updated(raster, raster', s)
  <2>1. \A f \in CommandFields \ {"sc"} : Replayed(q)[f] = Replayed(raster)[f]
    <3> HIDE DEF s, q
    <3>1. DrawExtent(q) = DrawExtent(raster)
      BY <1>3 DEF DrawExtent
    <3> QED
      BY <1>2, <1>3, <3>1 DEF Replayed, CommandFields, StateFields
  <2>2. "sc" \in CommandFields /\ q = [raster EXCEPT !.state = s]
    BY DEF CommandFields
  <2> HIDE DEF s, q
  <2> QED
    BY <1>1, <1>4, <2>1, <2>2, ToldUpdates
<1> HIDE DEF s, q
<1>6. IsClient(client')
  BY <1>1, <1>4 DEF IsClient
<1>7. /\ client'.vp = client.vp /\ client'.scOn = enabled /\ client'.sc = client.sc
      /\ client'.scAt = client.scAt /\ client'.blend = client.blend
      /\ client'.suspended = client.suspended /\ client'.boundary = client.boundary
      /\ client'.post = client.post
  BY <1>1, <1>4 DEF IsClient
<1>8. StateIs(s, client') /\ s.scGl = raster.state.scGl
  BY <1>1, <1>2, <1>7 DEF StateIs, StateFields
<1> QED
  BY <1>1, <1>4, <1>5, <1>6, <1>7, <1>8, SetterStep DEF Agrees

LEMMA SetBlendStep ==
    ASSUME IInv, NEW enabled \in BOOLEAN, SetBlend(enabled)
    PROVE  IInv'
<1> DEFINE s == [raster.state EXCEPT !.blend = enabled]
           q == [raster EXCEPT !.state = s]
<1>1. /\ Shaped(raster) /\ Sees(raster) /\ StateIs(raster.state, client) /\ IsClient(client)
      /\ Agrees(raster, client)
  BY DEF IInv, Inv, Types, Agrees
<1>2. s.blend = enabled /\ IsState(s) /\ \A f \in StateFields \ {"blend"} : s[f] = raster.state[f]
  BY <1>1 DEF StateIs, IsState, StateFields
<1>3. q.state = s /\ q.mode = raster.mode /\ q.active = raster.active
  BY <1>1 DEF Shaped, Fields
<1>4. raster' = Told(q, "blend") /\ UNCHANGED fbo /\ client' = [client EXCEPT !.blend = enabled]
  BY <1>1 DEF SetBlend, Shaped, Fields
<1>5. Updated(raster, raster', s)
  <2>1. \A f \in CommandFields \ {"blend"} : Replayed(q)[f] = Replayed(raster)[f]
    <3> HIDE DEF s, q
    <3>1. DrawExtent(q) = DrawExtent(raster)
      BY <1>3 DEF DrawExtent
    <3> QED
      BY <1>2, <1>3, <3>1 DEF Replayed, CommandFields, StateFields
  <2>2. "blend" \in CommandFields /\ q = [raster EXCEPT !.state = s]
    BY DEF CommandFields
  <2> HIDE DEF s, q
  <2> QED
    BY <1>1, <1>4, <2>1, <2>2, ToldUpdates
<1> HIDE DEF s, q
<1>6. IsClient(client')
  BY <1>1, <1>4 DEF IsClient
<1>7. /\ client'.vp = client.vp /\ client'.scOn = client.scOn /\ client'.sc = client.sc
      /\ client'.scAt = client.scAt /\ client'.blend = enabled
      /\ client'.suspended = client.suspended /\ client'.boundary = client.boundary
      /\ client'.post = client.post
  BY <1>1, <1>4 DEF IsClient
<1>8. StateIs(s, client') /\ s.scGl = raster.state.scGl
  BY <1>1, <1>2, <1>7 DEF StateIs, StateFields
<1> QED
  BY <1>1, <1>4, <1>5, <1>6, <1>7, <1>8, SetterStep DEF Agrees

LEMMA SetScissorStep ==
    ASSUME IInv, NEW rect \in Rects, SetScissor(rect)
    PROVE  IInv'
<1> DEFINE at == IF fbo.draw /\ Complete(Bound) THEN Extent(fbo.color) ELSE "window"
           s == [raster.state EXCEPT !.scGl = rect, !.sc = <<rect, DrawExtent(raster)>>]
           q == [raster EXCEPT !.state = s]
<1>1. /\ Shaped(raster) /\ Sees(raster) /\ StateIs(raster.state, client) /\ IsClient(client)
      /\ Agrees(raster, client) /\ Passes(raster) /\ InStep(raster, client)
  BY DEF IInv, Inv, Types, Agrees
<1>2. DrawExtent(raster) = at
  <2>1. CASE raster.mode = "NONE"
    BY <2>1 DEF DrawExtent
  <2>2. CASE raster.mode \in {"DRAW", "DIAGRAM_DRAW"}
    BY <1>1, <2>2 DEF DrawExtent, Passes, Settled, MainOpen, DiagramOpen
  <2>3. CASE raster.mode = "FRAMEBUFFER_DRAW"
    BY <1>1, <2>3 DEF DrawExtent, Passes, Settled, FramebufferOpen, Bound
  <2> QED
    BY <1>1, <2>1, <2>2, <2>3 DEF Passes, Settled
<1>3. /\ s.scGl = rect /\ s.sc = <<rect, at>> /\ IsState(s)
      /\ \A f \in StateFields \ {"scGl", "sc"} : s[f] = raster.state[f]
  BY <1>1, <1>2 DEF StateIs, IsState, StateFields
<1>4. q.state = s /\ q.mode = raster.mode /\ q.active = raster.active
  BY <1>1 DEF Shaped, Fields
<1>5. /\ raster' = Told(q, "sc") /\ UNCHANGED fbo
      /\ client' = [client EXCEPT !.sc = rect, !.scAt = at]
  BY <1>1 DEF SetScissor, ScissorSet, Shaped, Fields
<1>6. Updated(raster, raster', s)
  <2>1. \A f \in CommandFields \ {"sc"} : Replayed(q)[f] = Replayed(raster)[f]
    <3> HIDE DEF s, q
    <3>1. DrawExtent(q) = DrawExtent(raster)
      BY <1>4 DEF DrawExtent
    <3> QED
      BY <1>3, <1>4, <3>1 DEF Replayed, CommandFields, StateFields
  <2>2. "sc" \in CommandFields /\ q = [raster EXCEPT !.state = s]
    BY DEF CommandFields
  <2> HIDE DEF s, q
  <2> QED
    BY <1>1, <1>5, <2>1, <2>2, ToldUpdates
<1> HIDE DEF s, q
<1>7. at \in Extents /\ rect \in Rectangles
  BY ExtentIs DEF Extents, Rectangles
<1>8. /\ raster.mode = "FRAMEBUFFER_DRAW" => at = Extent(fbo.color)
      /\ client.suspended # None => at = "window"
  BY <1>1 DEF Passes, Settled, FramebufferOpen, InStep, DiagramOpen
<1> HIDE DEF at
<1>9. IsClient(client')
  BY <1>1, <1>5, <1>7 DEF IsClient
<1>10. /\ client'.vp = client.vp /\ client'.scOn = client.scOn /\ client'.sc = rect
       /\ client'.scAt = at /\ client'.blend = client.blend
       /\ client'.suspended = client.suspended /\ client'.boundary = client.boundary
       /\ client'.post = client.post
  BY <1>1, <1>5 DEF IsClient
<1>11. StateIs(s, client') /\ s.scGl = client'.sc
  BY <1>1, <1>3, <1>10 DEF StateIs, StateFields
<1> QED
  BY <1>1, <1>5, <1>6, <1>8, <1>9, <1>10, <1>11, SetterStep DEF Agrees

-----------------------------------------------------------------------------
(* Steps that end the pass                                                 *)

\* From r to q no pass is left open, and nothing that a draw sees changed.
Rests(r, q) ==
    /\ Shaped(q) /\ Settled(q) /\ Grows(r, q)
    /\ q.state = r.state /\ q.saved = r.saved /\ q.faults = r.faults

LEMMA RestsOn ==
    ASSUME NEW r, NEW p, NEW q, Rests(r, p), Rests(p, q)
    PROVE  Rests(r, q)
BY DEF Rests, Grows

LEMMA RestStep ==
    ASSUME IInv, client.suspended = None, Rests(raster, raster'),
           IsFramebuffer(fbo'), IsClient(client'),
           client'.vp = client.vp, client'.scOn = client.scOn, client'.sc = client.sc,
           client'.scAt = client.scAt, client'.blend = client.blend, client'.suspended = None,
           "color" \in Aliases /\ client'.post = FALSE => raster'.stale = FALSE
    PROVE  IInv'
<1>1. raster'.mode = "NONE"
  BY DEF Rests, Settled
<1>2. /\ StateIs(raster.state, client) /\ raster.state.scGl = client.sc /\ raster.saved = None
      /\ Allowed(raster.faults)
  BY DEF IInv, Inv, Agrees
<1>3. Agrees(raster, client)'
  BY <1>1, <1>2 DEF Agrees, StateIs, Rests
<1>4. Types(raster, client)' /\ Passes(raster)' /\ Sees(raster)' /\ InStep(raster, client)'
  BY <1>1 DEF Types, Passes, Sees, InStep, Rests, Settled, Idle, Readable
<1>5. Shown(raster, client)' /\ Allowed(raster.faults)'
  BY <1>2 DEF Shown, Rests, Allowed, Lapse
<1> QED
  BY <1>3, <1>4, <1>5 DEF IInv, Inv

LEMMA Outside ==
    ASSUME Obedient, IInv, OutsideDiagram
    PROVE  client.suspended = None /\ raster.mode # "DIAGRAM_DRAW"
BY DEF Obedient, IInv, Inv, InStep, OutsideDiagram, InDiagram, Lapse

LEMMA EndRests ==
    ASSUME IInv, raster.mode # "DIAGRAM_DRAW"
    PROVE  /\ Rests(raster, End(raster))
           /\ "color" \in Aliases /\ client.post = FALSE => End(raster).stale = FALSE
<1>1. Ended(raster, End(raster))
  BY EndEnds DEF IInv, Inv, Types
<1>2. End(raster).stale \in BOOLEAN /\ raster.stale \in BOOLEAN
  BY <1>1 DEF Ended, Shaped, IInv, Inv, Types
<1> QED
  BY <1>1, <1>2 DEF Rests, Ended, IInv, Inv, Shown, OffScreen

LEMMA BindFramebufferStep ==
    ASSUME Obedient, IInv, NEW draw \in BOOLEAN, NEW read \in BOOLEAN, BindFramebuffer(draw, read)
    PROVE  IInv'
<1>1. IsFramebuffer(fbo')
  BY DEF IInv, Inv, Types, IsFramebuffer, BindFramebuffer
<1>2. IsClient(client) /\ client' = client /\ raster' = End(raster) /\ OutsideDiagram
  BY DEF IInv, Inv, Types, BindFramebuffer
<1> QED
  BY <1>1, <1>2, Outside, EndRests, RestStep

LEMMA AttachStep ==
    ASSUME Obedient, IInv, NEW color \in Textures \cup {"color", None},
           NEW depth \in {"depth", None}, Attach(color, depth)
    PROVE  IInv'
<1>1. IsFramebuffer(fbo')
  BY DEF IInv, Inv, Types, IsFramebuffer, Attach
<1>2. IsClient(client) /\ client' = client /\ raster' = End(raster) /\ OutsideDiagram
  BY DEF IInv, Inv, Types, Attach
<1> QED
  BY <1>1, <1>2, Outside, EndRests, RestStep

LEMMA FlushForReadbackStep ==
    ASSUME Obedient, IInv, FlushForReadback
    PROVE  IInv'
<1> DEFINE e == End(raster)
<1>1. IsClient(client) /\ client' = client /\ fbo' = fbo /\ IsFramebuffer(fbo)
  BY DEF IInv, Inv, Types, FlushForReadback
<1>2. client.suspended = None /\ raster.mode # "DIAGRAM_DRAW"
  BY Outside DEF FlushForReadback
<1>3. raster' = [e EXCEPT !.dyn = Lost]
  BY DEF FlushForReadback
<1>4. Rests(raster, e) /\ ("color" \in Aliases /\ client.post = FALSE => e.stale = FALSE)
  BY <1>2, EndRests
<1> HIDE DEF e
<1>5. Rests(raster, raster') /\ raster'.stale = e.stale
  BY <1>3, <1>4 DEF Rests, Shaped, Fields, Settled, Idle, Readable, Grows
<1> QED
  BY <1>1, <1>2, <1>4, <1>5, RestStep

\* A barrier of a main image, or one that makes an image readable, between passes.
LEMMA BarrierRests ==
    ASSUME NEW r, Shaped(r), Settled(r), NEW image \in Images, NEW new \in Layouts \ {"undefined"},
           new = "read" \/ image \in Fixed \ {"aliasColor", "aliasDepth"}
    PROVE  /\ Rests(r, Barrier(r, image, new)) /\ Barrier(r, image, new).stale = r.stale
           /\ Barrier(r, image, new).layout = [r.layout EXCEPT ![image] = new]
<1> DEFINE q == Barrier(r, image, new)
<1>1. Moves(r, q, [r.layout EXCEPT ![image] = new])
  BY BarrierMoves DEF Settled
<1> HIDE DEF q
<1>2. q.layout = [r.layout EXCEPT ![image] = new] /\ r.layout \in [Images -> Layouts]
  BY <1>1 DEF Moves, Shaped
<1>3. Reaches(r, q)
  BY <1>2, ReachesByLayout
<1>4. Readable(q, {}) /\ Grows(r, q)
  BY <1>3, ReadableReaches DEF Settled, Reaches, Grows
<1>5. Rests(r, q) /\ q.stale = r.stale
  BY <1>1, <1>4 DEF Rests, Moves, Same, Settled
<1> QED
  BY <1>2, <1>5 DEF q

LEMMA NextFrameStep ==
    ASSUME Obedient, IInv, NextFrame
    PROVE  IInv'
<1> DEFINE e == End(raster)
           b == Barrier(e, "color", "general")
           c == [b EXCEPT !.mode = "NONE", !.dyn = Lost]
<1>1. /\ IsClient(client) /\ client' = [client EXCEPT !.boundary = FALSE]
      /\ fbo' = fbo /\ IsFramebuffer(fbo)
  BY DEF IInv, Inv, Types, NextFrame
<1>2. client.suspended = None /\ raster.mode # "DIAGRAM_DRAW"
  BY Outside DEF NextFrame
<1>3. raster' = [c EXCEPT !.dyn = Replayed(c)]
  BY DEF NextFrame, Sync
<1>4. Rests(raster, e) /\ ("color" \in Aliases /\ client.post = FALSE => e.stale = FALSE)
  BY <1>2, EndRests
<1> HIDE DEF e
<1>5. Rests(e, b) /\ b.stale = e.stale
  <2>1. "color" \in Images /\ "color" \in Fixed \ {"aliasColor", "aliasDepth"}
        /\ "general" \in Layouts \ {"undefined"}
    BY NamedImages DEF Main, Fixed, Layouts
  <2> QED
    BY <1>4, <2>1, BarrierRests, ZenonT(30) DEF Rests
<1>6. Rests(raster, b)
  BY <1>4, <1>5, RestsOn
<1> DEFINE d == Replayed(c)
<1> HIDE DEF b, d
<1>7. raster' = [[b EXCEPT !.mode = "NONE", !.dyn = Lost] EXCEPT !.dyn = d]
  BY <1>3 DEF d
<1>8. Rests(raster, raster') /\ raster'.stale = e.stale
  BY <1>5, <1>6, <1>7 DEF Rests, Shaped, Fields, Settled, Idle, Readable, Grows
<1>9. /\ IsClient(client') /\ client'.post = client.post
      /\ client'.vp = client.vp /\ client'.scOn = client.scOn /\ client'.sc = client.sc
      /\ client'.scAt = client.scAt /\ client'.blend = client.blend
      /\ client'.suspended = client.suspended
  BY <1>1 DEF IsClient
<1> QED
  BY <1>1, <1>2, <1>4, <1>8, <1>9, RestStep

-----------------------------------------------------------------------------
(* The world, and blits                                                    *)

LEMMA CaptureRests ==
    ASSUME NEW r, Shaped(r), Settled(r)
    PROVE  /\ Rests(r, Capture(r))
           /\ Capture(r).stale = (r.stale /\ "color" \notin Aliases)
<1>1. Captured(r, Capture(r))
  BY CaptureCaptures DEF Settled
<1>2. Readable(Capture(r), {})
  BY <1>1, ReadableReaches DEF Settled, Captured
<1> QED
  BY <1>1, <1>2 DEF Captured, Rests, Settled, Reaches, Grows

LEMMA WroteRests ==
    ASSUME NEW r, Shaped(r), Settled(r), NEW images
    PROVE  /\ Rests(r, Wrote(r, images)) /\ Wrote(r, images).layout = r.layout
           /\ Wrote(r, images).stale = (r.stale \/ "color" \in images)
<1> DEFINE q == Wrote(r, images)
<1>1. q = [r EXCEPT !.stale = r.stale \/ "color" \in images]
  BY DEF Wrote, Shaped, Fields
<1> HIDE DEF q
<1> QED
  BY <1>1 DEF Rests, Shaped, Fields, Settled, Idle, Readable, Grows, q

\* A pass of its own, between passes.
Skims(r, q) ==
    /\ Shaped(q) /\ Idle(q) /\ q.mode = r.mode /\ q.active = r.active
    /\ q.state = r.state /\ q.saved = r.saved /\ q.faults = r.faults /\ q.stale = r.stale
    /\ q.layout = r.layout

LEMMA PassSkims ==
    ASSUME NEW r, Shaped(r), Idle(r), NEW image \in Images, r.layout[image] = "attachment"
    PROVE  Skims(r, EndPass(BeginPass(r, Attached({image}))))
<1> DEFINE b == BeginPass(r, Attached({image}))
           q == EndPass(b)
<1>1. b = [r EXCEPT !.pass = Attached({image})]
  BY PassBegins DEF Idle, Attached
<1> HIDE DEF b, q
<1>2. Shaped(b) /\ b.pass # NoPass
  BY <1>1, NonePass DEF Shaped, Fields
<1>3. q = [b EXCEPT !.pass = NoPass, !.dyn = Lost]
  BY <1>2, PassEnds DEF q
<1>4. Skims(r, q)
  BY <1>1, <1>3 DEF Skims, Shaped, Fields, Idle
<1> QED
  BY <1>4 DEF q, b

LEMMA SkimRests ==
    ASSUME NEW r, NEW q, Settled(r), Skims(r, q)
    PROVE  Rests(r, q)
BY DEF Settled, Skims, Rests, Readable, Grows

LEMMA FuseWorldStep ==
    ASSUME Obedient, IInv, FuseWorld
    PROVE  IInv'
<1>0. /\ IsClient(client) /\ client' = [client EXCEPT !.boundary = TRUE, !.post = FALSE]
      /\ fbo' = fbo /\ IsFramebuffer(fbo)
  BY DEF IInv, Inv, Types, FuseWorld
<1>1. client.suspended = None /\ raster.mode # "DIAGRAM_DRAW"
  BY Outside DEF FuseWorld
<1>2. PICK exported \in BOOLEAN : raster' = Fused(raster, exported)
  BY DEF FuseWorld
<1> DEFINE e == End(raster)
           f == Barrier(e, "color", "target")
           filled == Transfer(f, "color", "target")
           g == Barrier(f, "color", "present")
           shown == Wrote(g, {"color"})
           h == Barrier(shown, "depth", "attachment")
           w == WriteMainDepth(shown)
           x == IF exported THEN w ELSE shown
<1>3. /\ "color" \in Images /\ "color" \in Fixed \ {"aliasColor", "aliasDepth"}
      /\ "depth" \in Images /\ "depth" \in Fixed \ {"aliasColor", "aliasDepth"}
      /\ "target" \in Layouts \ {"undefined"} /\ "present" \in Layouts \ {"undefined"}
      /\ "attachment" \in Layouts \ {"undefined"}
  BY NamedImages DEF Main, Fixed, Layouts
<1>4. Rests(raster, e)
  BY <1>1, EndRests
<1> HIDE DEF e
<1>5. Rests(e, f) /\ f.layout = [e.layout EXCEPT !["color"] = "target"]
  BY <1>3, <1>4, BarrierRests DEF Rests
<1>6. filled = f
  <2> HIDE DEF f
  <2>1. f.layout["color"] = "target"
    BY <1>3, <1>4, <1>5 DEF Rests, Shaped
  <2> QED
    <3>1. Shaped(f) /\ f.pass = NoPass
      BY <1>5 DEF Rests, Settled, Idle
    <3> QED
      BY <2>1, <3>1, Transfers
<1> HIDE DEF f, filled
<1>7. Rests(f, g)
  <2>1. Shaped(f) /\ Settled(f)
    BY <1>5 DEF Rests
  <2> QED
    BY <1>3, <2>1, BarrierRests
<1> HIDE DEF g
<1>8. Rests(g, shown)
  BY <1>7, WroteRests DEF Rests
<1> HIDE DEF shown
<1>9. Rests(shown, h) /\ h.layout = [shown.layout EXCEPT !["depth"] = "attachment"]
  BY <1>3, <1>8, BarrierRests DEF Rests
<1>10. Rests(h, w)
  <2> HIDE DEF h
  <2>1. h.layout["depth"] = "attachment"
    BY <1>3, <1>8, <1>9 DEF Rests, Shaped
  <2>2. Skims(h, EndPass(BeginPass(h, Attached({"depth"}))))
    BY <1>3, <1>9, <2>1, PassSkims DEF Rests, Settled
  <2>3. w = EndPass(BeginPass(h, Attached({"depth"})))
    BY DEF WriteMainDepth, h
  <2> QED
    BY <1>9, <2>2, <2>3, SkimRests DEF Rests
<1> HIDE DEF h, w
<1>11. Rests(raster, shown)
  BY <1>4, <1>5, <1>7, <1>8, RestsOn
<1>12. Rests(raster, x)
  <2>1. Rests(raster, w)
    BY <1>9, <1>10, <1>11, RestsOn
  <2> QED
    BY <1>11, <2>1
<1>13. raster' = Capture(x)
  <2>1. Barrier(End(raster), "color", "target") = f
    BY DEF e, f
  <2>2. Transfer(Barrier(End(raster), "color", "target"), "color", "target") = f
    BY <1>6, <2>1 DEF filled
  <2>3. Wrote(Barrier(Transfer(Barrier(End(raster), "color", "target"), "color", "target"),
                      "color", "present"), {"color"}) = shown
    BY <2>2 DEF g, shown
  <2> QED
    BY <1>2, <2>3 DEF Fused, w
<1> HIDE DEF x
<1>14. Rests(x, Capture(x)) /\ ("color" \in Aliases => Capture(x).stale = FALSE)
  BY <1>12, CaptureRests DEF Rests
<1>15. Rests(raster, raster') /\ ("color" \in Aliases => raster'.stale = FALSE)
  BY <1>12, <1>13, <1>14, RestsOn
<1>16. /\ IsClient(client')
       /\ client'.vp = client.vp /\ client'.scOn = client.scOn /\ client'.sc = client.sc
       /\ client'.scAt = client.scAt /\ client'.blend = client.blend
       /\ client'.suspended = client.suspended
  BY <1>0 DEF IsClient
<1> QED
  BY <1>0, <1>1, <1>15, <1>16, RestStep

\* A blit leaves its source as it was, and its destination to be sampled.
LEMMA BlitAttachmentRests ==
    ASSUME NEW r, Shaped(r), Settled(r), NEW source \in Images, r.layout[source] # "undefined",
           NEW destination \in Images
    PROVE  /\ Rests(r, BlitAttachment(r, source, destination))
           /\ "color" \in Aliases =>
                (r.stale = FALSE => BlitAttachment(r, source, destination).stale = FALSE)
<1> DEFINE kept == r.track[source]
           a == Barrier(r, source, "source")
           saved == Barrier(Transfer(a, source, "source"), source, kept)
           b == Barrier(r, source, "read")
           from == IF source = destination THEN saved ELSE b
           drawing == Barrier(from, destination, "attachment")
           drawn == EndPass(BeginPass(drawing, Attached({destination})))
           c == Barrier(drawn, source, kept)
           restored == IF source = destination THEN drawn ELSE c
           last == Barrier(restored, destination, "read")
           finished == Wrote(last, {destination})
<1>0. /\ Idle(r) /\ kept = r.layout[source] /\ kept \in Layouts \ {"undefined"}
      /\ "source" \in Layouts \ {"undefined"} /\ "read" \in Layouts \ {"undefined"}
      /\ "attachment" \in Layouts \ {"undefined"}
      /\ r.layout \in [Images -> Layouts]
  BY DEF Settled, Idle, Shaped, Layouts
<1> HIDE DEF kept
<1>1. Moves(r, a, [r.layout EXCEPT ![source] = "source"])
  BY <1>0, BarrierMoves
<1>2. Transfer(a, source, "source") = a
  <2> HIDE DEF a
  <2>1. a.layout[source] = "source"
    BY <1>0, <1>1 DEF Moves
  <2> QED
    BY <1>1, <2>1, Transfers DEF Moves, Idle
<1>3. Moves(a, saved, [a.layout EXCEPT ![source] = kept])
  <2> HIDE DEF a
  <2> QED
    BY <1>0, <1>1, <1>2, BarrierMoves DEF Moves
<1> HIDE DEF a, saved
<1>4. Moves(r, saved, r.layout)
  <2>1. [a.layout EXCEPT ![source] = kept] = r.layout
    BY <1>0, <1>1 DEF Moves
  <2> QED
    BY <1>1, <1>3, <2>1, SameOn
<1>5. Moves(r, b, [r.layout EXCEPT ![source] = "read"])
  BY <1>0, BarrierMoves
<1> HIDE DEF b
<1>6. /\ Moves(r, from, from.layout)
      /\ \A i \in Images \ {source} : from.layout[i] = r.layout[i]
      /\ source = destination => from.layout = r.layout
  BY <1>0, <1>4, <1>5 DEF Moves
<1> HIDE DEF from
<1>7. Moves(from, drawing, [from.layout EXCEPT ![destination] = "attachment"])
  BY <1>0, <1>6, BarrierMoves DEF Moves
<1> HIDE DEF drawing
<1>8. Skims(drawing, drawn)
  <2>1. drawing.layout[destination] = "attachment"
    BY <1>6, <1>7 DEF Moves, Shaped
  <2> QED
    BY <1>7, <2>1, PassSkims DEF Moves
<1> HIDE DEF drawn
<1>9. Moves(drawn, c, [drawn.layout EXCEPT ![source] = kept])
  BY <1>0, <1>8, BarrierMoves DEF Skims
<1> HIDE DEF c
<1>10. /\ Shaped(restored) /\ Idle(restored) /\ Same(drawn, restored)
       /\ \A i \in Images \ {destination} : restored.layout[i] = r.layout[i]
  <2>1. drawn.layout = [from.layout EXCEPT ![destination] = "attachment"] /\ Shaped(from)
    BY <1>6, <1>7, <1>8 DEF Moves, Skims
  <2>2. CASE source = destination
    <3>1. restored = drawn
      BY <2>2
    <3> HIDE DEF restored
    <3>2. \A i \in Images \ {destination} : drawn.layout[i] = r.layout[i]
      BY <1>6, <2>1, <2>2 DEF Shaped
    <3> QED
      BY <1>8, <3>1, <3>2 DEF Skims, Same
  <2>3. CASE source # destination
    <3>1. restored = c
      BY <2>3
    <3> HIDE DEF restored
    <3>2. \A i \in Images \ {destination} : c.layout[i] = r.layout[i]
      <4>1. c.layout = [drawn.layout EXCEPT ![source] = kept]
        BY <1>9 DEF Moves
      <4> QED
        BY <1>0, <1>6, <2>1, <2>3, <4>1 DEF Shaped
    <3> QED
      BY <1>9, <3>1, <3>2 DEF Moves
  <2> QED
    BY <2>2, <2>3
<1> HIDE DEF restored
<1>11. Moves(restored, last, [restored.layout EXCEPT ![destination] = "read"])
  BY <1>0, <1>10, BarrierMoves
<1> HIDE DEF last
<1>12. /\ last.layout = [r.layout EXCEPT ![destination] = "read"]
       /\ last.mode = "NONE" /\ last.state = r.state /\ last.saved = r.saved
       /\ last.faults = r.faults /\ last.stale = r.stale /\ Shaped(last) /\ Idle(last)
  <2>1. last.layout = [r.layout EXCEPT ![destination] = "read"]
    BY <1>0, <1>10, <1>11 DEF Moves, Shaped
  <2> QED
    BY <1>6, <1>7, <1>8, <1>10, <1>11, <2>1 DEF Moves, Same, Skims, Settled
<1>13. Rests(r, last)
  <2>1. Reaches(r, last)
    BY <1>0, <1>12, ReachesByLayout
  <2>2. Readable(last, {})
    BY <2>1, ReadableReaches DEF Settled
  <2> QED
    BY <1>12, <2>1, <2>2 DEF Rests, Settled, Reaches, Grows
<1>14. Rests(last, finished) /\ finished.stale = (r.stale \/ destination = "color")
  BY <1>12, <1>13, WroteRests DEF Rests
<1>15. BlitAttachment(r, source, destination) =
         IF destination \in Main THEN Capture(finished) ELSE finished
  BY DEF BlitAttachment, kept, a, saved, b, from, drawing, drawn, c, restored, last
<1> HIDE DEF finished
<1>16. Rests(r, finished)
  BY <1>13, <1>14, RestsOn
<1>17. CASE destination \in Main
  <2>1. /\ Rests(finished, Capture(finished))
        /\ Capture(finished).stale = (finished.stale /\ "color" \notin Aliases)
    BY <1>16, CaptureRests DEF Rests
  <2> QED
    BY <1>15, <1>16, <1>17, <2>1, RestsOn
<1>18. CASE destination \notin Main
  BY <1>14, <1>15, <1>16, <1>18 DEF Main
<1> QED
  BY <1>17, <1>18

LEMMA BlitStencilRests ==
    ASSUME NEW r, Shaped(r), Settled(r), NEW source \in Images, NEW destination \in Images
    PROVE  /\ Rests(r, BlitStencil(r, source, destination))
           /\ BlitStencil(r, source, destination).stale = r.stale
<1> DEFINE from == IF source = destination THEN "general" ELSE "source"
           into == IF source = destination THEN "general" ELSE "target"
           a == Barrier(r, source, from)
           b == Barrier(a, destination, into)
           c == Barrier(b, source, "read")
           d == Barrier(c, destination, "read")
<1>0. /\ from \in Layouts \ {"undefined"} /\ into \in Layouts \ {"undefined"}
      /\ "read" \in Layouts \ {"undefined"} /\ Idle(r) /\ r.layout \in [Images -> Layouts]
      /\ source = destination => from = into
  BY DEF Layouts, Settled, Shaped
<1> HIDE DEF from, into
<1>1. Moves(r, a, [r.layout EXCEPT ![source] = from])
  BY <1>0, BarrierMoves
<1> HIDE DEF a
<1>2. Moves(a, b, [a.layout EXCEPT ![destination] = into])
  BY <1>0, <1>1, BarrierMoves DEF Moves
<1>3. Transfer(Transfer(b, source, from), destination, into) = b
  <2> HIDE DEF b
  <2>1. b.layout[source] = from /\ b.layout[destination] = into
    <3>1. a.layout = [r.layout EXCEPT ![source] = from]
      BY <1>1 DEF Moves
    <3>2. b.layout = [a.layout EXCEPT ![destination] = into]
      BY <1>2 DEF Moves
    <3> QED
      BY <1>0, <3>1, <3>2
  <2>2. Shaped(b) /\ b.pass = NoPass
    BY <1>2 DEF Moves, Idle
  <2>3. Transfer(b, source, from) = b /\ Transfer(b, destination, into) = b
    BY <2>1, <2>2, Transfers
  <2> QED
    BY <2>3
<1>4. BlitStencil(r, source, destination) = d
  BY <1>3 DEF BlitStencil, a, from, into
<1> HIDE DEF b
<1>5. Moves(b, c, [b.layout EXCEPT ![source] = "read"])
  BY <1>0, <1>2, BarrierMoves DEF Moves
<1> HIDE DEF c
<1>6. Moves(c, d, [c.layout EXCEPT ![destination] = "read"])
  BY <1>0, <1>5, BarrierMoves DEF Moves
<1> HIDE DEF d
<1>7. \A i \in Images : d.layout[i] \in {r.layout[i], "read"}
  <2>1. /\ a.layout = [r.layout EXCEPT ![source] = from]
        /\ b.layout = [a.layout EXCEPT ![destination] = into]
        /\ c.layout = [b.layout EXCEPT ![source] = "read"]
        /\ d.layout = [c.layout EXCEPT ![destination] = "read"]
    BY <1>1, <1>2, <1>5, <1>6 DEF Moves
  <2> QED
    BY <1>0, <2>1
<1>8. Reaches(r, d)
  BY <1>7, NamedImages DEF Reaches
<1>9. Readable(d, {})
  BY <1>8, ReadableReaches DEF Settled
<1>10. Moves(r, d, [c.layout EXCEPT ![destination] = "read"])
  BY <1>1, <1>2, <1>5, <1>6, SameOn
<1> QED
  BY <1>4, <1>8, <1>9, <1>10 DEF Rests, Moves, Same, Settled, Reaches, Grows

LEMMA TargetImages ==
    ASSUME NEW target \in {Bound, MainTarget}, IsFramebuffer(fbo), Complete(target)
    PROVE  /\ target.color \in Images /\ target.color \in ImagesOf(target)
           /\ target.depth # None => target.depth \in Images /\ target.depth \in ImagesOf(target)
<1>1. None \notin Images
  BY NoneAssumption
<1>2. CASE target = Bound
  BY <1>2, BoundTarget DEF IsTarget, ImagesOf, Complete
<1>3. CASE target = MainTarget
  BY <1>1, <1>3, NamedImages DEF MainTarget, ImagesOf, Main
<1> QED
  BY <1>2, <1>3

LEMMA BlitStep ==
    ASSUME Obedient, IInv, NEW buffers \in Masks, Blit(buffers)
    PROVE  IInv'
<1>0. /\ IsClient(client) /\ client' = [client EXCEPT !.boundary = FALSE]
      /\ fbo' = fbo /\ IsFramebuffer(fbo)
  BY DEF IInv, Inv, Types, Blit
<1>1. client.suspended = None /\ raster.mode # "DIAGRAM_DRAW"
  BY Outside DEF Blit
<1> DEFINE source == ReadTarget
           destination == DrawTarget
           both == source.depth # None /\ destination.depth # None
           e == End(raster)
           c == IF "color" \in buffers THEN BlitAttachment(e, source.color, destination.color)
                ELSE e
           d == IF "depth" \in buffers /\ both
                THEN BlitAttachment(c, source.depth, destination.depth) ELSE c
           s == IF "stencil" \in buffers /\ both
                THEN BlitStencil(d, source.depth, destination.depth) ELSE d
<1>2. raster' = IF ~Complete(source) \/ ~Complete(destination) THEN e ELSE s
  BY DEF Blit, BlitFramebuffer
<1>3. Rests(raster, e) /\ ("color" \in Aliases /\ client.post = FALSE => e.stale = FALSE)
  BY <1>1, EndRests
<1>4. \A i \in ImagesOf(source) \cap Images : e.layout[i] # "undefined"
  <2>1. \A i \in ImagesOf(source) : raster.layout[i] # "undefined"
    BY DEF Blit, Written, Obedient, Lapse
  <2> QED
    BY <1>3, <2>1 DEF Rests, Grows
<1>5. source \in {Bound, MainTarget} /\ destination \in {Bound, MainTarget}
  BY DEF ReadTarget, DrawTarget
<1> HIDE DEF source, destination, e
<1>6. ASSUME Complete(source), Complete(destination)
      PROVE  /\ Rests(raster, raster')
             /\ "color" \in Aliases /\ client.post = FALSE => raster'.stale = FALSE
  <2>1. /\ source.color \in Images /\ destination.color \in Images
        /\ e.layout[source.color] # "undefined"
        /\ both => source.depth \in Images /\ destination.depth \in Images
                   /\ e.layout[source.depth] # "undefined"
    BY <1>0, <1>4, <1>5, <1>6, TargetImages
  <2> DEFINE Keeps(q) == "color" \in Aliases => (e.stale = FALSE => q.stale = FALSE)
  <2>2. Rests(e, c) /\ Keeps(c)
    <3>1. CASE "color" \in buffers
      BY <1>3, <2>1, <3>1, BlitAttachmentRests, ZenonT(30) DEF Rests
    <3>2. CASE "color" \notin buffers
      <4>1. c = e
        BY <3>2
      <4> HIDE DEF c
      <4> QED
        BY <1>3, <4>1 DEF Rests, Grows
    <3> QED
      BY <3>1, <3>2
  <2>3. Rests(e, d) /\ Keeps(d)
    <3> HIDE DEF c
    <3>1. CASE "depth" \in buffers /\ both
      <4> DEFINE q == BlitAttachment(c, source.depth, destination.depth)
      <4>1. Shaped(c) /\ Settled(c) /\ c.layout[source.depth] # "undefined"
        BY <2>1, <2>2, <3>1 DEF Rests, Grows
      <4>2. Rests(c, q) /\ ("color" \in Aliases => (c.stale = FALSE => q.stale = FALSE))
        BY <2>1, <3>1, <4>1, BlitAttachmentRests
      <4>3. d = q
        BY <3>1
      <4> HIDE DEF d, q
      <4> QED
        BY <2>2, <4>2, <4>3, RestsOn
    <3>2. CASE ~("depth" \in buffers /\ both)
      <4>1. d = c
        BY <3>2
      <4> HIDE DEF d
      <4> QED
        BY <2>2, <4>1
    <3> QED
      BY <3>1, <3>2
  <2>4. Rests(e, s) /\ Keeps(s)
    <3> HIDE DEF d
    <3>1. CASE "stencil" \in buffers /\ both
      <4> DEFINE q == BlitStencil(d, source.depth, destination.depth)
      <4>1. Shaped(d) /\ Settled(d)
        BY <2>3 DEF Rests
      <4>2. Rests(d, q) /\ q.stale = d.stale
        BY <2>1, <3>1, <4>1, BlitStencilRests
      <4>3. s = q
        BY <3>1
      <4> HIDE DEF s, q
      <4> QED
        BY <2>3, <4>2, <4>3, RestsOn
    <3>2. CASE ~("stencil" \in buffers /\ both)
      <4>1. s = d
        BY <3>2
      <4> HIDE DEF s
      <4> QED
        BY <2>3, <4>1
    <3> QED
      BY <3>1, <3>2
  <2>5. raster' = s
    BY <1>2, <1>6
  <2> HIDE DEF s
  <2>6. Rests(raster, raster')
    BY <1>3, <2>4, <2>5, RestsOn
  <2>7. "color" \in Aliases /\ client.post = FALSE => raster'.stale = FALSE
    BY <1>3, <2>4, <2>5
  <2> QED
    BY <2>6, <2>7
<1>7. ASSUME ~(Complete(source) /\ Complete(destination))
      PROVE  /\ Rests(raster, raster')
             /\ "color" \in Aliases /\ client.post = FALSE => raster'.stale = FALSE
  <2>1. raster' = e
    BY <1>2, <1>7
  <2> QED
    BY <1>3, <2>1
<1>8. /\ Rests(raster, raster')
      /\ "color" \in Aliases /\ client.post = FALSE => raster'.stale = FALSE
  BY <1>6, <1>7
<1>9. /\ IsClient(client') /\ client'.post = client.post
      /\ client'.vp = client.vp /\ client'.scOn = client.scOn /\ client'.sc = client.sc
      /\ client'.scAt = client.scAt /\ client'.blend = client.blend
      /\ client'.suspended = client.suspended
  BY <1>0 DEF IsClient
<1> QED
  BY <1>0, <1>1, <1>8, <1>9, RestStep

-----------------------------------------------------------------------------
(* Post effects                                                            *)

\* The pass of a post effect is open, its source to be sampled.
PostOpen(r, p) ==
    /\ Shaped(p) /\ p.pass = Attached({"post"}) /\ p.track = p.layout
    /\ p.layout["post"] = "attachment" /\ p.layout["color"] = "read"
    /\ Readable(p, {}) /\ Grows(r, p)
    /\ p.state = r.state /\ p.saved = r.saved /\ p.faults = r.faults

LEMMA PostOpens ==
    ASSUME NEW r, Shaped(r), Settled(r)
    PROVE  /\ PostOpen(r, SwitchOverlayPost(r))
           /\ SwitchOverlayPost(r).layout =
                [r.layout EXCEPT !["post"] = "attachment", !["color"] = "read"]
<1> DEFINE a == Barrier(r, "post", "attachment")
           b == Barrier(a, "color", "read")
           c == BeginPass(b, Attached({"post"}))
           p == SwitchOverlayPost(r)
           dyn == Replayed(c)
<1>0. /\ "color" \in Images /\ "post" \in Images
      /\ "post" \in Fixed \ {"aliasColor", "aliasDepth"}
      /\ "attachment" \in Layouts \ {"undefined"} /\ "read" \in Layouts \ {"undefined"}
  BY NamedImages DEF Main, Fixed, Layouts
<1>1. Rests(r, a) /\ a.layout = [r.layout EXCEPT !["post"] = "attachment"]
  BY <1>0, BarrierRests
<1> HIDE DEF a
<1>2. Rests(a, b) /\ b.layout = [a.layout EXCEPT !["color"] = "read"]
  BY <1>0, <1>1, BarrierRests, SMTT(30) DEF Rests
<1> HIDE DEF b
<1>3. b.layout = [r.layout EXCEPT !["post"] = "attachment", !["color"] = "read"]
  BY <1>1, <1>2
<1>4. b.layout["post"] = "attachment" /\ b.layout["color"] = "read"
  BY <1>0, <1>3 DEF Shaped
<1>5. c = [b EXCEPT !.pass = Attached({"post"})]
  <2>1. Shaped(b) /\ b.pass = NoPass
    BY <1>2 DEF Rests, Settled, Idle
  <2>2. \A i \in DOMAIN Attached({"post"}) : b.layout[i] = Attached({"post"})[i]
    BY <1>4 DEF Attached
  <2> QED
    BY <2>1, <2>2, PassBegins
<1>6. p = [[c EXCEPT !.dyn = dyn] EXCEPT !.mode = "POST"]
  BY DEF SwitchOverlayPost, Settled, Closed, Sync, a, b
<1> HIDE DEF c, dyn, p
<1>7. /\ Shaped(p) /\ p.pass = Attached({"post"}) /\ p.track = b.track /\ p.layout = b.layout
      /\ p.state = b.state /\ p.saved = b.saved /\ p.faults = b.faults
  BY <1>2, <1>5, <1>6 DEF Rests, Shaped, Fields
<1>8. Rests(r, b)
  BY <1>1, <1>2, RestsOn
<1>9. PostOpen(r, p)
  BY <1>4, <1>7, <1>8 DEF PostOpen, Rests, Settled, Idle, Readable, Grows
<1> QED
  BY <1>3, <1>7, <1>9 DEF p

\* The source is sampled where it can be.
LEMMA PostDraws ==
    ASSUME NEW r, NEW p, PostOpen(r, p)
    PROVE  PostDrawn(p) = p
<1>1. DOMAIN p.pass = {"post"}
  BY DEF PostOpen, Attached
<1>2. PostDrawn(p) = Blame(p, {})
  BY <1>1 DEF PostDrawn, When, PostOpen
<1> QED
  BY <1>2, BlameNothing DEF PostOpen

\* What the effect drew is copied back.
LEMMA PostCopies ==
    ASSUME NEW r, NEW p, PostOpen(r, p)
    PROVE  Rests(r, PostCopied(p))
<1> DEFINE e == EndPass(p)
           a == [Track(e, "post", "attachment") EXCEPT !.mode = "NONE"]
           b == Barrier(a, "post", "source")
           c == Barrier(b, "color", "target")
           copied == Transfer(Transfer(c, "post", "source"), "color", "target")
           d == Barrier(c, "post", "attachment")
           f == Barrier(d, "color", "read")
           q == Wrote(f, {"color"})
<1>0. /\ "color" \in Images /\ "post" \in Images
      /\ "post" \in Fixed \ {"aliasColor", "aliasDepth"}
      /\ "color" \in Fixed \ {"aliasColor", "aliasDepth"}
      /\ "attachment" \in Layouts \ {"undefined"} /\ "read" \in Layouts \ {"undefined"}
      /\ "source" \in Layouts \ {"undefined"} /\ "target" \in Layouts \ {"undefined"}
  BY NamedImages DEF Main, Fixed, Layouts
<1>1. e = [p EXCEPT !.pass = NoPass, !.dyn = Lost]
  BY NonePass, PassEnds DEF PostOpen
<1> HIDE DEF e
<1>2. [p.track EXCEPT !["post"] = "attachment"] = p.layout
  BY <1>0 DEF PostOpen, Shaped
<1>3. /\ Shaped(a) /\ Idle(a) /\ a.mode = "NONE" /\ a.layout = p.layout
      /\ a.state = p.state /\ a.saved = p.saved /\ a.faults = p.faults
  BY <1>1, <1>2 DEF Track, PostOpen, Shaped, Fields, Idle
<1> HIDE DEF a
<1>4. Rests(r, a)
  BY <1>3 DEF Rests, Settled, PostOpen, Readable, Grows
<1>5. Rests(a, b) /\ b.layout = [a.layout EXCEPT !["post"] = "source"]
  BY <1>0, <1>4, BarrierRests DEF Rests
<1> HIDE DEF b
<1>6. Rests(b, c) /\ c.layout = [b.layout EXCEPT !["color"] = "target"]
  BY <1>0, <1>5, BarrierRests DEF Rests
<1>7. copied = c
  <2> HIDE DEF c
  <2>1. c.layout["post"] = "source" /\ c.layout["color"] = "target"
    BY <1>0, <1>3, <1>5, <1>6 DEF Shaped
  <2>2. Shaped(c) /\ c.pass = NoPass
    BY <1>6 DEF Rests, Settled, Idle
  <2>3. Transfer(c, "post", "source") = c /\ Transfer(c, "color", "target") = c
    BY <2>1, <2>2, Transfers
  <2> QED
    BY <2>3
<1>8. PostCopied(p) = q
  BY <1>7 DEF PostCopied, a, b, e
<1> HIDE DEF c
<1>9. Rests(c, d)
  <2>1. Shaped(c) /\ Settled(c)
    BY <1>6 DEF Rests
  <2> QED
    BY <1>0, <2>1, BarrierRests
<1> HIDE DEF d
<1>10. Rests(d, f)
  <2>1. Shaped(d) /\ Settled(d)
    BY <1>9 DEF Rests
  <2> QED
    BY <1>0, <2>1, BarrierRests
<1> HIDE DEF f
<1>11. Rests(f, q)
  BY <1>10, WroteRests DEF Rests
<1> HIDE DEF q
<1> QED
  BY <1>4, <1>5, <1>6, <1>8, <1>9, <1>10, <1>11, RestsOn

LEMMA PostOverlayRests ==
    ASSUME NEW r, Shaped(r), Settled(r), NEW blur \in BOOLEAN
    PROVE  Rests(r, PostOverlay(r, blur))
<1>1. End(r) = r
  BY DEF End, Settled
<1>2. PostOpen(r, SwitchOverlayPost(r))
  BY PostOpens
<1>3. PostOverlay(r, blur) = PostCopied(SwitchOverlayPost(r))
  BY <1>1, <1>2, PostDraws DEF PostOverlay
<1> QED
  BY <1>2, <1>3, PostCopies

LEMMA PostBlurStep ==
    ASSUME Obedient, IInv, PostBlur
    PROVE  IInv'
<1> DEFINE e == End(raster)
           a == PostOverlay(raster, TRUE)
           b == PostOverlay(a, TRUE)
<1>0. /\ IsClient(client) /\ client' = [client EXCEPT !.boundary = FALSE, !.post = TRUE]
      /\ fbo' = fbo /\ IsFramebuffer(fbo)
  BY DEF IInv, Inv, Types, PostBlur
<1>1. client.suspended = None /\ raster.mode # "DIAGRAM_DRAW"
  BY Outside DEF PostBlur
<1>2. Rests(raster, e)
  BY <1>1, EndRests
<1>3. a = PostOverlay(e, TRUE)
  <2>1. End(e) = e
    BY <1>2 DEF End, Rests, Settled
  <2> QED
    BY <2>1 DEF PostOverlay
<1> HIDE DEF e
<1>4. Rests(e, a)
  BY <1>2, <1>3, PostOverlayRests DEF Rests
<1> HIDE DEF a
<1>5. Rests(a, b)
  BY <1>4, PostOverlayRests DEF Rests
<1>6. raster' = b
  BY DEF PostBlur, a
<1>7. Rests(raster, raster')
  BY <1>2, <1>4, <1>5, <1>6, RestsOn
<1>8. /\ IsClient(client') /\ client'.post = TRUE
      /\ client'.vp = client.vp /\ client'.scOn = client.scOn /\ client'.sc = client.sc
      /\ client'.scAt = client.scAt /\ client'.blend = client.blend
      /\ client'.suspended = client.suspended
  BY <1>0 DEF IsClient
<1> QED
  BY <1>0, <1>1, <1>7, <1>8, RestStep

\* A barrier left out because the image is where it should be does what it would have done.
LEMMA MovedRests ==
    ASSUME NEW r, Shaped(r), Settled(r), NEW image \in Images, NEW new \in Layouts \ {"undefined"},
           new = "read" \/ image \in Fixed \ {"aliasColor", "aliasDepth"}
    PROVE  /\ Rests(r, Moved(r, image, new))
           /\ Moved(r, image, new).layout = [r.layout EXCEPT ![image] = new]
<1>1. CASE r.track[image] = new
  <2>1. Moved(r, image, new) = r
    BY <1>1 DEF Moved
  <2>2. [r.layout EXCEPT ![image] = new] = r.layout
    BY <1>1 DEF Settled, Idle, Shaped
  <2> QED
    BY <2>1, <2>2 DEF Rests, Grows
<1>2. CASE r.track[image] # new
  <2>1. Moved(r, image, new) = Barrier(r, image, new)
    BY <1>2 DEF Moved
  <2> QED
    BY <2>1, BarrierRests
<1> QED
  BY <1>1, <1>2

\* One round of the spider effect, from an image to another.
LEMMA SpiderPassRests ==
    ASSUME NEW r, Shaped(r), Settled(r), NEW source \in Images, r.layout[source] = "read",
           NEW image \in Fixed \ {"aliasColor", "aliasDepth"}, image # source
    PROVE  /\ Rests(r, SpiderPass(r, source, image))
           /\ SpiderPass(r, source, image).layout = [r.layout EXCEPT ![image] = "read"]
<1> DEFINE m == Moved(r, image, "attachment")
           open == BeginPass(m, Attached({image}))
           e == EndPass(open)
           t == Track(e, image, "attachment")
           q == Moved(e, image, "read")
<1>0. image \in Images /\ "attachment" \in Layouts \ {"undefined"} /\ "read" \in Layouts \ {"undefined"}
  BY DEF Images, Layouts
<1>1. Rests(r, m) /\ m.layout = [r.layout EXCEPT ![image] = "attachment"]
  BY <1>0, MovedRests
<1> HIDE DEF m
<1>2. Shaped(m) /\ Idle(m) /\ Settled(m)
  BY <1>1 DEF Rests, Settled
<1>3. m.layout[image] = "attachment" /\ m.layout[source] = "read"
  BY <1>0, <1>1 DEF Shaped
<1>4. Skims(m, e)
  BY <1>0, <1>2, <1>3, PassSkims
<1>5. Blame(open, When(open.layout[source] # "read", "layout")) = open
  <2>1. open = [m EXCEPT !.pass = Attached({image})]
    <3>1. \A i \in DOMAIN Attached({image}) : m.layout[i] = Attached({image})[i]
      BY <1>3 DEF Attached
    <3> QED
      BY <1>2, <3>1, PassBegins DEF Idle
  <2> HIDE DEF open
  <2>2. Shaped(open) /\ open.layout = m.layout
    BY <1>2, <2>1 DEF Shaped, Fields
  <2>3. When(open.layout[source] # "read", "layout") = {}
    BY <1>3, <2>2 DEF When
  <2> QED
    BY <2>2, <2>3, BlameNothing
<1> HIDE DEF open
<1>6. t = e
  <2> HIDE DEF e
  <2>1. Shaped(e) /\ e.track[image] = "attachment"
    BY <1>3, <1>4 DEF Skims, Idle
  <2> QED
    BY <2>1 DEF Track, Shaped, Fields
<1>7. SpiderPass(r, source, image) = q
  <2>1. Track(EndPass(Blame(open, When(open.layout[source] # "read", "layout"))), image, "attachment")
          = e
    BY <1>5, <1>6
  <2> QED
    BY <2>1 DEF SpiderPass, m, open
<1> HIDE DEF e
<1>8. Rests(m, e)
  BY <1>2, <1>4, SkimRests
<1>9. Rests(e, q) /\ q.layout = [e.layout EXCEPT ![image] = "read"]
  <2>1. Shaped(e) /\ Settled(e)
    BY <1>8 DEF Rests
  <2> QED
    BY <1>0, <2>1, MovedRests
<1> HIDE DEF q
<1>10. q.layout = [r.layout EXCEPT ![image] = "read"]
  BY <1>1, <1>4, <1>9, SMTT(30) DEF Skims, Shaped
<1>11. Rests(r, q)
  BY <1>1, <1>8, <1>9, RestsOn
<1> QED
  BY <1>7, <1>10, <1>11

LEMMA PostSpiderRests ==
    ASSUME NEW r, Shaped(r), Settled(r)
    PROVE  Rests(r, PostSpider(r))
<1> DEFINE m == Moved(r, "color", "read")
           la == SpiderPass(m, "color", "post")
           lb == SpiderPass(la, "post", "diagramColor")
           sa == SpiderPass(lb, "color", "post")
           sb == SpiderPass(sa, "post", "spiderSmall")
           p == Moved(sb, "post", "attachment")
           open == BeginPass(p, Attached({"post"}))
           e == EndPass(open)
           a == Moved(e, "post", "source")
           b == Moved(a, "color", "target")
           c == Moved(b, "post", "attachment")
           d == Moved(c, "color", "read")
           q == Wrote(d, {"color"})
           sampled == {"color", "diagramColor", "spiderSmall"}
<1>0. /\ "color" \in Images /\ "post" \in Images /\ "diagramColor" \in Images
      /\ "spiderSmall" \in Images
      /\ {"color", "post", "diagramColor", "spiderSmall"} \subseteq Fixed \ {"aliasColor", "aliasDepth"}
      /\ "attachment" \in Layouts \ {"undefined"} /\ "read" \in Layouts \ {"undefined"}
      /\ "source" \in Layouts \ {"undefined"} /\ "target" \in Layouts \ {"undefined"}
  BY NamedImages DEF Main, Diagram, Fixed, Layouts
<1>1. Rests(r, m) /\ m.layout = [r.layout EXCEPT !["color"] = "read"]
  BY <1>0, MovedRests
<1>2. [Closed(r) EXCEPT !.mode = "NONE"] = r /\ r.mode = "NONE"
  BY DEF Closed, Settled, Shaped, Fields
<1> HIDE DEF m
<1>3. Rests(m, la) /\ la.layout = [m.layout EXCEPT !["post"] = "read"]
  <2>1. Shaped(m) /\ Settled(m) /\ m.layout["color"] = "read"
    BY <1>0, <1>1 DEF Rests, Shaped
  <2> QED
    BY <1>0, <2>1, SpiderPassRests
<1> HIDE DEF la
<1>4. Rests(la, lb) /\ lb.layout = [la.layout EXCEPT !["diagramColor"] = "read"]
  <2>1. Shaped(la) /\ Settled(la) /\ la.layout["post"] = "read"
    BY <1>0, <1>1, <1>3 DEF Rests, Shaped
  <2> QED
    BY <1>0, <2>1, SpiderPassRests
<1> HIDE DEF lb
<1>5. Rests(lb, sa) /\ sa.layout = [lb.layout EXCEPT !["post"] = "read"]
  <2>1. Shaped(lb) /\ Settled(lb) /\ lb.layout["color"] = "read"
    BY <1>0, <1>1, <1>3, <1>4 DEF Rests, Shaped
  <2> QED
    BY <1>0, <2>1, SpiderPassRests
<1> HIDE DEF sa
<1>6. Rests(sa, sb) /\ sb.layout = [sa.layout EXCEPT !["spiderSmall"] = "read"]
  <2>1. Shaped(sa) /\ Settled(sa) /\ sa.layout["post"] = "read"
    BY <1>0, <1>4, <1>5 DEF Rests, Shaped
  <2> QED
    BY <1>0, <2>1, SpiderPassRests
<1> HIDE DEF sb
<1>7. Rests(sb, p) /\ p.layout = [sb.layout EXCEPT !["post"] = "attachment"]
  <2>1. Shaped(sb) /\ Settled(sb)
    BY <1>6 DEF Rests
  <2> QED
    BY <1>0, <2>1, MovedRests
<1> HIDE DEF p
<1>8. /\ Shaped(p) /\ Settled(p) /\ Idle(p) /\ p.pass = NoPass
      /\ p.layout["post"] = "attachment" /\ \A i \in sampled : p.layout[i] = "read"
  <2>1. Shaped(r) /\ Shaped(m) /\ Shaped(la) /\ Shaped(lb) /\ Shaped(sa) /\ Shaped(sb)
    BY <1>1, <1>3, <1>4, <1>5, <1>6 DEF Rests
  <2>2. p.layout["post"] = "attachment" /\ p.layout["spiderSmall"] = "read"
    BY <1>0, <1>6, <1>7, <2>1 DEF Shaped
  <2>3. p.layout["diagramColor"] = "read"
    BY <1>0, <1>4, <1>5, <1>6, <1>7, <2>1 DEF Shaped
  <2>4. p.layout["color"] = "read"
    BY <1>0, <1>1, <1>3, <1>4, <1>5, <1>6, <1>7, <2>1 DEF Shaped
  <2> QED
    BY <1>7, <2>2, <2>3, <2>4 DEF Rests, Settled, Idle
<1>9. Skims(p, e)
  BY <1>0, <1>8, PassSkims
<1>10. Blame(open, When(\E i \in sampled : open.layout[i] # "read", "layout")) = open
  <2>1. open = [p EXCEPT !.pass = Attached({"post"})]
    <3>1. \A i \in DOMAIN Attached({"post"}) : p.layout[i] = Attached({"post"})[i]
      BY <1>8 DEF Attached
    <3> QED
      BY <1>8, <3>1, PassBegins
  <2> HIDE DEF open
  <2>2. Shaped(open) /\ open.layout = p.layout
    BY <1>8, <2>1 DEF Shaped, Fields
  <2>3. When(\E i \in sampled : open.layout[i] # "read", "layout") = {}
    BY <1>8, <2>2 DEF When
  <2> QED
    BY <2>2, <2>3, BlameNothing
<1> HIDE DEF open
<1>11. Track(e, "post", "attachment") = e
  <2> HIDE DEF e
  <2>1. Shaped(e) /\ e.track["post"] = "attachment"
    BY <1>8, <1>9 DEF Skims, Idle
  <2> QED
    BY <2>1 DEF Track, Shaped, Fields
<1> HIDE DEF e
<1>12. Rests(p, e)
  BY <1>8, <1>9, SkimRests
<1>13. Rests(e, a) /\ a.layout = [e.layout EXCEPT !["post"] = "source"]
  <2>1. Shaped(e) /\ Settled(e)
    BY <1>12 DEF Rests
  <2> QED
    BY <1>0, <2>1, MovedRests
<1> HIDE DEF a
<1>14. Rests(a, b) /\ b.layout = [a.layout EXCEPT !["color"] = "target"]
  <2>1. Shaped(a) /\ Settled(a)
    BY <1>13 DEF Rests
  <2> QED
    BY <1>0, <2>1, MovedRests
<1> HIDE DEF b
<1>15. Transfer(Transfer(b, "post", "source"), "color", "target") = b
  <2>1. b.layout["post"] = "source" /\ b.layout["color"] = "target"
    BY <1>0, <1>12, <1>13, <1>14 DEF Rests, Shaped
  <2>2. Shaped(b) /\ b.pass = NoPass
    BY <1>14 DEF Rests, Settled, Idle
  <2>3. Transfer(b, "post", "source") = b /\ Transfer(b, "color", "target") = b
    BY <2>1, <2>2, Transfers
  <2> QED
    BY <2>3
<1>16. Rests(b, c)
  <2>1. Shaped(b) /\ Settled(b)
    BY <1>14 DEF Rests
  <2> QED
    BY <1>0, <2>1, MovedRests
<1> HIDE DEF c
<1>17. Rests(c, d)
  <2>1. Shaped(c) /\ Settled(c)
    BY <1>16 DEF Rests
  <2> QED
    BY <1>0, <2>1, MovedRests
<1> HIDE DEF d
<1>18. Rests(d, q)
  BY <1>17, WroteRests DEF Rests
<1>19. PostSpider(r) = q
  <2>1. Track(EndPass(Blame(open, When(\E i \in sampled : open.layout[i] # "read", "layout"))),
              "post", "attachment") = e
    BY <1>10, <1>11 DEF e
  <2>2. open = BeginPass(Moved(SpiderPass(SpiderPass(lb, "color", "post"), "post", "spiderSmall"),
                               "post", "attachment"), Attached({"post"}))
    BY DEF open, p, sb, sa
  <2>3. lb = SpiderPass(SpiderPass(m, "color", "post"), "post", "diagramColor")
    BY DEF lb, la
  <2>4. r.mode # "DRAW" /\ r.mode # "FRAMEBUFFER_DRAW"
    BY <1>2
  <2>5. m = Moved([Closed(r) EXCEPT !.mode = "NONE"], "color", "read")
    BY <1>2 DEF m
  <2> QED
    BY <1>15, <2>1, <2>2, <2>3, <2>4, <2>5 DEF PostSpider, a, b, c, d
<1> HIDE DEF q
<1>20. Rests(r, p)
  BY <1>1, <1>3, <1>4, <1>5, <1>6, <1>7, RestsOn
<1>21. Rests(p, q)
  BY <1>12, <1>13, <1>14, <1>16, <1>17, <1>18, RestsOn
<1> QED
  BY <1>19, <1>20, <1>21, RestsOn

LEMMA PostEntityEffectStep ==
    ASSUME Obedient, IInv, NEW spider \in BOOLEAN, PostEntityEffect(spider)
    PROVE  IInv'
<1>0. /\ IsClient(client) /\ client' = [client EXCEPT !.post = TRUE]
      /\ fbo' = fbo /\ IsFramebuffer(fbo)
  BY DEF IInv, Inv, Types, PostEntityEffect
<1>1. client.boundary
  BY DEF PostEntityEffect, Obedient, Lapse
<1>2. raster.mode = "NONE" /\ client.suspended = None
  BY <1>1 DEF IInv, Inv, InStep
<1>3. Shaped(raster) /\ Settled(raster)
  BY <1>2 DEF IInv, Inv, Types, Passes
<1>4. Rests(raster, raster')
  BY <1>3, PostSpiderRests, PostOverlayRests DEF PostEntityEffect
<1>5. /\ IsClient(client') /\ client'.post = TRUE
      /\ client'.vp = client.vp /\ client'.scOn = client.scOn /\ client'.sc = client.sc
      /\ client'.scAt = client.scAt /\ client'.blend = client.blend
      /\ client'.suspended = client.suspended
  BY <1>0 DEF IsClient
<1> QED
  BY <1>0, <1>2, <1>4, <1>5, RestStep

-----------------------------------------------------------------------------
(* Diagrams                                                                *)

LEMMA ClosedDiagram ==
    ASSUME NEW r, Shaped(r), r.mode = "DIAGRAM_DRAW", DiagramOpen(r)
    PROVE  Closed(r) = [r EXCEPT !.pass = NoPass, !.dyn = Lost]
<1>1. EndPass(r) = [r EXCEPT !.pass = NoPass, !.dyn = Lost]
  BY NonePass, PassEnds DEF DiagramOpen, Diagram
<1>2. Closed(r) = Track(Track(EndPass(r), "diagramColor", "attachment"), "diagramDepth", "attachment")
  BY DEF Closed
<1>3. [r.track EXCEPT !["diagramColor"] = "attachment", !["diagramDepth"] = "attachment"] = r.track
  BY NamedImages DEF DiagramOpen, Shaped, Diagram
<1> QED
  BY <1>1, <1>2, <1>3 DEF Track, Shaped, Fields

\* Between a diagram and what is drawn on the main target, the open pass is closed.
LEMMA ClosedRests ==
    ASSUME NEW r, Shaped(r), Passes(r), r.mode # "FRAMEBUFFER_DRAW"
    PROVE  Rests(r, [Closed(r) EXCEPT !.mode = "NONE"])
<1> DEFINE c == Closed(r)
           q == [c EXCEPT !.mode = "NONE"]
<1>1. /\ Shaped(c) /\ Idle(c) /\ c.layout = r.layout /\ Readable(r, {})
      /\ c.state = r.state /\ c.saved = r.saved /\ c.faults = r.faults
  <2>1. CASE r.mode = "NONE"
    <3>1. c = r
      BY <2>1 DEF Closed
    <3> HIDE DEF c
    <3> QED
      BY <2>1, <3>1 DEF Passes, Settled
  <2>2. CASE r.mode = "DRAW"
    <3>1. MainOpen(r)
      BY <2>2 DEF Passes, Settled
    <3>2. /\ Shaped(c) /\ Idle(c) /\ c.layout = r.layout
          /\ c = [r EXCEPT !.pass = NoPass, !.dyn = Lost, !.track = r.layout]
      BY <2>2, <3>1, ClosedMain
    <3> HIDE DEF c
    <3> QED
      BY <3>1, <3>2 DEF MainOpen, Shaped, Fields
  <2>3. CASE r.mode = "DIAGRAM_DRAW"
    <3>1. DiagramOpen(r)
      BY <2>3 DEF Passes, Settled
    <3>2. c = [r EXCEPT !.pass = NoPass, !.dyn = Lost]
      BY <2>3, <3>1, ClosedDiagram
    <3> HIDE DEF c
    <3> QED
      BY <3>1, <3>2 DEF DiagramOpen, Shaped, Fields, Idle
  <2> QED
    BY <2>1, <2>2, <2>3 DEF Passes, Settled
<1> HIDE DEF c
<1>2. /\ Shaped(q) /\ q.mode = "NONE" /\ q.pass = c.pass /\ q.track = c.track
      /\ q.layout = c.layout /\ q.state = c.state /\ q.saved = c.saved /\ q.faults = c.faults
  BY <1>1 DEF Shaped, Fields
<1> HIDE DEF q
<1>3. Rests(r, q)
  BY <1>1, <1>2 DEF Rests, Settled, Idle, Readable, Grows
<1> QED
  BY <1>3 DEF q, c

\* What a diagram saved is a state.
LEMMA SavedState ==
    ASSUME NEW s, NEW was \in Suspension, SavedIs(s, was)
    PROVE  s \in State
<1>1. /\ s.vp \in Rectangles /\ s.scOn \in BOOLEAN /\ s.scGl \in Rectangles
      /\ s.sc \in Rectangles \X Extents /\ s.blend \in BOOLEAN
  <2>1. /\ was.vp \in Rectangles /\ was.scOn \in BOOLEAN /\ was.sc \in Rectangles
        /\ was.scAt \in Extents
    BY DEF Suspension
  <2>2. <<was.sc, was.scAt>> \in Rectangles \X Extents
    BY <2>1
  <2>3. /\ s.vp = was.vp /\ s.scOn = was.scOn /\ s.scGl = was.sc /\ s.sc = <<was.sc, was.scAt>>
        /\ s.blend = FALSE
    BY DEF SavedIs
  <2>4. s.vp \in Rectangles /\ s.scOn \in BOOLEAN /\ s.scGl \in Rectangles /\ s.blend \in BOOLEAN
    BY <2>1, <2>3
  <2>5. s.sc \in Rectangles \X Extents
    BY <2>2, <2>3
  <2> QED
    BY <2>4, <2>5
<1>2. s = [field \in StateFields |-> s[field]]
  BY DEF SavedIs, IsState
<1> QED
  BY <1>1, <1>2 DEF State, StateFields

LEMMA DiagramImages ==
    /\ IsTarget(DiagramTarget) /\ ImagesOf(DiagramTarget) = Diagram
<1>1. None \notin Images
  BY NoneAssumption
<1> QED
  BY <1>1, NamedImages DEF IsTarget, DiagramTarget, ImagesOf, Diagram

\* The diagram's pass is open, its state kept for what comes after it.
LEMMA DiagramBegins ==
    ASSUME IInv, ~fbo.draw
    PROVE  LET q == BegunDiagram(raster)
           IN /\ Shaped(q) /\ q.mode = "DIAGRAM_DRAW" /\ DiagramOpen(q) /\ Sees(q)
              /\ q.state = DiagramState(raster.state) /\ q.faults = raster.faults
              /\ q.saved = IF raster.saved = None THEN [raster.state EXCEPT !.blend = FALSE]
                           ELSE raster.saved
<1> DEFINE c == [Closed(raster) EXCEPT !.mode = "NONE"]
           b == BarriersTo(c, DiagramTarget, "attachment")
           open == BeginPass(b, Attached(Diagram))
           saved == IF raster.saved = None THEN [raster.state EXCEPT !.blend = FALSE]
                    ELSE raster.saved
           s == DiagramState(raster.state)
           d == [open EXCEPT !.saved = saved, !.state = s, !.mode = "DIAGRAM_DRAW"]
           dyn == Replayed(d)
           q == BegunDiagram(raster)
<1>1. raster.mode # "FRAMEBUFFER_DRAW" /\ Shaped(raster) /\ Passes(raster)
  BY DEF IInv, Inv, Types, Passes, Settled, FramebufferOpen
<1>2. Rests(raster, c)
  BY <1>1, ClosedRests
<1> HIDE DEF c
<1>3. Moves(c, b, [i \in Images |-> IF i \in Diagram THEN "attachment" ELSE c.layout[i]])
  BY <1>2, DiagramImages, BarriersToMoves DEF Rests, Settled, Layouts
<1> HIDE DEF b
<1>4. \A i \in Diagram : b.layout[i] = "attachment"
  BY <1>3, NamedImages DEF Moves
<1>5. open = [b EXCEPT !.pass = Attached(Diagram)]
  <2>1. \A i \in DOMAIN Attached(Diagram) : b.layout[i] = Attached(Diagram)[i]
    BY <1>4 DEF Attached
  <2> QED
    BY <1>3, <2>1, PassBegins DEF Moves, Idle
<1>6. Readable(b, {})
  <2>1. Readable(c, {})
    BY <1>2 DEF Rests, Settled
  <2>2. b.layout = [i \in Images |-> IF i \in Diagram THEN "attachment" ELSE c.layout[i]]
    BY <1>3 DEF Moves
  <2> QED
    BY <2>1, <2>2, NamedImages DEF Readable, Diagram, Fixed
<1> HIDE DEF open
<1>7. /\ Shaped(open) /\ open.pass = Attached(Diagram) /\ open.track = b.track
      /\ open.layout = b.layout /\ open.state = raster.state /\ open.saved = raster.saved
      /\ open.faults = raster.faults
  BY <1>2, <1>3, <1>5 DEF Rests, Moves, Same, Shaped, Fields
<1>8. q = [d EXCEPT !.dyn = dyn]
  BY <1>1, <1>7 DEF BegunDiagram, Sync, c, b, open
<1> HIDE DEF saved, s
<1>9. /\ Shaped(d) /\ d.mode = "DIAGRAM_DRAW" /\ d.state = s /\ d.saved = saved
      /\ d.pass = open.pass /\ d.track = open.track /\ d.layout = open.layout
      /\ d.faults = open.faults /\ d.active = open.active
  BY <1>7 DEF Shaped, Fields
<1> HIDE DEF d, dyn, q
<1>10. /\ Shaped(q) /\ q.mode = "DIAGRAM_DRAW" /\ q.state = s /\ q.saved = saved
       /\ q.pass = d.pass /\ q.track = d.track /\ q.layout = d.layout
       /\ q.faults = d.faults /\ q.active = d.active /\ q.dyn = dyn
  BY <1>8, <1>9 DEF Shaped, Fields
<1>11. Sees(q)
  <2>1. Replayed(q) = Replayed(d)
    BY <1>9, <1>10, ReplayedSame
  <2> QED
    BY <1>10, <2>1 DEF Sees, dyn
<1>12. DiagramOpen(q)
  BY <1>3, <1>4, <1>6, <1>7, <1>9, <1>10 DEF DiagramOpen, Readable, Moves, Idle
<1> QED
  BY <1>7, <1>9, <1>10, <1>11, <1>12 DEF q, saved, s

LEMMA BeginDiagramStep ==
    ASSUME Obedient, IInv, BeginDiagram
    PROVE  IInv'
<1> DEFINE was == Suspended
           suspended == IF InDiagram THEN client.suspended ELSE was
           s == raster.state
<1>0. /\ ~fbo.draw /\ fbo' = fbo /\ raster' = BegunDiagram(raster)
      /\ client' = [client EXCEPT !.suspended = suspended,
                                  !.vp = "diagram", !.scOn = TRUE, !.sc = "diagram",
                                  !.scAt = "window", !.boundary = FALSE]
  BY DEF IInv, Inv, Types, IsClient, BeginDiagram, Obedient, Lapse
<1>1. IsClient(client) /\ IsFramebuffer(fbo) /\ Agrees(raster, client) /\ InStep(raster, client)
  BY DEF IInv, Inv, Types
<1>2. None \notin Suspension /\ None \notin State
  BY NoneAssumption
<1>3. was \in Suspension
  BY <1>1 DEF Suspended, Suspension, IsClient
<1>4. suspended \in Suspension
  BY <1>1, <1>3 DEF InDiagram, IsClient
<1> HIDE DEF suspended
<1>5. IsClient(client')
  BY <1>0, <1>1, <1>4 DEF IsClient, Rectangles, Extents
<1>6. /\ client'.vp = "diagram" /\ client'.scOn = TRUE /\ client'.sc = "diagram"
      /\ client'.scAt = "window" /\ client'.boundary = FALSE /\ client'.blend = client.blend
      /\ client'.suspended = suspended
  BY <1>0, <1>1 DEF IsClient
<1>7. /\ Shaped(raster') /\ raster'.mode = "DIAGRAM_DRAW" /\ DiagramOpen(raster') /\ Sees(raster')
      /\ raster'.state = DiagramState(raster.state) /\ raster'.faults = raster.faults
      /\ raster'.saved = IF raster.saved = None THEN [raster.state EXCEPT !.blend = FALSE]
                         ELSE raster.saved
  BY <1>0, DiagramBegins
<1>8. StateIs(raster'.state, client')
  <2>1. StateIs(s, client) /\ raster'.state = DiagramState(s)
    BY <1>1, <1>7 DEF Agrees
  <2> HIDE DEF s
  <2> QED
    BY <1>6, <2>1 DEF StateIs, IsState, StateFields, DiagramState
<1>9. SavedIs(raster'.saved, suspended)
  <2>1. CASE InDiagram
    <3>1. SavedIs(raster.saved, client.suspended) /\ client.suspended \in Suspension
      BY <1>1, <2>1 DEF Agrees, InDiagram, IsClient
    <3>2. raster.saved # None
      BY <1>2, <3>1, SavedState
    <3> QED
      BY <1>7, <2>1, <3>1, <3>2 DEF suspended
  <2>2. CASE ~InDiagram
    <3>1. /\ StateIs(s, client) /\ s.scGl = client.sc
          /\ raster'.saved = [s EXCEPT !.blend = FALSE] /\ suspended = Suspended
      BY <1>1, <1>7, <2>2 DEF Agrees, InDiagram, suspended
    <3> HIDE DEF s
    <3> QED
      BY <3>1 DEF StateIs, SavedIs, IsState, StateFields, Suspended
  <2> QED
    BY <2>1, <2>2
<1>10. Inv(raster', client')
  <2>1. Types(raster', client') /\ Passes(raster') /\ Sees(raster') /\ Shown(raster', client')
    BY <1>1, <1>5, <1>7 DEF Types, Passes, Shown, OffScreen
  <2>2. InStep(raster', client')
    BY <1>2, <1>4, <1>6, <1>7 DEF InStep
  <2>3. Agrees(raster', client')
    BY <1>2, <1>4, <1>6, <1>7, <1>8, <1>9 DEF Agrees
  <2>4. Allowed(raster'.faults)
    BY <1>7 DEF IInv, Inv
  <2> QED
    BY <2>1, <2>2, <2>3, <2>4 DEF Inv
<1> QED
  BY <1>0, <1>10, SameFramebuffer

LEMMA PostDiagramStep ==
    ASSUME Obedient, IInv, PostDiagram
    PROVE  IInv'
<1> DEFINE was == client.suspended
           c == [Closed(raster) EXCEPT !.mode = "NONE"]
           b == BarriersTo(c, DiagramTarget, "read")
           open == SwitchOverlayPost(b)
           x == PostCopied(open)
           s == [x.saved EXCEPT !.blend = x.state.blend]
<1>0. /\ was # None /\ fbo' = fbo /\ raster' = PostedDiagram(raster, TRUE)
      /\ client' = [client EXCEPT !.vp = was.vp, !.scOn = was.scOn, !.sc = was.sc,
                                  !.scAt = was.scAt, !.suspended = None, !.post = TRUE]
  BY DEF IInv, Inv, Types, IsClient, PostDiagram, InDiagram, Obedient, Lapse
<1>1. IsClient(client) /\ IsFramebuffer(fbo) /\ Agrees(raster, client) /\ InStep(raster, client)
  BY DEF IInv, Inv, Types
<1>2. /\ raster.mode = "DIAGRAM_DRAW" /\ was \in Suspension
      /\ StateIs(raster.state, client) /\ SavedIs(raster.saved, was)
  BY <1>0, <1>1 DEF InStep, Agrees, IsClient
<1>3. raster.saved # None
  BY <1>2, SavedState, NoneAssumption
<1>4. Rests(raster, c)
  BY <1>2, ClosedRests DEF IInv, Inv, Types
<1> HIDE DEF c
<1>5. Rests(c, b) /\ b.layout["diagramColor"] = "read"
  <2>1. Moves(c, b, [i \in Images |-> IF i \in Diagram THEN "read" ELSE c.layout[i]])
    BY <1>4, DiagramImages, BarriersToMoves DEF Rests, Settled, Layouts
  <2> HIDE DEF b
  <2>2. b.layout = [i \in Images |-> IF i \in Diagram THEN "read" ELSE c.layout[i]]
    BY <2>1 DEF Moves
  <2>3. Readable(b, {}) /\ Grows(c, b)
    BY <1>4, <2>2, NamedImages DEF Rests, Settled, Readable, Grows
  <2>4. Rests(c, b)
    BY <1>4, <2>1, <2>3 DEF Rests, Moves, Same, Settled
  <2>5. b.layout["diagramColor"] = "read"
    BY <2>2, NamedImages DEF Diagram
  <2> QED
    BY <2>4, <2>5
<1> HIDE DEF b
<1>6. /\ PostOpen(b, open)
      /\ open.layout = [b.layout EXCEPT !["post"] = "attachment", !["color"] = "read"]
  BY <1>5, PostOpens DEF Rests
<1> HIDE DEF open
<1>7. Blame(PostDrawn(open), When(open.layout["diagramColor"] # "read", "layout")) = open
  <2>1. open.layout["diagramColor"] = "read"
    BY <1>5, <1>6, NamedImages DEF Rests, Shaped, Diagram
  <2>2. When(open.layout["diagramColor"] # "read", "layout") = {}
    BY <2>1 DEF When
  <2>3. PostDrawn(open) = open /\ Shaped(open)
    BY <1>6, PostDraws DEF PostOpen
  <2> QED
    BY <2>2, <2>3, BlameNothing
<1>8. Rests(b, x)
  BY <1>6, PostCopies
<1>9. raster' = Restored(x)
  BY <1>0, <1>2, <1>7 DEF PostedDiagram, c, b, open
<1> HIDE DEF x
<1>10. Rests(raster, x)
  BY <1>4, <1>5, <1>8, RestsOn
<1>11. raster' = [x EXCEPT !.state = s, !.saved = None]
  BY <1>3, <1>9, <1>10 DEF Restored, Rests
<1>12. SavedIs(x.saved, was) /\ x.state.blend = client.blend /\ x.faults = raster.faults
  BY <1>2, <1>10 DEF Rests, StateIs
<1> HIDE DEF s
<1>13. /\ Shaped(raster') /\ Settled(raster') /\ raster'.state = s /\ raster'.saved = None
       /\ raster'.faults = raster.faults
  BY <1>10, <1>11, <1>12 DEF Rests, Shaped, Fields, Settled, Idle, Readable
<1>14. /\ was.vp \in Rectangles /\ was.scOn \in BOOLEAN /\ was.sc \in Rectangles
       /\ was.scAt \in Extents
  BY <1>2 DEF Suspension
<1> HIDE DEF was
<1>15. IsClient(client')
  BY <1>0, <1>1, <1>14 DEF IsClient
<1>16. /\ client'.vp = was.vp /\ client'.scOn = was.scOn /\ client'.sc = was.sc
       /\ client'.scAt = was.scAt /\ client'.blend = client.blend
       /\ client'.suspended = None /\ client'.post = TRUE /\ client'.boundary = client.boundary
  BY <1>0, <1>1 DEF IsClient
<1>17. StateIs(s, client') /\ s.scGl = client'.sc
  BY <1>12, <1>16 DEF s, SavedIs, StateIs, IsState, StateFields
<1>18. Inv(raster', client')
  <2>1. Types(raster', client') /\ Passes(raster') /\ Sees(raster') /\ Shown(raster', client')
    BY <1>1, <1>13, <1>15, <1>16 DEF Types, Passes, Sees, Shown, Settled
  <2>2. InStep(raster', client') /\ Agrees(raster', client')
    BY <1>13, <1>16, <1>17 DEF InStep, Agrees, Settled
  <2>3. Allowed(raster'.faults)
    BY <1>13 DEF IInv, Inv
  <2> QED
    BY <2>1, <2>2, <2>3 DEF Inv
<1> QED
  BY <1>0, <1>18, SameFramebuffer

-----------------------------------------------------------------------------
(* The theorems                                                            *)

LEMMA InitInv ==
    ASSUME Init
    PROVE  IInv
<1>1. Shaped(raster)
  BY DEF Init, Shaped, Fields, Layouts, InitialState, NoPass
<1>2. IsFramebuffer(fbo) /\ IsClient(client)
  BY DEF Init, IsFramebuffer, IsClient, Rectangles, Extents
<1>3. Settled(raster)
  BY NamedImages DEF Init, Settled, Idle, Readable, Fixed
<1>4. Sees(raster) /\ InStep(raster, client) /\ Shown(raster, client) /\ Allowed(raster.faults)
  BY DEF Init, Sees, InStep, Shown, Allowed
<1>5. Agrees(raster, client)
  BY DEF Init, Agrees, StateIs, IsState, StateFields, InitialState
<1> QED
  BY <1>1, <1>2, <1>3, <1>4, <1>5 DEF IInv, Inv, Types, Passes

LEMMA NextInv ==
    ASSUME Obedient, IInv, [Next]_vars
    PROVE  IInv'
<1>1. ASSUME NEW rect \in Rects, SetViewport(rect) \/ SetScissor(rect)
      PROVE  IInv'
  BY <1>1, SetViewportStep, SetScissorStep
<1>2. ASSUME NEW enabled \in BOOLEAN, SetScissorEnabled(enabled) \/ SetBlend(enabled)
      PROVE  IInv'
  BY <1>2, SetScissorEnabledStep, SetBlendStep
<1>3. ASSUME NEW draw \in BOOLEAN, NEW read \in BOOLEAN, BindFramebuffer(draw, read)
      PROVE  IInv'
  BY <1>3, BindFramebufferStep
<1>4. ASSUME NEW color \in Textures \cup {"color", None}, Attach(color, fbo.depth)
      PROVE  IInv'
  <2>1. fbo.depth \in {"depth", None}
    BY DEF IInv, Inv, Types, IsFramebuffer
  <2> QED
    BY <1>4, <2>1, AttachStep
<1>5. ASSUME NEW depth \in {"depth", None}, Attach(fbo.color, depth)
      PROVE  IInv'
  <2>1. fbo.color \in Textures \cup {"color", None}
    BY DEF IInv, Inv, Types, IsFramebuffer
  <2> QED
    BY <1>5, <2>1, AttachStep
<1>6. ASSUME Draw PROVE IInv'
  BY <1>6, DrawStep
<1>7. ASSUME NEW how \in {"nothing", "rectangle", "masked"}, Clear(how)
      PROVE  IInv'
  BY <1>7, ClearStep
<1>8. ASSUME NEW buffers \in Masks, Blit(buffers)
      PROVE  IInv'
  BY <1>8, BlitStep
<1>9. ASSUME BeginDiagram PROVE IInv'
  BY <1>9, BeginDiagramStep
<1>10. ASSUME PostDiagram PROVE IInv'
  BY <1>10, PostDiagramStep
<1>11. ASSUME PostBlur PROVE IInv'
  BY <1>11, PostBlurStep
<1>12. ASSUME NEW spider \in BOOLEAN, PostEntityEffect(spider)
       PROVE  IInv'
  BY <1>12, PostEntityEffectStep
<1>13. ASSUME FuseWorld PROVE IInv'
  BY <1>13, FuseWorldStep
<1>14. ASSUME FlushForReadback PROVE IInv'
  BY <1>14, FlushForReadbackStep
<1>15. ASSUME NextFrame PROVE IInv'
  BY <1>15, NextFrameStep
<1>16. ASSUME UNCHANGED vars PROVE IInv'
  <2>1. UNCHANGED fbo /\ raster' = raster /\ client' = client
    BY <1>16 DEF vars
  <2>2. Inv(raster', client')
    BY <2>1 DEF IInv
  <2> QED
    BY <2>1, <2>2, SameFramebuffer
<1> QED
  BY <1>1, <1>2, <1>3, <1>4, <1>5, <1>6, <1>7, <1>8, <1>9, <1>10, <1>11, <1>12, <1>13, <1>14, <1>15,
     <1>16 DEF Next

\* The invariant holds in every behaviour of a client with no lapse but those two.
THEOREM Inductive == Lapses \subseteq {"scissor", "alias"} => (Spec => []IInv)
<1> SUFFICES ASSUME Obedient
             PROVE  Spec => []IInv
  BY DEF Obedient
<1>1. Init => IInv
  BY InitInv
<1>2. IInv /\ [Next]_vars => IInv'
  BY NextInv
<1> QED
  BY <1>1, <1>2, PTL DEF Spec

\* Every draw, clear and effect is recorded in the pass over its attachments, and barriers,
\* copies and blits outside passes, whatever the client does between two draws.
THEOREM PassesLegal == Lapses \subseteq {"scissor", "alias"} => (Spec => []PassesAreLegal)
<1> SUFFICES ASSUME Lapses \subseteq {"scissor", "alias"}
             PROVE  Spec => []PassesAreLegal
  OBVIOUS
<1>1. IInv => PassesAreLegal
  BY DEF IInv, Inv, Allowed, PassesAreLegal
<1>2. Spec => []IInv
  BY Inductive
<1> QED
  BY <1>1, <1>2, PTL

\* The layout noted beside an image is the one the commands leave it in, and every use of
\* an image finds it in the layout it needs.
THEOREM LayoutsAreNoted == Lapses \subseteq {"scissor", "alias"} => (Spec => []LayoutsAgree)
<1> SUFFICES ASSUME Lapses \subseteq {"scissor", "alias"}
             PROVE  Spec => []LayoutsAgree
  OBVIOUS
<1>1. IInv => LayoutsAgree
  <2> SUFFICES ASSUME IInv
               PROVE  LayoutsAgree
    OBVIOUS
  <2>1. "layout" \notin raster.faults
    BY DEF IInv, Inv, Allowed
  <2>2. raster.mode = "NONE" => raster.track = raster.layout
    BY DEF IInv, Inv, Passes, Settled, Idle
  <2> QED
    BY <2>1, <2>2 DEF LayoutsAgree
<1>2. Spec => []IInv
  BY Inductive
<1> QED
  BY <1>1, <1>2, PTL

\* A draw or clear sees the viewport, scissor and blending the client set last, also where
\* an alias is sampled too late.
THEOREM StateIsSeen == Lapses \subseteq {"alias"} => (Spec => []DrawsSeeTheState)
<1> SUFFICES ASSUME Lapses \subseteq {"alias"}
             PROVE  Spec => []DrawsSeeTheState
  OBVIOUS
<1>1. IInv => DrawsSeeTheState
  BY DEF IInv, Inv, Allowed, Lapse, DrawsSeeTheState
<1>2. Spec => []IInv
  BY Inductive
<1> QED
  BY <1>1, <1>2, PTL

\* An alias of the main colour sampled off screen shows it as it was last drawn, also where
\* a scissor is not set again for another target.
THEOREM AliasesCurrent == Lapses \subseteq {"scissor"} => (Spec => []AliasesAreCurrent)
<1> SUFFICES ASSUME Lapses \subseteq {"scissor"}
             PROVE  Spec => []AliasesAreCurrent
  OBVIOUS
<1>1. IInv => AliasesAreCurrent
  BY DEF IInv, Inv, Allowed, Lapse, AliasesAreCurrent
<1>2. Spec => []IInv
  BY Inductive
<1> QED
  BY <1>1, <1>2, PTL
=============================================================================
