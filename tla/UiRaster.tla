------------------------------ MODULE UiRaster ------------------------------
(***************************************************************************)
(* How the interface is recorded: UIModuleContext, the overlay command     *)
(* buffer it fills, and the framebuffers the client binds.  The client     *)
(* speaks OpenGL: it sets state and draws, in any order.  Passes are       *)
(* opened when a draw needs one, the state the client set is kept beside   *)
(* them and written again into each, and every image carries on the CPU    *)
(* the layout that the recorded commands will have left it in.             *)
(*                                                                         *)
(* A rectangle stands for itself and for the extent its vertical flip was  *)
(* computed with.  Dynamic state is forgotten at the end of a pass:        *)
(* nothing may count on what an earlier pass left.  One context is         *)
(* modelled; the others have images of their own and inherit its state.    *)
(***************************************************************************)
EXTENDS Integers, FiniteSets

CONSTANTS Small,    \* colour textures smaller than the window
          Large,    \* colour textures of its size
          Rects,    \* rectangles the client uses
          Aliases,  \* main attachments with an alias bound as a texture: "color", "depth"
          Lapses,   \* ways a client may break its protocol
          None      \* no attachment, nothing saved

LapseNames == {"scissor", "interrupt", "nested", "uniform", "unwritten", "late", "alias"}

ASSUME AliasesAssumption == Aliases \subseteq {"color", "depth"}
ASSUME LapsesAssumption == Lapses \subseteq LapseNames

Main == {"color", "depth"}                 \* overlayDrawColorImage, overlayDrawDepthStencilImage
Diagram == {"diagramColor", "diagramDepth"}
AliasOf == [color |-> "aliasColor", depth |-> "aliasDepth"]
Textures == Small \cup Large
Fixed == Main \cup Diagram \cup {"post", "spiderSmall", "aliasColor", "aliasDepth"}
Images == Fixed \cup Textures

ASSUME TexturesAssumption == Small \cap Large = {} /\ Textures \cap Fixed = {}

\* Layouts are "undefined", "attachment", "read", "present", "source", "target", "general";
\* modes are "NONE", "DRAW", "DIAGRAM_DRAW", "POST", "FRAMEBUFFER_DRAW".
Extent(image) == IF image \in Small THEN "small" ELSE "window"

\* The buffers the client blits together.
Masks == {{"color"}, {"depth"}, {"depth", "stencil"}}

\* Rectangles, the state of a recorder, and what a client keeps of its own through a diagram.
Rectangles == Rects \cup {"window", "diagram"}
Extents == {"small", "window"}
State == [vp : Rectangles, scOn : BOOLEAN, scGl : Rectangles, sc : Rectangles \X Extents,
          blend : BOOLEAN]
Suspension == [vp : Rectangles, scOn : BOOLEAN, sc : Rectangles, scAt : Extents]

ASSUME NoneAssumption == None \notin Images \cup State \cup Suspension

VARIABLES
    raster, \* UIModuleContext and what it has recorded
    fbo,    \* the framebuffer of the registry, and whether it is bound
    client  \* what the client set last, and where it is in its frame

vars == <<raster, fbo, client>>

NoPass == [i \in {} |-> "attachment"]
Lost == [vp |-> None, sc |-> None, blend |-> None]
MainTarget == [color |-> "color", depth |-> "depth"]
DiagramTarget == [color |-> "diagramColor", depth |-> "diagramDepth"]
InitialState == [vp |-> "window", scOn |-> FALSE, scGl |-> "window",
                 sc |-> <<"window", "window">>, blend |-> FALSE]

Init ==
    /\ raster = [mode |-> "NONE", active |-> MainTarget, state |-> InitialState, saved |-> None,
                 track |-> [i \in Images |-> IF i \in Textures THEN "read" ELSE "undefined"],
                 layout |-> [i \in Images |-> IF i \in Textures THEN "read" ELSE "undefined"],
                 pass |-> NoPass, dyn |-> Lost, stale |-> FALSE, faults |-> {}]
    /\ fbo = [draw |-> FALSE, read |-> FALSE, color |-> None, depth |-> None]
    /\ client = [vp |-> "window", scOn |-> FALSE, sc |-> "window", scAt |-> "window",
                 blend |-> FALSE, suspended |-> None, boundary |-> FALSE, post |-> FALSE]

-----------------------------------------------------------------------------
\* Commands.  r is the recorder; a command the API forbids is a fault.

Blame(r, faults) == [r EXCEPT !.faults = @ \cup faults]
When(condition, fault) == IF condition THEN {fault} ELSE {}

Track(r, image, layout) == [r EXCEPT !.track[image] = layout]

\* vkCmdPipelineBarrier2 with the tracked layout as the old one, outside passes.
Barrier(r, image, new) ==
    LET wrong == new = "undefined" \/ r.track[image] # r.layout[image]
    IN Blame([r EXCEPT !.track[image] = new, !.layout[image] = new],
             When(r.pass # NoPass, "pass") \cup When(wrong, "layout"))
BarriersTo(r, target, new) ==
    LET colored == Barrier(r, target.color, new)
    IN IF target.depth = None THEN colored ELSE Barrier(colored, target.depth, new)

\* A pass is the layouts it finds its attachments in, and leaves them in.
BeginPass(r, pass) ==
    Blame([r EXCEPT !.pass = pass],
          When(r.pass # NoPass, "pass")
            \cup When(\E i \in DOMAIN pass : r.layout[i] # pass[i], "layout"))

EndPass(r) == Blame([r EXCEPT !.pass = NoPass, !.dyn = Lost], When(r.pass = NoPass, "pass"))

Attached(images) == [i \in images |-> "attachment"]
MainPass == [i \in Main |-> IF i = "color" THEN "present" ELSE "attachment"]

ImagesOf(target) == {target.color, target.depth} \ {None}

\* A copy or blit into, or out of, an image.
Transfer(r, image, layout) ==
    Blame(r, When(r.pass # NoPass, "pass") \cup When(r.layout[image] # layout, "layout"))
Wrote(r, images) == [r EXCEPT !.stale = @ \/ "color" \in images]

-----------------------------------------------------------------------------
\* The framebuffer of the registry, and the extent draws have.

Bound == [color |-> fbo.color, depth |-> fbo.depth]
Complete(target) ==
    /\ target.color # None
    /\ target.depth # None => Extent(target.depth) = Extent(target.color)

DrawExtent(r) ==
    CASE r.mode = "FRAMEBUFFER_DRAW" -> Extent(r.active.color)
      [] r.mode # "FRAMEBUFFER_DRAW" /\ r.mode # "DIAGRAM_DRAW" /\ fbo.draw /\ Complete(Bound) ->
            Extent(fbo.color)
      [] OTHER -> "window"

\* syncToCommandBuffer(): the state, as commands; only an off-screen draw keeps its blend alpha.
Replayed(r) ==
    [vp |-> <<r.state.vp, DrawExtent(r)>>,
     sc |-> IF r.state.scOn THEN r.state.sc ELSE <<"full", DrawExtent(r)>>,
     blend |-> <<r.state.blend, r.mode = "FRAMEBUFFER_DRAW">>]
Sync(r) == [r EXCEPT !.dyn = Replayed(r)]

\* A setter records nothing outside a pass: deferIdleStateWrite().
Told(r, field) == IF r.mode = "NONE" THEN r ELSE [r EXCEPT !.dyn[field] = Replayed(r)[field]]

ScissorSet(r, rect) ==
    Told([r EXCEPT !.state.scGl = rect, !.state.sc = <<rect, DrawExtent(r)>>], "sc")

-----------------------------------------------------------------------------
\* Ending and opening passes.

\* captureMainAliases(): the main attachments, copied to the images their aliases show.
Copied(r, image, final) ==
    LET alias == AliasOf[image]
        moved == Barrier(Barrier(r, image, "source"), alias, "target")
    IN Barrier(Barrier(Transfer(Transfer(moved, image, "source"), alias, "target"), image, final),
               alias, "read")
Capture(r) ==
    LET c == IF "color" \in Aliases
             THEN [Copied(r, "color", "present") EXCEPT !.stale = FALSE]
             ELSE r
    IN IF "depth" \in Aliases THEN Copied(c, "depth", "attachment") ELSE c

\* endFramebufferDraw(): its attachments can be sampled, and the aliases show what it drew.
Uncaptured(r) ==
    [BarriersTo(EndPass(r), r.active, "read") EXCEPT !.mode = "NONE", !.active = MainTarget]
EndFramebufferDraw(r) ==
    IF ImagesOf(r.active) \cap Main # {} THEN Capture(Uncaptured(r)) ELSE Uncaptured(r)

\* As if what a pass left were not noted.
Unnoted(r) == IF r.mode \in {"DRAW", "DIAGRAM_DRAW", "POST"} THEN EndPass(r) ELSE r

\* The pass of DRAW, DIAGRAM_DRAW or POST ends, and the layouts it left are noted.
Closed(r) ==
    CASE r.mode = "DRAW" -> Track(Track(EndPass(r), "color", "present"), "depth", "attachment")
      [] r.mode = "DIAGRAM_DRAW" -> Track(Track(EndPass(r), "diagramColor", "attachment"),
                                          "diagramDepth", "attachment")
      [] r.mode = "POST" -> Track(EndPass(r), "post", "attachment")
      [] OTHER -> r

\* end(): a diagram cut short takes the state saved for it along.
End(r) ==
    CASE r.mode = "FRAMEBUFFER_DRAW" -> EndFramebufferDraw(r)
      [] r.mode = "DRAW" -> [Capture(Closed(r)) EXCEPT !.mode = "NONE"]
      [] r.mode = "DIAGRAM_DRAW" -> [Closed(r) EXCEPT !.saved = None, !.mode = "NONE"]
      [] r.mode = "POST" -> [Barrier(EndPass(r), "color", "present") EXCEPT !.mode = "NONE"]
      [] OTHER -> r

\* switchFramebufferDraw(): without complete attachments it throws, the pass before it ended.
SwitchFramebufferDraw(r) ==
    IF r.mode = "FRAMEBUFFER_DRAW" THEN r
    ELSE IF ~Complete(Bound) THEN End(r)
    ELSE LET opened == BeginPass(BarriersTo(End(r), Bound, "attachment"), Attached(ImagesOf(Bound)))
             switched == [opened EXCEPT !.active = Bound, !.mode = "FRAMEBUFFER_DRAW"]
         IN Sync(ScissorSet(switched, switched.state.scGl))

\* switchOverlayDraw(): a diagram keeps the draws while it lasts.
OpenMain(r) ==
    LET ready == Barrier(Barrier(Closed(r), "color", "present"), "depth", "attachment")
        opened == Sync(BeginPass(ready, MainPass))
    IN [Track(opened, "color", "attachment") EXCEPT !.mode = "DRAW"]
SwitchOverlayDraw(r) ==
    IF fbo.draw THEN SwitchFramebufferDraw(r)
    ELSE LET s == IF r.mode = "FRAMEBUFFER_DRAW" THEN EndFramebufferDraw(r) ELSE r
         IN IF s.mode \in {"DRAW", "DIAGRAM_DRAW"} THEN s ELSE OpenMain(s)

\* switchOverlayPost(): over an open framebuffer or diagram pass nothing but the mode changes.
SwitchOverlayPost(r) ==
    LET ready == Barrier(Barrier(Closed(r), "post", "attachment"), "color", "read")
        opened == BeginPass(ready, Attached({"post"}))
        entered == IF r.mode = "NONE" THEN Sync(opened) ELSE opened
    IN [IF r.mode \in {"NONE", "DRAW"} THEN entered ELSE r EXCEPT !.mode = "POST"]

-----------------------------------------------------------------------------
\* What draws, clears, effects and copies record.

Target == IF fbo.draw THEN Bound
          ELSE IF client.suspended # None THEN DiagramTarget
          ELSE MainTarget

\* The state the client's draw is to see.
Expected ==
    LET extent == Extent(Target.color)
    IN [vp |-> <<client.vp, extent>>,
        sc |-> IF client.scOn THEN <<client.sc, extent>> ELSE <<"full", extent>>,
        blend |-> <<client.blend, fbo.draw>>]

\* A draw samples images in the layout their descriptors name; what an alias shows off
\* screen is the main target as it is.
Drawn(r, samples) ==
    Wrote(Blame(r, When(DOMAIN r.pass # ImagesOf(Target), "target")
                     \cup When(r.dyn # Expected, "state")
                     \cup When(\E i \in samples : r.layout[i] # "read", "layout")
                     \cup When("aliasColor" \in samples /\ fbo.draw /\ r.stale, "alias")),
          DOMAIN r.pass)

\* clearMaskedFramebuffer() draws with state of its own, and writes the client's again.
Cleared(r, masked) ==
    LET rect == IF r.state.scOn THEN r.state.sc ELSE <<"full", DrawExtent(r)>>
        drawn == Wrote(Blame(r, When(DOMAIN r.pass # ImagesOf(Target), "target")
                                  \cup When(rect # Expected.sc, "state")), DOMAIN r.pass)
    IN IF masked THEN Sync([drawn EXCEPT !.dyn = Lost]) ELSE drawn

\* A post effect: the open pass draws the main colour into an image of its own; that is copied back.
PostDrawn(r) ==
    Blame(r, When(DOMAIN r.pass # {"post"}, "target")
               \cup When(r.layout["color"] # "read", "layout"))
PostCopied(r) ==
    LET ended == [Track(EndPass(r), "post", "attachment") EXCEPT !.mode = "NONE"]
        copied == Transfer(Transfer(Barrier(Barrier(ended, "post", "source"), "color", "target"),
                                    "post", "source"), "color", "target")
    IN Wrote(Barrier(Barrier(copied, "post", "attachment"), "color", "read"), {"color"})

PostOverlay(r, blur) == PostCopied(PostDrawn(SwitchOverlayPost(IF blur THEN End(r) ELSE r)))

\* postSpider(): no barrier for an image already tracked in the layout.
Moved(r, image, layout) == IF r.track[image] = layout THEN r ELSE Barrier(r, image, layout)
SpiderPass(r, source, image) ==
    LET open == BeginPass(Moved(r, image, "attachment"), Attached({image}))
        drawn == Blame(open, When(open.layout[source] # "read", "layout"))
    IN Moved(Track(EndPass(drawn), image, "attachment"), image, "read")
PostSpider(r) ==
    LET closed == IF r.mode = "DRAW"
                  THEN Track(Track(EndPass(r), "color", "attachment"), "depth", "attachment")
                  ELSE IF r.mode = "FRAMEBUFFER_DRAW" THEN r ELSE Closed(r)
        main == Moved([closed EXCEPT !.mode = "NONE"], "color", "read")
        large == SpiderPass(SpiderPass(main, "color", "post"), "post", "diagramColor")
        small == SpiderPass(SpiderPass(large, "color", "post"), "post", "spiderSmall")
        open == BeginPass(Moved(small, "post", "attachment"), Attached({"post"}))
        sampled == {"color", "diagramColor", "spiderSmall"}
        drawn == Blame(open, When(\E i \in sampled : open.layout[i] # "read", "layout"))
        ended == Track(EndPass(drawn), "post", "attachment")
        copied == Transfer(Transfer(Moved(Moved(ended, "post", "source"), "color", "target"),
                                    "post", "source"), "color", "target")
    IN Wrote(Moved(Moved(copied, "post", "attachment"), "color", "read"), {"color"})

\* blitAttachment(): the destination is drawn; a source that is also the destination is
\* copied first.  The source gets its layout back.
BlitAttachment(r, source, destination) ==
    LET kept == r.track[source]
        saved == Barrier(Transfer(Barrier(r, source, "source"), source, "source"), source, kept)
        drawing == Barrier(IF source = destination THEN saved ELSE Barrier(r, source, "read"),
                           destination, "attachment")
        drawn == EndPass(BeginPass(drawing, Attached({destination})))
        restored == IF source = destination THEN drawn ELSE Barrier(drawn, source, kept)
        finished == Wrote(Barrier(restored, destination, "read"), {destination})
    IN IF destination \in Main THEN Capture(finished) ELSE finished

\* The stencil of depth attachments goes by a transfer.
BlitStencil(r, source, destination) ==
    LET general == source = destination
        from == IF general THEN "general" ELSE "source"
        into == IF general THEN "general" ELSE "target"
        moved == Barrier(Barrier(r, source, from), destination, into)
        copied == Transfer(Transfer(moved, source, from), destination, into)
    IN Barrier(Barrier(copied, source, "read"), destination, "read")

ReadTarget == IF fbo.read THEN Bound ELSE MainTarget
DrawTarget == IF fbo.draw THEN Bound ELSE MainTarget
BlitFramebuffer(r, buffers) ==
    LET both == ReadTarget.depth # None /\ DrawTarget.depth # None
        ended == End(r)
        c == IF "color" \in buffers THEN BlitAttachment(ended, ReadTarget.color, DrawTarget.color)
             ELSE ended
        d == IF "depth" \in buffers /\ both
             THEN BlitAttachment(c, ReadTarget.depth, DrawTarget.depth)
             ELSE c
    IN IF ~Complete(ReadTarget) \/ ~Complete(DrawTarget) THEN ended  \* throws
       ELSE IF "stencil" \in buffers /\ both
       THEN BlitStencil(d, ReadTarget.depth, DrawTarget.depth)
       ELSE d

\* fuseWorld(): the world's colour, and its depth when the pipeline exports one.
WriteMainDepth(r) == EndPass(BeginPass(Barrier(r, "depth", "attachment"), Attached({"depth"})))
Fused(r, exported) ==
    LET filled == Transfer(Barrier(End(r), "color", "target"), "color", "target")
        shown == Wrote(Barrier(filled, "color", "present"), {"color"})
    IN Capture(IF exported THEN WriteMainDepth(shown) ELSE shown)

\* beginDiagram(): only the first diagram since the last postDiagram() saves the state.
DiagramState(state) ==
    [state EXCEPT !.vp = "diagram", !.scOn = TRUE, !.sc = <<"diagram", "window">>]
BegunDiagram(r) ==
    LET closed == [IF r.mode = "FRAMEBUFFER_DRAW" THEN r ELSE Closed(r) EXCEPT !.mode = "NONE"]
        open == BeginPass(BarriersTo(closed, DiagramTarget, "attachment"), Attached(Diagram))
    IN Sync([open EXCEPT !.saved = IF @ = None THEN [r.state EXCEPT !.blend = FALSE] ELSE @,
                         !.state = DiagramState(@),
                         !.mode = "DIAGRAM_DRAW"])

\* As if the viewport were all that came back.
RestoredViewport(r) ==
    IF r.saved = None THEN r ELSE [r EXCEPT !.state.vp = r.saved.vp, !.saved = None]

\* postDiagram(): everything saved comes back but what a diagram does not set.
Restored(r) ==
    IF r.saved = None THEN r
    ELSE [r EXCEPT !.state = [r.saved EXCEPT !.blend = r.state.blend], !.saved = None]
PostedDiagram(r, uploaded) ==
    LET read == BarriersTo([Closed(r) EXCEPT !.mode = "NONE"], DiagramTarget, "read")
        open == SwitchOverlayPost(read)
        drawn == Blame(PostDrawn(open), When(open.layout["diagramColor"] # "read", "layout"))
    IN IF r.mode # "DIAGRAM_DRAW" THEN r
       ELSE IF ~uploaded THEN open  \* throws
       ELSE Restored(PostCopied(drawn))

-----------------------------------------------------------------------------
\* The client's protocol: what the code does not check, each rule with the lapse that drops it.

Lapse(name) == name \in Lapses
InDiagram == client.suspended # None

\* A scissor set or used for a framebuffer of another size is set again before it is used on
\* the main target.
ScissorFits == client.scOn /\ ~fbo.draw => client.scAt = "window" \/ Lapse("scissor")

\* Bindings, reads and frames come between diagrams, not inside one.
OutsideDiagram == ~InDiagram \/ Lapse("interrupt")

\* Nothing is read that nothing has written.
Written(images) == (\A i \in images : raster.layout[i] # "undefined") \/ Lapse("unwritten")

\* Nothing draws into a texture it samples, nor off screen into a main attachment whose alias it
\* samples; the main colour is sampled off screen after a draw that follows the last post effect.
\* Sampling changes nothing: a draw of all that may be sampled stands for every draw.
Sampled ==
    LET main == {i \in Aliases : fbo.draw => i \notin ImagesOf(Target)}
        fresh == {i \in main : i = "color" /\ fbo.draw => ~client.post \/ Lapse("alias")}
    IN {i \in (Textures \ ImagesOf(Target)) \cup {AliasOf[i] : i \in fresh} : Written({i})}

\* The client draws on: the frame is past its world effects.
ScissorAt == IF fbo.draw /\ Complete(Bound) THEN Extent(fbo.color) ELSE client.scAt
WentOn == [client EXCEPT !.boundary = FALSE, !.post = @ /\ fbo.draw, !.scAt = ScissorAt]

-----------------------------------------------------------------------------
\* Setters.

SetViewport(rect) ==
    /\ client' = [client EXCEPT !.vp = rect]
    /\ raster' = Told([raster EXCEPT !.state.vp = rect], "vp")
    /\ UNCHANGED fbo

SetScissorEnabled(enabled) ==
    /\ client' = [client EXCEPT !.scOn = enabled]
    /\ raster' = Told([raster EXCEPT !.state.scOn = enabled], "sc")
    /\ UNCHANGED fbo

SetScissor(rect) ==
    /\ client' = [client EXCEPT !.sc = rect,
                                !.scAt = IF fbo.draw /\ Complete(Bound) THEN Extent(fbo.color)
                                         ELSE "window"]
    /\ raster' = ScissorSet(raster, rect)
    /\ UNCHANGED fbo

SetBlend(enabled) ==
    /\ client' = [client EXCEPT !.blend = enabled]
    /\ raster' = Told([raster EXCEPT !.state.blend = enabled], "blend")
    /\ UNCHANGED fbo

\* FramebufferProxy: every change of a binding or an attachment ends the open pass.
BindFramebuffer(draw, read) ==
    /\ OutsideDiagram
    /\ fbo.draw # draw \/ fbo.read # read
    /\ raster' = End(raster)
    /\ fbo' = [fbo EXCEPT !.draw = draw, !.read = read]
    /\ UNCHANGED client

\* As if an attachment changed under the open pass.
AttachInPass(color, depth) ==
    /\ OutsideDiagram
    /\ fbo.draw \/ fbo.read
    /\ fbo' = [fbo EXCEPT !.color = color, !.depth = depth]
    /\ UNCHANGED <<raster, client>>

Attach(color, depth) ==
    /\ OutsideDiagram
    /\ fbo.draw \/ fbo.read
    /\ fbo.color # color \/ fbo.depth # depth
    /\ raster' = End(raster)
    /\ fbo' = [fbo EXCEPT !.color = color, !.depth = depth]
    /\ UNCHANGED client

-----------------------------------------------------------------------------
\* Draws and clears.

Draw ==
    LET switched == SwitchOverlayDraw(raster)
    IN /\ ScissorFits
       /\ raster' = IF switched.mode = "NONE" THEN switched ELSE Drawn(switched, Sampled)
       /\ client' = WentOn
       /\ UNCHANGED fbo

\* With every write masked off, the pass is open and nothing else.
Clear(how) ==
    LET switched == SwitchOverlayDraw(raster)
    IN /\ ScissorFits
       /\ raster' = IF switched.mode = "NONE" \/ how = "nothing" THEN switched
                    ELSE Cleared(switched, how = "masked")
       /\ client' = WentOn
       /\ UNCHANGED fbo

Blit(buffers) ==
    /\ OutsideDiagram
    /\ Written(ImagesOf(ReadTarget))
    /\ raster' = BlitFramebuffer(raster, buffers)
    /\ client' = [client EXCEPT !.boundary = FALSE]
    /\ UNCHANGED fbo

-----------------------------------------------------------------------------
\* Diagrams and effects.

Suspended == [vp |-> client.vp, scOn |-> client.scOn, sc |-> client.sc, scAt |-> client.scAt]

BeginDiagram ==
    /\ ~fbo.draw \/ Lapse("nested")
    /\ raster' = BegunDiagram(raster)
    /\ client' = [client EXCEPT !.suspended = IF InDiagram THEN @ ELSE Suspended,
                                !.vp = "diagram", !.scOn = TRUE, !.sc = "diagram",
                                !.scAt = "window", !.boundary = FALSE]
    /\ UNCHANGED fbo

PostDiagram ==
    /\ InDiagram
    /\ \E uploaded \in BOOLEAN :
        /\ uploaded \/ Lapse("uniform")
        /\ raster' = PostedDiagram(raster, uploaded)
    /\ LET was == client.suspended
       IN client' = [client EXCEPT !.vp = was.vp, !.scOn = was.scOn, !.sc = was.sc,
                                   !.scAt = was.scAt, !.suspended = None, !.post = TRUE]
    /\ UNCHANGED fbo

\* postBlur(6): another round after the second finds what that one found.
PostBlur ==
    /\ OutsideDiagram
    /\ Written({"color"})
    /\ raster' = PostOverlay(PostOverlay(raster, TRUE), TRUE)
    /\ client' = [client EXCEPT !.boundary = FALSE, !.post = TRUE]
    /\ UNCHANGED fbo

\* postEntityEffect(): called between the world and the interface.
PostEntityEffect(spider) ==
    /\ client.boundary \/ (Lapse("late") /\ OutsideDiagram)
    /\ raster' = IF spider THEN PostSpider(raster) ELSE PostOverlay(raster, FALSE)
    /\ client' = [client EXCEPT !.post = TRUE]
    /\ UNCHANGED fbo

-----------------------------------------------------------------------------
\* Frames.

FuseWorld ==
    /\ OutsideDiagram
    /\ \E exported \in BOOLEAN : raster' = Fused(raster, exported)
    /\ client' = [client EXCEPT !.boundary = TRUE, !.post = FALSE]
    /\ UNCHANGED fbo

\* flushForReadback(): the commands so far are submitted, and recording goes on in an empty buffer.
FlushForReadback ==
    /\ OutsideDiagram
    /\ raster' = [End(raster) EXCEPT !.dyn = Lost]
    /\ UNCHANGED <<fbo, client>>

\* The frame is submitted, its colour composed into the swapchain image; begin() of the next.
NextFrame ==
    /\ OutsideDiagram
    /\ raster' = Sync([Barrier(End(raster), "color", "general") EXCEPT !.mode = "NONE",
                                                                      !.dyn = Lost])
    /\ client' = [client EXCEPT !.boundary = FALSE]
    /\ UNCHANGED fbo

Next ==
    \/ \E rect \in Rects : SetViewport(rect) \/ SetScissor(rect)
    \/ \E enabled \in BOOLEAN : SetScissorEnabled(enabled) \/ SetBlend(enabled)
    \/ \E draw, read \in BOOLEAN : BindFramebuffer(draw, read)
    \/ \E color \in Textures \cup {"color", None} : Attach(color, fbo.depth)
    \/ \E depth \in {"depth", None} : Attach(fbo.color, depth)
    \/ Draw
    \/ \E how \in {"nothing", "rectangle", "masked"} : Clear(how)
    \/ \E buffers \in Masks : Blit(buffers)
    \/ BeginDiagram
    \/ PostDiagram
    \/ PostBlur
    \/ \E spider \in BOOLEAN : PostEntityEffect(spider)
    \/ FuseWorld
    \/ FlushForReadback
    \/ NextFrame

Spec == Init /\ [][Next]_vars

-----------------------------------------------------------------------------
(***************************************************************************)
(* Properties.                                                             *)
(***************************************************************************)

\* Whatever the client does between two draws, a draw, clear or effect is recorded in a pass
\* over the attachments bound then, or the diagram's while one lasts; no pass begins inside
\* another, and no barrier, copy or blit is recorded inside one: switchOverlayDraw(), end()
\* and the effects each close what the others may have left open.
PassesAreLegal == raster.faults \cap {"pass", "target"} = {}

\* The layout kept beside an image is the one the commands recorded so far leave it in, and
\* an image is attached, sampled and copied in the layout its use needs: the old layout of
\* every barrier is read from there, however the frame was interrupted.
LayoutsAgree ==
    /\ "layout" \notin raster.faults
    /\ raster.mode = "NONE" => raster.track = raster.layout

\* A draw or clear finds in the command buffer the viewport, scissor and blending the client
\* set last, flipped for the target it draws to: though setters record nothing outside
\* passes, passes end for reasons the client does not see, and a diagram sets state of its
\* own and gives the client's back.
DrawsSeeTheState == "state" \notin raster.faults

\* An alias of the main colour sampled off screen shows the main target as it was last
\* drawn: end(), endFramebufferDraw(), blitAttachment() and fuseWorld() copy it in time.
AliasesAreCurrent == "alias" \notin raster.faults
=============================================================================
