------------------------------ MODULE UiFrames ------------------------------
(***************************************************************************)
(* Path traced views of the interface: UiPathTracingProxy.  The client     *)
(* collects the views of a frame in a batch; endFrame() records them in    *)
(* the frame with one shared world, the engine, whose pipeline keeps a     *)
(* history of samples for each of two slots.  An engine that is too small  *)
(* is replaced, and its histories are closed at once, not when the frames  *)
(* that use it retire.                                                     *)
(***************************************************************************)
EXTENDS Integers, Sequences, SequencesExt, FiniteSets

CONSTANTS Views,    \* identities of views: positive numbers
          Sizes,    \* sizes a view can have: positive numbers
          Contexts, \* number of frame contexts, one per swapchain image
          Engines,  \* engines that can exist at a time
          ReloadMidFrame, \* whether a reload may end when views are recorded in the open frame
          None      \* no engine, slot or view

ASSUME NumbersAssumption == Views \cup Sizes \subseteq Nat \ {0} /\ Contexts \in Nat \ {0}
ASSUME ViewsAssumption == IsFiniteSet(Views)
ASSUME ReloadAssumption == ReloadMidFrame \in BOOLEAN
ASSUME NoneAssumption == None \notin Engines \cup Nat

Slots == {0, 1}

VARIABLES
    slot,       \* ponderScenes: the slot of each view, None without a scene
    buffered,   \* views whose scene has buffers
    shared,     \* ponderSharedWorld
    extent,     \* the size its pipeline was made for
    anchor,     \* the view its worlds are placed by
    history,    \* per slot of its pipeline, the view whose samples it keeps
    ready,      \* engines that exist and are open
    recordedNow,\* engines last recorded in the current recording of the current context
    collecting, \* uiPtCollecting
    missing,    \* views of the batch still to come
    collected,  \* views to be traced, in order
    requested,  \* the largest of their sizes
    phase,      \* where the render thread is in its frame
    recorded,   \* engines in the commands recorded and not submitted
    held,       \* engines the open frame, or the last one, has retained
    queue,      \* submissions the GPU has not executed, in order
    blended,    \* of views just recorded: each with the owner of the history it used
    fatal       \* a fatal failure is recorded

scenes == <<slot, buffered>>
engine == <<shared, extent, anchor, history>>
batch == <<collecting, missing, collected, requested>>
recording == <<recordedNow, recorded, held>>
vars == <<scenes, engine, ready, batch, recording, phase, queue, blended, fatal>>

NoHistory == [s \in Slots |-> None]
NoScene == [v \in Views |-> None]
Extents == Sizes \cup {0}

Init ==
    /\ slot = NoScene /\ buffered = {}
    /\ shared = None /\ extent = 0 /\ anchor = None /\ history = NoHistory
    /\ ready = {} /\ recordedNow = {}
    /\ collecting = FALSE /\ missing = {} /\ collected = <<>> /\ requested = 0
    /\ phase = "open"
    /\ recorded = {} /\ held = {} /\ queue = <<>>
    /\ blended = {}
    /\ fatal = FALSE

HeldBy(submissions) == UNION {submissions[i].holds : i \in DOMAIN submissions}

\* Engines that exist: the shared one, and those a frame retains.
Owned == ({shared} \ {None}) \cup held \cup HeldBy(queue)

\* ~PonderSharedWorld(): an engine without an owner is closed, and gone.
DropUnowned ==
    /\ ready' = ready \cap Owned'
    /\ recordedNow' = recordedNow \cap Owned'

\* A flush keeps the render thread until it is done.
NotBlocked == phase \in {"open", "submitted"}

-----------------------------------------------------------------------------
\* beginFrame(): scenes of views no longer visible go; the first batch makes an engine.
Kept(visible) == [v \in Views |-> IF v \in visible THEN slot[v] ELSE None]

BeginFrame(visible) ==
    /\ NotBlocked /\ ~collecting
    /\ Cardinality(visible) <= 2
    /\ slot' = Kept(visible)
    /\ buffered' = {v \in buffered : slot'[v] # None}
    /\ IF shared # None
       THEN UNCHANGED engine
       ELSE /\ shared' \in Engines \ Owned
            /\ extent' = 0 /\ anchor' = None /\ history' = NoHistory
    /\ collecting' = TRUE
    /\ missing' = visible /\ collected' = <<>> /\ requested' = 0
    /\ UNCHANGED <<ready, recording, phase, queue, fatal>>

\* FrameBatch::receive
Receive(v) ==
    /\ phase = "open" /\ collecting
    /\ v \in missing
    /\ missing' = missing \ {v}

\* The views are looked at in the order of their identities: a slot is taken by the
\* first view that has it after those that took the lower ones.
NextSlot ==
    LET taking0 == {v \in Views : slot[v] = 0}
        taking1 == {w \in Views : slot[w] = 1 /\ \E v \in taking0 : v < w}
    IN  IF taking0 = {} THEN 0 ELSE IF taking1 = {} THEN 1 ELSE 2

\* trace()
Trace(v, n) ==
    /\ Receive(v)
    /\ slot' = [slot EXCEPT ![v] = IF @ = None THEN NextSlot ELSE @]
    /\ collected' = Append(collected, v)
    /\ requested' = IF n > requested THEN n ELSE requested
    /\ UNCHANGED <<buffered, engine, ready, collecting, recording, phase, queue, fatal>>

\* emptyView(): the view is there and shows nothing.
EmptyView(v) ==
    /\ Receive(v)
    /\ UNCHANGED <<scenes, engine, ready, collecting, collected, requested, recording, phase, queue,
                   fatal>>

BatchEnds == collecting' = FALSE /\ missing' = {} /\ collected' = <<>> /\ requested' = 0

\* endFrame() ends the batch: cancelled, incomplete, empty, or refused by a retirement.
EndFrame ==
    /\ collecting
    /\ BatchEnds
    /\ UNCHANGED <<scenes, engine, ready, recording, phase, queue, fatal>>

-----------------------------------------------------------------------------
\* endFrame(commit) of a whole batch: execute().
Commits == phase = "open" /\ collecting /\ missing = {} /\ collected # <<>>

Scenes == {v \in Views : slot[v] # None}

AnchorMoved == anchor # Head(collected)  \* as if a new view inherited its slot

Reset == anchor # Head(collected) \/ ~(Scenes \subseteq buffered)

\* Each view is traced over the history of its slot, which is its own afterwards.
Record(e, old) ==
    LET traced == ToSet(collected)
    IN  /\ anchor' = Head(collected)
        /\ buffered' = Scenes
        /\ blended' = {<<v, old[slot[v]]>> : v \in traced}
        /\ history' = [s \in Slots |->
               IF \E v \in traced : slot[v] = s THEN CHOOSE v \in traced : slot[v] = s ELSE old[s]]
        /\ recordedNow' = recordedNow \cup {e}
        /\ recorded' = recorded \cup {e}
        /\ BatchEnds
        /\ UNCHANGED <<slot, phase, queue, fatal>>

\* The engine will do.  A reset drops the histories of both slots.
ExecuteSame ==
    /\ Commits
    /\ shared \in ready /\ requested <= extent
    /\ Record(shared, IF Reset THEN NoHistory ELSE history)
    /\ held' = held \cup {shared}
    /\ UNCHANGED <<shared, extent, ready>>

\* retireHistories(), before an engine gets its pipeline: refused when an open one is
\* recorded in this frame; then submitted frames are waited for and all are closed.
Retires == Commits /\ (shared \notin ready \/ requested > extent)

NothingRecorded == TRUE  \* as if waiting for submitted frames were enough

NotRecorded == ready \cap recordedNow = {}

Waited == ready = {} \/ queue = <<>>

\* An engine without a pipeline gets one, one that is too small is replaced.
NewEngine(e) == IF shared \in ready THEN e \in Engines \ Owned ELSE e = shared

ExecuteNew(e) ==
    /\ Retires /\ NotRecorded /\ Waited
    /\ NewEngine(e)
    /\ ready' = {e}
    /\ shared' = e
    /\ extent' = requested
    /\ Record(e, NoHistory)
    /\ held' = held \cup {shared, e}

\* The wait fails: nothing is closed, and the client is refused from now on.
WaitFails ==
    /\ Retires /\ NotRecorded /\ ready # {}
    /\ BatchEnds
    /\ fatal' = TRUE
    /\ UNCHANGED <<scenes, engine, ready, recording, phase, queue>>

-----------------------------------------------------------------------------
\* Both ways to let the scenes go.
NoScenes ==
    /\ NotBlocked
    /\ slot' = NoScene /\ buffered' = {}
    /\ shared' = None /\ extent' = 0 /\ anchor' = None /\ history' = NoHistory
    /\ BatchEnds
    /\ UNCHANGED <<recorded, phase, queue, fatal>>

\* releaseScenes(): the engine lives until the frames that use it are done.
ReleaseScenes ==
    /\ NoScenes
    /\ held' = held \cup ({shared} \ {None})
    /\ DropUnowned

\* closePonderScenes(), when resources are reloaded or the pipeline is made anew: the
\* GPU is idle.
CloseScenes ==
    /\ queue = <<>>
    /\ recorded = {} \/ ReloadMidFrame
    /\ NoScenes
    /\ UNCHANGED held
    /\ ready' = {}
    /\ recordedNow' = recordedNow \cap Owned'

-----------------------------------------------------------------------------
\* The frame loop, as far as these commands are concerned.
Submit ==
    /\ phase = "open"
    /\ queue' = Append(queue, [uses |-> recorded, holds |-> held])
    /\ recorded' = {} /\ held' = {}
    /\ phase' = "submitted"
    /\ UNCHANGED <<scenes, engine, ready, batch, recordedNow, fatal>>

\* What was retired since the submission is held until that is executed.
Acquire ==
    /\ phase = "submitted"
    /\ Len(queue) < Contexts
    /\ phase' = "open"
    /\ queue' = [i \in DOMAIN queue |->
                     IF i = Len(queue) THEN [queue[i] EXCEPT !.holds = @ \cup held] ELSE queue[i]]
    /\ held' = {}
    /\ UNCHANGED <<scenes, engine, batch, recorded, fatal>>
    /\ ready' = ready \cap Owned' /\ recordedNow' = {}

\* flushForReadback() submits what is recorded and waits; the frame goes on.  It is
\* refused while views are collected.
Flush(next) ==
    /\ phase = "open" /\ ~collecting
    /\ queue' = Append(queue, [uses |-> recorded, holds |-> {}])
    /\ recorded' = {}
    /\ phase' = next
    /\ UNCHANGED <<scenes, engine, ready, batch, recordedNow, held, fatal>>

\* World::releaseScene then clears the retainer.
FlushDone ==
    /\ phase \in {"flushing", "unloading"} /\ queue = <<>>
    /\ held' = IF phase = "unloading" THEN {} ELSE held
    /\ phase' = "open"
    /\ UNCHANGED <<scenes, engine, batch, recorded, queue, fatal>>
    /\ DropUnowned

\* The GPU executes the oldest submission.
Complete ==
    /\ queue # <<>>
    /\ queue' = Tail(queue)
    /\ UNCHANGED <<scenes, engine, batch, recorded, held, phase, fatal>>
    /\ DropUnowned

Other ==
    \/ \E visible \in SUBSET Views : BeginFrame(visible)
    \/ \E v \in Views : EmptyView(v) \/ \E n \in Sizes : Trace(v, n)
    \/ EndFrame \/ WaitFails
    \/ ReleaseScenes \/ CloseScenes
    \/ Submit \/ Acquire
    \/ \E next \in {"flushing", "unloading"} : Flush(next)
    \/ FlushDone

Next ==
    \/ ~fatal /\ (ExecuteSame \/ \E e \in Engines : ExecuteNew(e))
    \/ ~fatal /\ Other /\ blended' = {}
    \/ Complete /\ blended' = {}

Spec == Init /\ [][Next]_vars

-----------------------------------------------------------------------------
\* Every scene has a slot of its own.
TypeOK ==
    /\ slot \in [Views -> Slots \cup {None}]
    /\ \A v, w \in Scenes : slot[v] = slot[w] => v = w
    /\ buffered \subseteq Scenes
    /\ shared \in Engines \cup {None} /\ extent \in Extents
    /\ anchor \in Views \cup {None} /\ history \in [Slots -> Views \cup {None}]
    /\ ready \subseteq Owned /\ recordedNow \subseteq Owned
    /\ collecting \in BOOLEAN /\ missing \subseteq Views
    /\ collected \in Seq(Views) /\ IsInjective(collected) /\ requested \in Extents
    /\ phase \in {"open", "flushing", "unloading", "submitted"}
    /\ recorded \subseteq Engines /\ held \subseteq Engines
    /\ queue \in Seq([uses : SUBSET Engines, holds : SUBSET Engines])
    /\ blended \subseteq Views \X (Views \cup {None})
    /\ fatal \in BOOLEAN

(***************************************************************************)
(* "Never destroy an in-flight SDK history": the engines that submitted or *)
(* recorded commands use exist and are open, although they are closed at   *)
(* once when a larger one takes their place.                               *)
(***************************************************************************)
Used == recorded \cup UNION {queue[i].uses : i \in DOMAIN queue}

HistoriesInUseAreOpen == Used \subseteq ready

(***************************************************************************)
(* A view is traced over its own samples or over none, although slots go   *)
(* from view to view, and batches are cancelled after views have come and  *)
(* gone.                                                                   *)
(***************************************************************************)
HistoryIsOwn == \A b \in blended : b[2] \in {None, b[1]}
=============================================================================
