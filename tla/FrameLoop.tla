----------------------------- MODULE FrameLoop -----------------------------
(***************************************************************************)
(* The frame loop of class Framework and what it means for the lifetime of *)
(* GPU resources.  The render thread acquires a swapchain image and with   *)
(* its context opens a frame, records commands, submits and presents.  The *)
(* GPU executes the main queue in order.  Any thread may retire a resource *)
(* at any time; FrameRetention destroys it once no submitted command can   *)
(* use it.                                                                 *)
(***************************************************************************)
EXTENDS FrameRetention, FiniteSets

CONSTANTS ImageCounts,   \* the image counts a swapchain may have
          Resources,     \* buffers, acceleration structures ..., one life each
          MaxFrames      \* a bound on the frames begun

ASSUME ImageCountsAssumption == ImageCounts \subseteq Nat \ {0}
ASSUME MaxFramesAssumption == MaxFrames \in Nat

NoContext == -1

VARIABLES
    images,      \* contexts_.size(), and framesInFlight_ of the retainer
    submitted,   \* per context: submittedSerial
    fence,       \* per context: whether commandFinishedFence is signaled
    current,     \* currentContext_, or NoContext
    phase,       \* where the render thread is in its frame
    frameSerial, \* frameSerial_, and the current context's frameSerial
    groups,      \* the retainer's groups
    recorded,    \* resources the commands recorded in the open frame use
    pending,     \* submissions of the main queue not yet executed, in order
    state,       \* per resource: "live", "retired" or "freed"
    fatal        \* running_ is false

vars == <<images, submitted, fence, current, phase, frameSerial, groups, recorded,
          pending, state, fatal>>

Contexts == 0 .. images - 1

\* No frame is open: nothing recorded waits for its submission.
BetweenFrames == phase \in {"start", "submitted", "presented"}

Destroyed(rs) == [r \in Resources |-> IF r \in rs THEN "freed" ELSE state[r]]

-----------------------------------------------------------------------------
Init ==
    /\ images \in ImageCounts
    /\ submitted = [c \in Contexts |-> 0]
    /\ fence = [c \in Contexts |-> TRUE]
    /\ current = NoContext
    /\ phase = "start"
    /\ frameSerial = 0
    /\ groups = <<>>
    /\ recorded = {}
    /\ pending = <<>>
    /\ state = [r \in Resources |-> "live"]
    /\ fatal = FALSE

\* The contexts whose fence acquireContext finds signaled: the acquired one, whose
\* fence it has waited for, and others it polls.
SeenComplete(c) == {c} \cup {k \in Contexts : fence[k]}

\* Mutant: the oldest of the frames seen complete.
LeastCompletedSerial(c, n) ==
    /\ \E k \in SeenComplete(c) : n = submitted[k]
    /\ \A k \in SeenComplete(c) : submitted[k] >= n

\* completedSerial is n: a signaled fence proves every frame submitted before it
\* complete.
CompletedSerial(c, n) ==
    /\ \E k \in SeenComplete(c) : n = submitted[k]
    /\ \A k \in SeenComplete(c) : submitted[k] <= n

\* acquireContext: the presentation engine picks the image.
Acquire(c) ==
    LET serial == frameSerial + 1
    IN  /\ ~fatal /\ phase \in {"start", "presented"} /\ serial <= MaxFrames
        /\ fence[c]
        /\ current' = c
        /\ frameSerial' = serial
        /\ \E completed \in 0 .. frameSerial, n \in 0 .. Len(groups) :
               /\ CompletedSerial(c, completed)
               /\ DuePrefix(groups, n, serial, completed, images)
               /\ groups' = BeginFrame(groups, n, serial)
               /\ state' = Destroyed(Released(groups, n))
        /\ recorded' = {}
        /\ phase' = "open"
        /\ UNCHANGED <<images, submitted, fence, pending, fatal>>

\* Twice the swapchain was out of date: acquireContext gives up, and there is no
\* context until it is called again.  Recreate is what it did between the attempts.
AcquireExhausted ==
    /\ ~fatal /\ phase \in {"start", "presented"}
    /\ current' = NoContext
    /\ phase' = "start"
    /\ UNCHANGED <<images, submitted, fence, frameSerial, groups, recorded, pending, state,
                   fatal>>

\* Commands reference what is live when they are recorded.
Record(r) ==
    /\ ~fatal /\ phase = "open"
    /\ state[r] = "live"
    /\ recorded' = recorded \cup {r}
    /\ UNCHANGED <<images, submitted, fence, current, phase, frameSerial, groups, pending,
                   state, fatal>>

\* FrameResourceRetainer::retain, from any thread.
Retire(r) ==
    /\ ~fatal /\ state[r] = "live"
    /\ groups' = Retain(groups, r)
    /\ state' = [state EXCEPT ![r] = "retired"]
    /\ UNCHANGED <<images, submitted, fence, current, phase, frameSerial, recorded, pending,
                   fatal>>

\* Mutant: the context's fence is not reset before it is submitted again.
SubmitUnreset ==
    /\ ~fatal /\ phase = "open"
    /\ pending' = Append(pending, [context |-> current, serial |-> frameSerial, uses |-> recorded])
    /\ submitted' = [submitted EXCEPT ![current] = frameSerial]
    /\ recorded' = {}
    /\ phase' = "submitted"
    /\ UNCHANGED <<images, fence, current, frameSerial, groups, state, fatal>>

\* submitCommand resets the context's fence and submits the frame with it.
Submit ==
    /\ ~fatal /\ phase = "open"
    /\ fence' = [fence EXCEPT ![current] = FALSE]
    /\ pending' = Append(pending, [context |-> current, serial |-> frameSerial, uses |-> recorded])
    /\ submitted' = [submitted EXCEPT ![current] = frameSerial]
    /\ recorded' = {}
    /\ phase' = "submitted"
    /\ UNCHANGED <<images, current, frameSerial, groups, state, fatal>>

\* Mutant: the failure is returned but not recorded, and the loop goes on.
SubmitFailsUnrecorded ==
    /\ ~fatal /\ phase = "open"
    /\ fence' \in {fence, [fence EXCEPT ![current] = FALSE]}
    /\ recorded' = {}
    /\ phase' = "start"
    /\ UNCHANGED <<images, submitted, current, frameSerial, groups, pending, state, fatal>>

\* Resetting the fence or the submission itself fails.
SubmitFails ==
    /\ ~fatal /\ phase = "open"
    /\ fence' \in {fence, [fence EXCEPT ![current] = FALSE]}
    /\ fatal' = TRUE
    /\ UNCHANGED <<images, submitted, current, phase, frameSerial, groups, recorded, pending,
                   state>>

\* flushForReadback submits what was recorded so far with a fence of its own and
\* waits; the frame goes on.  World::releaseScene flushes an open frame first.
Flush(next) ==
    /\ ~fatal /\ phase = "open"
    /\ pending' = Append(pending, [context |-> NoContext, serial |-> frameSerial, uses |-> recorded])
    /\ recorded' = {}
    /\ phase' = next
    /\ UNCHANGED <<images, submitted, fence, current, frameSerial, groups, state, fatal>>

FlushDone ==
    /\ ~fatal /\ phase = "flushing" /\ pending = <<>>
    /\ phase' = "open"
    /\ UNCHANGED <<images, submitted, fence, current, frameSerial, groups, recorded, pending,
                   state, fatal>>

\* Mutant: waits for the GPU only, not for what is recorded and not yet submitted.
ReleaseSceneUnflushed(scene) ==
    /\ ~fatal /\ pending = <<>>
    /\ BetweenFrames \/ phase \in {"open", "unloading"}
    /\ \A r \in scene : state[r] = "live"
    /\ state' = Destroyed(scene \cup Retained(groups))
    /\ groups' = <<NewGroup(IF current = NoContext THEN 0 ELSE frameSerial)>>
    /\ phase' = IF phase = "unloading" THEN "open" ELSE phase
    /\ UNCHANGED <<images, submitted, fence, current, frameSerial, recorded, pending, fatal>>

\* World::releaseScene: with the GPU idle, scene resources are destroyed without
\* being retired (some of the live ones: the interface keeps its own), and the
\* retained ones with them.  The open group is that of the current context's frame.
ReleaseScene(scene) ==
    /\ ~fatal /\ pending = <<>>
    /\ BetweenFrames \/ phase = "unloading"
    /\ \A r \in scene : state[r] = "live"
    /\ state' = Destroyed(scene \cup Retained(groups))
    /\ groups' = <<NewGroup(IF current = NoContext THEN 0 ELSE frameSerial)>>
    /\ phase' = IF phase = "unloading" THEN "open" ELSE phase
    /\ UNCHANGED <<images, submitted, fence, current, frameSerial, recorded, pending, fatal>>

Present ==
    /\ ~fatal /\ phase = "submitted"
    /\ phase' = "presented"
    /\ UNCHANGED <<images, submitted, fence, current, frameSerial, groups, recorded, pending,
                   state, fatal>>

\* recreate() from present() or acquireContext(): with the queues idle the swapchain
\* is rebuilt.  If the image count changes all contexts are made anew, and the
\* retainer destroys everything it holds.
Recreate(n) ==
    /\ ~fatal /\ phase \in {"start", "presented"} /\ pending = <<>>
    /\ n # images
    /\ images' = n
    /\ submitted' = [c \in 0 .. n - 1 |-> 0]
    /\ fence' = [c \in 0 .. n - 1 |-> TRUE]
    /\ current' = NoContext
    /\ phase' = "start"
    /\ groups' = <<>>
    /\ state' = Destroyed(Retained(groups))
    /\ UNCHANGED <<frameSerial, recorded, pending, fatal>>

\* The GPU finishes the oldest submission and signals its fence.
Complete ==
    /\ pending # <<>>
    /\ pending' = Tail(pending)
    /\ fence' = [c \in Contexts |-> c = Head(pending).context \/ fence[c]]
    /\ UNCHANGED <<images, submitted, current, phase, frameSerial, groups, recorded, state,
                   fatal>>

Fail ==
    /\ ~fatal
    /\ fatal' = TRUE
    /\ UNCHANGED <<images, submitted, fence, current, phase, frameSerial, groups, recorded,
                   pending, state>>

Next ==
    \/ \E c \in Contexts : Acquire(c)
    \/ AcquireExhausted
    \/ \E r \in Resources : Record(r) \/ Retire(r)
    \/ Submit \/ SubmitFails \/ Present
    \/ Flush("flushing") \/ FlushDone \/ Flush("unloading")
    \/ \E scene \in SUBSET Resources : ReleaseScene(scene)
    \/ \E n \in ImageCounts : Recreate(n)
    \/ Complete \/ Fail

Spec == Init /\ [][Next]_vars

-----------------------------------------------------------------------------
Submission == [context : Contexts \cup {NoContext}, serial : Nat, uses : SUBSET Resources]

TypeOK ==
    /\ images \in Nat
    /\ submitted \in [Contexts -> Nat]
    /\ fence \in [Contexts -> BOOLEAN]
    /\ current \in Contexts \cup {NoContext}
    /\ phase \in {"start", "open", "flushing", "unloading", "submitted", "presented"}
    /\ frameSerial \in Nat
    /\ groups \in Seq([serial : Nat, resources : SUBSET Resources])
    /\ recorded \subseteq Resources
    /\ pending \in Seq(Submission)
    /\ state \in [Resources -> {"live", "retired", "freed"}]
    /\ fatal \in BOOLEAN

InUse == recorded \cup UNION {pending[i].uses : i \in DOMAIN pending}

(***************************************************************************)
(* No resource is destroyed while commands that use it are recorded for    *)
(* the open frame or wait for the GPU, in whatever order images come back, *)
(* frames complete, scenes are unloaded and swapchains are recreated.      *)
(***************************************************************************)
NoUseAfterFree == \A r \in InUse : state[r] # "freed"

(***************************************************************************)
(* What is retired is held by exactly one group until it is destroyed:     *)
(* clearing, releasing and reopening groups neither leaks a resource nor   *)
(* destroys it twice.                                                      *)
(***************************************************************************)
HeldOnce ==
    /\ \A r \in Resources : state[r] = "retired" <=> r \in Retained(groups)
    /\ \A i, j \in DOMAIN groups :
           i # j => groups[i].resources \cap groups[j].resources = {}

(***************************************************************************)
(* The reasoning behind completedSerial: a signaled fence proves every     *)
(* submission up to its context's submittedSerial executed, also those of  *)
(* other images and of flushes.                                            *)
(***************************************************************************)
SignaledMeansComplete ==
    \A c \in Contexts : fence[c] =>
        \A i \in DOMAIN pending : pending[i].serial > submitted[c]

(***************************************************************************)
(* Whoever acquires an image waits for its context's fence without a       *)
(* timeout, and gets it: as long as the loop runs the fence is signaled,   *)
(* or its submission is one the GPU has yet to execute.  A submission that *)
(* failed once its fence was reset, a flush with a fence of its own and a  *)
(* recreation leave none that nobody will signal.                          *)
(***************************************************************************)
FencesComeBack ==
    ~fatal => \A c \in Contexts :
                  fence[c] \/ \E i \in DOMAIN pending : pending[i].context = c

(***************************************************************************)
(* Retention is bounded by the swapchain even when the presentation engine *)
(* returns only some of its images: what a frame retires is destroyed when *)
(* the frame 2 * images - 1 later begins, at the latest.  It is not the    *)
(* framesInFlight one might expect: submitting a context again forgets the *)
(* frame its fence proved complete before, so an image that comes back     *)
(* late is acquired with almost no completion known.                       *)
(***************************************************************************)
HeldGroupsBounded ==
    groups # <<>> => groups[Len(groups)].serial - Head(groups).serial <= 2 * (images - 1)
=============================================================================
