---------------------------- MODULE FailureState ----------------------------
(***************************************************************************)
(* How failures become visible: mcvr::failure::State, which is lock-free   *)
(* but for the details, one instance for the process and one per device,   *)
(* and the recorders above it.  Threads that fail at the same time record  *)
(* their causes step by step, others read meanwhile, or enter a frame and  *)
(* are refused because the frame loop is down.                             *)
(*                                                                         *)
(* A cause is a kind and the operation that failed; each failing thread    *)
(* has one of its own, so that mixtures show.                              *)
(***************************************************************************)
EXTENDS Integers, Sequences

CONSTANTS Threads,
          None,       \* firstFailure_ is 0, stored_ is empty, the result is VK_NOT_READY
          Generic     \* the text snapshot() falls back to

States == {"global", "device"}

Kinds == {"runtime", "deviceLost"}

Causes == [kind : Kinds, thread : Threads]

ASSUME DistinctAssumption == /\ None \notin Causes /\ Generic \notin Causes
                             /\ None # Generic

VARIABLES
    first,      \* per state: firstFailure_
    lost,       \* per state: deviceLost_
    stored,     \* per state: the details under mutex_
    incomplete, \* per state: detailRecordingFailed_
    device,     \* whether Framework::device_ exists: init() creates it
    running,    \* Framework::running_
    excused,    \* history: the loop was stopped by something that is not a failure
    threads     \* per thread: what it is executing

published == <<first, lost, stored, incomplete>>
loopState == <<device, running, excused>>
failureVars == <<first, lost, stored, incomplete, device, running, excused, threads>>

IdleThread == [pc |-> "idle"]

\* A thread inside record(): its cause, the states it has yet to record it in, and
\* whether it stops the frame loop in the end.
Recording(pc, cause, todo, stops) ==
    [pc |-> pc, cause |-> cause, todo |-> todo, stops |-> stops]

FailureInit ==
    /\ first = [s \in States |-> None]
    /\ lost = [s \in States |-> FALSE]
    /\ stored = [s \in States |-> None]
    /\ incomplete = [s \in States |-> FALSE]
    /\ device = FALSE /\ running = TRUE /\ excused = FALSE
    /\ threads = [t \in Threads |-> IdleThread]

-----------------------------------------------------------------------------
(* Recording: Framework::recordFailure through vk::Device::recordFailure,  *)
(* or mcvr::failure::record alone at the JNI boundary.                     *)

\* The process-wide state first, then the device's.
DeviceOrder == <<"global", "device">>

\* Whoever fails comes from Framework::recordFailure, which stops the frame loop in the
\* end and records in the process-wide state alone as long as there is no device, from a
\* direct call of vk::Device::recordFailure, or from the JNI boundary, which knows no
\* device and leaves the loop to the next acquireContext.
Recorder(todo, stops) ==
    /\ todo = DeviceOrder => device
    /\ todo # DeviceOrder => stops = FALSE \/ ~device

\* Mutant: the frame loop is stopped before the cause is recorded.
StopThenRecord(t) ==
    /\ threads[t] = IdleThread
    /\ \E kind \in Kinds, todo \in {DeviceOrder, <<"global">>}, stops \in BOOLEAN :
           /\ Recorder(todo, stops)
           /\ running' = (running /\ ~stops)
           /\ threads' = [threads EXCEPT ![t] =
                  Recording("flag", [kind |-> kind, thread |-> t], todo, stops)]
    /\ UNCHANGED <<published, device, excused>>

\* Each thread fails once: it is out of the renderer afterwards.
StartRecord(t) ==
    /\ threads[t] = IdleThread
    /\ \E kind \in Kinds, todo \in {DeviceOrder, <<"global">>}, stops \in BOOLEAN :
           /\ Recorder(todo, stops)
           /\ threads' = [threads EXCEPT ![t] =
                  Recording("flag", [kind |-> kind, thread |-> t], todo, stops)]
    /\ UNCHANGED <<published, loopState>>

\* Mutant: only what may still become the first cause counts as device loss.
SetFlagIfFirst(t) ==
    LET s == Head(threads[t].todo)
    IN  /\ threads[t].pc = "flag"
        /\ lost' = [lost EXCEPT ![s] = @ \/ (/\ first[s] = None
                                            /\ threads[t].cause.kind = "deviceLost")]
        /\ threads' = [threads EXCEPT ![t].pc = "cas"]
        /\ UNCHANGED <<first, stored, incomplete, loopState>>

\* Device loss is published before the first cause is decided, and by everyone.
SetFlag(t) ==
    LET s == Head(threads[t].todo)
    IN  /\ threads[t].pc = "flag"
        /\ lost' = [lost EXCEPT ![s] = @ \/ threads[t].cause.kind = "deviceLost"]
        /\ threads' = [threads EXCEPT ![t].pc = "cas"]
        /\ UNCHANGED <<first, stored, incomplete, loopState>>

\* What the thread does after it is done with one state.
Advanced(th) ==
    IF Len(th.todo) > 1 THEN Recording("flag", th.cause, Tail(th.todo), th.stops)
                        ELSE [th EXCEPT !.pc = "stop"]

\* Mutant: an unconditional store.
ExchangeAlways(t) ==
    LET s == Head(threads[t].todo)
    IN  /\ threads[t].pc = "cas"
        /\ first' = [first EXCEPT ![s] = threads[t].cause]
        /\ threads' = [threads EXCEPT ![t].pc = "store"]
        /\ UNCHANGED <<lost, stored, incomplete, loopState>>

\* Mutant: the loser of the race stores its details all the same.
ExchangeThenStore(t) ==
    LET s == Head(threads[t].todo)
    IN  /\ threads[t].pc = "cas"
        /\ first' = [first EXCEPT ![s] = IF @ = None THEN threads[t].cause ELSE @]
        /\ threads' = [threads EXCEPT ![t].pc = "store"]
        /\ UNCHANGED <<lost, stored, incomplete, loopState>>

\* compare_exchange_strong: the first recorder wins.
CompareExchange(t) ==
    LET s == Head(threads[t].todo)
    IN  /\ threads[t].pc = "cas"
        /\ IF first[s] = None
           THEN /\ first' = [first EXCEPT ![s] = threads[t].cause]
                /\ threads' = [threads EXCEPT ![t].pc = "store"]
           ELSE /\ threads' = [threads EXCEPT ![t] = Advanced(@)]
                /\ UNCHANGED first
        /\ UNCHANGED <<lost, stored, incomplete, loopState>>

\* Only the winner stores details; doing so may fail for want of memory.
StoreDetails(t) ==
    LET s == Head(threads[t].todo)
    IN  /\ threads[t].pc = "store"
        /\ \/ /\ stored' = [stored EXCEPT ![s] = threads[t].cause]
              /\ UNCHANGED incomplete
           \/ /\ incomplete' = [incomplete EXCEPT ![s] = TRUE]
              /\ UNCHANGED stored
        /\ threads' = [threads EXCEPT ![t] = Advanced(@)]
        /\ UNCHANGED <<first, lost, loopState>>

\* Framework::recordFailure stops the frame loop last.
EndRecord(t) ==
    /\ threads[t].pc = "stop"
    /\ running' = (running /\ ~threads[t].stops)
    /\ threads' = [threads EXCEPT ![t].pc = "done"]
    /\ UNCHANGED <<published, device, excused>>

-----------------------------------------------------------------------------
(* The frame loop: what else starts and stops it, and who is turned away.  *)

\* Framework::init.
CreateDevice ==
    /\ ~device
    /\ device' = TRUE
    /\ UNCHANGED <<published, running, excused, threads>>

\* The loop also stops when the framework is closed, and when Framework::recordFailure
\* is given a result that vk::Device::recordFailure does not take for a failure.
StopWithoutFailure ==
    /\ running' = FALSE
    /\ excused' = (excused \/ running)
    /\ UNCHANGED <<published, device, threads>>

HasFailure == \E s \in States : first[s] # None

\* acquireContext, submitCommand, present and recreate turn away whoever comes once the
\* loop is down; acquireContext takes it down if there is no device, or a failure that
\* was recorded without stopping it.
RefuseFrame(t) ==
    /\ threads[t] = IdleThread
    /\ ~running \/ ~device \/ HasFailure
    /\ running' = FALSE
    /\ excused' = (excused \/ (running /\ ~device))
    /\ threads' = [threads EXCEPT ![t] = [pc |-> "refused"]]
    /\ UNCHANGED <<published, device>>

\* lastFailure prefers the process-wide state; without a device there is no other.
LastFailure == IF first["global"] # None THEN first["global"] ELSE first["device"]

\* inactiveResult: what the caller is told, in a later step.
ReportRefusal(t) ==
    /\ threads[t].pc = "refused"
    /\ threads' = [threads EXCEPT ![t] = [pc |-> "reported", result |-> LastFailure]]
    /\ UNCHANGED <<published, loopState>>

-----------------------------------------------------------------------------
(* Reading: snapshot() of one state, and lastFailureDescription(), which   *)
(* puts a result and an operation together from separate reads.            *)

Observed == [pc : {"observed"}, cause : Causes, operation : Causes \cup {Generic}]

LoadFirst(t) ==
    /\ threads[t] = IdleThread
    /\ \E s \in States :
           /\ first[s] # None
           /\ threads' = [threads EXCEPT ![t] = [pc |-> "copy", state |-> s, cause |-> first[s]]]
    /\ UNCHANGED <<published, loopState>>

TextOf(details) == IF details = None THEN Generic ELSE details

\* Copying the details may fail for want of memory, as storing them may.
Copied(s, operation) ==
    \/ operation = TextOf(stored[s]) /\ UNCHANGED incomplete
    \/ operation = Generic /\ incomplete' = [incomplete EXCEPT ![s] = TRUE]

CopyDetails(t) ==
    LET th == threads[t]
    IN  /\ th.pc = "copy"
        /\ \E operation \in Causes \cup {Generic} :
               /\ Copied(th.state, operation)
               /\ threads' = [threads EXCEPT ![t] =
                      [pc |-> "observed", cause |-> th.cause, operation |-> operation]]
        /\ UNCHANGED <<first, lost, stored, loopState>>

\* lastFailureOperation and lastFailure prefer the process-wide state.
Preferred == IF first["global"] # None THEN "global" ELSE "device"

BeginDescription(t) ==
    /\ threads[t] = IdleThread
    /\ device /\ HasFailure
    /\ \E operation \in Causes \cup {Generic} :
           /\ Copied(Preferred, operation)
           /\ threads' = [threads EXCEPT ![t] = [pc |-> "describe", operation |-> operation]]
    /\ UNCHANGED <<first, lost, stored, loopState>>

EndDescription(t) ==
    LET th == threads[t]
    IN  /\ th.pc = "describe"
        /\ threads' = [threads EXCEPT ![t] =
               [pc |-> "observed", cause |-> first[Preferred], operation |-> th.operation]]
        /\ UNCHANGED <<published, loopState>>

FailureNext ==
    \/ CreateDevice \/ StopWithoutFailure
    \/ \E t \in Threads :
           \/ StartRecord(t) \/ SetFlag(t) \/ CompareExchange(t) \/ StoreDetails(t) \/ EndRecord(t)
           \/ RefuseFrame(t) \/ ReportRefusal(t)
           \/ LoadFirst(t) \/ CopyDetails(t) \/ BeginDescription(t) \/ EndDescription(t)

FailureSpec == FailureInit /\ [][FailureNext]_failureVars

-----------------------------------------------------------------------------
ThreadState ==
    {IdleThread}
        \cup [pc : {"flag", "cas", "store", "stop", "done"}, cause : Causes,
              todo : {DeviceOrder, <<"global">>, <<"device">>}, stops : BOOLEAN]
        \cup [pc : {"refused"}] \cup [pc : {"reported"}, result : Causes \cup {None}]
        \cup [pc : {"copy"}, state : States, cause : Causes]
        \cup [pc : {"describe"}, operation : Causes \cup {Generic}]
        \cup Observed

FailureTypeOK ==
    /\ first \in [States -> Causes \cup {None}]
    /\ lost \in [States -> BOOLEAN]
    /\ stored \in [States -> Causes \cup {None}]
    /\ incomplete \in [States -> BOOLEAN]
    /\ device \in BOOLEAN /\ running \in BOOLEAN /\ excused \in BOOLEAN
    /\ threads \in [Threads -> ThreadState]

(***************************************************************************)
(* The first cause stays the first: neither a later failure, nor a device  *)
(* loss, nor a thread that lost the race replaces it or its details.       *)
(***************************************************************************)
FirstCauseStays ==
    [][\A s \in States : /\ first[s] # None => first'[s] = first[s]
                         /\ stored[s] # None => stored'[s] = stored[s]]_failureVars

(***************************************************************************)
(* Every owner of the device observes a loss: once a thread has recorded   *)
(* one, and as soon as it is the first cause anybody sees, both flags that *)
(* forbid waiting for the GPU are visible.                                 *)
(***************************************************************************)
Recorded(t, s) ==
    /\ threads[t].pc \in {"stop", "done"}
    /\ s = "global" \/ threads[t].todo = <<"device">>

LossIsObserved ==
    /\ \A s \in States : first[s] # None /\ first[s].kind = "deviceLost" => lost[s]
    /\ \A t \in Threads, s \in States :
           Recorded(t, s) /\ threads[t].cause.kind = "deviceLost" => lost[s]

(***************************************************************************)
(* No report mixes two failures: the operation named, if it is known, is   *)
(* that of the result reported, also when it is assembled while another    *)
(* thread records a failure.                                               *)
(***************************************************************************)
ReportsAreConsistent ==
    \A t \in Threads : threads[t] \in Observed =>
        threads[t].operation \in {threads[t].cause, Generic}

(***************************************************************************)
(* Whoever is turned away from a frame because of a failure is told which: *)
(* VK_NOT_READY, on which callers try again later, is the answer only if   *)
(* the loop was stopped by something else.  And the failure he is told of  *)
(* is one throwIfFatal sees, so that his next native call throws.          *)
(***************************************************************************)
RefusalsAreExplained ==
    \A t \in Threads : threads[t].pc = "reported" =>
        IF threads[t].result = None THEN excused ELSE first["global"] # None
=============================================================================
