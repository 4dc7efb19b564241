--------------------------- MODULE UiFramesProofs ---------------------------
(***************************************************************************)
(* Frames use engines that are open, and views their own histories, for    *)
(* any views, sizes, engines and frame contexts.                           *)
(***************************************************************************)
EXTENDS UiFrames, SequenceTheorems, FiniteSetTheorems, TLAPS

Submission == [uses : SUBSET Engines, holds : SUBSET Engines]

\* From the submission i on, something holds the engine until that submission is done.
HeldFrom(e, i) == e \in held \/ \E j \in i .. Len(queue) : e \in queue[j].holds

\* What the frames use is held at least as long as they may use it.
EngineInv ==
    /\ shared \in Engines \cup {None}
    /\ collecting => shared # None
    /\ phase \in {"open", "flushing", "unloading", "submitted"}
    /\ recorded \subseteq Engines /\ held \subseteq Engines
    /\ queue \in Seq(Submission)
    /\ ready \subseteq Owned /\ recordedNow \subseteq Owned
    /\ phase # "open" => recorded = {}
    /\ recorded \subseteq held \cap recordedNow
    /\ \A i \in 1 .. Len(queue) : \A e \in queue[i].uses : HeldFrom(e, i)

OpenInv ==
    /\ recorded \subseteq ready
    /\ \A i \in 1 .. Len(queue) : queue[i].uses \subseteq ready

-----------------------------------------------------------------------------
(* The engines and who holds them                                          *)

LEMMA QueueFacts ==
    ASSUME NEW q \in Seq(Submission)
    PROVE  /\ Len(q) \in Nat /\ DOMAIN q = 1 .. Len(q) /\ (q = <<>> <=> Len(q) = 0)
           /\ \A i \in 1 .. Len(q) :
                  q[i] \in Submission /\ q[i].uses \subseteq Engines /\ q[i].holds \subseteq Engines
<1>1. Len(q) \in Nat /\ DOMAIN q = 1 .. Len(q) /\ (q = <<>> <=> Len(q) = 0)
  BY LenProperties, EmptySeq
<1>2. \A i \in 1 .. Len(q) : q[i] \in Submission
  BY ElementOfSeq
<1> QED
  BY <1>1, <1>2 DEF Submission

LEMMA OwnedMembers ==
    ASSUME NEW s, NEW h, NEW q \in Seq(Submission), NEW e
    PROVE  e \in ({s} \ {None}) \cup h \cup HeldBy(q)
               <=> \/ e = s /\ s # None
                   \/ e \in h
                   \/ \E j \in 1 .. Len(q) : e \in q[j].holds
<1>1. DOMAIN q = 1 .. Len(q)
  BY QueueFacts
<1> QED
  BY <1>1 DEF HeldBy

LEMMA OwnedNow ==
    ASSUME EngineInv
    PROVE  \A e : e \in Owned <=> \/ e = shared /\ shared # None
                                  \/ e \in held
                                  \/ \E j \in 1 .. Len(queue) : e \in queue[j].holds
BY OwnedMembers DEF Owned, EngineInv

LEMMA OwnedNext ==
    ASSUME queue' \in Seq(Submission)
    PROVE  \A e : e \in Owned' <=> \/ e = shared' /\ shared' # None
                                   \/ e \in held'
                                   \/ \E j \in 1 .. Len(queue') : e \in queue'[j].holds
<1> DEFINE s == shared'
           h == held'
           q == queue'
<1>1. ASSUME NEW e
      PROVE  e \in ({s} \ {None}) \cup h \cup HeldBy(q)
                 <=> \/ e = s /\ s # None
                     \/ e \in h
                     \/ \E j \in 1 .. Len(q) : e \in q[j].holds
  BY OwnedMembers
<1>2. Owned' = ({s} \ {None}) \cup h \cup HeldBy(q)
  BY DEF Owned, HeldBy
<1> QED
  BY <1>1, <1>2

\* The open frame's commands join the queue; some or none of what it holds goes along.
LEMMA JoinFacts ==
    ASSUME EngineInv, NEW h \in SUBSET Engines
    PROVE  LET e == [uses |-> recorded, holds |-> h]
               q == Append(queue, e)
           IN  /\ q \in Seq(Submission) /\ Len(q) = Len(queue) + 1
               /\ \A i \in 1 .. Len(queue) : q[i] = queue[i]
               /\ q[Len(queue) + 1].uses = recorded /\ q[Len(queue) + 1].holds = h
<1> DEFINE e == [uses |-> recorded, holds |-> h]
<1>1. e \in Submission /\ e.uses = recorded /\ e.holds = h
  BY DEF EngineInv, Submission
<1>2. queue \in Seq(Submission)
  BY DEF EngineInv
<1> HIDE DEF e
<1>3. /\ Append(queue, e) \in Seq(Submission)
      /\ Len(Append(queue, e)) = Len(queue) + 1
      /\ \A i \in 1 .. Len(queue) : Append(queue, e)[i] = queue[i]
      /\ Append(queue, e)[Len(queue) + 1] = e
  BY <1>1, <1>2, AppendProperties
<1> QED
  BY <1>1, <1>3 DEF e

-----------------------------------------------------------------------------
(* Steps that leave the queue alone                                        *)

\* Engines come to be owned, or are dropped because nothing owns them; none is closed.
SameQueue ==
    /\ queue' = queue /\ held \subseteq held' /\ held' \subseteq Engines
    /\ shared' \in Engines \cup {None}
    /\ collecting' => shared' # None
    /\ phase' = phase
    /\ recorded' = recorded
    /\ shared = None \/ shared' = shared \/ shared \in held'
    /\ \/ UNCHANGED <<ready, recordedNow>>
       \/ DropUnowned

LEMMA SameQueueInv ==
    ASSUME EngineInv, SameQueue
    PROVE  EngineInv' /\ (OpenInv => OpenInv')
<1>1. queue' \in Seq(Submission) /\ Len(queue) \in Nat
  BY QueueFacts DEF EngineInv, SameQueue
<1>2. Owned \subseteq Owned'
  <2>1. ASSUME NEW e \in Owned PROVE e \in Owned'
    BY <1>1, OwnedNow, OwnedNext DEF SameQueue
  <2> QED
    BY <2>1
<1>3. ready' = ready /\ recordedNow' = recordedNow
  BY <1>2 DEF SameQueue, DropUnowned, EngineInv
<1>4. ready' \subseteq Owned' /\ recordedNow' \subseteq Owned'
  BY <1>2, <1>3 DEF EngineInv
<1>5. \A i \in 1 .. Len(queue') : \A e \in queue'[i].uses : HeldFrom(e, i)'
  BY DEF EngineInv, SameQueue, HeldFrom
<1>6. EngineInv'
  BY <1>1, <1>3, <1>4, <1>5 DEF EngineInv, SameQueue
<1>7. OpenInv => OpenInv'
  BY <1>3 DEF OpenInv, SameQueue
<1> QED
  BY <1>6, <1>7

LEMMA SameQueueSteps ==
    ASSUME EngineInv,
           \/ \E visible \in SUBSET Views : BeginFrame(visible)
           \/ \E v \in Views : EmptyView(v) \/ \E n \in Sizes : Trace(v, n)
           \/ EndFrame \/ WaitFails \/ ReleaseScenes
           \/ UNCHANGED vars
    PROVE  SameQueue
<1> USE DEF scenes, engine, batch, recording
<1>1. CASE \E visible \in SUBSET Views : BeginFrame(visible)
  BY <1>1, NoneAssumption DEF BeginFrame, SameQueue, EngineInv
<1>2. CASE \E v \in Views : EmptyView(v) \/ \E n \in Sizes : Trace(v, n)
  BY <1>2 DEF EmptyView, Trace, Receive, SameQueue, EngineInv
<1>3. CASE EndFrame \/ WaitFails
  BY <1>3 DEF EndFrame, WaitFails, BatchEnds, SameQueue, EngineInv
<1>4. CASE ReleaseScenes
  BY <1>4 DEF ReleaseScenes, NoScenes, BatchEnds, SameQueue, EngineInv
<1>5. CASE UNCHANGED vars
  BY <1>5 DEF vars, SameQueue, EngineInv
<1> QED
  BY <1>1, <1>2, <1>3, <1>4, <1>5

\* The engine that traces the views is recorded and held by the frame.
LEMMA ExecuteSameInv ==
    ASSUME EngineInv, ExecuteSame
    PROVE  EngineInv' /\ (OpenInv => OpenInv')
<1> USE DEF scenes, engine, batch, recording
<1>1. /\ queue' = queue /\ held' = held \cup {shared} /\ shared' = shared /\ ready' = ready
      /\ recorded' = recorded \cup {shared} /\ recordedNow' = recordedNow \cup {shared}
      /\ phase' = phase /\ phase = "open" /\ shared \in ready /\ collecting' = FALSE
  BY DEF ExecuteSame, Record, Commits, BatchEnds
<1>2. queue' \in Seq(Submission) /\ Len(queue) \in Nat
  BY <1>1, QueueFacts DEF EngineInv
<1>3. shared \in Engines /\ shared # None
  <2>1. shared \in Owned
    BY <1>1 DEF EngineInv
  <2>2. Owned \subseteq Engines
    <3>1. \A i \in 1 .. Len(queue) : queue[i].holds \subseteq Engines
      BY QueueFacts DEF EngineInv
    <3> QED
      BY <3>1, OwnedNow DEF EngineInv
  <2> QED
    BY <2>1, <2>2, NoneAssumption
<1>4. \A e : e \in Owned' <=> e \in Owned
  BY <1>1, <1>2, <1>3, OwnedNow, OwnedNext
<1>5. \A i \in 1 .. Len(queue') : \A e \in queue'[i].uses : HeldFrom(e, i)'
  BY <1>1 DEF EngineInv, HeldFrom
<1>6. ready' \subseteq Owned' /\ recordedNow' \subseteq Owned'
  <2>1. shared \in Owned
    BY <1>1 DEF EngineInv
  <2> QED
    BY <1>1, <1>4, <2>1 DEF EngineInv
<1>7. EngineInv'
  BY <1>1, <1>2, <1>3, <1>5, <1>6 DEF EngineInv
<1>8. OpenInv => OpenInv'
  BY <1>1 DEF OpenInv
<1> QED
  BY <1>7, <1>8

\* Every engine that was open is closed: none of them is recorded in the open frame, so
\* that only the submitted frames used them, and those are done.
LEMMA ExecuteNewInv ==
    ASSUME EngineInv, NEW e \in Engines, ExecuteNew(e)
    PROVE  EngineInv' /\ (OpenInv => OpenInv')
<1> USE DEF scenes, engine, batch, recording
<1>1. /\ queue' = queue /\ held' = held \cup {shared, e} /\ shared' = e /\ ready' = {e}
      /\ recorded' = recorded \cup {e} /\ recordedNow' = recordedNow \cup {e}
      /\ phase' = phase /\ phase = "open" /\ collecting' = FALSE /\ shared \in Engines
  BY DEF ExecuteNew, Record, Commits, Retires, BatchEnds, EngineInv
<1>2. /\ queue \in Seq(Submission) /\ Len(queue) \in Nat /\ (queue = <<>> => Len(queue) = 0)
      /\ e # None
  BY QueueFacts, NoneAssumption DEF EngineInv
<1>3. Owned \subseteq Owned' /\ e \in Owned'
  <2>1. ASSUME NEW x \in Owned PROVE x \in Owned'
    BY <1>1, <1>2, OwnedNow, OwnedNext
  <2>2. e \in Owned'
    BY <1>1, <1>2, OwnedNext
  <2> QED
    BY <2>1, <2>2
<1>4. \A i \in 1 .. Len(queue') : \A x \in queue'[i].uses : HeldFrom(x, i)'
  BY <1>1 DEF EngineInv, HeldFrom
<1>5. ready' \subseteq Owned' /\ recordedNow' \subseteq Owned'
  BY <1>1, <1>3 DEF EngineInv
<1>6. EngineInv'
  BY <1>1, <1>2, <1>4, <1>5 DEF EngineInv
<1>7. ASSUME OpenInv PROVE OpenInv'
  <2>1. recorded = {}
    BY <1>7 DEF ExecuteNew, NotRecorded, EngineInv, OpenInv
  <2>2. \A i \in 1 .. Len(queue) : queue[i].uses = {}
    <3>1. CASE ready = {}
      BY <1>7, <3>1 DEF OpenInv
    <3>2. CASE queue = <<>>
      BY <1>2, <3>2
    <3> QED
      BY <3>1, <3>2 DEF ExecuteNew, Waited
  <2> QED
    BY <1>1, <2>1, <2>2 DEF OpenInv
<1> QED
  BY <1>6, <1>7

\* No frame uses an engine when the scenes are closed, unless a reload ends while one is
\* being recorded.
LEMMA CloseScenesInv ==
    ASSUME EngineInv, CloseScenes
    PROVE  EngineInv' /\ (OpenInv /\ ~ReloadMidFrame => OpenInv')
<1> USE DEF scenes, engine, batch, recording
<1>1. /\ queue = <<>> /\ queue' = queue /\ held' = held /\ shared' = None /\ ready' = {}
      /\ recorded' = recorded /\ recordedNow' = recordedNow \cap Owned'
      /\ phase' = phase /\ collecting' = FALSE
      /\ recorded = {} \/ ReloadMidFrame
  BY DEF CloseScenes, NoScenes, BatchEnds
<1>2. queue' \in Seq(Submission) /\ Len(queue) = 0
  BY <1>1, QueueFacts DEF EngineInv
<1>3. recorded \subseteq Owned'
  BY <1>1, <1>2, OwnedNext DEF EngineInv
<1>4. EngineInv'
  BY <1>1, <1>2, <1>3 DEF EngineInv
<1>5. OpenInv /\ ~ReloadMidFrame => OpenInv'
  BY <1>1, <1>2 DEF OpenInv
<1> QED
  BY <1>4, <1>5

-----------------------------------------------------------------------------
(* Steps of the queue                                                      *)

\* What the open frame holds goes with its submission, or stays with the frame that
\* goes on after a flush.
Joins(h) ==
    /\ phase = "open" /\ phase' \in {"flushing", "unloading", "submitted"}
    /\ h \in SUBSET Engines /\ held' \in SUBSET Engines /\ held \subseteq h \cup held'
    /\ h \cup held' \subseteq held
    /\ queue' = Append(queue, [uses |-> recorded, holds |-> h])
    /\ recorded' = {}
    /\ UNCHANGED <<shared, ready, recordedNow, collecting>>

LEMMA JoinsInv ==
    ASSUME EngineInv, NEW h, Joins(h)
    PROVE  EngineInv' /\ (OpenInv => OpenInv')
<1> DEFINE n == Len(queue)
<1>1. /\ queue' \in Seq(Submission) /\ Len(queue') = n + 1
      /\ \A i \in 1 .. n : queue'[i] = queue[i]
      /\ queue'[n + 1].uses = recorded /\ queue'[n + 1].holds = h
  BY JoinFacts DEF Joins
<1>2. n \in Nat /\ \A i \in 1 .. n + 1 : i = n + 1 \/ i \in 1 .. n
  BY QueueFacts DEF EngineInv
<1> HIDE DEF n
<1>3. ASSUME NEW i \in 1 .. n + 1, NEW e, HeldFrom(e, i) \/ e \in held
      PROVE  HeldFrom(e, i)'
  <2>1. CASE e \in held
    <3>1. e \in held' \/ e \in h
      BY <2>1 DEF Joins
    <3>2. n + 1 \in i .. n + 1
      BY <1>2
    <3> QED
      BY <1>1, <3>1, <3>2 DEF HeldFrom
  <2>2. CASE \E j \in i .. n : e \in queue[j].holds
    <3>1. PICK j \in i .. n : e \in queue[j].holds
      BY <2>2
    <3>2. j \in 1 .. n /\ j \in i .. n + 1
      BY <1>2
    <3>3. e \in queue'[j].holds
      BY <1>1, <3>1, <3>2
    <3> QED
      BY <1>1, <3>2, <3>3 DEF HeldFrom
  <2> QED
    BY <1>3, <2>1, <2>2 DEF HeldFrom, n
<1>4. \A i \in 1 .. n + 1 : \A e \in queue'[i].uses : HeldFrom(e, i)'
  <2>1. ASSUME NEW i \in 1 .. n + 1, NEW e \in queue'[i].uses PROVE HeldFrom(e, i)'
    <3>1. CASE i \in 1 .. n
      <4>1. HeldFrom(e, i)
        BY <1>1, <2>1, <3>1 DEF EngineInv, n
      <4> QED
        BY <1>3, <4>1
    <3>2. CASE i = n + 1
      <4>1. e \in held
        BY <1>1, <2>1, <3>2 DEF EngineInv
      <4> QED
        BY <1>3, <4>1
    <3> QED
      BY <1>2, <3>1, <3>2
  <2> QED
    BY <2>1
<1>5. Owned \subseteq Owned'
  <2>1. ASSUME NEW e \in Owned PROVE e \in Owned'
    <3>1. CASE e = shared /\ shared # None
      BY <1>1, <3>1, OwnedNext DEF Joins
    <3>2. CASE e \in held
      <4>1. e \in held' \/ e \in h
        BY <3>2 DEF Joins
      <4>2. n + 1 \in 1 .. n + 1
        BY <1>2
      <4> QED
        BY <1>1, <4>1, <4>2, OwnedNext
    <3>3. CASE \E j \in 1 .. n : e \in queue[j].holds
      <4>1. PICK j \in 1 .. n : e \in queue[j].holds
        BY <3>3
      <4>2. j \in 1 .. n + 1 /\ e \in queue'[j].holds
        BY <1>1, <1>2, <4>1
      <4> QED
        BY <1>1, <4>2, OwnedNext
    <3> QED
      BY <2>1, <3>1, <3>2, <3>3, OwnedNow DEF n
  <2> QED
    BY <2>1
<1>6. EngineInv'
  BY <1>1, <1>4, <1>5 DEF EngineInv, Joins
<1>7. OpenInv => OpenInv'
  <2>1. ASSUME OpenInv, NEW i \in 1 .. n + 1 PROVE queue'[i].uses \subseteq ready
    BY <1>1, <1>2, <2>1 DEF OpenInv, n
  <2> QED
    BY <1>1, <2>1 DEF OpenInv, Joins
<1> QED
  BY <1>6, <1>7

LEMMA JoinsSteps ==
    ASSUME EngineInv, Submit \/ \E next \in {"flushing", "unloading"} : Flush(next)
    PROVE  \E h : Joins(h)
<1> USE DEF scenes, engine, batch, recording
<1>1. CASE Submit
  <2>1. Joins(held)
    BY <1>1 DEF Submit, Joins, EngineInv
  <2> QED
    BY <2>1
<1>2. CASE \E next \in {"flushing", "unloading"} : Flush(next)
  <2>1. Joins({})
    BY <1>2 DEF Flush, Joins, EngineInv
  <2> QED
    BY <2>1
<1> QED
  BY <1>1, <1>2

\* Submissions are executed and frames let go of what they held: engines that nothing
\* owns any more are closed.  What is left is as it was, and still held.
Drops ==
    /\ shared' = shared /\ collecting' = collecting /\ recorded' = recorded
    /\ phase' \in {"open", "flushing", "unloading", "submitted"}
    /\ phase' # "open" => recorded = {}
    /\ held' \subseteq Engines /\ queue' \in Seq(Submission)
    /\ ready' = ready \cap Owned'
    /\ recordedNow' \subseteq Owned'
    /\ recorded \subseteq held' \cap recordedNow'
    /\ \A i \in 1 .. Len(queue') :
           /\ \E k \in 1 .. Len(queue) : queue'[i].uses = queue[k].uses
           /\ \A e \in queue'[i].uses : HeldFrom(e, i)'

LEMMA DropsInv ==
    ASSUME EngineInv, Drops
    PROVE  EngineInv' /\ (OpenInv => OpenInv')
<1>1. EngineInv'
  BY DEF EngineInv, Drops
<1>2. ASSUME OpenInv, NEW i \in 1 .. Len(queue'), NEW e \in queue'[i].uses
      PROVE  e \in ready'
  <2>1. e \in ready
    BY <1>2 DEF Drops, OpenInv
  <2>2. e \in held' \/ \E j \in i .. Len(queue') : e \in queue'[j].holds
    BY <1>2 DEF Drops, HeldFrom
  <2>3. Len(queue') \in Nat /\ \A j \in i .. Len(queue') : j \in 1 .. Len(queue')
    BY QueueFacts DEF Drops
  <2>4. e \in Owned'
    BY <2>2, <2>3, OwnedNext DEF Drops
  <2> QED
    BY <2>1, <2>4 DEF Drops
<1>3. OpenInv => recorded' \subseteq ready'
  <2>1. held' \subseteq Owned'
    BY OwnedNext DEF Drops
  <2> QED
    BY <2>1 DEF Drops, OpenInv
<1> QED
  BY <1>1, <1>2, <1>3 DEF OpenInv

LEMMA FlushDoneDrops ==
    ASSUME EngineInv, FlushDone
    PROVE  Drops
<1> USE DEF scenes, engine, batch
<1>1. /\ queue' = queue /\ queue = <<>> /\ recorded' = recorded /\ phase' = "open"
      /\ recorded = {} /\ held' \subseteq held /\ UNCHANGED <<shared, collecting>>
      /\ ready' = ready \cap Owned' /\ recordedNow' = recordedNow \cap Owned'
  BY DEF FlushDone, EngineInv, DropUnowned
<1>2. queue' \in Seq(Submission) /\ Len(queue') = 0
  BY <1>1, QueueFacts DEF EngineInv
<1> QED
  BY <1>1, <1>2 DEF Drops, EngineInv

LEMMA CompleteDrops ==
    ASSUME EngineInv, Complete
    PROVE  Drops
<1> USE DEF scenes, engine, batch
<1>1. /\ queue' = Tail(queue) /\ queue # <<>> /\ recorded' = recorded /\ phase' = phase
      /\ held' = held /\ UNCHANGED <<shared, collecting>>
      /\ ready' = ready \cap Owned' /\ recordedNow' = recordedNow \cap Owned'
  BY DEF Complete, DropUnowned
<1>2. queue \in Seq(Submission) /\ Len(queue) \in Nat /\ Len(queue) # 0
  BY <1>1, QueueFacts DEF EngineInv
<1>3. /\ queue' \in Seq(Submission) /\ Len(queue') = Len(queue) - 1
      /\ \A i \in 1 .. Len(queue') : queue'[i] = queue[i + 1]
  BY <1>1, <1>2, HeadTailProperties
<1>4. ASSUME NEW i \in 1 .. Len(queue')
      PROVE  i + 1 \in 1 .. Len(queue) /\ queue'[i].uses = queue[i + 1].uses
  BY <1>2, <1>3
<1>5. ASSUME NEW i \in 1 .. Len(queue'), NEW e \in queue'[i].uses
      PROVE  HeldFrom(e, i)'
  <2>1. HeldFrom(e, i + 1)
    BY <1>4, <1>5 DEF EngineInv
  <2>2. CASE e \in held
    BY <1>1, <2>2 DEF HeldFrom
  <2>3. CASE \E j \in i + 1 .. Len(queue) : e \in queue[j].holds
    <3>1. PICK j \in i + 1 .. Len(queue) : e \in queue[j].holds
      BY <2>3
    <3>2. j - 1 \in i .. Len(queue') /\ j - 1 \in 1 .. Len(queue') /\ (j - 1) + 1 = j
      BY <1>2, <1>3
    <3>3. queue'[j - 1] = queue[j]
      BY <1>3, <3>2
    <3> QED
      BY <3>1, <3>2, <3>3 DEF HeldFrom
  <2> QED
    BY <2>1, <2>2, <2>3 DEF HeldFrom
<1>6. recorded \subseteq Owned'
  BY <1>1, <1>3, OwnedNext DEF EngineInv
<1> QED
  BY <1>1, <1>3, <1>4, <1>5, <1>6 DEF Drops, EngineInv

\* What the last frame retired after it was submitted goes along with that submission.
LEMMA AcquireDrops ==
    ASSUME EngineInv, Acquire
    PROVE  Drops
<1> USE DEF scenes, engine, batch
<1> DEFINE n == Len(queue)
           q == [i \in 1 .. n |->
                     IF i = n THEN [queue[i] EXCEPT !.holds = @ \cup held] ELSE queue[i]]
<1>1. /\ queue \in Seq(Submission) /\ n \in Nat /\ DOMAIN queue = 1 .. n
      /\ \A i \in 1 .. n : queue[i] \in Submission
      /\ held \subseteq Engines
  BY QueueFacts DEF EngineInv
<1>2. /\ queue' = q /\ recorded' = recorded /\ phase' = "open" /\ recorded = {}
      /\ held' = {} /\ UNCHANGED <<shared, collecting>>
      /\ ready' = ready \cap Owned' /\ recordedNow' = {}
  BY <1>1 DEF Acquire, EngineInv
<1>3. ASSUME NEW i \in 1 .. n
      PROVE  /\ q[i] \in Submission /\ q[i].uses = queue[i].uses
             /\ q[i].holds = IF i = n THEN queue[i].holds \cup held ELSE queue[i].holds
  BY <1>1 DEF Submission
<1>4. q \in [1 .. n -> Submission]
  BY <1>3
<1> HIDE DEF q
<1>5. q \in Seq(Submission) /\ Len(q) = n
  <2>1. q \in Seq(Submission)
    BY <1>1, <1>4, SeqDef
  <2>2. DOMAIN q = 1 .. n
    BY <1>4
  <2> QED
    BY <1>1, <2>1, <2>2, LenProperties
<1>6. ASSUME NEW i \in 1 .. n, NEW e \in q[i].uses
      PROVE  HeldFrom(e, i)'
  <2>1. HeldFrom(e, i)
    BY <1>3, <1>6 DEF EngineInv
  <2>2. CASE e \in held
    <3>1. n \in i .. n /\ n \in 1 .. n
      BY <1>1
    <3>2. e \in q[n].holds
      BY <1>3, <2>2, <3>1
    <3> QED
      BY <1>2, <1>5, <3>1, <3>2 DEF HeldFrom
  <2>3. CASE \E j \in i .. n : e \in queue[j].holds
    <3>1. PICK j \in i .. n : e \in queue[j].holds
      BY <2>3
    <3>2. j \in 1 .. n
      BY <1>1
    <3>3. e \in q[j].holds
      BY <1>3, <3>1, <3>2
    <3> QED
      BY <1>2, <1>5, <3>3 DEF HeldFrom
  <2> QED
    BY <2>1, <2>2, <2>3 DEF HeldFrom
<1> QED
  BY <1>2, <1>3, <1>5, <1>6 DEF Drops

-----------------------------------------------------------------------------
LEMMA EngineInit == ASSUME Init PROVE EngineInv /\ OpenInv
<1>1. queue \in Seq(Submission) /\ Len(queue) = 0
  BY EmptySeq DEF Init
<1> QED
  BY <1>1 DEF Init, EngineInv, OpenInv

LEMMA EngineStep ==
    ASSUME EngineInv, [Next]_vars
    PROVE  EngineInv' /\ (OpenInv /\ ~ReloadMidFrame => OpenInv')
<1>1. CASE ExecuteSame
  BY <1>1, ExecuteSameInv
<1>2. CASE \E e \in Engines : ExecuteNew(e)
  BY <1>2, ExecuteNewInv
<1>3. CASE \/ \E visible \in SUBSET Views : BeginFrame(visible)
           \/ \E v \in Views : EmptyView(v) \/ \E n \in Sizes : Trace(v, n)
           \/ EndFrame \/ WaitFails \/ ReleaseScenes
           \/ UNCHANGED vars
  BY <1>3, SameQueueSteps, SameQueueInv
<1>4. CASE CloseScenes
  BY <1>4, CloseScenesInv
<1>5. CASE Submit \/ \E next \in {"flushing", "unloading"} : Flush(next)
  BY <1>5, JoinsSteps, JoinsInv
<1>6. CASE Acquire \/ FlushDone \/ Complete
  BY <1>6, AcquireDrops, FlushDoneDrops, CompleteDrops, DropsInv
<1> QED
  BY <1>1, <1>2, <1>3, <1>4, <1>5, <1>6 DEF Next, Other

LEMMA EngineInvariance == Spec => []EngineInv
<1>1. Init => EngineInv
  BY EngineInit
<1>2. EngineInv /\ [Next]_vars => EngineInv'
  BY EngineStep
<1> QED
  BY <1>1, <1>2, PTL DEF Spec

-----------------------------------------------------------------------------
(* The views, their slots and their histories                              *)

\* At most two views have a scene or are to come, so that two slots suffice; each view
\* with buffers finds its own samples in its slot, or none.
ViewInv ==
    /\ slot \in [Views -> Slots \cup {None}]
    /\ \A v, w \in Scenes : slot[v] = slot[w] => v = w
    /\ buffered \subseteq Scenes
    /\ history \in [Slots -> Views \cup {None}]
    /\ \A v \in buffered : history[slot[v]] \in {None, v}
    /\ missing \subseteq Views
    /\ \A a, b, c \in Scenes \cup missing : a = b \/ b = c \/ a = c
    /\ collected \in Seq(Views)
    /\ \A i \in 1 .. Len(collected) : collected[i] \in Scenes \ missing
    /\ \A i, j \in 1 .. Len(collected) : collected[i] = collected[j] => i = j
    /\ extent \in Extents /\ requested \in Extents
    /\ anchor \in Views \cup {None}
    /\ collecting \in BOOLEAN /\ fatal \in BOOLEAN
    /\ blended \subseteq Views \X (Views \cup {None})
    /\ HistoryIsOwn

LEMMA NoneFacts ==
    /\ None \notin Engines /\ None \notin Slots /\ None \notin Views
    /\ Views \subseteq Nat /\ IsFiniteSet(Views)
BY NoneAssumption, NumbersAssumption, ViewsAssumption DEF Slots

LEMMA CollectedFacts ==
    ASSUME NEW s \in Seq(Views)
    PROVE  /\ Len(s) \in Nat /\ DOMAIN s = 1 .. Len(s)
           /\ \A i \in 1 .. Len(s) : s[i] \in Views
           /\ s = <<>> <=> Len(s) = 0
           /\ s # <<>> => Head(s) \in Views
           /\ \A v : v \in ToSet(s) <=> \E i \in 1 .. Len(s) : v = s[i]
<1>1. Len(s) \in Nat /\ DOMAIN s = 1 .. Len(s)
  BY LenProperties
<1>2. \A i \in 1 .. Len(s) : s[i] \in Views
  BY ElementOfSeq
<1>3. s = <<>> <=> Len(s) = 0
  BY EmptySeq
<1>4. s # <<>> => Head(s) = s[1]
  OBVIOUS
<1>5. \A v : v \in ToSet(s) <=> \E i \in 1 .. Len(s) : v = s[i]
  BY <1>1 DEF ToSet
<1> QED
  BY <1>1, <1>2, <1>3, <1>4, <1>5

LEMMA EmptyBatch ==
    ASSUME NEW s, s = <<>>
    PROVE  /\ s \in Seq(Views) /\ Len(s) = 0 /\ ~\E i \in 1 .. Len(s) : TRUE
<1>1. s \in Seq(Views) /\ Len(s) = 0
  BY EmptySeq
<1> QED
  BY <1>1

LEMMA AtMostTwo ==
    ASSUME NEW V \in SUBSET Views, Cardinality(V) <= 2
    PROVE  \A a, b, c \in V : a = b \/ b = c \/ a = c
<1> SUFFICES ASSUME NEW a \in V, NEW b \in V, NEW c \in V, a # b, b # c, a # c
             PROVE  FALSE
  OBVIOUS
<1>1. IsFiniteSet(V)
  BY NoneFacts, FS_Subset
<1>2. Cardinality(V) \in Nat
  BY <1>1, FS_CardinalityType
<1> DEFINE A == V \ {a}
           B == A \ {b}
           C == B \ {c}
<1>3. a \in V /\ b \in A /\ c \in B
  OBVIOUS
<1> HIDE DEF A, B, C
<1>4. IsFiniteSet(A) /\ Cardinality(A) = Cardinality(V) - 1
  BY <1>1, <1>3, FS_RemoveElement DEF A
<1>5. IsFiniteSet(B) /\ Cardinality(B) = Cardinality(A) - 1
  BY <1>3, <1>4, FS_RemoveElement DEF B
<1>6. IsFiniteSet(C) /\ Cardinality(C) = Cardinality(B) - 1
  BY <1>3, <1>5, FS_RemoveElement DEF C
<1>7. Cardinality(C) \in Nat
  BY <1>6, FS_CardinalityType
<1> QED
  BY <1>2, <1>4, <1>5, <1>6, <1>7

\* Where one other view at most has a scene, the first slot it leaves is free.
LEMMA NextSlotFree ==
    ASSUME ViewInv, NEW v \in missing, v \notin Scenes
    PROVE  NextSlot \in Slots /\ \A w \in Scenes : slot[w] # NextSlot
<1> DEFINE taking0 == {w \in Views : slot[w] = 0}
           taking1 == {w \in Views : slot[w] = 1 /\ \E x \in taking0 : x < w}
<1>1. \A w \in Scenes : w \in Views /\ slot[w] \in Slots
  BY DEF ViewInv, Scenes
<1>2. \A w, x \in Scenes : w = x
  BY DEF ViewInv
<1>3. None # 0 /\ None # 1
  BY NoneFacts DEF Slots
<1>4. CASE taking0 = {}
  <2>1. NextSlot = 0
    BY <1>4 DEF NextSlot
  <2> QED
    BY <1>1, <1>4, <2>1 DEF Slots
<1>5. CASE taking0 # {}
  <2>1. PICK x \in Views : slot[x] = 0
    BY <1>5
  <2>2. x \in Scenes
    BY <1>3, <2>1 DEF Scenes
  <2>3. ASSUME NEW w \in Scenes PROVE slot[w] = 0
    BY <1>2, <2>1, <2>2, <2>3
  <2>4. taking1 = {}
    <3>1. ASSUME NEW w \in taking1 PROVE FALSE
      <4>1. w \in Views /\ slot[w] = 1
        BY <3>1
      <4>2. w \in Scenes
        BY <1>3, <4>1 DEF Scenes
      <4> QED
        BY <2>3, <4>1, <4>2
    <3> QED
      BY <3>1
  <2>5. NextSlot = 1
    BY <1>5, <2>4 DEF NextSlot
  <2> QED
    BY <2>3, <2>5 DEF Slots
<1> QED
  BY <1>4, <1>5

\* The views and their scenes stay; the batch stays or ends.
SameViews ==
    /\ UNCHANGED <<scenes, history, extent, anchor>>
    /\ \/ UNCHANGED batch
       \/ BatchEnds
    /\ fatal' \in BOOLEAN
    /\ blended' \in {{}, blended}

LEMMA SameViewsInv ==
    ASSUME ViewInv, SameViews
    PROVE  ViewInv'
<1>1. Scenes' = Scenes /\ UNCHANGED <<slot, buffered, history, extent, anchor>>
  BY DEF SameViews, Scenes, scenes
<1>2. HistoryIsOwn' /\ blended' \subseteq Views \X (Views \cup {None})
  BY DEF SameViews, ViewInv, HistoryIsOwn
<1>3. CASE UNCHANGED batch
  <2>1. UNCHANGED <<collecting, missing, collected, requested>>
    BY <1>3 DEF batch
  <2> QED
    BY <1>1, <1>2, <2>1 DEF ViewInv, SameViews
<1>4. CASE BatchEnds
  <2>1. /\ collecting' = FALSE /\ missing' = {} /\ collected' = <<>> /\ requested' = 0
        /\ collected' \in Seq(Views) /\ ~\E i \in 1 .. Len(collected') : TRUE
    BY <1>4, EmptyBatch DEF BatchEnds
  <2>2. requested' \in Extents
    BY <2>1 DEF Extents
  <2>3. \A a, b, c \in Scenes' \cup missing' : a = b \/ b = c \/ a = c
    BY <1>1, <2>1 DEF ViewInv
  <2>4. /\ \A v, w \in Scenes' : slot'[v] = slot'[w] => v = w
        /\ \A v \in buffered' : history'[slot'[v]] \in {None, v}
    BY <1>1 DEF ViewInv
  <2> QED
    BY <1>1, <1>2, <2>1, <2>2, <2>3, <2>4 DEF ViewInv, SameViews
<1> QED
  BY <1>3, <1>4 DEF SameViews

\* The scenes of views that are not visible go.
LEMMA BeginFrameViews ==
    ASSUME ViewInv, NEW visible \in SUBSET Views, BeginFrame(visible), blended' = {}
    PROVE  ViewInv'
<1>1. /\ slot' = [v \in Views |-> IF v \in visible THEN slot[v] ELSE None]
      /\ buffered' = {v \in buffered : slot'[v] # None}
      /\ collecting' = TRUE /\ missing' = visible /\ collected' = <<>> /\ requested' = 0
      /\ fatal' = fatal
  BY DEF BeginFrame, Kept
<1>2. slot' \in [Views -> Slots \cup {None}]
  BY <1>1 DEF ViewInv
<1>3. ASSUME NEW v PROVE v \in Scenes' <=> v \in Scenes /\ v \in visible
  BY <1>1 DEF Scenes
<1>4. \A v \in Scenes' : slot'[v] = slot[v]
  BY <1>1, <1>3 DEF Scenes
<1>5. buffered' \subseteq Scenes'
  BY <1>1 DEF ViewInv, Scenes
<1>6. \A v, w \in Scenes' : slot'[v] = slot'[w] => v = w
  BY <1>3, <1>4 DEF ViewInv
<1>7. \A a, b, c \in Scenes' \cup missing' : a = b \/ b = c \/ a = c
  <2>1. \A a, b, c \in visible : a = b \/ b = c \/ a = c
    BY AtMostTwo DEF BeginFrame
  <2> QED
    BY <1>1, <1>3, <2>1
<1>8. /\ history' \in [Slots -> Views \cup {None}]
      /\ \A v \in buffered' : history'[slot'[v]] \in {None, v}
      /\ extent' \in Extents /\ anchor' \in Views \cup {None}
  <2>1. CASE UNCHANGED <<history, extent, anchor>>
    BY <1>1, <1>4, <1>5, <2>1 DEF ViewInv
  <2>2. CASE extent' = 0 /\ anchor' = None /\ history' = NoHistory
    <3>1. \A v \in buffered' : slot'[v] \in Slots
      BY <1>2, <1>5 DEF Scenes
    <3> QED
      BY <2>2, <3>1 DEF NoHistory, Extents
  <2> QED
    BY <2>1, <2>2 DEF BeginFrame, engine
<1>9. /\ collected' \in Seq(Views) /\ ~\E i \in 1 .. Len(collected') : TRUE
      /\ requested' \in Extents
  BY <1>1, EmptyBatch DEF Extents
<1>10. HistoryIsOwn'
  BY DEF HistoryIsOwn
<1> QED
  BY <1>1, <1>2, <1>5, <1>6, <1>7, <1>8, <1>9, <1>10 DEF ViewInv

\* The view that comes takes a slot of its own, unless it still has one.
LEMMA TraceViews ==
    ASSUME ViewInv, NEW v \in Views, NEW n \in Sizes, Trace(v, n), blended' = {}
    PROVE  ViewInv'
<1>1. /\ v \in missing /\ missing' = missing \ {v}
      /\ slot' = [slot EXCEPT ![v] = IF @ = None THEN NextSlot ELSE @]
      /\ collected' = Append(collected, v)
      /\ requested' = IF n > requested THEN n ELSE requested
      /\ UNCHANGED <<buffered, history, extent, anchor, collecting, fatal>>
  BY DEF Trace, Receive, engine
<1>2. slot \in [Views -> Slots \cup {None}] /\ None \notin Slots
  BY NoneFacts DEF ViewInv
<1>3. v \notin Scenes => NextSlot \in Slots /\ \A w \in Scenes : slot[w] # NextSlot
  BY <1>1, NextSlotFree
<1>4. /\ slot' \in [Views -> Slots \cup {None}]
      /\ \A w \in Views : w # v => slot'[w] = slot[w]
      /\ slot'[v] \in Slots
      /\ v \in Scenes => slot'[v] = slot[v]
      /\ v \notin Scenes => \A w \in Scenes : slot[w] # slot'[v]
  <2> DEFINE s == IF slot[v] = None THEN NextSlot ELSE slot[v]
  <2>1. s \in Slots
    BY <1>2, <1>3 DEF Scenes
  <2>2. slot' = [slot EXCEPT ![v] = s]
    BY <1>1
  <2>3. /\ v \in Scenes => s = slot[v]
        /\ v \notin Scenes => \A w \in Scenes : slot[w] # s
    BY <1>3 DEF Scenes
  <2> HIDE DEF s
  <2> QED
    BY <1>2, <2>1, <2>2, <2>3
<1>5. ASSUME NEW w PROVE w \in Scenes' <=> w \in Scenes \/ w = v
  BY <1>2, <1>4 DEF Scenes
<1>6. \A w, x \in Scenes' : slot'[w] = slot'[x] => w = x
  <2>1. \A w \in Scenes : w \in Views
    BY DEF Scenes
  <2>2. \A w, x \in Scenes : slot[w] = slot[x] => w = x
    BY DEF ViewInv
  <2>3. ASSUME NEW w \in Scenes', NEW x \in Scenes', slot'[w] = slot'[x], w # x
        PROVE  FALSE
    <3>1. CASE w # v /\ x # v
      BY <1>4, <1>5, <2>1, <2>2, <2>3, <3>1
    <3>2. CASE w = v
      BY <1>4, <1>5, <2>1, <2>2, <2>3, <3>2
    <3>3. CASE x = v
      BY <1>4, <1>5, <2>1, <2>2, <2>3, <3>3
    <3> QED
      BY <3>1, <3>2, <3>3
  <2> QED
    BY <2>3
<1>7. /\ buffered' \subseteq Scenes'
      /\ \A w \in buffered' : history'[slot'[w]] \in {None, w}
  <2>1. buffered \subseteq Scenes /\ \A w \in Scenes : w \in Views
    BY DEF ViewInv, Scenes
  <2>2. \A w \in buffered : slot'[w] = slot[w]
    BY <1>4, <2>1
  <2>3. \A w \in buffered : history[slot[w]] \in {None, w}
    BY DEF ViewInv
  <2> QED
    BY <1>1, <1>5, <2>1, <2>2, <2>3
<1>8. \A a, b, c \in Scenes' \cup missing' : a = b \/ b = c \/ a = c
  <2>1. \A a \in Scenes' \cup missing' : a \in Scenes \cup missing
    BY <1>1, <1>5
  <2>2. \A a, b, c \in Scenes \cup missing : a = b \/ b = c \/ a = c
    BY DEF ViewInv
  <2> QED
    BY <2>1, <2>2
<1>9. /\ collected' \in Seq(Views) /\ Len(collected') = Len(collected) + 1
      /\ Len(collected) \in Nat
      /\ \A i \in 1 .. Len(collected) : collected'[i] = collected[i]
      /\ collected'[Len(collected) + 1] = v
  BY <1>1, AppendProperties, CollectedFacts DEF ViewInv
<1>10. ASSUME NEW i \in 1 .. Len(collected')
       PROVE  collected'[i] \in Scenes' \ missing'
  <2>1. CASE i = Len(collected) + 1
    BY <1>1, <1>5, <1>9, <2>1
  <2>2. CASE i # Len(collected) + 1
    <3>1. i \in 1 .. Len(collected)
      BY <1>9, <2>2
    <3>2. collected'[i] = collected[i] /\ collected[i] \in Scenes \ missing
      BY <1>9, <3>1 DEF ViewInv
    <3> QED
      BY <1>1, <1>5, <3>2
  <2> QED
    BY <2>1, <2>2
<1>11. ASSUME NEW i \in 1 .. Len(collected'), NEW j \in 1 .. Len(collected'),
              collected'[i] = collected'[j]
       PROVE  i = j
  <2>1. \A k \in 1 .. Len(collected) : collected'[k] # v
    BY <1>1, <1>9 DEF ViewInv
  <2>2. \A k \in 1 .. Len(collected') : k = Len(collected) + 1 \/ k \in 1 .. Len(collected)
    BY <1>9
  <2>3. \A k, l \in 1 .. Len(collected) : collected[k] = collected[l] => k = l
    BY DEF ViewInv
  <2> QED
    BY <1>9, <1>11, <2>1, <2>2, <2>3
<1>12. missing' \subseteq Views /\ requested' \in Extents
  BY <1>1 DEF ViewInv, Extents
<1>13. HistoryIsOwn'
  BY DEF HistoryIsOwn
<1> QED
  BY <1>1, <1>4, <1>6, <1>7, <1>8, <1>9, <1>10, <1>11, <1>12, <1>13 DEF ViewInv

LEMMA EmptyViewViews ==
    ASSUME ViewInv, NEW v \in Views, EmptyView(v), blended' = {}
    PROVE  ViewInv'
<1>1. /\ missing' = missing \ {v} /\ Scenes' = Scenes
      /\ UNCHANGED <<slot, buffered, history, extent, anchor, collecting, collected,
                     requested, fatal>>
  BY DEF EmptyView, Receive, engine, scenes, Scenes
<1>2. \A a, b, c \in Scenes' \cup missing' : a = b \/ b = c \/ a = c
  <2>1. \A a \in Scenes' \cup missing' : a \in Scenes \cup missing
    BY <1>1
  <2>2. \A a, b, c \in Scenes \cup missing : a = b \/ b = c \/ a = c
    BY DEF ViewInv
  <2> QED
    BY <2>1, <2>2
<1>3. HistoryIsOwn'
  BY DEF HistoryIsOwn
<1> QED
  BY <1>1, <1>2, <1>3 DEF ViewInv

\* Both ways to let the scenes go.
LEMMA NoScenesViews ==
    ASSUME ViewInv, NoScenes, blended' = {}
    PROVE  ViewInv'
<1>1. /\ slot' = NoScene /\ buffered' = {} /\ extent' = 0 /\ anchor' = None
      /\ history' = NoHistory
      /\ collecting' = FALSE /\ missing' = {} /\ collected' = <<>> /\ requested' = 0
      /\ fatal' = fatal
  BY DEF NoScenes, BatchEnds
<1>2. Scenes' = {}
  BY <1>1 DEF Scenes, NoScene
<1>3. /\ slot' \in [Views -> Slots \cup {None}] /\ history' \in [Slots -> Views \cup {None}]
      /\ extent' \in Extents /\ requested' \in Extents
  BY <1>1 DEF NoScene, NoHistory, Extents
<1>4. collected' \in Seq(Views) /\ ~\E i \in 1 .. Len(collected') : TRUE
  BY <1>1, EmptyBatch
<1>5. HistoryIsOwn'
  BY DEF HistoryIsOwn
<1> QED
  BY <1>1, <1>2, <1>3, <1>4, <1>5 DEF ViewInv

\* A view that had no buffers yet resets both histories: what is left of the others is
\* their own, since no two of them share a slot.
LEMMA RecordViews ==
    ASSUME ViewInv, NEW e, NEW old \in [Slots -> Views \cup {None}], Record(e, old),
           collected # <<>>, extent' \in Extents,
           \A v \in Scenes : old[slot[v]] \in {None, v}
    PROVE  ViewInv'
<1> DEFINE traced == ToSet(collected)
<1>1. /\ anchor' = Head(collected) /\ buffered' = Scenes /\ Scenes' = Scenes
      /\ blended' = {<<v, old[slot[v]]>> : v \in traced}
      /\ history' = [s \in Slots |->
             IF \E v \in traced : slot[v] = s THEN CHOOSE v \in traced : slot[v] = s ELSE old[s]]
      /\ collecting' = FALSE /\ missing' = {} /\ collected' = <<>> /\ requested' = 0
      /\ UNCHANGED <<slot, fatal>>
  BY DEF Record, BatchEnds, Scenes
<1>2. anchor' \in Views /\ traced \subseteq Scenes
  <2>1. \A v : v \in traced <=> \E i \in 1 .. Len(collected) : v = collected[i]
    BY CollectedFacts DEF ViewInv
  <2>2. Head(collected) \in Views
    BY CollectedFacts DEF ViewInv
  <2> QED
    BY <1>1, <2>1, <2>2 DEF ViewInv
<1>3. \A v \in Scenes : v \in Views /\ slot[v] \in Slots
  BY DEF ViewInv, Scenes
<1> HIDE DEF traced
<1>4. history' \in [Slots -> Views \cup {None}]
  <2>1. ASSUME NEW s \in Slots, \E v \in traced : slot[v] = s
        PROVE  (CHOOSE v \in traced : slot[v] = s) \in Views
    BY <1>2, <1>3, <2>1
  <2> QED
    BY <1>1, <2>1
<1>5. ASSUME NEW v \in Scenes
      PROVE  history'[slot[v]] \in {None, v}
  <2>1. slot[v] \in Slots
    BY <1>3
  <2>2. CASE \E w \in traced : slot[w] = slot[v]
    <3>1. history'[slot[v]] = CHOOSE w \in traced : slot[w] = slot[v]
      BY <1>1, <2>1, <2>2
    <3>2. \A w \in traced : slot[w] = slot[v] => w = v
      BY <1>2 DEF ViewInv
    <3> QED
      BY <2>2, <3>1, <3>2
  <2>3. CASE ~\E w \in traced : slot[w] = slot[v]
    BY <1>1, <2>1, <2>3
  <2> QED
    BY <2>2, <2>3
<1>6. HistoryIsOwn' /\ blended' \subseteq Views \X (Views \cup {None})
  <2>1. ASSUME NEW b \in blended'
        PROVE  b[2] \in {None, b[1]} /\ b \in Views \X (Views \cup {None})
    <3>1. PICK v \in traced : b = <<v, old[slot[v]]>>
      BY <1>1, <2>1
    <3>2. v \in Scenes
      BY <1>2
    <3>3. v \in Views /\ slot[v] \in Slots /\ old[slot[v]] \in {None, v}
      BY <1>3, <3>2
    <3> QED
      BY <3>1, <3>3
  <2> QED
    BY <2>1 DEF HistoryIsOwn
<1>7. /\ collected' \in Seq(Views) /\ ~\E i \in 1 .. Len(collected') : TRUE
      /\ requested' \in Extents
  BY <1>1, EmptyBatch DEF Extents
<1>8. \A a, b, c \in Scenes' \cup missing' : a = b \/ b = c \/ a = c
  BY <1>1 DEF ViewInv
<1> QED
  BY <1>1, <1>2, <1>4, <1>5, <1>6, <1>7, <1>8 DEF ViewInv

LEMMA ExecuteSameViews ==
    ASSUME ViewInv, ExecuteSame
    PROVE  ViewInv'
<1> DEFINE old == IF Reset THEN NoHistory ELSE history
<1>1. old \in [Slots -> Views \cup {None}]
  BY DEF ViewInv, NoHistory
<1>2. Record(shared, old) /\ collected # <<>> /\ extent' \in Extents
  BY DEF ExecuteSame, Commits, ViewInv
<1>3. ASSUME NEW v \in Scenes PROVE old[slot[v]] \in {None, v}
  <2>1. CASE Reset
    <3>1. slot[v] \in Slots
      BY DEF ViewInv, Scenes
    <3> QED
      BY <2>1, <3>1 DEF NoHistory
  <2>2. CASE ~Reset
    <3>1. v \in buffered
      BY <2>2 DEF Reset
    <3> QED
      BY <2>2, <3>1 DEF ViewInv
  <2> QED
    BY <2>1, <2>2
<1> HIDE DEF old
<1> QED
  BY <1>1, <1>2, <1>3, RecordViews

LEMMA ExecuteNewViews ==
    ASSUME ViewInv, NEW e \in Engines, ExecuteNew(e)
    PROVE  ViewInv'
<1>1. NoHistory \in [Slots -> Views \cup {None}]
  BY DEF NoHistory
<1>2. Record(e, NoHistory) /\ collected # <<>> /\ extent' \in Extents
  BY DEF ExecuteNew, Retires, Commits, ViewInv
<1>3. \A v \in Scenes : NoHistory[slot[v]] \in {None, v}
  BY DEF ViewInv, Scenes, NoHistory
<1> QED
  BY <1>1, <1>2, <1>3, RecordViews

LEMMA SameViewsSteps ==
    ASSUME ViewInv,
           \/ /\ EndFrame \/ WaitFails \/ Submit \/ Acquire \/ FlushDone \/ Complete
                     \/ \E next \in {"flushing", "unloading"} : Flush(next)
              /\ blended' = {}
           \/ UNCHANGED vars
    PROVE  SameViews
<1> USE DEF engine, recording, ViewInv, SameViews
<1>1. CASE (EndFrame \/ WaitFails) /\ blended' = {}
  BY <1>1 DEF EndFrame, WaitFails
<1>2. CASE (Submit \/ Acquire \/ FlushDone \/ Complete) /\ blended' = {}
  BY <1>2 DEF Submit, Acquire, FlushDone, Complete
<1>3. CASE (\E next \in {"flushing", "unloading"} : Flush(next)) /\ blended' = {}
  BY <1>3 DEF Flush
<1>4. CASE UNCHANGED vars
  BY <1>4 DEF vars
<1> QED
  BY <1>1, <1>2, <1>3, <1>4

LEMMA ViewInit == ASSUME Init PROVE ViewInv
<1>1. Scenes = {}
  BY DEF Init, Scenes, NoScene
<1>2. collected \in Seq(Views) /\ ~\E i \in 1 .. Len(collected) : TRUE
  BY EmptyBatch DEF Init
<1>3. /\ slot \in [Views -> Slots \cup {None}] /\ history \in [Slots -> Views \cup {None}]
      /\ extent \in Extents /\ requested \in Extents /\ HistoryIsOwn
  BY DEF Init, NoScene, NoHistory, Extents, HistoryIsOwn
<1> QED
  BY <1>1, <1>2, <1>3 DEF Init, ViewInv

LEMMA ViewStep ==
    ASSUME ViewInv, [Next]_vars
    PROVE  ViewInv'
<1>1. CASE ExecuteSame
  BY <1>1, ExecuteSameViews
<1>2. CASE \E e \in Engines : ExecuteNew(e)
  BY <1>2, ExecuteNewViews
<1>3. CASE (\E visible \in SUBSET Views : BeginFrame(visible)) /\ blended' = {}
  BY <1>3, BeginFrameViews
<1>4. CASE (\E v \in Views : EmptyView(v) \/ \E n \in Sizes : Trace(v, n)) /\ blended' = {}
  BY <1>4, EmptyViewViews, TraceViews
<1>5. CASE (ReleaseScenes \/ CloseScenes) /\ blended' = {}
  BY <1>5, NoScenesViews DEF ReleaseScenes, CloseScenes
<1>6. CASE \/ /\ EndFrame \/ WaitFails \/ Submit \/ Acquire \/ FlushDone \/ Complete
                     \/ \E next \in {"flushing", "unloading"} : Flush(next)
              /\ blended' = {}
           \/ UNCHANGED vars
  BY <1>6, SameViewsSteps, SameViewsInv
<1> QED
  BY <1>1, <1>2, <1>3, <1>4, <1>5, <1>6 DEF Next, Other

LEMMA ViewInvariance == Spec => []ViewInv
<1>1. Init => ViewInv
  BY ViewInit
<1>2. ViewInv /\ [Next]_vars => ViewInv'
  BY ViewStep
<1> QED
  BY <1>1, <1>2, PTL DEF Spec

-----------------------------------------------------------------------------
\* Types, and the slots of the views: two are enough for all that have a scene at a
\* time, so that no view is refused because the slots of others were not retired.
THEOREM TypeCorrect == Spec => []TypeOK
<1>1. ASSUME EngineInv, ViewInv PROVE TypeOK
  <2>1. collected \in Seq(Views) /\ IsInjective(collected)
    <3>1. collected \in Seq(Views) /\ DOMAIN collected = 1 .. Len(collected)
      BY <1>1, CollectedFacts DEF ViewInv
    <3> QED
      BY <1>1, <3>1 DEF ViewInv, IsInjective
  <2> QED
    BY <1>1, <2>1 DEF EngineInv, ViewInv, TypeOK, Submission
<1> QED
  BY <1>1, EngineInvariance, ViewInvariance, PTL

\* The engines that submitted or recorded commands use exist and are open, unless a
\* reload ends while views are recorded in the open frame.
THEOREM EnginesInUseAreOpen == ~ReloadMidFrame => (Spec => []HistoriesInUseAreOpen)
<1> SUFFICES ASSUME ~ReloadMidFrame PROVE Spec => []HistoriesInUseAreOpen
  OBVIOUS
<1>1. Init => OpenInv
  BY EngineInit
<1>2. EngineInv /\ OpenInv /\ [Next]_vars => OpenInv'
  BY EngineStep
<1>3. ASSUME EngineInv, OpenInv PROVE HistoriesInUseAreOpen
  <2>1. DOMAIN queue = 1 .. Len(queue)
    BY <1>3, QueueFacts DEF EngineInv
  <2> QED
    BY <1>3, <2>1 DEF OpenInv, HistoriesInUseAreOpen, Used
<1> QED
  BY <1>1, <1>2, <1>3, EngineInvariance, PTL DEF Spec

\* A view is traced over its own samples or over none.
THEOREM HistoriesAreOwn == Spec => []HistoryIsOwn
<1>1. ViewInv => HistoryIsOwn
  BY DEF ViewInv
<1> QED
  BY <1>1, ViewInvariance, PTL
=============================================================================
