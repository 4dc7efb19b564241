--------------------------- MODULE BatchSelection ---------------------------
(***************************************************************************)
(* Which queued builds a round of tryScheduleBatches takes: selectBatch of *)
(* chunk_scheduling.hpp and the policies around it.  Module Chunks lets a  *)
(* round take any of them; here time, distance and bytes decide, and       *)
(* versions and failures are left out.                                     *)
(*                                                                         *)
(* Time is counted in steps, and the age of a build stops at FairnessAge.  *)
(* Each queued build knows those queued before it, which stands for        *)
(* comparing the times they were queued at.                                *)
(***************************************************************************)
EXTENDS Integers, FiniteSets, SequencesExt

CONSTANTS
    Sections,       \* what is built
    Distance,       \* of each section from the camera
    Bytes,          \* of each section's build inputs
    MaxBatchSize,   \* chunkBuildingBatchSize
    TotalBatches,   \* chunkBuildingTotalBatches
    BackgroundWait, FairnessAge,
    UploadBudget, InFlightBudget

ASSUME SectionsAssumption ==
    Distance \in [Sections -> Nat] /\ Bytes \in [Sections -> Nat]
ASSUME PolicyAssumption ==
    /\ MaxBatchSize \in Nat \ {0} /\ TotalBatches \in Nat \ {0}
    /\ BackgroundWait \in 0 .. FairnessAge
    /\ FairnessAge \in Nat
    /\ UploadBudget \in Nat
    /\ InFlightBudget \in Nat /\ UploadBudget <= InFlightBudget

VARIABLES
    queue,      \* queuedIndex_, with what matters of the build of each section
    flights,    \* buildingBatches_: per batch the bytes of its builds
    sequence,   \* admissionSequence_, of which only the remainder by 4 matters
    row         \* history: how many admissions in a row let one kind of build wait

vars == <<queue, flights, sequence, row>>

\* priority > 0, now - queuedAt, and what is queued with an earlier queuedAt.
Entry == [interactive : BOOLEAN, age : 0 .. FairnessAge, before : SUBSET Sections]

Queued == DOMAIN queue

Aged(s) == queue[s].age >= FairnessAge

Total(numbers) ==
    LET upTo[n \in 0 .. Len(numbers)] == IF n = 0 THEN 0 ELSE upTo[n - 1] + numbers[n]
    IN  upTo[Len(numbers)]

InFlightBytes == Total(flights)

-----------------------------------------------------------------------------
(* chunk_scheduling.hpp                                                    *)

Nearer(s, t) == Distance[s] < Distance[t] \/ (Distance[s] = Distance[t] /\ s \in queue[t].before)

Preferred(s, t) ==
    \/ queue[s].interactive /\ ~queue[t].interactive
    \/ queue[s].interactive = queue[t].interactive /\ Nearer(s, t)

\* Mutant: no aging.
NearestFirst(s, t) == Preferred(s, t)

\* Old builds go first, in the order of arrival; then by priority, then by distance.
Before(s, t) ==
    IF Aged(s) \/ Aged(t) THEN Aged(s) /\ (Aged(t) => s \in queue[t].before)
                         ELSE Preferred(s, t)

Interactive(S) == {s \in S : queue[s].interactive}

Background(S) == S \ Interactive(S)

Ready ==
    \/ Interactive(Queued) # {}
    \/ Cardinality(Queued) >= MaxBatchSize
    \/ \E s \in Queued : queue[s].age >= BackgroundWait

\* Mutant: the builds considered are not added to those in flight.
CanAdmitBelow(bytes) == InFlightBytes = 0 \/ InFlightBytes < InFlightBudget

\* A section beyond the budget can progress only when nothing else is in flight.
CanAdmit(bytes) ==
    \/ InFlightBytes = 0
    \/ InFlightBytes < InFlightBudget /\ InFlightBytes + bytes <= InFlightBudget

\* Mutant: the four slots are counted from the start of each batch.
TurnInBatch(n) == n % 4 = 3

\* Every fourth slot, counted across batches, is one for background builds.
BackgroundTurn(n) == (sequence + n) % 4 = 3

\* The lane that slot n of a batch is for, if `left' is what is left.
Lane(n, left) ==
    LET old == {s \in Background(left) : Aged(s)}
    IN  IF Interactive(left) = {} \/ (old # {} /\ BackgroundTurn(n))
        THEN Background(left)
        ELSE Interactive(left)

\* The first of the lane is considered.
IsCandidate(s, n, left) ==
    s \in Lane(n, left) /\ \A t \in Lane(n, left) \ {s} : Before(s, t)

BytesOf(chosen) == Total([n \in DOMAIN chosen |-> Bytes[chosen[n]]])

Fits(chosen, s) ==
    /\ chosen = <<>> \/ BytesOf(chosen) + Bytes[s] <= UploadBudget \/ Bytes[s] = 0
    /\ CanAdmit(BytesOf(chosen) + Bytes[s])

LeftAfter(chosen, n) == Queued \ {chosen[k] : k \in 1 .. n}

\* The batch is filled slot by slot; the first candidate that does not fit ends it.
\* The code keeps the first `maximum' builds of each lane only; no other can be reached.
IsSelection(chosen, maximum) ==
    LET size == Len(chosen)
        rest == LeftAfter(chosen, size)
    IN  /\ \A n \in 1 .. size :
               /\ IsCandidate(chosen[n], n - 1, LeftAfter(chosen, n - 1))
               /\ Fits(SubSeq(chosen, 1, n - 1), chosen[n])
        /\ size < maximum => \A s \in rest : IsCandidate(s, size, rest) => ~Fits(chosen, s)

-----------------------------------------------------------------------------
(* The scheduler                                                           *)

NoRow == [passed |-> 0, yielded |-> 0]

Init == queue = <<>> /\ flights = <<>> /\ sequence = 0 /\ row = NoRow

Without(S) == [t \in Queued \ S |-> [queue[t] EXCEPT !.before = @ \ S]]

\* queueChunkBuild replaces what waits for the section, and its age.
Enqueued(s, interactive) ==
    [t \in Queued \cup {s} |->
        IF t = s THEN [interactive |-> interactive, age |-> 0, before |-> Queued \ {s}]
                 ELSE Without({s})[t]]

Enqueue(s, interactive) ==
    /\ queue' = Enqueued(s, interactive)
    /\ UNCHANGED <<flights, sequence, row>>

\* The queued build became stale and is dropped.
Drop(s) ==
    /\ s \in Queued
    /\ queue' = Without({s})
    /\ UNCHANGED <<flights, sequence, row>>

Tick ==
    /\ \E s \in Queued : ~Aged(s)
    /\ queue' = [s \in Queued |-> IF Aged(s) THEN queue[s] ELSE [queue[s] EXCEPT !.age = @ + 1]]
    /\ UNCHANGED <<flights, sequence, row>>

\* Who was let wait when the n-th of the chosen was admitted, after `before'.
RowAfter(chosen, n, before) ==
    LET left == LeftAfter(chosen, n)
    IN  IF queue[chosen[n]].interactive
        THEN IF \E s \in Background(left) : Aged(s)
             THEN [NoRow EXCEPT !.passed = before.passed + 1] ELSE NoRow
        ELSE IF Interactive(left) # {}
             THEN [NoRow EXCEPT !.yielded = before.yielded + 1] ELSE NoRow

Rows(chosen) ==
    LET upTo[n \in 0 .. Len(chosen)] ==
            IF n = 0 THEN row ELSE RowAfter(chosen, n, upTo[n - 1])
    IN  upTo[Len(chosen)]

\* A round of tryScheduleBatches.  Batches with interactive builds are small.
Maximum == IF Interactive(Queued) # {} /\ MaxBatchSize > 4 THEN 4 ELSE MaxBatchSize

Admit(chosen) ==
    /\ chosen # <<>> /\ IsSelection(chosen, Maximum)
    /\ queue' = Without(ToSet(chosen))
    /\ flights' = Append(flights, BytesOf(chosen))
    /\ sequence' = (sequence + Len(chosen)) % 4
    /\ row' = Rows(chosen)

Round ==
    /\ Len(flights) < TotalBatches /\ Queued # {} /\ Ready
    /\ \E chosen \in SeqOf(Queued, Maximum) : Admit(chosen)

\* A poll finds the batch finished.
Finish(k) ==
    /\ flights' = RemoveAt(flights, k)
    /\ UNCHANGED <<queue, sequence, row>>

\* resetScheduler waits for the batches, then makes a scheduler that counts anew.
ResetScheduler ==
    /\ flights' = <<>> /\ sequence' = 0 /\ row' = NoRow
    /\ UNCHANGED queue

Next ==
    \/ \E s \in Sections : Drop(s) \/ \E interactive \in BOOLEAN : Enqueue(s, interactive)
    \/ Tick \/ Round \/ ResetScheduler
    \/ \E k \in DOMAIN flights : Finish(k)

Spec == Init /\ [][Next]_vars

\* Time passes, the render thread runs a round every frame, the GPU finishes.
Fairness ==
    /\ WF_vars(Tick)
    /\ WF_vars(Round)
    /\ WF_vars(\E k \in DOMAIN flights : Finish(k))

FairSpec == Spec /\ Fairness

-----------------------------------------------------------------------------
TypeOK ==
    /\ Queued \subseteq Sections /\ queue \in [Queued -> Entry]
    /\ flights \in Seq(Nat) /\ Len(flights) <= TotalBatches
    /\ sequence \in 0 .. 3
    /\ row \in [passed : Nat, yielded : Nat]

(***************************************************************************)
(* Of four admissions in a row, in however many batches, the interactive   *)
(* builds do not get all while an old background build waits; and of two   *)
(* in a row at most one is a background build while an interactive one     *)
(* waits, however many old background builds there are.                    *)
(***************************************************************************)
LanesShare == row.passed < 4 /\ row.yielded < 2

(***************************************************************************)
(* What is in flight stays within the budget, unless it is one single      *)
(* section, itself beyond it: batches admitted one after the other do not  *)
(* add up.                                                                 *)
(***************************************************************************)
InFlightBounded ==
    \/ InFlightBytes <= InFlightBudget
    \/ \E s \in Sections : InFlightBytes = Bytes[s] /\ Bytes[s] > InFlightBudget

(***************************************************************************)
(* No build waits for ever: it is admitted, dropped or replaced, whatever  *)
(* arrives meanwhile nearer, with priority, or too large to fit.  Only a   *)
(* scheduler that is replaced over and over may start its count too often. *)
(***************************************************************************)
Fresh(s) == s \in Queued => queue[s].age = 0

NoStarvation ==
    \/ []<><<ResetScheduler>>_vars
    \/ \A s \in Sections : []<>Fresh(s)
=============================================================================
