---------------------------- MODULE FrameworkProofs ---------------------------
(*************************************************************************)
(* What the Framework and its parts promise: the frames and what they    *)
(* retain, for any image counts, resources and number of frames; the     *)
(* recording of failures, for any number of threads; and the pipeline    *)
(* cache across kills and power losses, for any instances, pipelines,    *)
(* sizes and numbers of files and losses.                                *)
(*************************************************************************)
EXTENDS FrameLoop, FailureState, PipelineCache, SequenceTheorems, FiniteSetTheorems, TLAPS

-----------------------------------------------------------------------------
(*************************************************************************)
(* The frames: no resource is freed in use, and none is held for long.   *)
(*************************************************************************)

Group == [serial : Nat, resources : SUBSET Resources]

InFrame == phase \in {"open", "flushing", "unloading"}

\* While a frame is open its context is free of work and has not been submitted yet;
\* only an open frame has recorded anything that is not submitted.
FrameInv ==
    /\ \A c \in Contexts : submitted[c] <= frameSerial
    /\ recorded # {} => phase = "open"
    /\ ~fatal /\ InFrame => /\ current \in Contexts /\ fence[current]
                            /\ \A c \in Contexts : submitted[c] < frameSerial

\* The queue is in the order of frames, and a frame's submission with the fence of
\* its context is its last: that fence is not signaled and says what it will prove.
QueueInv ==
    /\ \A i \in 1 .. Len(pending) :
           /\ pending[i].serial <= frameSerial
           /\ pending[i].context # NoContext =>
                  /\ pending[i].context \in Contexts
                  /\ pending[i].serial = submitted[pending[i].context]
                  /\ ~fence[pending[i].context]
    /\ \A i, j \in 1 .. Len(pending) : i < j =>
           /\ pending[i].serial <= pending[j].serial
           /\ pending[i].context # NoContext => pending[i].serial < pending[j].serial
    /\ \A c \in Contexts : fence[c] =>
           \A i \in 1 .. Len(pending) : pending[i].serial > submitted[c]

\* What is retired goes to a group at least as new as every submission that may use it.
RetainInv ==
    /\ \A k \in 1 .. Len(groups) : groups[k].serial <= frameSerial
    /\ InFrame => groups # <<>> /\ groups[Len(groups)].serial = frameSerial
    /\ \A i \in 1 .. Len(pending) :
           groups # <<>> /\ pending[i].serial <= groups[Len(groups)].serial
    /\ \A k \in 1 .. Len(groups) : \A r \in groups[k].resources :
           /\ r \in recorded => groups[k].serial = frameSerial
           /\ \A i \in 1 .. Len(pending) :
                  r \in pending[i].uses => pending[i].serial <= groups[k].serial

HeldInv ==
    /\ \A r \in Resources :
           state[r] = "retired" <=> \E k \in 1 .. Len(groups) : r \in groups[k].resources
    /\ \A k, l \in 1 .. Len(groups) : \A r \in groups[k].resources :
           r \in groups[l].resources => k = l

UseInv ==
    /\ \A r \in recorded : state[r] # "freed"
    /\ \A i \in 1 .. Len(pending) : \A r \in pending[i].uses : state[r] # "freed"

IInv == TypeOK /\ FrameInv /\ QueueInv /\ RetainInv /\ HeldInv /\ UseInv

-----------------------------------------------------------------------------
(* The queue of the GPU and the groups of the retainer                     *)

LEMMA Types ==
    ASSUME TypeOK
    PROVE  /\ groups \in Seq(Group) /\ Len(groups) \in Nat
           /\ \A k \in 1 .. Len(groups) :
                  groups[k] \in Group /\ groups[k].serial \in Nat
                      /\ groups[k].resources \subseteq Resources
           /\ pending \in Seq(Submission) /\ Len(pending) \in Nat
           /\ \A i \in 1 .. Len(pending) :
                  pending[i] \in Submission /\ pending[i].serial \in Nat
                      /\ pending[i].uses \subseteq Resources
           /\ groups = <<>> <=> Len(groups) = 0
           /\ pending = <<>> <=> Len(pending) = 0
           /\ DOMAIN groups = 1 .. Len(groups) /\ DOMAIN pending = 1 .. Len(pending)
<1>1. groups \in Seq(Group) /\ pending \in Seq(Submission)
  BY DEF TypeOK, Group
<1>2. /\ \A k \in 1 .. Len(groups) : groups[k] \in Group
      /\ \A i \in 1 .. Len(pending) : pending[i] \in Submission
  BY <1>1, ElementOfSeq
<1>3. /\ Len(groups) \in Nat /\ DOMAIN groups = 1 .. Len(groups)
      /\ Len(pending) \in Nat /\ DOMAIN pending = 1 .. Len(pending)
  BY <1>1, LenProperties
<1>4. /\ groups = <<>> <=> Len(groups) = 0
      /\ pending = <<>> <=> Len(pending) = 0
  BY <1>1, EmptySeq
<1> QED
  BY <1>1, <1>2, <1>3, <1>4 DEF Group, Submission

\* A group that has just been opened.
LEMMA OneGroup ==
    ASSUME NEW n \in Nat
    PROVE  /\ NewGroup(n) \in Group /\ NewGroup(n).serial = n /\ NewGroup(n).resources = {}
           /\ <<NewGroup(n)>> \in Seq(Group) /\ Len(<<NewGroup(n)>>) = 1
           /\ <<NewGroup(n)>>[1] = NewGroup(n) /\ <<NewGroup(n)>> # <<>>
<1>1. NewGroup(n) \in Group /\ NewGroup(n).serial = n /\ NewGroup(n).resources = {}
  BY DEF NewGroup, Group
<1> QED
  BY <1>1

LEMMA HoldingFacts ==
    ASSUME NEW g \in Seq(Group), g # <<>>, NEW r \in Resources
    PROVE  /\ Holding(g, r) \in Seq(Group)
           /\ Holding(g, r) # <<>>
           /\ Len(Holding(g, r)) = Len(g)
           /\ \A k \in 1 .. Len(g) :
                  /\ Holding(g, r)[k].serial = g[k].serial
                  /\ Holding(g, r)[k].resources =
                         IF k = Len(g) THEN g[k].resources \cup {r} ELSE g[k].resources
<1> DEFINE e == [g[Len(g)] EXCEPT !.resources = @ \cup {r}]
<1>1. Len(g) \in Nat \ {0} /\ Len(g) \in 1 .. Len(g)
  BY EmptySeq
<1>2. g[Len(g)] \in Group
  BY <1>1, ElementOfSeq
<1>3. /\ e \in Group /\ e.serial = g[Len(g)].serial
      /\ e.resources = g[Len(g)].resources \cup {r}
  BY <1>2 DEF Group
<1>4. Holding(g, r) = [g EXCEPT ![Len(g)] = e]
  BY DEF Holding
<1>5. Holding(g, r) \in Seq(Group) /\ Len(Holding(g, r)) = Len(g)
  BY <1>1, <1>3, <1>4, ExceptSeq
<1>6. \A k \in 1 .. Len(g) : Holding(g, r)[k] = IF k = Len(g) THEN e ELSE g[k]
  BY <1>1, <1>3, <1>4, ExceptSeq
<1>7. Holding(g, r) # <<>>
  BY <1>1, <1>5, EmptySeq
<1> HIDE DEF e
<1> QED
  BY <1>3, <1>5, <1>6, <1>7

\* retain() adds to the newest group, or opens group 0.
LEMMA RetainFacts ==
    ASSUME NEW g \in Seq(Group), NEW r \in Resources
    PROVE  /\ Retain(g, r) \in Seq(Group) /\ Retain(g, r) # <<>>
           /\ g = <<>> => /\ Len(Retain(g, r)) = 1
                          /\ Retain(g, r)[1].serial = 0
                          /\ Retain(g, r)[1].resources = {r}
           /\ g # <<>> =>
                  /\ Len(Retain(g, r)) = Len(g)
                  /\ \A k \in 1 .. Len(g) :
                         /\ Retain(g, r)[k].serial = g[k].serial
                         /\ Retain(g, r)[k].resources =
                                IF k = Len(g) THEN g[k].resources \cup {r} ELSE g[k].resources
<1>1. CASE g = <<>>
  <2> DEFINE x == <<NewGroup(0)>>
  <2>1. /\ x \in Seq(Group) /\ x # <<>> /\ Len(x) = 1
        /\ x[1].serial = 0 /\ x[1].resources = {}
    BY OneGroup
  <2>2. Retain(g, r) = Holding(x, r)
    BY <1>1 DEF Retain
  <2> HIDE DEF x
  <2> DEFINE h == Holding(x, r)
  <2>3. /\ h \in Seq(Group) /\ h # <<>> /\ Len(h) = Len(x)
        /\ \A k \in 1 .. Len(x) :
               /\ h[k].serial = x[k].serial
               /\ h[k].resources =
                      IF k = Len(x) THEN x[k].resources \cup {r} ELSE x[k].resources
    BY <2>1, HoldingFacts
  <2> HIDE DEF h
  <2>4. Len(h) = 1 /\ h[1].serial = 0 /\ h[1].resources = {r}
    BY <2>1, <2>3
  <2>5. Retain(g, r) = h
    BY <2>2 DEF h
  <2> QED
    BY <1>1, <2>3, <2>4, <2>5
<1>2. CASE g # <<>>
  BY <1>2, HoldingFacts DEF Retain
<1> QED
  BY <1>1, <1>2

\* beginFrame() drops the first n groups and opens one.
LEMMA BeginFrameFacts ==
    ASSUME NEW g \in Seq(Group), NEW n \in 0 .. Len(g), NEW serial \in Nat
    PROVE  LET h == BeginFrame(g, n, serial)
           IN  /\ h \in Seq(Group) /\ h # <<>>
               /\ Len(h) = Len(g) - n + 1
               /\ \A k \in 1 .. Len(g) - n : h[k] = g[k + n]
               /\ h[Len(h)] = NewGroup(serial)
<1>1. Len(g) \in Nat /\ \A k \in 1 .. Len(g) : g[k] \in Group
  BY LenProperties, ElementOfSeq
<1> DEFINE m == Len(g)
           rest == SubSeq(g, n + 1, m)
<1>2. n \in Nat /\ n + 1 \in Int /\ m \in Int /\ \A k \in n + 1 .. m : g[k] \in Group
  BY <1>1
<1>3. /\ rest \in Seq(Group)
      /\ Len(rest) = IF n + 1 <= m THEN m - (n + 1) + 1 ELSE 0
      /\ \A k \in 1 .. m - (n + 1) + 1 : rest[k] = g[(n + 1) + k - 1]
  BY <1>2, SubSeqProperties
<1>4. m - (n + 1) + 1 = m - n
  BY <1>1, <1>2
<1>5. Len(rest) = m - n /\ \A k \in 1 .. m - n : rest[k] = g[k + n]
  <2>1. Len(rest) = m - n
    BY <1>1, <1>2, <1>3
  <2>2. ASSUME NEW k \in 1 .. m - n PROVE rest[k] = g[k + n]
    <3>1. (n + 1) + k - 1 = k + n
      BY <1>2
    <3> QED
      BY <1>3, <1>4, <3>1
  <2> QED
    BY <2>1, <2>2
<1>6. NewGroup(serial) \in Group
  BY OneGroup
<1> DEFINE h == Append(rest, NewGroup(serial))
<1> HIDE DEF rest
<1>7. /\ h \in Seq(Group) /\ h # <<>> /\ Len(h) = Len(rest) + 1
      /\ \A k \in 1 .. Len(rest) : h[k] = rest[k]
      /\ h[Len(rest) + 1] = NewGroup(serial)
  BY <1>3, <1>6, AppendProperties
<1>8. h = BeginFrame(g, n, serial)
  BY DEF BeginFrame, rest
<1> HIDE DEF h, m
<1>9. Len(h) = m - n + 1 /\ h[Len(h)] = NewGroup(serial) /\ \A k \in 1 .. m - n : h[k] = g[k + n]
  BY <1>5, <1>7
<1> QED
  BY <1>7, <1>8, <1>9 DEF m

\* A submission joins the queue.
LEMMA JoinFacts ==
    ASSUME TypeOK, NEW e \in Submission
    PROVE  /\ Append(pending, e) \in Seq(Submission)
           /\ Append(pending, e) # <<>>
           /\ Len(Append(pending, e)) = Len(pending) + 1
           /\ \A i \in 1 .. Len(pending) + 1 :
                  Append(pending, e)[i] = IF i = Len(pending) + 1 THEN e ELSE pending[i]
<1>1. pending \in Seq(Submission) /\ Len(pending) \in Nat
  BY Types
<1>2. /\ Append(pending, e) \in Seq(Submission)
      /\ Append(pending, e) # <<>>
      /\ Len(Append(pending, e)) = Len(pending) + 1
      /\ \A i \in 1 .. Len(pending) : Append(pending, e)[i] = pending[i]
      /\ Append(pending, e)[Len(pending) + 1] = e
  BY <1>1, AppendProperties
<1> QED
  BY <1>1, <1>2

\* The oldest submission leaves it.
LEMMA LeaveFacts ==
    ASSUME TypeOK, pending # <<>>
    PROVE  /\ Tail(pending) \in Seq(Submission)
           /\ Len(Tail(pending)) = Len(pending) - 1
           /\ Len(pending) - 1 \in Nat
           /\ \A i \in 1 .. Len(pending) - 1 : Tail(pending)[i] = pending[i + 1]
           /\ Head(pending) = pending[1]
<1>1. pending \in Seq(Submission) /\ Len(pending) \in Nat /\ Len(pending) # 0
  BY Types
<1>2. /\ Tail(pending) \in Seq(Submission)
      /\ Len(Tail(pending)) = Len(pending) - 1
      /\ \A i \in 1 .. Len(Tail(pending)) : Tail(pending)[i] = pending[i + 1]
  BY <1>1, HeadTailProperties
<1>3. Head(pending) = pending[1]
  BY <1>1
<1> QED
  BY <1>1, <1>2, <1>3

-----------------------------------------------------------------------------
(* The actions                                                             *)

LEMMA InitInv == ASSUME Init PROVE IInv
<1>1. images \in Nat
  BY ImageCountsAssumption DEF Init
<1>2. groups = <<>> /\ pending = <<>> /\ Len(groups) = 0 /\ Len(pending) = 0
  BY DEF Init
<1>3. groups \in Seq(Group) /\ pending \in Seq(Submission)
  BY <1>2, EmptySeq
<1>4. TypeOK
  BY <1>1, <1>3 DEF Init, TypeOK, Group
<1>5. FrameInv /\ QueueInv /\ UseInv
  BY <1>2 DEF Init, FrameInv, QueueInv, UseInv, InFrame
<1>6. RetainInv /\ HeldInv
  BY <1>2 DEF Init, RetainInv, HeldInv, InFrame
<1> QED
  BY <1>4, <1>5, <1>6 DEF IInv

\* Steps of the render thread that leave the queue, the groups and the resources
\* alone, and are outside a frame, end a flush or end the loop.
Quiet ==
    /\ UNCHANGED <<images, submitted, frameSerial, groups, recorded, pending, state>>
    /\ \/ UNCHANGED fence /\ phase' \in {"start", "presented"}
              /\ phase \in {"start", "submitted", "presented"}
              /\ current' \in {current, NoContext} /\ fatal' = fatal
       \/ UNCHANGED <<fence, current, fatal>> /\ phase = "flushing" /\ phase' = "open"
       \/ UNCHANGED <<current, phase>> /\ fatal'
              /\ fence' \in {fence, [fence EXCEPT ![current] = FALSE]}

LEMMA QuietInv ==
    ASSUME IInv, Quiet
    PROVE  IInv'
<1>1. \A c \in Contexts : fence'[c] \in BOOLEAN /\ (fence'[c] => fence[c])
  BY DEF IInv, TypeOK, Quiet
<1>2. TypeOK'
  <2>1. fence' \in [Contexts -> BOOLEAN]
    BY DEF IInv, TypeOK, Quiet
  <2> QED
    BY <2>1 DEF IInv, TypeOK, Quiet, Contexts, Submission
<1>3. FrameInv'
  BY <1>1 DEF IInv, FrameInv, Quiet, InFrame, Contexts
<1>4. QueueInv'
  BY <1>1 DEF IInv, QueueInv, Quiet, Contexts
<1>5. RetainInv'
  BY DEF IInv, RetainInv, Quiet, InFrame
<1>6. HeldInv' /\ UseInv'
  BY DEF IInv, HeldInv, UseInv, Quiet
<1> QED
  BY <1>2, <1>3, <1>4, <1>5, <1>6 DEF IInv

LEMMA QuietSteps ==
    ASSUME IInv, AcquireExhausted \/ FlushDone \/ Present \/ SubmitFails \/ Fail
    PROVE  Quiet
BY DEF AcquireExhausted, FlushDone, Present, SubmitFails, Fail, Quiet

LEMMA RecordInv ==
    ASSUME IInv, NEW r \in Resources, Record(r)
    PROVE  IInv'
<1> USE DEF Record
<1>1. TypeOK'
  BY DEF IInv, TypeOK, Contexts, Submission
<1>2. FrameInv' /\ QueueInv'
  BY DEF IInv, FrameInv, QueueInv, InFrame, Contexts
<1>3. ASSUME NEW k \in 1 .. Len(groups) PROVE r \notin groups[k].resources
  BY <1>3 DEF IInv, HeldInv
<1>4. RetainInv'
  BY <1>3 DEF IInv, RetainInv, InFrame
<1>5. HeldInv' /\ UseInv'
  BY DEF IInv, HeldInv, UseInv
<1> QED
  BY <1>1, <1>2, <1>4, <1>5 DEF IInv

\* An open frame's commands join the queue: with the fence of its context, which ends
\* the frame, or with one of a flush.
Joins(e, c) ==
    /\ ~fatal /\ phase = "open"
    /\ e \in Submission /\ e.context = c /\ e.serial = frameSerial /\ e.uses = recorded
    /\ pending' = Append(pending, e)
    /\ recorded' = {}
    /\ UNCHANGED <<images, current, frameSerial, groups, state, fatal>>
    /\ \/ /\ c = current
          /\ phase' = "submitted"
          /\ submitted' = [submitted EXCEPT ![c] = frameSerial]
          /\ fence' = [fence EXCEPT ![c] = FALSE]
       \/ /\ c = NoContext
          /\ phase' \in {"flushing", "unloading"}
          /\ UNCHANGED <<submitted, fence>>

LEMMA JoinsInv ==
    ASSUME IInv, NEW e, NEW c, Joins(e, c)
    PROVE  IInv'
<1> DEFINE n == Len(pending)
<1>1. /\ n \in Nat /\ pending' \in Seq(Submission) /\ Len(pending') = n + 1
      /\ \A i \in 1 .. n + 1 : pending'[i] = IF i = n + 1 THEN e ELSE pending[i]
  BY Types, JoinFacts DEF IInv, Joins
<1>2. current \in Contexts /\ fence[current] /\ NoContext \notin Contexts
  <2>1. NoContext \notin Contexts
    BY DEF NoContext, Contexts
  <2> QED
    BY <2>1 DEF IInv, FrameInv, Joins, InFrame
<1>3. /\ Contexts' = Contexts
      /\ \A k \in Contexts : /\ submitted'[k] = IF k = c THEN frameSerial ELSE submitted[k]
                             /\ fence'[k] <=> (fence[k] /\ k # c)
      /\ submitted' \in [Contexts -> Nat] /\ fence' \in [Contexts -> BOOLEAN]
      /\ frameSerial \in Nat
  <2>1. Contexts' = Contexts
    BY DEF Joins, Contexts
  <2>2. /\ submitted \in [Contexts -> Nat] /\ fence \in [Contexts -> BOOLEAN]
        /\ frameSerial \in Nat
    BY DEF IInv, TypeOK
  <2>3. CASE c = current /\ submitted' = [submitted EXCEPT ![c] = frameSerial]
                        /\ fence' = [fence EXCEPT ![c] = FALSE]
    BY <1>2, <2>1, <2>2, <2>3
  <2>4. CASE c = NoContext /\ submitted' = submitted /\ fence' = fence
    BY <1>2, <2>1, <2>2, <2>4
  <2> QED
    BY <2>3, <2>4 DEF Joins
<1>4. TypeOK'
  BY <1>1, <1>3 DEF IInv, TypeOK, Joins, Submission
<1>5. FrameInv'
  <2>1. \A k \in Contexts : submitted[k] < frameSerial /\ submitted[k] \in Nat
    BY DEF IInv, FrameInv, TypeOK, Joins, InFrame
  <2>2. \A k \in Contexts' : submitted'[k] <= frameSerial'
    BY <1>3, <2>1 DEF Joins
  <2>3. ASSUME (~fatal /\ InFrame)'
        PROVE  /\ current' \in Contexts' /\ fence'[current']
               /\ \A k \in Contexts' : submitted'[k] < frameSerial'
    BY <1>2, <1>3, <2>1, <2>3 DEF Joins, InFrame
  <2> QED
    BY <2>2, <2>3 DEF FrameInv, Joins
<1>6. \A i \in 1 .. n : pending[i].context # c \/ c = NoContext
  BY <1>2 DEF IInv, QueueInv, Joins
<1>7. QueueInv'
  <2>1. \A i \in 1 .. n :
            /\ pending[i].serial <= frameSerial
            /\ pending[i].serial \in Nat
            /\ pending[i].context # NoContext =>
                   /\ pending[i].context \in Contexts
                   /\ pending[i].serial = submitted[pending[i].context]
                   /\ ~fence[pending[i].context]
                   /\ pending[i].serial < frameSerial
    BY Types DEF IInv, QueueInv, FrameInv, Joins, InFrame
  <2>2. ASSUME NEW i \in 1 .. Len(pending')
        PROVE  /\ pending'[i].serial <= frameSerial'
               /\ pending'[i].context # NoContext =>
                      /\ pending'[i].context \in Contexts'
                      /\ pending'[i].serial = submitted'[pending'[i].context]
                      /\ ~fence'[pending'[i].context]
    <3>1. CASE i = n + 1
      BY <1>1, <1>2, <1>3, <3>1 DEF Joins
    <3>2. CASE i # n + 1
      <4>1. i \in 1 .. n /\ pending'[i] = pending[i]
        BY <1>1, <3>2
      <4>2. pending'[i].serial <= frameSerial'
        BY <1>1, <2>1, <4>1 DEF Joins
      <4>3. ASSUME pending[i].context # NoContext
            PROVE  /\ pending[i].context \in Contexts'
                   /\ pending[i].serial = submitted'[pending[i].context]
                   /\ ~fence'[pending[i].context]
        <5>1. pending[i].context \in Contexts /\ pending[i].context # c
          BY <1>1, <1>6, <2>1, <4>1, <4>3
        <5> QED
          BY <1>1, <1>3, <2>1, <4>1, <4>3, <5>1
      <4> QED
        BY <4>1, <4>2, <4>3
    <3> QED
      BY <3>1, <3>2
  <2>3. ASSUME NEW i \in 1 .. Len(pending'), NEW j \in 1 .. Len(pending'), i < j
        PROVE  /\ pending'[i].serial <= pending'[j].serial
               /\ pending'[i].context # NoContext => pending'[i].serial < pending'[j].serial
    <3>1. i \in 1 .. n /\ pending'[i] = pending[i]
      BY <1>1, <2>3
    <3>2. CASE j = n + 1
      <4>1. pending'[j] = e /\ e.serial = frameSerial
        BY <1>1, <3>2 DEF Joins
      <4> QED
        BY <1>1, <2>1, <3>1, <4>1
    <3>3. CASE j # n + 1
      <4>1. j \in 1 .. n /\ pending'[j] = pending[j]
        BY <1>1, <3>3
      <4> QED
        BY <2>3, <3>1, <4>1 DEF IInv, QueueInv
    <3> QED
      BY <3>2, <3>3
  <2>4. ASSUME NEW k \in Contexts', fence'[k], NEW i \in 1 .. Len(pending')
        PROVE  pending'[i].serial > submitted'[k]
    <3>1. k \in Contexts /\ fence[k] /\ submitted'[k] = submitted[k]
      BY <1>3, <2>4
    <3>2. CASE i = n + 1
      BY <1>1, <1>3, <3>1, <3>2 DEF IInv, FrameInv, Joins, InFrame, TypeOK
    <3>3. CASE i # n + 1
      <4>1. i \in 1 .. n /\ pending'[i] = pending[i]
        BY <1>1, <3>3
      <4> QED
        BY <3>1, <4>1 DEF IInv, QueueInv
    <3> QED
      BY <3>2, <3>3
  <2> QED
    BY <2>2, <2>3, <2>4 DEF QueueInv
<1>8. RetainInv'
  <2>1. groups # <<>> /\ groups[Len(groups)].serial = frameSerial
    BY DEF IInv, RetainInv, Joins, InFrame
  <2>2. ASSUME NEW i \in 1 .. Len(pending')
        PROVE  pending'[i].serial <= frameSerial
    BY <1>1, <1>3, <2>2 DEF IInv, QueueInv, Joins
  <2>3. ASSUME NEW k \in 1 .. Len(groups), NEW r \in groups[k].resources,
               NEW i \in 1 .. Len(pending'), r \in pending'[i].uses
        PROVE  pending'[i].serial <= groups[k].serial
    <3>1. CASE i = n + 1
      BY <1>1, <1>3, <2>3, <3>1 DEF IInv, RetainInv, Joins
    <3>2. CASE i # n + 1
      <4>1. i \in 1 .. n /\ pending'[i] = pending[i]
        BY <1>1, <3>2
      <4> QED
        BY <2>3, <4>1 DEF IInv, RetainInv
    <3> QED
      BY <3>1, <3>2
  <2> QED
    BY <2>1, <2>2, <2>3 DEF IInv, RetainInv, Joins, InFrame
<1>9. HeldInv'
  BY DEF IInv, HeldInv, Joins
<1>10. UseInv'
  <2>1. ASSUME NEW i \in 1 .. Len(pending'), NEW r \in pending'[i].uses
        PROVE  state[r] # "freed"
    <3>1. CASE i = n + 1
      BY <1>1, <2>1, <3>1 DEF IInv, UseInv, Joins
    <3>2. CASE i # n + 1
      BY <1>1, <2>1, <3>2 DEF IInv, UseInv
    <3> QED
      BY <3>1, <3>2
  <2> QED
    BY <2>1 DEF UseInv, Joins
<1> QED
  BY <1>4, <1>5, <1>7, <1>8, <1>9, <1>10 DEF IInv

LEMMA SubmitInv ==
    ASSUME IInv, Submit
    PROVE  IInv'
<1> DEFINE e == [context |-> current, serial |-> frameSerial, uses |-> recorded]
<1>1. e \in Submission
  BY DEF IInv, TypeOK, Submission
<1>2. Joins(e, current)
  BY <1>1 DEF Submit, Joins
<1> QED
  BY <1>2, JoinsInv

LEMMA FlushInv ==
    ASSUME IInv, NEW next \in {"flushing", "unloading"}, Flush(next)
    PROVE  IInv'
<1> DEFINE e == [context |-> NoContext, serial |-> frameSerial, uses |-> recorded]
<1>1. e \in Submission
  BY DEF IInv, TypeOK, Submission
<1>2. Joins(e, NoContext)
  BY <1>1 DEF Flush, Joins
<1> QED
  BY <1>2, JoinsInv

\* The fence of the oldest submission proves what its context was last submitted for.
LEMMA CompleteInv ==
    ASSUME IInv, Complete
    PROVE  IInv'
<1> DEFINE n == Len(pending)
           c == pending[1].context
<1>1. /\ n \in Nat /\ n - 1 \in Nat /\ pending' \in Seq(Submission) /\ Len(pending') = n - 1
      /\ \A i \in 1 .. n - 1 : pending'[i] = pending[i + 1] /\ i + 1 \in 1 .. n /\ 1 < i + 1
      /\ 1 \in 1 .. n
  BY Types, LeaveFacts DEF IInv, Complete
<1>2. /\ Contexts' = Contexts /\ fence' \in [Contexts -> BOOLEAN]
      /\ \A k \in Contexts : fence'[k] <=> (fence[k] \/ k = c)
  BY LeaveFacts DEF IInv, TypeOK, Complete, Contexts
<1>3. TypeOK'
  BY <1>1, <1>2 DEF IInv, TypeOK, Complete, Submission
<1>4. FrameInv'
  BY <1>2 DEF IInv, FrameInv, TypeOK, Complete, InFrame
<1>5. \A i \in 2 .. n : c # NoContext =>
          /\ pending[1].serial < pending[i].serial /\ pending[1].serial = submitted[c]
          /\ pending[i].context # c
  <2>1. ASSUME NEW i \in 2 .. n, c # NoContext
        PROVE  /\ pending[1].serial < pending[i].serial /\ pending[1].serial = submitted[c]
               /\ pending[i].context = c => pending[i].serial = submitted[c]
    BY <1>1, <2>1 DEF IInv, QueueInv
  <2>2. \A i \in 1 .. n : pending[i].serial \in Nat
    BY Types DEF IInv
  <2> QED
    BY <1>1, <2>1, <2>2
<1>6. QueueInv'
  <2>1. ASSUME NEW i \in 1 .. n - 1
        PROVE  /\ pending'[i].serial <= frameSerial'
               /\ pending'[i].context # NoContext =>
                      /\ pending'[i].context \in Contexts'
                      /\ pending'[i].serial = submitted'[pending'[i].context]
                      /\ ~fence'[pending'[i].context]
    <3>1. i + 1 \in 1 .. n /\ i + 1 \in 2 .. n /\ pending'[i] = pending[i + 1]
      BY <1>1
    <3> QED
      BY <1>2, <1>5, <3>1 DEF IInv, QueueInv, Complete
  <2>2. ASSUME NEW i \in 1 .. n - 1, NEW j \in 1 .. n - 1, i < j
        PROVE  /\ pending'[i].serial <= pending'[j].serial
               /\ pending'[i].context # NoContext => pending'[i].serial < pending'[j].serial
    <3>1. i + 1 \in 1 .. n /\ j + 1 \in 1 .. n /\ i + 1 < j + 1
      BY <1>1, <2>2
    <3> QED
      BY <1>1, <3>1, ZenonT(30) DEF IInv, QueueInv
  <2>3. ASSUME NEW k \in Contexts', fence'[k], NEW i \in 1 .. n - 1
        PROVE  pending'[i].serial > submitted'[k]
    <3>1. i + 1 \in 1 .. n /\ i + 1 \in 2 .. n /\ pending'[i] = pending[i + 1] /\ k \in Contexts
      BY <1>1, <1>2
    <3>2. CASE fence[k]
      BY <3>1, <3>2 DEF IInv, QueueInv, Complete
    <3>3. CASE k = c
      <4>1. c # NoContext
        BY <3>1, <3>3 DEF NoContext, Contexts
      <4> QED
        BY <1>5, <3>1, <3>3, <4>1, Types DEF IInv, Complete
    <3> QED
      BY <1>2, <2>3, <3>1, <3>2, <3>3
  <2> QED
    BY <1>1, <2>1, <2>2, <2>3 DEF QueueInv
<1>7. RetainInv'
  <2>1. \A i \in 1 .. n - 1 : i + 1 \in 1 .. n /\ pending'[i] = pending[i + 1]
    BY <1>1
  <2> QED
    BY <1>1, <2>1 DEF IInv, RetainInv, Complete, InFrame
<1>8. HeldInv'
  BY DEF IInv, HeldInv, Complete
<1>9. UseInv'
  BY <1>1 DEF IInv, UseInv, Complete
<1> QED
  BY <1>3, <1>4, <1>6, <1>7, <1>8, <1>9 DEF IInv

\* A resource is retired to the newest group, which every submission so far precedes.
LEMMA RetireInv ==
    ASSUME IInv, NEW r \in Resources, Retire(r)
    PROVE  IInv'
<1>1. /\ groups \in Seq(Group) /\ Len(groups) \in Nat
      /\ groups = <<>> <=> Len(groups) = 0
      /\ \A k \in 1 .. Len(groups) : groups[k].serial \in Nat
      /\ frameSerial \in Nat /\ state \in [Resources -> {"live", "retired", "freed"}]
      /\ state[r] = "live"
  BY Types DEF IInv, TypeOK, Retire
<1>2. /\ groups' \in Seq(Group) /\ groups' # <<>>
      /\ \A q \in Resources : state'[q] = IF q = r THEN "retired" ELSE state[q]
      /\ state' \in [Resources -> {"live", "retired", "freed"}]
  <2>1. groups' = Retain(groups, r) /\ state' = [state EXCEPT ![r] = "retired"]
    BY DEF Retire
  <2>2. groups' \in Seq(Group) /\ groups' # <<>>
    <3>1. Retain(groups, r) \in Seq(Group) /\ Retain(groups, r) # <<>>
      BY <1>1, RetainFacts
    <3> QED
      BY <2>1, <3>1
  <2>3. /\ \A q \in Resources : state'[q] = IF q = r THEN "retired" ELSE state[q]
        /\ state' \in [Resources -> {"live", "retired", "freed"}]
    BY <1>1, <2>1
  <2> QED
    BY <2>2, <2>3
<1>3. TypeOK'
  BY <1>2 DEF IInv, TypeOK, Retire, Contexts, Submission, Group
<1>4. FrameInv' /\ QueueInv'
  BY DEF IInv, FrameInv, QueueInv, Retire, InFrame, Contexts
<1>5. UseInv'
  <2>1. \A i \in 1 .. Len(pending) : pending[i].uses \subseteq Resources
    BY Types DEF IInv
  <2>2. recorded \subseteq Resources
    BY DEF IInv, TypeOK
  <2> QED
    BY <1>2, <2>1, <2>2 DEF IInv, UseInv, Retire
<1>6. CASE groups = <<>>
  <2>1. /\ Len(groups') = 1 /\ groups'[1].serial = 0 /\ groups'[1].resources = {r}
        /\ Len(groups) = 0
    <3>1. groups' = Retain(groups, r)
      BY DEF Retire
    <3>2. Len(Retain(groups, r)) = 1
      BY <1>1, <1>6, RetainFacts
    <3>3. Retain(groups, r)[1].serial = 0 /\ Retain(groups, r)[1].resources = {r}
      BY <1>1, <1>6, RetainFacts
    <3>4. Len(groups) = 0
      BY <1>6
    <3> QED
      BY <3>1, <3>2, <3>3, <3>4
  <2>2. ~InFrame /\ recorded = {} /\ \A i \in 1 .. Len(pending) : FALSE
    BY <1>6 DEF IInv, RetainInv, FrameInv, InFrame
  <2>3. RetainInv'
    <3>1. \A k \in 1 .. Len(groups') : k = 1
      BY <2>1
    <3> QED
      BY <1>1, <2>1, <2>2, <3>1 DEF RetainInv, Retire, InFrame
  <2>4. HeldInv'
    <3>1. \A k \in 1 .. Len(groups') : k = 1
      BY <2>1
    <3>2. \A q \in Resources : state[q] # "retired"
      BY <2>1 DEF IInv, HeldInv
    <3>3. 1 \in 1 .. Len(groups')
      BY <2>1
    <3> QED
      BY <1>2, <2>1, <3>1, <3>2, <3>3 DEF HeldInv
  <2> QED
    BY <1>3, <1>4, <1>5, <2>3, <2>4 DEF IInv
<1>7. CASE groups # <<>>
  <2> DEFINE m == Len(groups)
  <2>1. /\ Len(groups') = m /\ m \in 1 .. m
        /\ \A k \in 1 .. m :
               /\ groups'[k].serial = groups[k].serial
               /\ \A q \in Resources : q \in groups'[k].resources <=>
                      (q \in groups[k].resources \/ (k = m /\ q = r))
               /\ groups'[k].resources \subseteq Resources
    <3>1. /\ Len(groups') = m /\ m \in 1 .. m
          /\ \A k \in 1 .. m :
                 /\ groups'[k].serial = groups[k].serial
                 /\ groups'[k].resources =
                        IF k = m THEN groups[k].resources \cup {r} ELSE groups[k].resources
      <4>1. groups' = Retain(groups, r)
        BY DEF Retire
      <4>2. m \in 1 .. m
        BY <1>1, <1>7
      <4>3. /\ Len(Retain(groups, r)) = m
            /\ \A k \in 1 .. m :
                   /\ Retain(groups, r)[k].serial = groups[k].serial
                   /\ Retain(groups, r)[k].resources =
                          IF k = m THEN groups[k].resources \cup {r} ELSE groups[k].resources
        BY <1>1, <1>7, RetainFacts
      <4> QED
        BY <4>1, <4>2, <4>3
    <3>2. \A k \in 1 .. m : groups[k].resources \subseteq Resources
      BY Types DEF IInv
    <3> QED
      BY <3>1, <3>2
  <2>2. ASSUME NEW k \in 1 .. m PROVE r \notin groups[k].resources
    BY <1>1, <2>2 DEF IInv, HeldInv
  <2>3. RetainInv'
    <3>1. ASSUME NEW k \in 1 .. m, NEW q \in groups'[k].resources
          PROVE  /\ q \in recorded => groups[k].serial = frameSerial
                 /\ \A i \in 1 .. Len(pending) :
                        q \in pending[i].uses => pending[i].serial <= groups[k].serial
      <4>1. CASE q \in groups[k].resources
        BY <3>1, <4>1 DEF IInv, RetainInv
      <4>2. CASE k = m
        BY <4>2 DEF IInv, RetainInv, FrameInv, InFrame
      <4> QED
        BY <2>1, <3>1, <4>1, <4>2
    <3>2. UNCHANGED <<phase, frameSerial, recorded, pending>>
      BY DEF Retire
    <3>3. groups # <<>> /\ groups' # <<>>
      BY <1>2, <1>7
    <3>4. \A k \in 1 .. m : groups'[k].serial = groups[k].serial /\ groups[k].serial <= frameSerial
      BY <2>1 DEF IInv, RetainInv
    <3>5. InFrame' => groups'[m].serial = frameSerial
      BY <2>1, <3>2 DEF IInv, RetainInv, InFrame
    <3>6. \A i \in 1 .. Len(pending) : pending[i].serial <= groups'[m].serial
      BY <2>1 DEF IInv, RetainInv
    <3>7. Len(groups') = m
      BY <2>1
    <3>8. /\ \A k \in 1 .. Len(groups') : groups'[k].serial <= frameSerial'
          /\ InFrame' => groups' # <<>> /\ groups'[Len(groups')].serial = frameSerial'
          /\ \A i \in 1 .. Len(pending') :
                 groups' # <<>> /\ pending'[i].serial <= groups'[Len(groups')].serial
      BY <3>2, <3>3, <3>4, <3>5, <3>6, <3>7
    <3>9. \A k \in 1 .. Len(groups') : \A q \in groups'[k].resources :
              /\ q \in recorded' => groups'[k].serial = frameSerial'
              /\ \A i \in 1 .. Len(pending') :
                     q \in pending'[i].uses => pending'[i].serial <= groups'[k].serial
      BY <3>1, <3>2, <3>4, <3>7
    <3> QED
      BY <3>8, <3>9 DEF RetainInv
  <2>4. HeldInv'
    <3>1. ASSUME NEW q \in Resources
          PROVE  state'[q] = "retired" <=> \E k \in 1 .. m : q \in groups'[k].resources
      BY <1>2, <2>1, <2>2 DEF IInv, HeldInv
    <3>2. ASSUME NEW k \in 1 .. m, NEW l \in 1 .. m, NEW q \in groups'[k].resources,
                 q \in groups'[l].resources
          PROVE  k = l
      BY <2>1, <2>2, <3>2 DEF IInv, HeldInv
    <3> QED
      BY <2>1, <3>1, <3>2 DEF HeldInv
  <2> QED
    BY <1>3, <1>4, <1>5, <2>3, <2>4 DEF IInv
<1> QED
  BY <1>6, <1>7

\* Everything that is retained, and possibly more, is destroyed with nothing in use.
Clears(n) ==
    /\ ~fatal /\ pending = <<>> /\ recorded = {}
    /\ state' \in [Resources -> {"live", "freed"}]
    /\ groups' = <<>> \/ (n \in Nat /\ groups' = <<NewGroup(n)>>)
    /\ UNCHANGED <<frameSerial, recorded, pending, fatal>>

LEMMA ClearsInv ==
    ASSUME IInv, NEW n, Clears(n)
    PROVE  /\ groups' \in Seq(Group) /\ pending' \in Seq(Submission')
           /\ state' \in [Resources -> {"live", "retired", "freed"}]
           /\ \A k \in 1 .. Len(groups') :
                  k = 1 /\ groups'[k].serial = n /\ groups'[k].resources = {}
           /\ Len(pending') = 0
           /\ HeldInv' /\ UseInv'
<1>1. /\ groups' \in Seq(Group)
      /\ \A k \in 1 .. Len(groups') :
             k = 1 /\ groups'[k].serial = n /\ groups'[k].resources = {}
  <2>1. CASE groups' = <<>>
    BY <2>1, EmptySeq
  <2>2. CASE n \in Nat /\ groups' = <<NewGroup(n)>>
    BY <2>2, OneGroup
  <2> QED
    BY <2>1, <2>2 DEF Clears
<1>2. Len(pending') = 0 /\ pending' \in Seq(Submission')
  BY EmptySeq DEF Clears
<1>3. HeldInv'
  <2>1. \A q \in Resources : state'[q] # "retired"
    BY DEF Clears
  <2> QED
    BY <1>1, <2>1 DEF HeldInv
<1>4. UseInv'
  BY <1>2 DEF UseInv, Clears
<1>5. state' \in [Resources -> {"live", "retired", "freed"}]
  BY DEF Clears
<1> QED
  BY <1>1, <1>2, <1>3, <1>4, <1>5

\* What clearing the retainer leaves is not retired any more.
LEMMA DestroyedAll ==
    ASSUME IInv, NEW rs \in SUBSET Resources
    PROVE  Destroyed(rs \cup Retained(groups)) \in [Resources -> {"live", "freed"}]
<1>1. ASSUME NEW r \in Resources
      PROVE  (IF r \in rs \cup Retained(groups) THEN "freed" ELSE state[r]) \in {"live", "freed"}
  <2>1. state[r] \in {"live", "retired", "freed"}
    BY DEF IInv, TypeOK
  <2>2. CASE state[r] = "retired"
    <3>1. PICK k \in 1 .. Len(groups) : r \in groups[k].resources
      BY <2>2 DEF IInv, HeldInv
    <3>2. k \in DOMAIN groups
      BY Types DEF IInv
    <3>3. r \in Retained(groups)
      BY <3>1, <3>2 DEF Retained
    <3> QED
      BY <3>3
  <2> QED
    BY <2>1, <2>2
<1> QED
  BY <1>1 DEF Destroyed

LEMMA ReleaseSceneInv ==
    ASSUME IInv, NEW scene \in SUBSET Resources, ReleaseScene(scene)
    PROVE  IInv'
<1> DEFINE n == IF current = NoContext THEN 0 ELSE frameSerial
<1>1. frameSerial \in Nat /\ n \in Nat /\ n <= frameSerial
  BY DEF IInv, TypeOK
<1>2. recorded = {}
  BY DEF ReleaseScene, BetweenFrames, IInv, FrameInv
<1>3. Clears(n)
  BY <1>1, <1>2, DestroyedAll DEF ReleaseScene, Clears
<1>4. TypeOK'
  BY <1>3, ClearsInv DEF IInv, TypeOK, ReleaseScene, Contexts, Submission, Group, BetweenFrames
<1>5. FrameInv'
  BY <1>2 DEF IInv, FrameInv, ReleaseScene, InFrame, Contexts, BetweenFrames
<1>6. QueueInv'
  <2>1. Len(pending') = 0
    BY <1>3, ClearsInv
  <2> QED
    BY <2>1 DEF QueueInv
<1>7. RetainInv'
  <2>1. /\ Len(pending') = 0
        /\ \A k \in 1 .. Len(groups') :
               k = 1 /\ groups'[k].serial = n /\ groups'[k].resources = {}
    BY <1>3, ClearsInv
  <2>2. groups' = <<NewGroup(n)>>
    BY DEF ReleaseScene
  <2>3. groups' # <<>> /\ Len(groups') = 1 /\ groups'[Len(groups')].serial = n
    BY <1>1, <2>2, OneGroup
  <2>4. InFrame' => n = frameSerial
    <3>1. InFrame' => phase = "unloading"
      BY DEF ReleaseScene, BetweenFrames, InFrame
    <3>2. phase = "unloading" => current \in Contexts
      BY DEF ReleaseScene, IInv, FrameInv, InFrame
    <3>3. NoContext \notin Contexts
      BY DEF NoContext, Contexts
    <3> QED
      BY <3>1, <3>2, <3>3
  <2>5. frameSerial' = frameSerial
    BY DEF ReleaseScene
  <2> QED
    BY <1>1, <2>1, <2>3, <2>4, <2>5 DEF RetainInv
<1> QED
  BY <1>3, <1>4, <1>5, <1>6, <1>7, ClearsInv DEF IInv

LEMMA RecreateInv ==
    ASSUME IInv, NEW n \in ImageCounts, Recreate(n)
    PROVE  IInv'
<1>1. n \in Nat
  BY ImageCountsAssumption
<1>2. recorded = {}
  BY DEF Recreate, IInv, FrameInv
<1>3. Clears(0)
  <2>1. Destroyed({} \cup Retained(groups)) \in [Resources -> {"live", "freed"}]
    BY DestroyedAll
  <2>2. {} \cup Retained(groups) = Retained(groups)
    OBVIOUS
  <2> QED
    BY <1>2, <2>1, <2>2 DEF Recreate, Clears
<1>4. /\ submitted' = [c \in Contexts' |-> 0] /\ fence' = [c \in Contexts' |-> TRUE]
      /\ phase' = "start" /\ current' = NoContext
  BY DEF Recreate, Contexts
<1>5. TypeOK'
  BY <1>1, <1>3, <1>4, ClearsInv DEF IInv, TypeOK, Recreate, Group
<1>6. FrameInv'
  <2>1. /\ frameSerial' \in Nat /\ recorded' = {} /\ ~InFrame'
        /\ \A c \in Contexts' : submitted'[c] = 0
    BY <1>2, <1>4 DEF IInv, TypeOK, Recreate, InFrame
  <2> QED
    BY <2>1 DEF FrameInv
<1>7. QueueInv' /\ RetainInv'
  <2>1. /\ Len(pending') = 0
        /\ \A k \in 1 .. Len(groups') :
               k = 1 /\ groups'[k].serial = 0 /\ groups'[k].resources = {}
    BY <1>3, ClearsInv
  <2>2. frameSerial' \in Nat /\ ~InFrame'
    BY <1>4 DEF Recreate, IInv, TypeOK, InFrame
  <2> QED
    BY <2>1, <2>2 DEF QueueInv, RetainInv
<1> QED
  BY <1>3, <1>5, <1>6, <1>7, ClearsInv DEF IInv

\* The next frame begins: what it destroys belongs to frames that the signaled fences
\* prove complete, so that no submission left can use it.
LEMMA AcquireInv ==
    ASSUME IInv, NEW c \in Contexts, Acquire(c)
    PROVE  IInv'
<1> DEFINE serial == frameSerial + 1
           m == Len(groups)
<1>1. PICK completed \in 0 .. frameSerial, n \in 0 .. m :
          /\ CompletedSerial(c, completed)
          /\ DuePrefix(groups, n, serial, completed, images)
          /\ groups' = BeginFrame(groups, n, serial)
          /\ state' = Destroyed(Released(groups, n))
  BY DEF Acquire
<1>2. /\ m \in Nat /\ n \in Nat /\ frameSerial \in Nat /\ serial \in Nat
      /\ completed \in Nat /\ Len(pending) \in Nat
      /\ \A k \in 1 .. m : groups[k].serial \in Nat /\ groups[k].resources \subseteq Resources
      /\ \A i \in 1 .. Len(pending) : pending[i].serial \in Nat
                                      /\ pending[i].uses \subseteq Resources
  BY <1>1, Types DEF IInv, TypeOK
<1>3. /\ groups' \in Seq(Group) /\ groups' # <<>> /\ Len(groups') = m - n + 1
      /\ \A k \in 1 .. m - n : groups'[k] = groups[k + n]
      /\ groups'[m - n + 1].serial = serial /\ groups'[m - n + 1].resources = {}
  <2>1. groups \in Seq(Group)
    BY Types DEF IInv
  <2>2. LET h == BeginFrame(groups, n, serial)
        IN  /\ h \in Seq(Group) /\ h # <<>> /\ Len(h) = m - n + 1
            /\ \A k \in 1 .. m - n : h[k] = groups[k + n]
            /\ h[Len(h)] = NewGroup(serial)
    BY <1>2, <2>1, BeginFrameFacts
  <2>3. NewGroup(serial).serial = serial /\ NewGroup(serial).resources = {}
    BY <1>2, OneGroup
  <2> QED
    BY <1>1, <2>2, <2>3
<1>4. \A i \in 1 .. Len(pending) : pending[i].serial > completed
  <2>1. PICK k \in SeenComplete(c) : completed = submitted[k]
    BY <1>1 DEF CompletedSerial
  <2>2. k \in Contexts /\ fence[k]
    BY <2>1 DEF SeenComplete, Acquire
  <2> QED
    BY <2>1, <2>2 DEF IInv, QueueInv
<1>5. ASSUME NEW k \in 1 .. n, NEW r \in groups[k].resources, NEW i \in 1 .. Len(pending)
      PROVE  r \notin pending[i].uses
  <2>1. k \in 1 .. m
    BY <1>2, <1>5
  <2>2. groups[k].serial <= completed
    BY <1>1, <1>5 DEF DuePrefix, Due
  <2>3. r \in pending[i].uses => pending[i].serial <= groups[k].serial
    BY <1>5, <2>1 DEF IInv, RetainInv
  <2> QED
    BY <1>2, <1>4, <2>1, <2>2, <2>3
<1>6. ASSUME NEW r \in Resources
      PROVE  state'[r] = IF \E k \in 1 .. n : r \in groups[k].resources THEN "freed" ELSE state[r]
  BY <1>1 DEF Destroyed, Released
<1>7. TypeOK'
  <2>1. state' \in [Resources -> {"live", "retired", "freed"}]
    BY <1>1 DEF Destroyed, IInv, TypeOK
  <2> QED
    BY <1>2, <1>3, <2>1 DEF IInv, TypeOK, Acquire, Contexts, Submission, Group
<1>8. FrameInv'
  <2>1. \A k \in Contexts : submitted[k] <= frameSerial /\ submitted[k] \in Nat
    BY DEF IInv, FrameInv, TypeOK
  <2>2. \A k \in Contexts : submitted[k] < serial /\ submitted[k] <= serial
    BY <1>2, <2>1
  <2>3. Contexts' = Contexts
    BY DEF Acquire, Contexts
  <2> QED
    BY <2>2, <2>3 DEF FrameInv, Acquire
<1>9. QueueInv'
  <2>1. \A i \in 1 .. Len(pending) : pending[i].serial <= serial
    BY <1>2 DEF IInv, QueueInv
  <2> QED
    BY <2>1 DEF IInv, QueueInv, Acquire, Contexts
<1>10. RetainInv'
  <2>1. ASSUME NEW k \in 1 .. m - n + 1 PROVE groups'[k].serial <= serial
    <3>1. CASE k = m - n + 1
      BY <1>2, <1>3, <3>1
    <3>2. CASE k # m - n + 1
      <4>1. k + n \in 1 .. m /\ groups'[k] = groups[k + n]
        BY <1>2, <1>3, <3>2
      <4>2. groups[k + n].serial <= frameSerial
        BY <4>1 DEF IInv, RetainInv
      <4> QED
        BY <1>2, <4>1, <4>2
    <3> QED
      BY <3>1, <3>2
  <2>2. \A i \in 1 .. Len(pending) : pending[i].serial <= serial
    BY <1>2 DEF IInv, QueueInv
  <2>3. ASSUME NEW k \in 1 .. m - n + 1, NEW r \in groups'[k].resources,
               NEW i \in 1 .. Len(pending), r \in pending[i].uses
        PROVE  pending[i].serial <= groups'[k].serial
    <3>1. k # m - n + 1
      BY <1>3, <2>3
    <3>2. k + n \in 1 .. m /\ groups'[k] = groups[k + n]
      BY <1>2, <1>3, <3>1, SMTT(30)
    <3> QED
      BY <2>3, <3>2 DEF IInv, RetainInv
  <2>4. frameSerial' = serial /\ recorded' = {} /\ pending' = pending
    BY DEF Acquire
  <2> QED
    BY <1>3, <2>1, <2>2, <2>3, <2>4 DEF RetainInv
<1>11. HeldInv'
  <2>1. ASSUME NEW r \in Resources, state'[r] = "retired"
        PROVE  \E k \in 1 .. m - n + 1 : r \in groups'[k].resources
    <3>1. state[r] = "retired" /\ \A k \in 1 .. n : r \notin groups[k].resources
      BY <1>6, <2>1
    <3>2. PICK k \in 1 .. m : r \in groups[k].resources
      BY <3>1 DEF IInv, HeldInv
    <3>3. k \notin 1 .. n
      BY <3>1, <3>2
    <3>4. k - n \in 1 .. m - n /\ k - n \in 1 .. m - n + 1 /\ (k - n) + n = k
      BY <1>2, <3>3
    <3>5. groups'[k - n] = groups[k]
      BY <1>3, <3>4
    <3> QED
      BY <3>2, <3>4, <3>5
  <2>2. ASSUME NEW k \in 1 .. m - n + 1, NEW r \in groups'[k].resources
        PROVE  k + n \in 1 .. m /\ r \in groups[k + n].resources /\ groups'[k] = groups[k + n]
    <3>1. k # m - n + 1
      BY <1>3, <2>2
    <3>2. k \in 1 .. m - n /\ k + n \in 1 .. m
      BY <1>2, <3>1
    <3> QED
      BY <1>3, <2>2, <3>2
  <2>3. ASSUME NEW r \in Resources, NEW k \in 1 .. m - n + 1, r \in groups'[k].resources
        PROVE  state'[r] = "retired"
    <3>1. k + n \in 1 .. m /\ r \in groups[k + n].resources
      BY <2>2, <2>3
    <3>2. state[r] = "retired"
      BY <3>1 DEF IInv, HeldInv
    <3>3. ASSUME NEW j \in 1 .. n PROVE r \notin groups[j].resources
      <4>1. j \in 1 .. m /\ j # k + n
        BY <1>2, <3>3
      <4> QED
        BY <3>1, <4>1 DEF IInv, HeldInv
    <3> QED
      BY <1>6, <3>2, <3>3
  <2>4. ASSUME NEW k \in 1 .. m - n + 1, NEW l \in 1 .. m - n + 1,
               NEW r \in groups'[k].resources, r \in groups'[l].resources
        PROVE  k = l
    <3>1. /\ k + n \in 1 .. m /\ r \in groups[k + n].resources
          /\ l + n \in 1 .. m /\ r \in groups[l + n].resources
      BY <2>2, <2>4
    <3>2. k + n = l + n
      BY <3>1 DEF IInv, HeldInv
    <3> QED
      BY <1>2, <3>2
  <2> QED
    BY <1>3, <2>1, <2>3, <2>4 DEF HeldInv
<1>12. UseInv'
  <2>1. ASSUME NEW i \in 1 .. Len(pending), NEW r \in pending[i].uses
        PROVE  state'[r] # "freed"
    <3>1. r \in Resources /\ state[r] # "freed"
      BY <1>2, <2>1 DEF IInv, UseInv
    <3>2. \A k \in 1 .. n : r \notin groups[k].resources
      BY <1>5, <2>1
    <3> QED
      BY <1>6, <3>1, <3>2
  <2> QED
    BY <2>1 DEF UseInv, Acquire
<1> QED
  BY <1>7, <1>8, <1>9, <1>10, <1>11, <1>12 DEF IInv

-----------------------------------------------------------------------------
LEMMA StutterInv ==
    ASSUME IInv, UNCHANGED vars
    PROVE  IInv'
<1> USE DEF vars
<1>1. TypeOK' /\ FrameInv' /\ QueueInv'
  BY DEF IInv, TypeOK, FrameInv, QueueInv, InFrame, Contexts, Submission
<1>2. RetainInv' /\ HeldInv' /\ UseInv'
  BY DEF IInv, RetainInv, HeldInv, UseInv, InFrame
<1> QED
  BY <1>1, <1>2 DEF IInv

LEMMA IInvInductive == IInv /\ [Next]_vars => IInv'
<1> SUFFICES ASSUME IInv, [Next]_vars PROVE IInv'
  OBVIOUS
<1>1. CASE \E c \in Contexts : Acquire(c)
  BY <1>1, AcquireInv
<1>2. CASE AcquireExhausted \/ FlushDone \/ Present \/ SubmitFails \/ Fail
  BY <1>2, QuietSteps, QuietInv
<1>3. CASE \E r \in Resources : Record(r)
  BY <1>3, RecordInv
<1>4. CASE \E r \in Resources : Retire(r)
  BY <1>4, RetireInv
<1>5. CASE Submit
  BY <1>5, SubmitInv
<1>6. CASE Flush("flushing") \/ Flush("unloading")
  BY <1>6, FlushInv
<1>7. CASE \E scene \in SUBSET Resources : ReleaseScene(scene)
  BY <1>7, ReleaseSceneInv
<1>8. CASE \E n \in ImageCounts : Recreate(n)
  BY <1>8, RecreateInv
<1>9. CASE Complete
  BY <1>9, CompleteInv
<1>10. CASE UNCHANGED vars
  BY <1>10, StutterInv
<1> QED
  BY <1>1, <1>2, <1>3, <1>4, <1>5, <1>6, <1>7, <1>8, <1>9, <1>10 DEF Next

LEMMA Invariance == Spec => []IInv
<1>1. Init => IInv
  BY InitInv
<1> QED
  BY <1>1, IInvInductive, PTL DEF Spec

-----------------------------------------------------------------------------
(* Fences that are waited for                                              *)

\* Steps that neither reset a fence nor take a submission off the queue.
LEMMA KeepsFences ==
    ASSUME FencesComeBack, fatal => fatal', UNCHANGED <<images, fence, pending>>
    PROVE  FencesComeBack'
BY DEF FencesComeBack, Contexts

\* A submission joins the queue, with the current context's fence or one of its own.
LEMMA JoinKeepsFences ==
    ASSUME TypeOK, FencesComeBack, UNCHANGED <<images, fatal>>,
           NEW e \in Submission, pending' = Append(pending, e),
           \A c \in Contexts : fence'[c] = fence[c] \/ c = e.context
    PROVE  FencesComeBack'
<1>1. /\ Len(pending) \in Nat /\ DOMAIN pending = 1 .. Len(pending)
      /\ DOMAIN pending' = 1 .. Len(pending) + 1
      /\ pending'[Len(pending) + 1] = e
      /\ \A i \in 1 .. Len(pending) : pending'[i] = pending[i]
  <2>1. Len(pending) \in Nat /\ DOMAIN pending = 1 .. Len(pending)
    BY Types
  <2>2. pending' \in Seq(Submission) /\ Len(pending') = Len(pending) + 1
    BY JoinFacts
  <2> QED
    BY <2>1, <2>2, JoinFacts, LenProperties
<1>2. ASSUME NEW c \in Contexts, ~fatal
      PROVE  fence'[c] \/ \E i \in DOMAIN pending' : pending'[i].context = c
  <2>1. CASE c = e.context
    BY <1>1, <2>1
  <2>2. CASE c # e.context /\ fence[c]
    BY <2>2
  <2>3. CASE c # e.context /\ ~fence[c]
    <3>1. PICK i \in 1 .. Len(pending) : pending[i].context = c
      BY <1>1, <1>2, <2>3 DEF FencesComeBack
    <3> QED
      BY <1>1, <3>1
  <2> QED
    BY <2>1, <2>2, <2>3
<1> QED
  BY <1>2 DEF FencesComeBack, Contexts

LEMMA CompleteKeepsFences ==
    ASSUME TypeOK, FencesComeBack, Complete
    PROVE  FencesComeBack'
<1>1. /\ pending' = Tail(pending) /\ Head(pending) = pending[1]
      /\ Contexts' = Contexts /\ fatal' = fatal
      /\ \A c \in Contexts : fence'[c] = (c = pending[1].context \/ fence[c])
  BY LeaveFacts DEF Complete, Contexts
<1>2. /\ Len(pending) \in Nat /\ DOMAIN pending = 1 .. Len(pending)
      /\ DOMAIN pending' = 1 .. Len(pending) - 1
      /\ \A i \in 1 .. Len(pending) - 1 : pending'[i] = pending[i + 1]
  BY <1>1, Types, LeaveFacts, LenProperties DEF Complete
<1>3. ASSUME NEW c \in Contexts, ~fatal, ~fence'[c]
      PROVE  \E i \in DOMAIN pending' : pending'[i].context = c
  <2>1. ~fence[c] /\ c # pending[1].context
    BY <1>1, <1>3
  <2>2. PICK i \in 1 .. Len(pending) : pending[i].context = c
    BY <1>2, <1>3, <2>1 DEF FencesComeBack
  <2>3. i - 1 \in 1 .. Len(pending) - 1 /\ i - 1 + 1 = i
    BY <1>2, <2>1, <2>2
  <2>4. pending'[i - 1].context = c
    BY <1>2, <2>2, <2>3
  <2> QED
    BY <1>2, <2>3, <2>4
<1> QED
  BY <1>1, <1>3 DEF FencesComeBack

LEMMA FencesInductive == IInv /\ FencesComeBack /\ [Next]_vars => FencesComeBack'
<1> SUFFICES ASSUME IInv, FencesComeBack, [Next]_vars PROVE FencesComeBack'
  OBVIOUS
<1>1. TypeOK /\ (~fatal /\ phase = "open" => current \in Contexts)
  BY DEF IInv, FrameInv, InFrame
<1>2. CASE \/ \E c \in Contexts : Acquire(c)
           \/ \E r \in Resources : Record(r) \/ Retire(r)
           \/ \E scene \in SUBSET Resources : ReleaseScene(scene)
           \/ AcquireExhausted \/ FlushDone \/ Present \/ UNCHANGED vars
  <2>1. UNCHANGED <<images, fence, pending, fatal>>
    BY <1>2 DEF Acquire, Record, Retire, ReleaseScene, AcquireExhausted, FlushDone, Present, vars
  <2> QED
    BY <2>1, KeepsFences
<1>3. CASE SubmitFails \/ Fail
  BY <1>3 DEF SubmitFails, Fail, FencesComeBack
<1>4. CASE Submit
  <2> DEFINE e == [context |-> current, serial |-> frameSerial, uses |-> recorded]
  <2>1. e \in Submission
    BY <1>1, <1>4 DEF Submit, Submission, TypeOK
  <2>2. pending' = Append(pending, e) /\ UNCHANGED <<images, fatal>>
    BY <1>4 DEF Submit
  <2>3. \A c \in Contexts : fence'[c] = fence[c] \/ c = e.context
    BY <1>1, <1>4 DEF Submit, TypeOK
  <2> QED
    BY <1>1, <2>1, <2>2, <2>3, JoinKeepsFences
<1>5. ASSUME NEW next, Flush(next) PROVE FencesComeBack'
  <2> DEFINE e == [context |-> NoContext, serial |-> frameSerial, uses |-> recorded]
  <2>1. e \in Submission
    BY <1>1 DEF Submission, TypeOK
  <2>2. pending' = Append(pending, e) /\ UNCHANGED <<images, fatal, fence>>
    BY <1>5 DEF Flush
  <2> QED
    BY <1>1, <2>1, <2>2, JoinKeepsFences
<1>6. CASE \E n \in ImageCounts : Recreate(n)
  BY <1>6 DEF Recreate, FencesComeBack, Contexts
<1>7. CASE Complete
  BY <1>1, <1>7, CompleteKeepsFences
<1> QED
  BY <1>2, <1>3, <1>4, <1>5, <1>6, <1>7 DEF Next

-----------------------------------------------------------------------------
(* How long what is retired is held                                        *)

\* The contexts whose fence, once signaled, does not prove frame g complete.  The one
\* that was acquired for the open frame is about to be submitted.
Lagging(g) == {c \in Contexts : submitted[c] < g} \ (IF InFrame THEN {current} ELSE {})

\* The group opened for frame g.  Every frame begun either releases it or takes a
\* context that lags behind, and each context lags once: it is submitted again with
\* the frame's own, newer serial.  Group 0 waits for the first frames only.
Bounded(g) ==
    \/ g = 0 /\ frameSerial < images
    \/ g = 0 /\ Len(groups) = 1 /\ ~InFrame
    \/ /\ g > 0
       /\ Cardinality(Lagging(g)) <= images - 1
       /\ Cardinality(Lagging(g)) + (frameSerial - g) <= 2 * (images - 1)

\* The groups are in the order of their frames, and a context that keeps being current
\* is the one submitted last.
LagInv ==
    /\ images \in ImageCounts
    /\ \A i, j \in 1 .. Len(groups) : i < j => groups[i].serial < groups[j].serial
    /\ \A k \in 1 .. Len(groups) : Bounded(groups[k].serial)
    /\ ~InFrame /\ current # NoContext => submitted[current] = frameSerial

LEMMA InitLag == ASSUME Init PROVE LagInv
<1>1. Len(groups) = 0
  BY DEF Init
<1> QED
  BY <1>1 DEF Init, LagInv

LEMMA ContextsFacts ==
    ASSUME IInv, LagInv
    PROVE  /\ images \in Nat /\ images >= 1 /\ frameSerial \in Nat
           /\ IsFiniteSet(Contexts) /\ Cardinality(Contexts) = images
<1>1. images \in Nat /\ images >= 1 /\ frameSerial \in Nat
  BY ImageCountsAssumption DEF IInv, TypeOK, LagInv
<1>2. IsFiniteSet(0 .. images - 1) /\ Cardinality(0 .. images - 1) = images
  <2>1. images - 1 \in Int /\ ~(0 > images - 1) /\ images - 1 - 0 + 1 = images
    BY <1>1
  <2> QED
    BY <2>1, FS_Interval
<1> QED
  BY <1>1, <1>2 DEF Contexts

\* All contexts but one.
LEMMA AllButOne ==
    ASSUME IInv, LagInv, NEW c \in Contexts, NEW S, S \subseteq Contexts, c \notin S
    PROVE  /\ IsFiniteSet(S) /\ Cardinality(S) \in Nat
           /\ Cardinality(S) <= images - 1
<1>1. IsFiniteSet(Contexts) /\ Cardinality(Contexts) = images /\ images \in Nat
  BY ContextsFacts
<1>2. /\ IsFiniteSet(Contexts \ {c})
      /\ Cardinality(Contexts \ {c}) = images - 1
  BY <1>1, FS_RemoveElement
<1>3. S \in SUBSET (Contexts \ {c})
  OBVIOUS
<1>4. IsFiniteSet(S) /\ Cardinality(S) <= Cardinality(Contexts \ {c})
  BY <1>2, <1>3, FS_Subset
<1>5. Cardinality(S) \in Nat
  BY <1>4, FS_CardinalityType
<1> QED
  BY <1>2, <1>4, <1>5

\* Steps that leave the serials of the groups and which contexts lag alone.
SameRetention ==
    /\ images' = images /\ frameSerial' = frameSerial
    /\ Len(groups') = Len(groups)
    /\ \A k \in 1 .. Len(groups) : groups'[k].serial = groups[k].serial
    /\ \/ submitted' = submitted /\ current' = current /\ (InFrame' <=> InFrame)
       \/ submitted' = submitted /\ current' = NoContext /\ ~InFrame /\ ~InFrame'
       \/ /\ submitted' = [submitted EXCEPT ![current] = frameSerial]
          /\ current' = current /\ InFrame /\ ~InFrame'

LEMMA SameRetentionInv ==
    ASSUME IInv, LagInv, SameRetention
    PROVE  LagInv'
<1>1. /\ submitted \in [Contexts -> Nat] /\ frameSerial \in Nat
      /\ current \in Contexts \cup {NoContext}
  BY DEF IInv, TypeOK
<1>2. Contexts' = Contexts
  BY DEF SameRetention, Contexts
<1>3. ASSUME NEW g \in Nat, g <= frameSerial
      PROVE  Lagging(g)' = Lagging(g)
  <2>1. CASE submitted' = submitted /\ current' = current /\ (InFrame' <=> InFrame)
    BY <1>2, <2>1 DEF Lagging
  <2>2. CASE submitted' = submitted /\ ~InFrame /\ ~InFrame'
    BY <1>2, <2>2 DEF Lagging
  <2>3. CASE submitted' = [submitted EXCEPT ![current] = frameSerial] /\ InFrame /\ ~InFrame'
    <3>1. ASSUME NEW c \in Contexts
          PROVE  submitted'[c] < g <=> submitted[c] < g /\ c # current
      BY <1>1, <1>3, <2>3
    <3>2. /\ Lagging(g)' = {c \in Contexts : submitted'[c] < g}
          /\ Lagging(g) = {c \in Contexts : submitted[c] < g} \ {current}
      BY <1>2, <2>3 DEF Lagging
    <3> QED
      BY <3>1, <3>2
  <2> QED
    BY <2>1, <2>2, <2>3 DEF SameRetention
<1>4. ASSUME NEW g \in Nat, g <= frameSerial, Bounded(g)
      PROVE  Bounded(g)'
  <2>1. Lagging(g)' = Lagging(g)
    BY <1>3, <1>4
  <2>2. Cardinality(Lagging(g))' = Cardinality(Lagging(g))
    BY <2>1
  <2>3. ~InFrame => ~InFrame'
    BY DEF SameRetention
  <2>4. images' = images /\ frameSerial' = frameSerial /\ Len(groups') = Len(groups)
    BY DEF SameRetention
  <2> QED
    BY <1>4, <2>2, <2>3, <2>4 DEF Bounded
<1>5. ASSUME NEW k \in 1 .. Len(groups')
      PROVE  Bounded(groups[k].serial)'
  <2>1. k \in 1 .. Len(groups) /\ groups'[k].serial = groups[k].serial
    BY <1>5 DEF SameRetention
  <2>2. PICK g \in Nat : g = groups[k].serial /\ g = groups'[k].serial
    BY <2>1, Types DEF IInv
  <2>3. g <= frameSerial /\ Bounded(g)
    BY <2>1, <2>2 DEF LagInv, IInv, RetainInv
  <2>4. Bounded(g)'
    BY <1>4, <2>3
  <2> QED
    BY <2>2, <2>4
<1>6. ~InFrame' /\ current' # NoContext => submitted'[current'] = frameSerial'
  BY <1>1 DEF SameRetention, LagInv
<1>7. /\ images' \in ImageCounts
      /\ \A i, j \in 1 .. Len(groups') : i < j => groups'[i].serial < groups'[j].serial
  BY DEF SameRetention, LagInv
<1> QED
  BY <1>5, <1>6, <1>7 DEF LagInv

LEMMA SameRetentionSteps ==
    ASSUME IInv,
           \/ AcquireExhausted \/ FlushDone \/ Present \/ SubmitFails \/ Fail \/ Complete
           \/ Submit \/ Flush("flushing") \/ Flush("unloading")
           \/ \E r \in Resources : Record(r)
           \/ UNCHANGED vars
    PROVE  SameRetention
<1>1. CASE AcquireExhausted
  BY <1>1 DEF AcquireExhausted, SameRetention, InFrame
<1>2. CASE FlushDone \/ Present \/ SubmitFails \/ Fail \/ Complete
  BY <1>2 DEF FlushDone, Present, SubmitFails, Fail, Complete, SameRetention, InFrame
<1>3. CASE Submit
  BY <1>3 DEF Submit, SameRetention, InFrame
<1>4. CASE Flush("flushing") \/ Flush("unloading")
  BY <1>4 DEF Flush, SameRetention, InFrame
<1>5. CASE \E r \in Resources : Record(r)
  BY <1>5 DEF Record, SameRetention, InFrame
<1>6. CASE UNCHANGED vars
  BY <1>6 DEF vars, SameRetention, InFrame
<1> QED
  BY <1>1, <1>2, <1>3, <1>4, <1>5, <1>6

\* What is retired while nothing is held opens group 0, and no frame is open then.
LEMMA RetireLag ==
    ASSUME IInv, LagInv, NEW r \in Resources, Retire(r)
    PROVE  LagInv'
<1>1. groups \in Seq(Group) /\ groups' = Retain(groups, r)
  BY Types DEF IInv, Retire
<1>2. CASE groups # <<>>
  <2>1. /\ Len(groups') = Len(groups)
        /\ \A k \in 1 .. Len(groups) : groups'[k].serial = groups[k].serial
    BY <1>1, <1>2, RetainFacts
  <2>2. SameRetention
    BY <2>1 DEF Retire, SameRetention, InFrame
  <2> QED
    BY <2>2, SameRetentionInv
<1>3. CASE groups = <<>>
  <2>1. Len(groups') = 1 /\ groups'[1].serial = 0
    BY <1>1, <1>3, RetainFacts
  <2>2. ~InFrame /\ ~InFrame'
    BY <1>3 DEF IInv, RetainInv, Retire, InFrame
  <2>3. \A k \in 1 .. Len(groups') : k = 1
    BY <2>1
  <2>4. ASSUME NEW k \in 1 .. Len(groups') PROVE Bounded(groups[k].serial)'
    BY <2>1, <2>2, <2>3 DEF Bounded
  <2>5. \A i, j \in 1 .. Len(groups') : i < j => groups'[i].serial < groups'[j].serial
    BY <2>3
  <2> QED
    BY <2>2, <2>4, <2>5 DEF LagInv, Retire
<1> QED
  BY <1>2, <1>3

LEMMA ReleaseSceneLag ==
    ASSUME IInv, LagInv, NEW scene \in SUBSET Resources, ReleaseScene(scene)
    PROVE  LagInv'
<1>1. /\ images' = images /\ submitted' = submitted /\ current' = current
      /\ frameSerial' = frameSerial /\ Contexts' = Contexts /\ (InFrame' <=> InFrame)
  BY DEF ReleaseScene, BetweenFrames, InFrame, Contexts
<1>2. PICK n \in Nat : n = IF current = NoContext THEN 0 ELSE frameSerial
  BY DEF IInv, TypeOK
<1>3. groups' = <<NewGroup(n)>>
  BY <1>2 DEF ReleaseScene
<1>4. Len(groups') = 1 /\ groups'[1].serial = n /\ \A k \in 1 .. Len(groups') : k = 1
  BY <1>3, OneGroup
<1>5. /\ images \in Nat /\ images >= 1 /\ frameSerial \in Nat
      /\ submitted \in [Contexts -> Nat] /\ current \in Contexts \cup {NoContext}
  BY ContextsFacts DEF IInv, TypeOK
<1>6. Bounded(n)'
  <2>1. CASE n = 0
    <3>1. current = NoContext => ~InFrame
      <4>1. NoContext \notin Contexts
        BY DEF NoContext, Contexts
      <4> QED
        BY <4>1 DEF IInv, FrameInv, ReleaseScene
    <3>2. CASE current = NoContext
      BY <1>1, <1>4, <2>1, <3>1, <3>2 DEF Bounded
    <3>3. CASE current # NoContext
      BY <1>1, <1>2, <1>5, <2>1, <3>3 DEF Bounded
    <3> QED
      BY <3>2, <3>3
  <2>2. CASE n # 0
    <3>1. current \in Contexts /\ n = frameSerial /\ n > 0
      BY <1>2, <1>5, <2>2
    <3>2. Lagging(n) \subseteq Contexts /\ current \notin Lagging(n)
      BY <1>5, <3>1 DEF Lagging, LagInv, NoContext, Contexts
    <3>3. Cardinality(Lagging(n)) \in Nat /\ Cardinality(Lagging(n)) <= images - 1
      BY <3>1, <3>2, AllButOne
    <3>4. Lagging(n)' = Lagging(n)
      BY <1>1 DEF Lagging
    <3>5. Cardinality(Lagging(n))' = Cardinality(Lagging(n))
      BY <3>4
    <3>6. /\ n > 0 /\ Cardinality(Lagging(n)) <= images - 1
          /\ Cardinality(Lagging(n)) + (frameSerial - n) <= 2 * (images - 1)
      BY <1>5, <3>1, <3>3
    <3> QED
      BY <1>1, <3>5, <3>6 DEF Bounded
  <2> QED
    BY <2>1, <2>2
<1>7. ASSUME NEW k \in 1 .. Len(groups') PROVE Bounded(groups[k].serial)'
  <2>1. groups'[k].serial = n
    BY <1>4
  <2> QED
    BY <1>6, <2>1
<1>8. \A i, j \in 1 .. Len(groups') : i < j => groups'[i].serial < groups'[j].serial
  BY <1>4
<1> QED
  BY <1>1, <1>7, <1>8 DEF LagInv

LEMMA RecreateLag ==
    ASSUME IInv, NEW n \in ImageCounts, Recreate(n)
    PROVE  LagInv'
<1>1. Len(groups') = 0
  BY DEF Recreate
<1> QED
  BY <1>1 DEF Recreate, LagInv

\* The frame that begins releases every group that is due, because older groups are due
\* before newer ones.  A group that stays is either too new, or its frame is newer than
\* what the acquired context proves complete, and that context lags no more.
LEMMA AcquireLag ==
    ASSUME IInv, LagInv, NEW c \in Contexts, Acquire(c)
    PROVE  LagInv'
<1> DEFINE serial == frameSerial + 1
           m == Len(groups)
<1>1. PICK completed \in 0 .. frameSerial, n \in 0 .. m :
          /\ CompletedSerial(c, completed)
          /\ DuePrefix(groups, n, serial, completed, images)
          /\ groups' = BeginFrame(groups, n, serial)
  BY DEF Acquire
<1>2. /\ m \in Nat /\ n \in Nat /\ frameSerial \in Nat /\ serial \in Nat
      /\ completed \in Nat /\ groups \in Seq(Group)
      /\ \A k \in 1 .. m : groups[k].serial \in Nat /\ groups[k].serial <= frameSerial
      /\ images \in Nat /\ images >= 1 /\ submitted \in [Contexts -> Nat]
  BY <1>1, Types, ContextsFacts, SMTT(30) DEF IInv, TypeOK, RetainInv
<1>3. /\ Len(groups') = m - n + 1
      /\ \A k \in 1 .. m - n : groups'[k] = groups[k + n]
      /\ groups'[m - n + 1].serial = serial
  <2>1. LET h == BeginFrame(groups, n, serial)
        IN  /\ Len(h) = m - n + 1
            /\ \A k \in 1 .. m - n : h[k] = groups[k + n]
            /\ h[Len(h)] = NewGroup(serial)
    BY <1>2, BeginFrameFacts
  <2>2. NewGroup(serial).serial = serial
    BY <1>2, OneGroup
  <2> QED
    BY <1>1, <2>1, <2>2
<1>4. /\ images' = images /\ submitted' = submitted /\ current' = c /\ phase' = "open"
      /\ frameSerial' = serial /\ Contexts' = Contexts
      /\ ~InFrame /\ InFrame'
  BY DEF Acquire, InFrame, Contexts
<1>5. submitted[c] <= completed
  BY <1>1 DEF CompletedSerial, SeenComplete
<1>6. ASSUME NEW g \in Nat
      PROVE  Lagging(g)' = {k \in Contexts : submitted[k] < g} \ {c}
             /\ Lagging(g) = {k \in Contexts : submitted[k] < g}
  BY <1>4 DEF Lagging
<1>7. ASSUME NEW g \in Nat
      PROVE  /\ Cardinality(Lagging(g))' \in Nat
             /\ Cardinality(Lagging(g))' <= images - 1
  <2> DEFINE L == {k \in Contexts : submitted[k] < g} \ {c}
  <2>1. L \subseteq Contexts /\ c \notin L
    OBVIOUS
  <2>2. Lagging(g)' = L
    BY <1>6
  <2> HIDE DEF L
  <2>3. Cardinality(L) \in Nat /\ Cardinality(L) <= images - 1
    BY <2>1, AllButOne
  <2> QED
    BY <2>2, <2>3
<1>8. ASSUME NEW k \in 1 .. m - n, NEW g \in Nat, g = groups[k + n].serial
      PROVE  g > completed \/ g + images > serial
  <2> DEFINE oldest == groups[n + 1].serial
  <2>1. n < m /\ n + 1 \in 1 .. m /\ k + n \in 1 .. m
    BY <1>2
  <2>2. ~Due(groups[n + 1], serial, completed, images)
    BY <1>1, <2>1 DEF DuePrefix
  <2>3. oldest > completed \/ oldest + images > serial
    BY <1>2, <2>1, <2>2 DEF Due
  <2>4. oldest <= groups[k + n].serial
    <3>1. CASE k = 1
      <4>1. k + n = n + 1
        BY <1>2, <3>1
      <4> QED
        BY <1>2, <2>1, <4>1
    <3>2. CASE k # 1
      <4>1. n + 1 < k + n
        BY <1>2, <3>2
      <4>2. groups[n + 1].serial < groups[k + n].serial
        BY <2>1, <4>1 DEF LagInv
      <4> QED
        BY <1>2, <2>1, <4>2
    <3> QED
      BY <3>1, <3>2
  <2>5. oldest \in Nat /\ oldest <= g
    BY <1>2, <1>8, <2>1, <2>4
  <2>6. images \in Nat /\ completed \in Nat /\ serial \in Nat
    BY <1>2
  <2> HIDE DEF oldest, serial
  <2> QED
    BY <2>3, <2>5, <2>6
<1>9. ASSUME NEW k \in 1 .. m - n, NEW g \in Nat, g = groups[k + n].serial
      PROVE  Bounded(g)'
  <2>1. g > completed \/ g + images > serial
    BY <1>8, <1>9
  <2>2. k + n \in 1 .. m
    BY <1>2
  <2>3. Bounded(g) /\ g <= frameSerial
    BY <1>2, <1>9, <2>2 DEF LagInv
  <2>4. CASE g = 0
    <3>1. serial < images
      BY <1>2, <2>1, <2>4
    <3> QED
      BY <1>4, <2>4, <3>1 DEF Bounded
  <2>5. CASE g > 0
    <3>1. /\ Cardinality(Lagging(g)) <= images - 1
          /\ Cardinality(Lagging(g)) + (frameSerial - g) <= 2 * (images - 1)
      BY <2>3, <2>5 DEF Bounded
    <3>2. Cardinality(Lagging(g))' \in Nat /\ Cardinality(Lagging(g))' <= images - 1
      BY <1>7
    <3>3. Cardinality(Lagging(g))' + (serial - g) <= 2 * (images - 1)
      <4>1. CASE g + images > serial
        BY <1>2, <2>3, <3>2, <4>1
      <4>2. CASE g > completed
        <5> DEFINE L == {k_1 \in Contexts : submitted[k_1] < g}
        <5>1. c \in L
          BY <1>2, <1>5, <4>2
        <5>2. Lagging(g)' = L \ {c} /\ Lagging(g) = L /\ L \in SUBSET Contexts
          BY <1>6
        <5> HIDE DEF L
        <5>3. IsFiniteSet(L)
          BY <5>2, ContextsFacts, FS_Subset
        <5>4. Cardinality(L) \in Nat /\ Cardinality(L \ {c}) = Cardinality(L) - 1
          BY <5>1, <5>3, FS_RemoveElement, FS_CardinalityType
        <5> QED
          BY <1>2, <2>3, <3>1, <5>2, <5>4
      <4> QED
        BY <2>1, <4>1, <4>2
    <3> QED
      BY <1>4, <2>5, <3>2, <3>3 DEF Bounded
  <2> QED
    BY <2>4, <2>5
<1>10. Bounded(frameSerial)'
  <2>1. PICK g \in Nat : g = serial
    BY <1>2
  <2>2. Cardinality(Lagging(g))' \in Nat /\ Cardinality(Lagging(g))' <= images - 1
    BY <1>7
  <2>3. Cardinality(Lagging(g))' + (serial - g) <= 2 * (images - 1)
    BY <1>2, <2>1, <2>2
  <2>4. Bounded(g)'
    BY <1>2, <1>4, <2>1, <2>2, <2>3 DEF Bounded
  <2>5. frameSerial' = g
    BY <1>4, <2>1
  <2> QED
    BY <2>4, <2>5
<1> HIDE DEF m
<1>11. ASSUME NEW k \in 1 .. Len(groups') PROVE Bounded(groups[k].serial)'
  <2>1. CASE k = m - n + 1
    <3>1. groups'[k].serial = frameSerial'
      BY <1>3, <1>4, <2>1
    <3> QED
      BY <1>10, <3>1
  <2>2. CASE k # m - n + 1
    <3>1. k \in 1 .. m - n + 1
      BY <1>3
    <3>2. k \in 1 .. m - n /\ k + n \in 1 .. m
      BY <1>2, <2>2, <3>1
    <3>3. PICK g \in Nat : g = groups[k + n].serial
      BY <1>2, <3>2
    <3>4. groups'[k].serial = g
      BY <1>3, <3>2, <3>3
    <3>5. Bounded(g)'
      BY <1>9, <3>2, <3>3
    <3> QED
      BY <3>4, <3>5
  <2> QED
    BY <2>1, <2>2
<1>12. ASSUME NEW i \in 1 .. Len(groups'), NEW j \in 1 .. Len(groups'), i < j
       PROVE  groups'[i].serial < groups'[j].serial
  <2>1. i \in 1 .. m - n /\ i + n \in 1 .. m /\ groups'[i] = groups[i + n]
    BY <1>2, <1>3, <1>12
  <2>2. CASE j = m - n + 1
    BY <1>2, <1>3, <2>1, <2>2, SMTT(30)
  <2>3. CASE j # m - n + 1
    <3>1. j \in 1 .. m - n + 1
      BY <1>3
    <3>2. j \in 1 .. m - n
      BY <1>2, <2>3, <3>1
    <3>3. j + n \in 1 .. m /\ i + n < j + n
      BY <1>2, <1>12, <2>1, <3>2
    <3>4. groups'[j] = groups[j + n]
      BY <1>3, <3>2
    <3> QED
      BY <2>1, <3>3, <3>4 DEF LagInv, m
  <2> QED
    BY <2>2, <2>3
<1>13. images' \in ImageCounts
  BY <1>4 DEF LagInv
<1> QED
  BY <1>4, <1>11, <1>12, <1>13 DEF LagInv

LEMMA LagInductive == IInv /\ LagInv /\ [Next]_vars => LagInv'
<1> SUFFICES ASSUME IInv, LagInv, [Next]_vars PROVE LagInv'
  OBVIOUS
<1>1. CASE \E c \in Contexts : Acquire(c)
  BY <1>1, AcquireLag
<1>2. CASE \/ AcquireExhausted \/ FlushDone \/ Present \/ SubmitFails \/ Fail \/ Complete
           \/ Submit \/ Flush("flushing") \/ Flush("unloading")
           \/ \E r \in Resources : Record(r)
           \/ UNCHANGED vars
  BY <1>2, SameRetentionSteps, SameRetentionInv
<1>3. CASE \E r \in Resources : Retire(r)
  BY <1>3, RetireLag
<1>4. CASE \E scene \in SUBSET Resources : ReleaseScene(scene)
  BY <1>4, ReleaseSceneLag
<1>5. CASE \E n \in ImageCounts : Recreate(n)
  BY <1>5, RecreateLag
<1> QED
  BY <1>1, <1>2, <1>3, <1>4, <1>5 DEF Next

\* Every group is bounded, so the oldest is, and no group is newer than the last frame.
LEMMA LagBounds == IInv /\ LagInv => HeldGroupsBounded
<1> SUFFICES ASSUME IInv, LagInv, groups # <<>>
             PROVE  groups[Len(groups)].serial - Head(groups).serial <= 2 * (images - 1)
  BY DEF HeldGroupsBounded
<1>1. /\ Len(groups) \in Nat /\ Len(groups) # 0 /\ groups \in Seq(Group)
      /\ images \in Nat /\ images >= 1 /\ frameSerial \in Nat
  BY Types, ContextsFacts DEF IInv
<1>2. Head(groups) = groups[1]
  BY <1>1
<1>3. PICK g \in Nat, l \in Nat :
          g = groups[1].serial /\ l = groups[Len(groups)].serial /\ l <= frameSerial
  BY <1>1, Types DEF IInv, RetainInv
<1>4. Bounded(g)
  BY <1>1, <1>3 DEF LagInv
<1> SUFFICES l - g <= 2 * (images - 1)
  BY <1>2, <1>3
<1>5. CASE g = 0 /\ Len(groups) = 1
  <2>1. l = g
    BY <1>3, <1>5
  <2> QED
    BY <1>1, <2>1
<1>6. CASE g = 0 /\ frameSerial < images
  BY <1>1, <1>3, <1>6
<1>7. CASE g > 0 /\ Cardinality(Lagging(g)) + (frameSerial - g) <= 2 * (images - 1)
  <2>1. IsFiniteSet(Lagging(g))
    <3>1. Lagging(g) \in SUBSET Contexts
      BY DEF Lagging
    <3> QED
      BY <3>1, ContextsFacts, FS_Subset
  <2>2. PICK c \in Nat : c = Cardinality(Lagging(g))
    BY <2>1, FS_CardinalityType
  <2>3. c + (frameSerial - g) <= 2 * (images - 1)
    BY <1>7, <2>2
  <2>4. l - g <= c + (frameSerial - g) /\ 2 * (images - 1) \in Int
    BY <1>1, <1>3, <2>2
  <2> QED
    BY <1>1, <1>3, <2>2, <2>3, <2>4
<1> QED
  BY <1>4, <1>5, <1>6, <1>7 DEF Bounded

-----------------------------------------------------------------------------
\* Contexts, fences, groups, submissions and resources keep their types.
THEOREM TypeCorrect == Spec => []TypeOK
<1>1. IInv => TypeOK
  BY DEF IInv
<1> QED
  BY <1>1, Invariance, PTL

\* A signaled fence proves every submission up to its context's last one executed.
THEOREM SignalsAreSound == Spec => []SignaledMeansComplete
<1>1. IInv => SignaledMeansComplete
  <2>1. IInv => DOMAIN pending = 1 .. Len(pending)
    BY Types DEF IInv
  <2> QED
    BY <2>1 DEF IInv, QueueInv, SignaledMeansComplete
<1> QED
  BY <1>1, Invariance, PTL

\* Nobody waits for a fence that will not be signaled: while the loop runs every context's
\* fence is signaled, or its submission is still to be executed.
THEOREM FencesReturn == Spec => []FencesComeBack
<1>1. Init => FencesComeBack
  BY DEF Init, FencesComeBack, Contexts
<1> QED
  BY <1>1, Invariance, FencesInductive, PTL DEF Spec

\* No resource is destroyed while recorded or submitted commands use it.
THEOREM NothingFreedInUse == Spec => []NoUseAfterFree
<1>1. IInv => NoUseAfterFree
  <2>1. IInv => DOMAIN pending = 1 .. Len(pending)
    BY Types DEF IInv
  <2> QED
    BY <2>1 DEF IInv, UseInv, NoUseAfterFree, InUse
<1> QED
  BY <1>1, Invariance, PTL

\* What is retired is held by exactly one group until it is destroyed.
THEOREM RetiredHeldOnce == Spec => []HeldOnce
<1>1. ASSUME IInv PROVE HeldOnce
  <2>1. /\ DOMAIN groups = 1 .. Len(groups)
        /\ \A k \in 1 .. Len(groups) : groups[k].resources \subseteq Resources
    BY <1>1, Types DEF IInv
  <2>2. ASSUME NEW r \in Resources PROVE state[r] = "retired" <=> r \in Retained(groups)
    BY <1>1, <2>1 DEF IInv, HeldInv, Retained
  <2>3. ASSUME NEW i \in DOMAIN groups, NEW j \in DOMAIN groups, i # j
        PROVE  groups[i].resources \cap groups[j].resources = {}
    BY <1>1, <2>1, <2>3 DEF IInv, HeldInv
  <2> QED
    BY <2>2, <2>3 DEF HeldOnce
<1> QED
  BY <1>1, Invariance, PTL

\* What a frame retires is destroyed when the frame 2 * images - 1 later begins, at the
\* latest, in whatever order the presentation engine returns the images.
THEOREM RetentionBounded == Spec => []HeldGroupsBounded
<1>1. Init => LagInv
  BY InitLag
<1>2. Spec => []LagInv
  BY <1>1, Invariance, LagInductive, PTL DEF Spec
<1> QED
  BY <1>2, Invariance, LagBounds, PTL

-----------------------------------------------------------------------------
(*************************************************************************)
(* The recording of failures: one first cause, observed by everybody.    *)
(*************************************************************************)

RecordingPcs == {"flag", "cas", "store", "stop", "done"}

RecordingState == [pc : RecordingPcs, cause : Causes,
                   todo : {DeviceOrder, <<"global">>, <<"device">>}, stops : BOOLEAN]

\* What a thread inside record() has established: it is inside with its own cause;
\* whoever reached the device's state, or the end, left the process-wide cause
\* behind; a loss is flagged before the exchange; the winner of the exchange is
\* the first cause, and has not stored its details yet.
RecorderInv(t) ==
    threads[t].pc \in RecordingPcs =>
        LET th == threads[t]
            s == Head(th.todo)
        IN  /\ th.cause.thread = t
            /\ th.todo = <<"device">> \/ th.pc \in {"stop", "done"} =>
                   /\ first["global"] # None
                   /\ th.cause.kind = "deviceLost" => lost["global"]
            /\ th.pc \in {"cas", "store", "stop", "done"} /\ th.cause.kind = "deviceLost" =>
                   lost[s]
            /\ th.pc \in {"stop", "done"} => th.todo # DeviceOrder
            /\ th.pc = "store" => first[s] = th.cause /\ stored[s] = None

\* What a reader holds belongs to the first cause of the state it reads.  Who is
\* refused a frame meets a stopped loop: there is a cause by then, or an excuse.
ReaderInv(t) ==
    LET th == threads[t]
    IN  /\ th.pc = "copy" => th.cause = first[th.state]
        /\ th.pc = "describe" => /\ first["global"] # None
                                 /\ th.operation \in {first["global"], Generic}
        /\ th.pc = "observed" => th.operation \in {th.cause, Generic}
        /\ th.pc = "refused" => excused \/ first["global"] # None
        /\ th.pc = "reported" => IF th.result = None THEN excused ELSE first["global"] # None

StateInv ==
    /\ ~running /\ ~excused => first["global"] # None
    /\ first["device"] # None => first["global"] # None
    /\ \A s \in States : /\ stored[s] # None => stored[s] = first[s]
                         /\ first[s] # None /\ first[s].kind = "deviceLost" => lost[s]

FailureInv == FailureTypeOK /\ StateInv /\ \A t \in Threads : RecorderInv(t) /\ ReaderInv(t)

-----------------------------------------------------------------------------
LEMMA Orders ==
    /\ Head(DeviceOrder) = "global" /\ Tail(DeviceOrder) = <<"device">> /\ Len(DeviceOrder) = 2
    /\ Head(<<"global">>) = "global" /\ Len(<<"global">>) = 1
    /\ Head(<<"device">>) = "device" /\ Len(<<"device">>) = 1
    /\ DeviceOrder # <<"device">> /\ DeviceOrder # <<"global">> /\ <<"global">> # <<"device">>
<1>1. /\ Head(DeviceOrder) = "global" /\ Len(DeviceOrder) = 2
      /\ Head(<<"global">>) = "global" /\ Len(<<"global">>) = 1
      /\ Head(<<"device">>) = "device" /\ Len(<<"device">>) = 1
  BY DEF DeviceOrder
<1>2. Tail(DeviceOrder) = <<"device">>
  BY DEF DeviceOrder
<1>3. DeviceOrder # <<"device">> /\ DeviceOrder # <<"global">> /\ <<"global">> # <<"device">>
  BY <1>1
<1> QED
  BY <1>1, <1>2, <1>3

LEMMA RecordingType ==
    ASSUME FailureTypeOK, NEW t \in Threads, threads[t].pc \in RecordingPcs
    PROVE  /\ threads[t] \in RecordingState
           /\ Head(threads[t].todo) \in States
BY Orders DEF FailureTypeOK, ThreadState, RecordingPcs, RecordingState, IdleThread, Observed, States

\* A recorder that is done with one state goes on to the next or stops.
LEMMA AdvancedType ==
    ASSUME NEW th \in RecordingState
    PROVE  \/ /\ th.todo = DeviceOrder
              /\ Advanced(th) = [pc |-> "flag", cause |-> th.cause, todo |-> <<"device">>, stops |-> th.stops]
           \/ /\ th.todo \in {<<"global">>, <<"device">>}
              /\ Advanced(th) = [th EXCEPT !.pc = "stop"]
              /\ Advanced(th) = [pc |-> "stop", cause |-> th.cause, todo |-> th.todo, stops |-> th.stops]
<1>1. CASE th.todo = DeviceOrder
  <2>1. Len(th.todo) = 2 /\ Tail(th.todo) = <<"device">>
    BY <1>1, Orders
  <2>2. Advanced(th) = Recording("flag", th.cause, Tail(th.todo), th.stops)
    BY <2>1 DEF Advanced
  <2> QED
    BY <1>1, <2>1, <2>2 DEF Recording
<1>2. CASE th.todo \in {<<"global">>, <<"device">>}
  <2>1. Len(th.todo) = 1
    BY <1>2, Orders
  <2>2. Advanced(th) = [th EXCEPT !.pc = "stop"]
    BY <2>1 DEF Advanced
  <2>3. [th EXCEPT !.pc = "stop"] =
            [pc |-> "stop", cause |-> th.cause, todo |-> th.todo, stops |-> th.stops]
    BY DEF RecordingState
  <2> QED
    BY <1>2, <2>2, <2>3
<1> QED
  BY <1>1, <1>2 DEF RecordingState

LEMMA InitFailureInv == FailureInit => FailureInv
<1> SUFFICES ASSUME FailureInit PROVE FailureInv
  OBVIOUS
<1>1. IdleThread \in ThreadState
  BY DEF ThreadState
<1>2. FailureTypeOK
  BY <1>1 DEF FailureInit, FailureTypeOK
<1>3. StateInv
  BY DEF FailureInit, StateInv, States
<1>4. ASSUME NEW t \in Threads PROVE RecorderInv(t) /\ ReaderInv(t)
  BY DEF FailureInit, RecorderInv, ReaderInv, IdleThread, RecordingPcs
<1> QED
  BY <1>2, <1>3, <1>4 DEF FailureInv

\* What every step keeps: first causes, flags and excuses only ever appear.
Monotone ==
    /\ \A s \in States : /\ first[s] # None => first'[s] = first[s]
                         /\ lost[s] => lost'[s]
    /\ excused => excused'

\* A thread that does not move keeps what it has established, unless somebody
\* stores details in the state it is about to store its own in.
LEMMA OthersKeep ==
    ASSUME FailureInv, NEW u \in Threads, threads'[u] = threads[u], Monotone,
           threads[u].pc = "store" => stored'[Head(threads[u].todo)] = None
    PROVE  RecorderInv(u)' /\ ReaderInv(u)'
<1>1. FailureTypeOK /\ RecorderInv(u) /\ ReaderInv(u)
  BY DEF FailureInv
<1>2. RecorderInv(u)'
  <2>1. CASE threads[u].pc \notin RecordingPcs
    BY <2>1 DEF RecorderInv
  <2>2. CASE threads[u].pc \in RecordingPcs
    <3> DEFINE th == threads[u]
    <3>1. th \in RecordingState /\ Head(th.todo) \in States /\ "global" \in States
      BY <1>1, <2>2, RecordingType DEF States
    <3>2. th.cause # None
      BY <3>1, DistinctAssumption DEF RecordingState
    <3> QED
      BY <1>1, <2>2, <3>1, <3>2 DEF RecorderInv, Monotone
  <2> QED
    BY <2>1, <2>2
<1>3. ReaderInv(u)'
  <2>1. threads[u].pc = "copy" => threads[u].state \in States /\ threads[u].cause # None
    BY <1>1, DistinctAssumption DEF FailureTypeOK, ThreadState, IdleThread, Observed, DeviceOrder
  <2>2. "global" \in States
    BY DEF States
  <2> QED
    BY <1>1, <2>1, <2>2 DEF ReaderInv, Monotone
<1> QED
  BY <1>2, <1>3

LEMMA StartRecordInv ==
    ASSUME FailureInv, NEW t \in Threads, StartRecord(t)
    PROVE  FailureInv'
<1>1. PICK kind \in Kinds, todo \in {DeviceOrder, <<"global">>}, stops \in BOOLEAN :
          threads' = [threads EXCEPT ![t] =
                          Recording("flag", [kind |-> kind, thread |-> t], todo, stops)]
  BY DEF StartRecord
<1>2. FailureTypeOK /\ UNCHANGED <<first, lost, stored, incomplete, device, running, excused>>
  BY DEF FailureInv, StartRecord, published, loopState
<1>3. threads'[t] =
          [pc |-> "flag", cause |-> [kind |-> kind, thread |-> t], todo |-> todo, stops |-> stops]
  BY <1>1, <1>2 DEF FailureTypeOK, Recording
<1>4. FailureTypeOK'
  BY <1>1, <1>2 DEF FailureTypeOK, ThreadState, Recording, Causes
<1>5. StateInv'
  BY <1>2 DEF FailureInv, StateInv
<1>6. RecorderInv(t)' /\ ReaderInv(t)'
  BY <1>3, Orders DEF RecorderInv, ReaderInv
<1>7. ASSUME NEW u \in Threads, u # t PROVE RecorderInv(u)' /\ ReaderInv(u)'
  <2>1. threads'[u] = threads[u]
    BY <1>1, <1>2, <1>7 DEF FailureTypeOK
  <2>2. threads[u].pc = "store" => stored'[Head(threads[u].todo)] = None
    BY <1>2 DEF FailureInv, RecorderInv, RecordingPcs
  <2> QED
    BY <1>2, <2>1, <2>2, OthersKeep DEF Monotone
<1> QED
  BY <1>4, <1>5, <1>6, <1>7 DEF FailureInv

LEMMA SetFlagInv ==
    ASSUME FailureInv, NEW t \in Threads, SetFlag(t)
    PROVE  FailureInv'
<1> DEFINE th == threads[t]
           s == Head(th.todo)
<1>1. /\ FailureTypeOK /\ th.pc = "flag" /\ UNCHANGED <<first, stored, incomplete, device, running, excused>>
      /\ lost' = [lost EXCEPT ![s] = @ \/ th.cause.kind = "deviceLost"]
      /\ threads' = [threads EXCEPT ![t].pc = "cas"]
  BY DEF FailureInv, SetFlag, loopState
<1>2. th \in RecordingState /\ s \in States /\ th.pc \in RecordingPcs
  BY <1>1, RecordingType DEF RecordingPcs
<1>3. threads'[t] = [pc |-> "cas", cause |-> th.cause, todo |-> th.todo, stops |-> th.stops]
  BY <1>1, <1>2 DEF FailureTypeOK, RecordingState
<1>4. lost' \in [States -> BOOLEAN] /\ \A r \in States : lost[r] => lost'[r]
  BY <1>1 DEF FailureTypeOK
<1>5. th.cause.kind = "deviceLost" => lost'[s]
  BY <1>1, <1>2 DEF FailureTypeOK
<1>6. FailureTypeOK'
  <2>1. threads'[t] \in ThreadState
    BY <1>2, <1>3 DEF RecordingState, ThreadState
  <2>2. threads' \in [Threads -> ThreadState]
    BY <1>1, <2>1 DEF FailureTypeOK
  <2> QED
    BY <1>1, <1>4, <2>2 DEF FailureTypeOK
<1>7. StateInv'
  BY <1>1, <1>4 DEF FailureInv, StateInv
<1>8. RecorderInv(t)' /\ ReaderInv(t)'
  <2>1. RecorderInv(t)
    BY DEF FailureInv
  <2>2. "global" \in States
    BY DEF States
  <2> QED
    BY <1>1, <1>2, <1>3, <1>4, <1>5, <2>1, <2>2 DEF RecorderInv, ReaderInv
<1>9. ASSUME NEW u \in Threads, u # t PROVE RecorderInv(u)' /\ ReaderInv(u)'
  <2>1. threads'[u] = threads[u]
    BY <1>1, <1>9 DEF FailureTypeOK
  <2>2. threads[u].pc = "store" => stored'[Head(threads[u].todo)] = None
    BY <1>1 DEF FailureInv, RecorderInv, RecordingPcs
  <2> QED
    BY <1>1, <1>4, <2>1, <2>2, OthersKeep DEF Monotone
<1> QED
  BY <1>6, <1>7, <1>8, <1>9 DEF FailureInv

\* What a thread that is done with one state has established for the next, or as
\* the end of its recording.
LEMMA AdvancedInv ==
    ASSUME FailureInv, NEW t \in Threads, threads[t].pc \in {"cas", "store"}, Monotone,
           threads'[t] = Advanced(threads[t]),
           first'[Head(threads[t].todo)] # None
    PROVE  RecorderInv(t)' /\ ReaderInv(t)' /\ threads'[t] \in ThreadState
<1> DEFINE th == threads[t]
           s == Head(th.todo)
<1>1. FailureTypeOK /\ RecorderInv(t) /\ th.pc \in RecordingPcs
  BY DEF FailureInv, RecordingPcs
<1>2. th \in RecordingState /\ s \in States /\ "global" \in States
  BY <1>1, RecordingType DEF States
<1>3. th.cause.thread = t /\ (th.cause.kind = "deviceLost" => lost'[s])
  BY <1>1, <1>2 DEF RecorderInv, Monotone
<1>4. CASE /\ th.todo = DeviceOrder
           /\ Advanced(th) =
                  [pc |-> "flag", cause |-> th.cause, todo |-> <<"device">>, stops |-> th.stops]
  <2>1. s = "global"
    BY <1>4, Orders
  <2>2. threads'[t] \in ThreadState
    BY <1>2, <1>4 DEF RecordingState, ThreadState
  <2> QED
    BY <1>3, <1>4, <2>1, <2>2 DEF RecorderInv, ReaderInv
<1>5. CASE /\ th.todo \in {<<"global">>, <<"device">>}
           /\ Advanced(th) =
                  [pc |-> "stop", cause |-> th.cause, todo |-> th.todo, stops |-> th.stops]
  <2>1. threads'[t] \in ThreadState
    BY <1>2, <1>5 DEF RecordingState, ThreadState
  <2>2. first'["global"] # None /\ (th.cause.kind = "deviceLost" => lost'["global"])
    <3>1. CASE th.todo = <<"global">>
      BY <1>3, <3>1, Orders
    <3>2. CASE th.todo = <<"device">>
      BY <1>1, <1>2, <3>2 DEF RecorderInv, Monotone
    <3> QED
      BY <1>5, <3>1, <3>2
  <2> DEFINE new == threads'[t]
  <2>3. /\ new.pc = "stop" /\ new.cause = th.cause /\ new.todo = th.todo
        /\ new.todo # DeviceOrder
    BY <1>5, Orders
  <2> HIDE DEF new, th
  <2>4. new = threads'[t]
    BY DEF new
  <2>5. RecorderInv(t)'
    BY <1>3, <2>2, <2>3, <2>4 DEF RecorderInv
  <2>6. ReaderInv(t)'
    BY <2>3, <2>4 DEF ReaderInv
  <2> QED
    BY <2>1, <2>5, <2>6
<1> QED
  BY <1>2, <1>4, <1>5, AdvancedType

LEMMA CompareExchangeInv ==
    ASSUME FailureInv, NEW t \in Threads, CompareExchange(t)
    PROVE  FailureInv' /\ Monotone /\ stored' = stored
<1> DEFINE th == threads[t]
           s == Head(th.todo)
<1>1. /\ FailureTypeOK /\ RecorderInv(t) /\ th.pc = "cas" /\ th.pc \in RecordingPcs
      /\ UNCHANGED <<lost, stored, incomplete, device, running, excused>>
  BY DEF FailureInv, CompareExchange, RecordingPcs, loopState
<1>2. th \in RecordingState /\ s \in States /\ th.cause \in Causes /\ th.cause # None
  BY <1>1, RecordingType, DistinctAssumption DEF RecordingState
<1>3. CASE first[s] = None
  <2>1. /\ first' = [first EXCEPT ![s] = th.cause]
        /\ threads' = [threads EXCEPT ![t].pc = "store"]
    BY <1>3 DEF CompareExchange
  <2>2. threads'[t] = [pc |-> "store", cause |-> th.cause, todo |-> th.todo, stops |-> th.stops]
    BY <1>1, <1>2, <2>1 DEF FailureTypeOK, RecordingState
  <2>3. /\ Monotone /\ first'[s] = th.cause
        /\ \A r \in States : r # s => first'[r] = first[r]
    BY <1>1, <1>2, <1>3, <2>1 DEF Monotone, FailureTypeOK
  <2>4. FailureTypeOK'
    <3>1. threads'[t] \in ThreadState
      BY <1>2, <2>2 DEF RecordingState, ThreadState
    <3>2. threads' \in [Threads -> ThreadState]
      BY <1>1, <2>1, <3>1 DEF FailureTypeOK
    <3>3. first' \in [States -> Causes \cup {None}]
      BY <1>1, <1>2, <2>1 DEF FailureTypeOK
    <3> QED
      BY <1>1, <3>2, <3>3 DEF FailureTypeOK
  <2>5. stored[s] = None /\ (th.cause.kind = "deviceLost" => lost[s])
    BY <1>1, <1>2, <1>3 DEF FailureInv, StateInv, RecorderInv
  <2>6. StateInv'
    <3>1. \A r \in States : /\ stored'[r] # None => stored'[r] = first'[r]
                            /\ first'[r] # None /\ first'[r].kind = "deviceLost" => lost'[r]
      BY <1>1, <2>3, <2>5 DEF FailureInv, StateInv
    <3>2. first["global"] # None => first'["global"] # None
      BY <2>3 DEF Monotone, States
    <3>3. s = "global" => first'["global"] # None
      BY <1>2, <2>3
    <3>4. s = "device" => first["global"] # None
      BY <1>1, <1>2, Orders DEF RecorderInv, RecordingState
    <3>5. first'["device"] # None => first'["global"] # None
      BY <1>1, <1>2, <2>3, <3>2, <3>3, <3>4 DEF FailureInv, StateInv, States
    <3>6. ~running' /\ ~excused' => first'["global"] # None
      BY <1>1, <3>2 DEF FailureInv, StateInv
    <3> QED
      BY <3>1, <3>5, <3>6 DEF StateInv
  <2>7. RecorderInv(t)' /\ ReaderInv(t)'
    <3>1. "global" \in States
      BY DEF States
    <3> QED
      BY <1>1, <1>2, <2>2, <2>3, <2>5, <3>1 DEF RecorderInv, ReaderInv, Monotone
  <2>8. ASSUME NEW u \in Threads, u # t PROVE RecorderInv(u)' /\ ReaderInv(u)'
    <3>1. threads'[u] = threads[u]
      BY <1>1, <2>1, <2>8 DEF FailureTypeOK
    <3>2. threads[u].pc = "store" => stored'[Head(threads[u].todo)] = None
      BY <1>1 DEF FailureInv, RecorderInv, RecordingPcs
    <3> QED
      BY <2>3, <3>1, <3>2, OthersKeep
  <2> QED
    BY <1>1, <2>3, <2>4, <2>6, <2>7, <2>8 DEF FailureInv
<1>4. CASE first[s] # None
  <2>1. UNCHANGED first /\ threads' = [threads EXCEPT ![t] = Advanced(th)]
    BY <1>4 DEF CompareExchange
  <2>2. threads'[t] = Advanced(th) /\ Monotone
    BY <1>1, <2>1 DEF FailureTypeOK, Monotone
  <2>3. RecorderInv(t)' /\ ReaderInv(t)' /\ threads'[t] \in ThreadState
    BY <1>1, <1>4, <2>1, <2>2, AdvancedInv
  <2>4. FailureTypeOK'
    BY <1>1, <2>1, <2>2, <2>3 DEF FailureTypeOK
  <2>5. StateInv'
    BY <1>1, <2>1 DEF FailureInv, StateInv
  <2>6. ASSUME NEW u \in Threads, u # t PROVE RecorderInv(u)' /\ ReaderInv(u)'
    <3>1. threads'[u] = threads[u]
      BY <1>1, <2>1, <2>6 DEF FailureTypeOK
    <3>2. threads[u].pc = "store" => stored'[Head(threads[u].todo)] = None
      BY <1>1 DEF FailureInv, RecorderInv, RecordingPcs
    <3> QED
      BY <2>2, <3>1, <3>2, OthersKeep
  <2> QED
    BY <1>1, <2>2, <2>3, <2>4, <2>5, <2>6 DEF FailureInv
<1> QED
  BY <1>3, <1>4

LEMMA StoreDetailsInv ==
    ASSUME FailureInv, NEW t \in Threads, StoreDetails(t)
    PROVE  FailureInv' /\ Monotone /\ \A s \in States : stored[s] # None => stored'[s] = stored[s]
<1> DEFINE th == threads[t]
           s == Head(th.todo)
<1>1. /\ FailureTypeOK /\ RecorderInv(t) /\ th.pc = "store" /\ th.pc \in RecordingPcs
      /\ UNCHANGED <<first, lost, device, running, excused>>
      /\ threads' = [threads EXCEPT ![t] = Advanced(th)]
      /\ stored' = stored \/ stored' = [stored EXCEPT ![s] = th.cause]
      /\ incomplete' = incomplete \/ incomplete' = [incomplete EXCEPT ![s] = TRUE]
  BY DEF FailureInv, StoreDetails, RecordingPcs, loopState
<1>2. th \in RecordingState /\ s \in States /\ th.cause \in Causes /\ th.cause # None
  BY <1>1, RecordingType, DistinctAssumption DEF RecordingState
<1>3. first[s] = th.cause /\ stored[s] = None /\ th.cause.thread = t
  BY <1>1 DEF RecorderInv
<1>4. threads'[t] = Advanced(th) /\ Monotone /\ first'[s] # None
  BY <1>1, <1>2, <1>3 DEF FailureTypeOK, Monotone
<1>5. RecorderInv(t)' /\ ReaderInv(t)' /\ threads'[t] \in ThreadState
  BY <1>1, <1>4, AdvancedInv
<1>6. \A r \in States : /\ r # s => stored'[r] = stored[r]
                        /\ stored'[r] # None => stored'[r] = first'[r]
  BY <1>1, <1>2, <1>3 DEF FailureTypeOK, FailureInv, StateInv
<1>7. FailureTypeOK'
  <2>1. threads' \in [Threads -> ThreadState]
    BY <1>1, <1>4, <1>5 DEF FailureTypeOK
  <2>2. stored' \in [States -> Causes \cup {None}]
    BY <1>1, <1>2 DEF FailureTypeOK
  <2>3. incomplete' \in [States -> BOOLEAN]
    BY <1>1 DEF FailureTypeOK
  <2> QED
    BY <1>1, <2>1, <2>2, <2>3 DEF FailureTypeOK
<1>8. StateInv'
  BY <1>1, <1>6 DEF FailureInv, StateInv
<1>9. ASSUME NEW u \in Threads, u # t PROVE RecorderInv(u)' /\ ReaderInv(u)'
  <2>1. threads'[u] = threads[u]
    BY <1>1, <1>9 DEF FailureTypeOK
  <2>2. threads[u].pc = "store" => stored'[Head(threads[u].todo)] = None
    <3> SUFFICES ASSUME threads[u].pc = "store" PROVE stored'[Head(threads[u].todo)] = None
      OBVIOUS
    <3>1. threads[u].pc \in RecordingPcs /\ RecorderInv(u)
      BY DEF RecordingPcs, FailureInv
    <3>2. /\ Head(threads[u].todo) \in States /\ threads[u].cause.thread = u
          /\ first[Head(threads[u].todo)] = threads[u].cause
          /\ stored[Head(threads[u].todo)] = None
      BY <1>1, <3>1, RecordingType DEF RecorderInv
    <3>3. Head(threads[u].todo) # s
      BY <1>3, <1>9, <3>2
    <3> QED
      BY <1>6, <3>2, <3>3
  <2> QED
    BY <1>4, <2>1, <2>2, OthersKeep
<1> QED
  BY <1>3, <1>4, <1>5, <1>6, <1>7, <1>8, <1>9 DEF FailureInv

\* A step that records nothing and changes the thread that takes it, and perhaps stops
\* the loop with a cause on record or an excuse.
LEMMA OwnStepInv ==
    ASSUME FailureInv, NEW t \in Threads, NEW new \in ThreadState,
           UNCHANGED <<first, lost, stored>>, incomplete' \in [States -> BOOLEAN],
           threads' = [threads EXCEPT ![t] = new],
           device' \in BOOLEAN, running' \in BOOLEAN, excused' \in BOOLEAN,
           excused => excused', ~running' /\ ~excused' => first["global"] # None,
           RecorderInv(t)', ReaderInv(t)'
    PROVE  FailureInv'
<1>1. FailureTypeOK /\ FailureTypeOK'
  BY DEF FailureInv, FailureTypeOK
<1>2. StateInv'
  BY DEF FailureInv, StateInv
<1>3. ASSUME NEW u \in Threads, u # t PROVE RecorderInv(u)' /\ ReaderInv(u)'
  <2>1. threads'[u] = threads[u]
    BY <1>1, <1>3 DEF FailureTypeOK
  <2>2. threads[u].pc = "store" => stored'[Head(threads[u].todo)] = None
    BY DEF FailureInv, RecorderInv, RecordingPcs
  <2> QED
    BY <2>1, <2>2, OthersKeep DEF Monotone
<1> QED
  BY <1>1, <1>2, <1>3 DEF FailureInv

LEMMA EndRecordInv ==
    ASSUME FailureInv, NEW t \in Threads, EndRecord(t)
    PROVE  FailureInv'
<1> DEFINE th == threads[t]
<1>1. /\ FailureTypeOK /\ RecorderInv(t) /\ th.pc = "stop" /\ th.pc \in RecordingPcs
      /\ UNCHANGED <<first, lost, stored, incomplete, device, excused>>
      /\ threads' = [threads EXCEPT ![t].pc = "done"]
  BY DEF FailureInv, EndRecord, RecordingPcs, published
<1>2. th \in RecordingState
  BY <1>1, RecordingType
<1> DEFINE new == [pc |-> "done", cause |-> th.cause, todo |-> th.todo, stops |-> th.stops]
<1>3. threads' = [threads EXCEPT ![t] = new] /\ threads'[t] = new
  <2>1. [th EXCEPT !.pc = "done"] = new
    BY <1>2 DEF RecordingState
  <2>2. threads' = [threads EXCEPT ![t] = [th EXCEPT !.pc = "done"]]
    BY <1>1
  <2> HIDE DEF new
  <2> QED
    BY <1>1, <2>1, <2>2 DEF FailureTypeOK
<1>4. new \in ThreadState
  BY <1>2 DEF RecordingState, ThreadState
<1>5. running' \in BOOLEAN /\ first["global"] # None
  BY <1>1 DEF FailureTypeOK, RecorderInv, EndRecord
<1>6. RecorderInv(t)' /\ ReaderInv(t)'
  BY <1>1, <1>3 DEF RecorderInv, ReaderInv
<1> HIDE DEF new
<1> QED
  BY <1>1, <1>3, <1>4, <1>5, <1>6, OwnStepInv DEF FailureInv, FailureTypeOK

\* The device's creation, and a stop with an excuse: no thread moves.
LEMMA LoopStepInv ==
    ASSUME FailureInv, CreateDevice \/ StopWithoutFailure
    PROVE  FailureInv'
<1>1. /\ FailureTypeOK /\ UNCHANGED <<first, lost, stored, incomplete, threads>>
      /\ device' \in BOOLEAN /\ running' \in BOOLEAN /\ excused' \in BOOLEAN
      /\ excused => excused'
  BY DEF FailureInv, FailureTypeOK, CreateDevice, StopWithoutFailure, published
<1>2. FailureTypeOK'
  BY <1>1 DEF FailureTypeOK
<1>3. ~running' /\ ~excused' => first["global"] # None
  BY DEF FailureInv, StateInv, CreateDevice, StopWithoutFailure
<1>4. StateInv'
  BY <1>1, <1>3 DEF FailureInv, StateInv
<1>5. ASSUME NEW u \in Threads PROVE RecorderInv(u)' /\ ReaderInv(u)'
  <2>1. threads[u].pc = "store" => stored'[Head(threads[u].todo)] = None
    BY <1>1 DEF FailureInv, RecorderInv, RecordingPcs
  <2> QED
    BY <1>1, <2>1, OthersKeep DEF Monotone
<1> QED
  BY <1>2, <1>4, <1>5 DEF FailureInv

\* Whoever is refused finds a cause, or leaves or finds an excuse; what he is told
\* later is read from there.
LEMMA RefusalInv ==
    ASSUME FailureInv, NEW t \in Threads, RefuseFrame(t) \/ ReportRefusal(t)
    PROVE  FailureInv'
<1>1. /\ FailureTypeOK /\ StateInv /\ ReaderInv(t)
      /\ UNCHANGED <<first, lost, stored, incomplete, device>>
      /\ device' \in BOOLEAN /\ incomplete' \in [States -> BOOLEAN]
  BY DEF FailureInv, FailureTypeOK, RefuseFrame, ReportRefusal, published, loopState
<1>2. HasFailure => first["global"] # None
  BY <1>1 DEF StateInv, HasFailure, States
<1>3. CASE RefuseFrame(t)
  <2> DEFINE new == [pc |-> "refused"]
  <2>1. /\ threads' = [threads EXCEPT ![t] = new]
        /\ ~running' /\ excused' = (excused \/ (running /\ ~device))
        /\ ~running \/ ~device \/ HasFailure
    BY <1>3 DEF RefuseFrame
  <2>2. new \in ThreadState /\ threads'[t] = new
    BY <1>1, <2>1 DEF ThreadState, FailureTypeOK
  <2>3. excused' \in BOOLEAN /\ running' \in BOOLEAN /\ (excused => excused')
    BY <1>3, <1>1 DEF FailureTypeOK, RefuseFrame
  <2>4. ~excused' => first["global"] # None
    BY <1>1, <1>2, <2>1 DEF StateInv
  <2>5. RecorderInv(t)' /\ ReaderInv(t)'
    BY <1>1, <2>2, <2>4 DEF RecorderInv, ReaderInv, RecordingPcs
  <2> HIDE DEF new
  <2> QED
    BY <1>1, <2>1, <2>2, <2>3, <2>4, <2>5, OwnStepInv
<1>4. CASE ReportRefusal(t)
  <2> DEFINE new == [pc |-> "reported", result |-> LastFailure]
  <2>1. /\ threads[t].pc = "refused" /\ threads' = [threads EXCEPT ![t] = new]
        /\ running' = running /\ excused' = excused
    BY <1>4 DEF ReportRefusal, loopState
  <2>2. LastFailure \in Causes \cup {None}
    BY <1>1 DEF LastFailure, FailureTypeOK, States
  <2>3. new \in ThreadState /\ threads'[t] = new
    BY <1>1, <2>1, <2>2 DEF ThreadState, FailureTypeOK
  <2>4. LastFailure # None => first["global"] # None
    BY <1>1 DEF LastFailure, StateInv
  <2>5. LastFailure = None => excused
    BY <1>1, <2>1 DEF LastFailure, ReaderInv
  <2>6. RecorderInv(t)' /\ ReaderInv(t)'
    BY <1>1, <2>1, <2>3, <2>4, <2>5 DEF RecorderInv, ReaderInv, RecordingPcs
  <2>7. excused' \in BOOLEAN /\ running' \in BOOLEAN
        /\ (~running' /\ ~excused' => first["global"] # None)
    BY <1>1, <2>1 DEF FailureTypeOK, StateInv
  <2> HIDE DEF new
  <2> QED
    BY <1>1, <2>1, <2>3, <2>6, <2>7, OwnStepInv
<1> QED
  BY <1>3, <1>4

\* Whatever is copied is the details of the first cause, or nothing.
LEMMA CopiedText ==
    ASSUME FailureTypeOK, NEW s \in States, first[s] # None, stored[s] \in {None, first[s]},
           NEW operation, Copied(s, operation)
    PROVE  operation \in {first[s], Generic} /\ incomplete' \in [States -> BOOLEAN]
<1>1. CASE operation = TextOf(stored[s]) /\ UNCHANGED incomplete
  BY <1>1 DEF TextOf, FailureTypeOK
<1>2. CASE operation = Generic /\ incomplete' = [incomplete EXCEPT ![s] = TRUE]
  BY <1>2 DEF FailureTypeOK
<1> QED
  BY <1>1, <1>2 DEF Copied

LEMMA ReadingInv ==
    ASSUME FailureInv, NEW t \in Threads,
           LoadFirst(t) \/ CopyDetails(t) \/ BeginDescription(t) \/ EndDescription(t)
    PROVE  FailureInv'
<1>1. /\ FailureTypeOK /\ StateInv /\ ReaderInv(t) /\ threads[t] \in ThreadState
      /\ device \in BOOLEAN /\ running \in BOOLEAN /\ excused \in BOOLEAN
      /\ ~running /\ ~excused => first["global"] # None
      /\ \A s \in States : first[s] \in Causes \cup {None} /\ stored[s] \in {None, first[s]}
  BY DEF FailureInv, StateInv, FailureTypeOK
<1>2. "global" \in States /\ Preferred \in States
  BY DEF States, Preferred
<1>3. CASE LoadFirst(t)
  <2>1. PICK s \in States :
            /\ first[s] # None
            /\ threads' = [threads EXCEPT ![t] = [pc |-> "copy", state |-> s, cause |-> first[s]]]
    BY <1>3 DEF LoadFirst
  <2> DEFINE new == [pc |-> "copy", state |-> s, cause |-> first[s]]
  <2>2. new \in ThreadState /\ threads'[t] = new
    BY <1>1, <2>1 DEF ThreadState, FailureTypeOK
  <2>3. UNCHANGED <<first, lost, stored, incomplete, device, running, excused>>
    BY <1>3 DEF LoadFirst, published, loopState
  <2>4. RecorderInv(t)' /\ ReaderInv(t)'
    BY <2>2, <2>3 DEF RecorderInv, ReaderInv, RecordingPcs
  <2> HIDE DEF new
  <2> QED
    BY <1>1, <2>1, <2>2, <2>3, <2>4, OwnStepInv DEF new, FailureTypeOK
<1>4. CASE CopyDetails(t)
  <2> DEFINE th == threads[t]
             seen(operation) == [pc |-> "observed", cause |-> th.cause, operation |-> operation]
  <2>1. PICK operation \in Causes \cup {Generic} :
            Copied(th.state, operation) /\ threads' = [threads EXCEPT ![t] = seen(operation)]
    BY <1>4 DEF CopyDetails
  <2>2. th.pc = "copy" /\ UNCHANGED <<first, lost, stored, device, running, excused>>
    BY <1>4 DEF CopyDetails, loopState
  <2>3. th.state \in States /\ th.cause \in Causes
    BY <1>1, <2>2 DEF ThreadState, IdleThread, Observed
  <2>4. th.cause = first[th.state]
    BY <1>1, <2>2 DEF ReaderInv
  <2>5. operation \in {th.cause, Generic} /\ incomplete' \in [States -> BOOLEAN]
    BY <1>1, <2>1, <2>3, <2>4, DistinctAssumption, CopiedText
  <2> DEFINE new == seen(operation)
  <2>6. new \in ThreadState /\ threads'[t] = new
    BY <1>1, <2>1, <2>3, <2>5 DEF ThreadState, Observed, FailureTypeOK
  <2>7. RecorderInv(t)' /\ ReaderInv(t)'
    BY <2>5, <2>6 DEF RecorderInv, ReaderInv, RecordingPcs
  <2>8. threads' = [threads EXCEPT ![t] = new]
    BY <2>1
  <2> HIDE DEF new
  <2> QED
    BY <1>1, <2>2, <2>5, <2>6, <2>7, <2>8, OwnStepInv
<1>5. CASE BeginDescription(t)
  <2>1. PICK operation \in Causes \cup {Generic} :
            /\ Copied(Preferred, operation)
            /\ threads' = [threads EXCEPT ![t] = [pc |-> "describe", operation |-> operation]]
    BY <1>5 DEF BeginDescription
  <2> DEFINE new == [pc |-> "describe", operation |-> operation]
  <2>2. UNCHANGED <<first, lost, stored, device, running, excused>>
    BY <1>5 DEF BeginDescription, loopState
  <2>3. first["global"] # None /\ Preferred = "global"
    BY <1>1, <1>5 DEF BeginDescription, HasFailure, StateInv, States, Preferred
  <2>4. operation \in {first["global"], Generic} /\ incomplete' \in [States -> BOOLEAN]
    BY <1>1, <1>2, <2>1, <2>3, CopiedText
  <2>5. new \in ThreadState /\ threads'[t] = new
    BY <1>1, <2>1 DEF ThreadState, FailureTypeOK
  <2>6. RecorderInv(t)' /\ ReaderInv(t)'
    BY <2>2, <2>3, <2>4, <2>5 DEF RecorderInv, ReaderInv, RecordingPcs
  <2>7. threads' = [threads EXCEPT ![t] = new]
    BY <2>1
  <2> HIDE DEF new
  <2> QED
    BY <1>1, <2>2, <2>4, <2>5, <2>6, <2>7, OwnStepInv
<1>6. CASE EndDescription(t)
  <2> DEFINE th == threads[t]
             new == [pc |-> "observed", cause |-> first[Preferred], operation |-> th.operation]
  <2>1. /\ th.pc = "describe" /\ threads' = [threads EXCEPT ![t] = new]
        /\ UNCHANGED <<first, lost, stored, incomplete, device, running, excused>>
    BY <1>6 DEF EndDescription, published, loopState
  <2>2. first["global"] # None /\ th.operation \in {first["global"], Generic}
    BY <1>1, <2>1 DEF ReaderInv
  <2>3. Preferred = "global" /\ first[Preferred] \in Causes
    BY <1>1, <1>2, <2>2 DEF Preferred
  <2>4. new \in ThreadState /\ threads'[t] = new
    BY <1>1, <2>1, <2>2, <2>3 DEF ThreadState, Observed, FailureTypeOK
  <2>5. RecorderInv(t)' /\ ReaderInv(t)'
    BY <2>2, <2>3, <2>4 DEF RecorderInv, ReaderInv, RecordingPcs
  <2> HIDE DEF new
  <2> QED
    BY <1>1, <2>1, <2>4, <2>5, OwnStepInv DEF FailureTypeOK
<1> QED
  BY <1>3, <1>4, <1>5, <1>6

LEMMA FailureInvInductive ==
    ASSUME FailureInv, [FailureNext]_failureVars
    PROVE  FailureInv'
<1>1. CASE UNCHANGED failureVars
  <2>1. UNCHANGED <<first, lost, stored, incomplete, device, running, excused, threads>>
    BY <1>1 DEF failureVars
  <2> QED
    BY <2>1 DEF FailureInv, FailureTypeOK, StateInv, RecorderInv, ReaderInv
<1>2. ASSUME NEW t \in Threads,
             \/ StartRecord(t) \/ SetFlag(t) \/ CompareExchange(t) \/ StoreDetails(t)
             \/ EndRecord(t) \/ RefuseFrame(t) \/ ReportRefusal(t)
             \/ LoadFirst(t) \/ CopyDetails(t) \/ BeginDescription(t) \/ EndDescription(t)
      PROVE  FailureInv'
  BY <1>2, StartRecordInv, SetFlagInv, CompareExchangeInv, StoreDetailsInv, EndRecordInv,
     RefusalInv, ReadingInv
<1> QED
  BY <1>1, <1>2, LoopStepInv DEF FailureNext

LEMMA FailureInvariance == FailureSpec => []FailureInv
<1>1. FailureInit => FailureInv
  BY InitFailureInv
<1> QED
  BY <1>1, FailureInvInductive, PTL DEF FailureSpec

-----------------------------------------------------------------------------
\* Threads, causes, flags and details keep their types.
THEOREM FailureTypeCorrect == FailureSpec => []FailureTypeOK
<1>1. FailureInv => FailureTypeOK
  BY DEF FailureInv
<1> QED
  BY <1>1, FailureInvariance, PTL

\* Whoever is refused a frame is told the failure that stopped the loop, one the
\* process sees, unless something else stopped it.
THEOREM RefusalsExplained == FailureSpec => []RefusalsAreExplained
<1>1. FailureInv => RefusalsAreExplained
  BY DEF FailureInv, ReaderInv, RefusalsAreExplained
<1> QED
  BY <1>1, FailureInvariance, PTL

\* Every owner of the device observes a loss.
THEOREM LossObserved == FailureSpec => []LossIsObserved
<1>1. FailureInv => LossIsObserved
  <2> SUFFICES ASSUME FailureInv PROVE LossIsObserved
    OBVIOUS
  <2>1. ASSUME NEW t \in Threads, NEW s \in States, Recorded(t, s),
               threads[t].cause.kind = "deviceLost"
        PROVE  lost[s]
    <3>1. threads[t].pc \in {"stop", "done"} /\ threads[t].pc \in RecordingPcs
      BY <2>1 DEF Recorded, RecordingPcs
    <3>2. RecorderInv(t) /\ (s = "global" \/ threads[t].todo = <<"device">>)
      BY <2>1 DEF FailureInv, Recorded
    <3>3. CASE s = "global"
      BY <2>1, <3>1, <3>2, <3>3 DEF RecorderInv
    <3>4. CASE s # "global"
      <4>1. s = "device" /\ Head(threads[t].todo) = "device"
        BY <3>2, <3>4, Orders DEF States
      <4> QED
        BY <2>1, <3>1, <3>2, <4>1 DEF RecorderInv
    <3> QED
      BY <3>3, <3>4
  <2> QED
    BY <2>1 DEF FailureInv, StateInv, LossIsObserved
<1> QED
  BY <1>1, FailureInvariance, PTL

\* No report mixes the result of one failure with the operation of another.
THEOREM ConsistentReports == FailureSpec => []ReportsAreConsistent
<1>1. FailureInv => ReportsAreConsistent
  BY DEF FailureInv, ReaderInv, ReportsAreConsistent, Observed
<1> QED
  BY <1>1, FailureInvariance, PTL

\* The first cause and its details, once recorded, are never replaced.
THEOREM FirstCauseIsFinal == FailureSpec => FirstCauseStays
<1> DEFINE Stays == \A s \in States : /\ first[s] # None => first'[s] = first[s]
                                      /\ stored[s] # None => stored'[s] = stored[s]
<1>1. ASSUME FailureInv, NEW t \in Threads, CompareExchange(t) PROVE Stays
  BY <1>1, CompareExchangeInv DEF Monotone
<1>2. ASSUME FailureInv, NEW t \in Threads, StoreDetails(t) PROVE Stays
  BY <1>2, StoreDetailsInv DEF Monotone
<1>3. ASSUME UNCHANGED <<first, stored>> PROVE Stays
  BY <1>3
<1>4. FailureInv /\ [FailureNext]_failureVars => [Stays]_failureVars
  BY <1>1, <1>2, <1>3
  DEF FailureNext, failureVars, published, CreateDevice, StopWithoutFailure, StartRecord,
     SetFlag, EndRecord, RefuseFrame, ReportRefusal, LoadFirst, CopyDetails,
     BeginDescription, EndDescription
<1> QED
  BY <1>4, FailureInvariance, PTL DEF FailureSpec, FirstCauseStays

-----------------------------------------------------------------------------
(*************************************************************************)
(* The pipeline cache: the driver is given what one instance persisted,  *)
(* whole, and what is persisted stays.                                   *)
(*************************************************************************)

File == [stem : Stems, state : FileStates, time : 1 .. MaxFiles, synced : BOOLEAN]

\* Only what may be loaded again is persisted.  What an instance publishes is what it
\* holds, under its name and complete: it compiles nothing once it persists.
WritersOK ==
    /\ \A p \in Procs : pc[p] \in {"name", "write", "publish"} =>
           Cardinality(cache[p]) <= MaxSize
    /\ \A p \in Procs : pc[p] \in {"write", "publish"} => part[p].stem.hash = cache[p]
    /\ \A p \in Procs : pc[p] = "publish" => part[p].state = "whole"
    /\ \A b \in bins : Cardinality(b.stem.hash) <= MaxSize

CacheInv == CacheTypeOK /\ WritersOK /\ DriverGetsWholeData

-----------------------------------------------------------------------------
(* Files                                                                   *)

LEMMA FileFields ==
    ASSUME CacheTypeOK, NEW b \in bins
    PROVE  /\ b.stem \in Stems /\ b.stem.hash \in Contents /\ b.stem.sequence \in 0 .. MaxFiles
           /\ b.state \in FileStates /\ b.time \in 1 .. MaxFiles /\ b.synced \in BOOLEAN
BY DEF CacheTypeOK, Stems

LEMMA NoPartType == NoPart \in [stem : Stems, state : FileStates]
BY SizesAssumption DEF NoPart, Stems, Contents, FileStates

\* Of finitely many times there is a last one.
LEMMA LatestTime ==
    ASSUME NEW T \in SUBSET (1 .. MaxFiles), T # {}
    PROVE  \E x \in T : \A y \in T : y <= x
<1> DEFINE S == 1 .. MaxFiles
           After(x) == {y \in T : x < y}
           W == {After(x) : x \in T}
<1>1. IsFiniteSet(S)
  BY SizesAssumption, FS_Interval
<1>2. FiniteSubsetsOf(S) = SUBSET S
  BY <1>1, FS_FiniteSubsetsOfFinite
<1>3. IsWellFoundedOn(StrictSubsetOrdering(S), SUBSET S)
  BY <1>2, FS_StrictSubsetOrderingWellFounded
<1>4. W \subseteq SUBSET S /\ W # {}
  OBVIOUS
<1> HIDE DEF S
<1>5. PICK w \in W : \A v \in W : ~(<<v, w>> \in StrictSubsetOrdering(S))
  BY <1>3, <1>4, WFMin
<1>6. PICK x \in T : w = After(x)
  BY <1>5
<1>7. ASSUME NEW y \in T, x < y
      PROVE  FALSE
  <2>1. x \in Int /\ y \in Int /\ \A z \in T : z \in Int
    OBVIOUS
  <2>2. After(y) \subseteq After(x) /\ y \in After(x) /\ y \notin After(y)
    <3>1. ASSUME NEW z \in T, y < z PROVE x < z
      BY <1>7, <2>1, <3>1
    <3>2. ~(y < y)
      BY <2>1
    <3> QED
      BY <1>7, <3>1, <3>2
  <2>3. After(x) \in SUBSET S /\ After(y) \in SUBSET S /\ After(y) \in W
    BY <1>4, <1>6, <1>7
  <2> QED
    BY <1>5, <1>6, <2>2, <2>3 DEF StrictSubsetOrdering
<1> QED
  BY <1>7

\* loadLatest finds a file whenever one is whole: the newest of those that can be used.
LEMMA WholeIsLatest ==
    ASSUME CacheInv, NEW w \in bins, w.state = "whole"
    PROVE  /\ Latest # {}
           /\ \A b \in Latest : b.state = "whole"
<1>1. Usable(w)
  BY DEF CacheInv, WritersOK, Usable, Valid, NamedForContent
<1> DEFINE U == {b \in bins : Usable(b)}
           T == {b.time : b \in U}
<1>2. T \in SUBSET (1 .. MaxFiles) /\ T # {}
  BY <1>1, FileFields DEF CacheInv
<1>3. PICK x \in T : \A y \in T : y <= x
  BY <1>2, LatestTime
<1>4. PICK b \in U : b.time = x
  OBVIOUS
<1>5. b \in Latest
  BY <1>3, <1>4 DEF Latest
<1> QED
  BY <1>5 DEF Latest, Usable, NamedForContent

-----------------------------------------------------------------------------
(* The invariant                                                           *)

LEMMA InitCacheInv == ASSUME CacheInit PROVE CacheInv
BY SizesAssumption, NoPartType
DEF CacheInit, CacheInv, CacheTypeOK, WritersOK, DriverGetsWholeData, Contents, FileStates

\* What an instance holds is not touched by the steps of others.
LEMMA StartInv ==
    ASSUME CacheInv, NEW p \in Procs, Start(p)
    PROVE  CacheInv'
<1>1. /\ pc[p] = "down" /\ pc' = [pc EXCEPT ![p] = "running"]
      /\ UNCHANGED <<part, bins, clock, losses>>
  BY DEF Start
<1>2. PICK g \in {"nothing", "rejected", "whole"}, c \in Contents :
          given' = [given EXCEPT ![p] = g] /\ cache' = [cache EXCEPT ![p] = c]
  <2>1. {} \in Contents
    BY DEF Contents
  <2>2. \A b \in Latest : b \in bins /\ b.state = "whole" /\ b.stem.hash \in Contents
    BY FileFields DEF CacheInv, Latest, Usable, NamedForContent
  <2> QED
    BY <2>1, <2>2 DEF Start
<1>3. CacheTypeOK'
  BY <1>1, <1>2 DEF CacheInv, CacheTypeOK, FileStates
<1>4. WritersOK'
  BY <1>1, <1>2 DEF CacheInv, CacheTypeOK, WritersOK
<1>5. DriverGetsWholeData'
  BY <1>2 DEF CacheInv, CacheTypeOK, DriverGetsWholeData
<1> QED
  BY <1>3, <1>4, <1>5 DEF CacheInv

LEMMA CreateInv ==
    ASSUME CacheInv, NEW p \in Procs, NEW x \in Pipelines, Create(p, x)
    PROVE  CacheInv'
<1>1. CacheTypeOK'
  BY DEF CacheInv, CacheTypeOK, Create, Contents
<1>2. WritersOK'
  BY DEF CacheInv, CacheTypeOK, WritersOK, Create
<1>3. DriverGetsWholeData'
  BY DEF CacheInv, DriverGetsWholeData, Create
<1> QED
  BY <1>1, <1>2, <1>3 DEF CacheInv

\* An instance that stops leaves the files alone, or has published one.
LEMMA StopInv ==
    ASSUME CacheInv, NEW p \in Procs, Stop(p), UNCHANGED <<cache, given, bins, clock, losses>>
    PROVE  CacheInv'
<1>1. CacheTypeOK'
  BY NoPartType DEF CacheInv, CacheTypeOK, Stop
<1>2. WritersOK'
  BY DEF CacheInv, CacheTypeOK, WritersOK, Stop
<1>3. DriverGetsWholeData'
  BY DEF CacheInv, DriverGetsWholeData
<1> QED
  BY <1>1, <1>2, <1>3 DEF CacheInv

LEMMA ScanInv ==
    ASSUME CacheInv, NEW p \in Procs, Scan(p)
    PROVE  CacheInv'
<1>1. CASE Stop(p)
  BY <1>1, StopInv DEF Scan
<1>2. CASE Cardinality(cache[p]) <= MaxSize /\ pc' = [pc EXCEPT ![p] = "name"] /\ UNCHANGED part
  <2>1. CacheTypeOK'
    BY <1>2 DEF CacheInv, CacheTypeOK, Scan
  <2>2. WritersOK'
    BY <1>2 DEF CacheInv, CacheTypeOK, WritersOK, Scan
  <2>3. DriverGetsWholeData'
    BY DEF CacheInv, DriverGetsWholeData, Scan
  <2> QED
    BY <2>1, <2>2, <2>3 DEF CacheInv
<1> QED
  BY <1>1, <1>2 DEF Scan

LEMMA OpenInv ==
    ASSUME CacheInv, NEW p \in Procs, Open(p)
    PROVE  CacheInv'
<1>1. PICK stem \in FreeStems(p) : part' = [part EXCEPT ![p] = [stem |-> stem, state |-> "short"]]
  BY DEF Open
<1>2. stem \in Stems /\ stem.hash = cache[p]
  <2>1. cache[p] \in Contents /\ 0 \in 0 .. MaxFiles /\ 1 .. MaxFiles \subseteq 0 .. MaxFiles
    BY SizesAssumption DEF CacheInv, CacheTypeOK
  <2>2. \E n \in 0 .. MaxFiles : stem = Named(p, n)
    BY <1>1, <2>1 DEF FreeStems
  <2> QED
    BY <2>1, <2>2 DEF Named, Stems
<1>3. CacheTypeOK'
  BY <1>1, <1>2 DEF CacheInv, CacheTypeOK, Open, FileStates
<1>4. WritersOK'
  BY <1>1, <1>2 DEF CacheInv, CacheTypeOK, WritersOK, Open
<1>5. DriverGetsWholeData'
  BY DEF CacheInv, DriverGetsWholeData, Open
<1> QED
  BY <1>3, <1>4, <1>5 DEF CacheInv

LEMMA WriteInv ==
    ASSUME CacheInv, NEW p \in Procs, Write(p)
    PROVE  CacheInv'
<1>1. CASE Stop(p)
  BY <1>1, StopInv DEF Write
<1>2. CASE part' = [part EXCEPT ![p].state = "whole"] /\ pc' = [pc EXCEPT ![p] = "publish"]
  <2>1. CacheTypeOK'
    BY <1>2 DEF CacheInv, CacheTypeOK, Write, FileStates
  <2>2. WritersOK'
    BY <1>2 DEF CacheInv, CacheTypeOK, WritersOK, Write
  <2>3. DriverGetsWholeData'
    BY DEF CacheInv, DriverGetsWholeData, Write
  <2> QED
    BY <2>1, <2>2, <2>3 DEF CacheInv
<1> QED
  BY <1>1, <1>2 DEF Write

\* What the rename leaves in the directory.
LEMMA Published ==
    ASSUME CacheInv, NEW p \in Procs, Publish(p), bins' # bins
    PROVE  \E new : /\ bins' = {b \in bins : b.stem # new.stem} \cup {new}
                    /\ new \in File /\ new.stem = part[p].stem /\ new.state = "whole"
                    /\ Cardinality(new.stem.hash) <= MaxSize
                    /\ clock < MaxFiles /\ clock' = clock + 1
<1> DEFINE new == [stem |-> part[p].stem, state |-> part[p].state, time |-> clock', synced |-> FALSE]
<1>1. /\ clock < MaxFiles /\ clock' = clock + 1 /\ pc[p] = "publish"
      /\ bins' = {b \in bins : b.stem # part[p].stem} \cup {new}
  BY DEF Publish
<1>2. part[p] \in [stem : Stems, state : FileStates] /\ clock' \in 1 .. MaxFiles
  BY <1>1, SizesAssumption DEF CacheInv, CacheTypeOK
<1>3. part[p].state = "whole" /\ Cardinality(part[p].stem.hash) <= MaxSize
  BY <1>1 DEF CacheInv, WritersOK
<1>4. /\ new \in File /\ new.stem = part[p].stem /\ new.state = "whole"
      /\ Cardinality(new.stem.hash) <= MaxSize
      /\ bins' = {b \in bins : b.stem # new.stem} \cup {new}
  BY <1>1, <1>2, <1>3 DEF File
<1> HIDE DEF new
<1> QED
  BY <1>1, <1>4

LEMMA PublishInv ==
    ASSUME CacheInv, NEW p \in Procs, Publish(p)
    PROVE  CacheInv'
<1>1. CASE UNCHANGED <<bins, clock>>
  BY <1>1, StopInv DEF Publish
<1>2. CASE bins' # bins
  <2>1. PICK new : /\ bins' = {b \in bins : b.stem # new.stem} \cup {new}
                   /\ new \in File
                   /\ Cardinality(new.stem.hash) <= MaxSize
                   /\ clock < MaxFiles /\ clock' = clock + 1
    BY <1>2, Published
  <2>2. Stop(p) /\ UNCHANGED <<cache, given, losses>>
    BY DEF Publish
  <2>3. CacheTypeOK'
    <3>1. bins' \subseteq File /\ \A b, c \in bins' : b.stem = c.stem => b = c
      BY <2>1 DEF CacheInv, CacheTypeOK, File
    <3>2. clock' \in 0 .. MaxFiles
      BY <2>1, SizesAssumption DEF CacheInv, CacheTypeOK
    <3> QED
      BY <2>2, <3>1, <3>2, NoPartType DEF CacheInv, CacheTypeOK, Stop, File
  <2>4. WritersOK'
    <3>1. \A b \in bins' : Cardinality(b.stem.hash) <= MaxSize
      BY <2>1 DEF CacheInv, WritersOK
    <3> QED
      BY <2>2, <3>1 DEF CacheInv, CacheTypeOK, WritersOK, Stop
  <2>5. DriverGetsWholeData'
    BY <2>2 DEF CacheInv, DriverGetsWholeData
  <2> QED
    BY <2>3, <2>4, <2>5 DEF CacheInv
<1>3. CASE bins' = bins /\ clock' # clock
  <2>1. Stop(p) /\ UNCHANGED <<cache, given, losses>> /\ clock' \in 0 .. MaxFiles
    BY <1>3, SizesAssumption DEF CacheInv, CacheTypeOK, Publish
  <2>2. CacheTypeOK'
    BY <1>3, <2>1, NoPartType DEF CacheInv, CacheTypeOK, Stop
  <2>3. WritersOK'
    BY <1>3, <2>1 DEF CacheInv, CacheTypeOK, WritersOK, Stop
  <2>4. DriverGetsWholeData'
    BY <2>1 DEF CacheInv, DriverGetsWholeData
  <2> QED
    BY <2>2, <2>3, <2>4 DEF CacheInv
<1> QED
  BY <1>1, <1>2, <1>3

LEMMA SyncInv ==
    ASSUME CacheInv, NEW b \in bins, Sync(b)
    PROVE  CacheInv'
<1> DEFINE synced == [b EXCEPT !.synced = TRUE]
<1>1. bins' = (bins \ {b}) \cup {synced} /\ UNCHANGED <<pc, cache, given, part, clock, losses>>
  BY DEF Sync
<1>2. b \in File /\ bins \subseteq File
  BY DEF CacheInv, CacheTypeOK, File
<1>3. synced \in File /\ synced.stem = b.stem
  BY <1>2 DEF File
<1>4. bins' \subseteq File /\ \A c, d \in bins' : c.stem = d.stem => c = d
  BY <1>1, <1>2, <1>3, ZenonT(30) DEF CacheInv, CacheTypeOK
<1>5. CacheTypeOK'
  BY <1>1, <1>4 DEF CacheInv, CacheTypeOK, File
<1>6. WritersOK'
  BY <1>1, <1>3 DEF CacheInv, WritersOK
<1>7. DriverGetsWholeData'
  BY <1>1 DEF CacheInv, DriverGetsWholeData
<1> QED
  BY <1>5, <1>6, <1>7 DEF CacheInv

\* The machine comes up with the names it had.
LEMMA PowerLossInv ==
    ASSUME CacheInv, PowerLoss
    PROVE  CacheInv'
<1>1. PICK left \in [{b \in bins : ~b.synced} -> FileStates] :
          bins' = {IF b.synced THEN b ELSE [b EXCEPT !.state = left[b], !.synced = TRUE] : b \in bins}
  BY DEF PowerLoss
<1> DEFINE found(b) == IF b.synced THEN b ELSE [b EXCEPT !.state = left[b], !.synced = TRUE]
<1>2. \A b \in bins : found(b) \in File /\ found(b).stem = b.stem
  <2> TAKE b \in bins
  <2>1. b \in File
    BY DEF CacheInv, CacheTypeOK, File
  <2>2. ~b.synced => left[b] \in FileStates
    BY <1>1
  <2> QED
    BY <2>1, <2>2 DEF File
<1>3. bins' = {found(b) : b \in bins}
  BY <1>1
<1> HIDE DEF found
<1>4. bins' \subseteq File /\ \A c, d \in bins' : c.stem = d.stem => c = d
  BY <1>2, <1>3 DEF CacheInv, CacheTypeOK
<1>5. /\ losses < MaxLosses /\ losses' = losses + 1 /\ UNCHANGED <<cache, given, clock>>
      /\ pc' = [p \in Procs |-> "down"] /\ part' = [p \in Procs |-> NoPart]
  BY DEF PowerLoss
<1>6. CacheTypeOK'
  <2>1. losses' \in 0 .. MaxLosses
    BY <1>5, SizesAssumption DEF CacheInv, CacheTypeOK
  <2> QED
    BY <1>4, <1>5, <2>1, NoPartType DEF CacheInv, CacheTypeOK, File
<1>7. WritersOK'
  BY <1>2, <1>3, <1>5 DEF CacheInv, WritersOK
<1>8. DriverGetsWholeData'
  BY <1>5 DEF CacheInv, DriverGetsWholeData
<1> QED
  BY <1>6, <1>7, <1>8 DEF CacheInv

LEMMA CacheInvInductive == CacheInv /\ [CacheNext]_cacheVars => CacheInv'
<1> SUFFICES ASSUME CacheInv, [CacheNext]_cacheVars PROVE CacheInv'
  OBVIOUS
<1>1. ASSUME NEW p \in Procs, Kill(p) PROVE CacheInv'
  BY <1>1, StopInv DEF Kill
<1>2. CASE UNCHANGED cacheVars
  BY <1>2 DEF cacheVars, CacheInv, CacheTypeOK, WritersOK, DriverGetsWholeData
<1> QED
  BY <1>1, <1>2, StartInv, CreateInv, ScanInv, OpenInv, WriteInv, PublishInv, SyncInv, PowerLossInv
  DEF CacheNext

\* The invariant all that follows rests on.
THEOREM CacheInvariance == CacheSpec => []CacheInv
BY InitCacheInv, CacheInvInductive, PTL DEF CacheSpec

-----------------------------------------------------------------------------
(* The properties                                                          *)

\* Instances, files and losses keep their types, and no two files a name, although every
\* instance chooses its own.
THEOREM CacheTypeCorrect == CacheSpec => []CacheTypeOK
<1>1. CacheInv => CacheTypeOK
  BY DEF CacheInv
<1> QED
  BY <1>1, CacheInvariance, PTL

\* However instances are killed and files lost, the driver gets what a driver has written.
THEOREM DriverIsGivenWholeData == CacheSpec => []DriverGetsWholeData
<1>1. CacheInv => DriverGetsWholeData
  BY DEF CacheInv
<1> QED
  BY <1>1, CacheInvariance, PTL

\* An instance that starts while a file is whole loads a whole one, however many newer ones
\* are garbled, cut short or foreign.
THEOREM WholeFilesAreFound == CacheSpec => WholeIsFound
<1> DEFINE Found(p) == (\E b \in bins : b.state = "whole") /\ pc[p] = "down" /\ pc'[p] = "running"
                           => given'[p] \in {"whole", "rejected"}
<1>1. ASSUME CacheInv, [CacheNext]_cacheVars, NEW p \in Procs
      PROVE  Found(p)
  <2> SUFFICES ASSUME NEW b \in bins, b.state = "whole", pc[p] = "down", pc'[p] = "running"
               PROVE  given'[p] \in {"whole", "rejected"}
    OBVIOUS
  <2>1. Start(p)
    <3>1. CacheNext
      BY <1>1 DEF cacheVars
    <3>2. pc \in [Procs -> {"down", "running", "name", "write", "publish"}]
      BY <1>1 DEF CacheInv, CacheTypeOK
    <3>3. ASSUME NEW q \in Procs, Start(q) PROVE q = p
      BY <3>2, <3>3 DEF Start
    <3>4. ASSUME NEW q \in Procs,
                 \/ Scan(q) \/ Open(q) \/ Write(q) \/ Publish(q) \/ Kill(q)
                 \/ \E x \in Pipelines : Create(q, x)
          PROVE  FALSE
      BY <3>2, <3>4 DEF Scan, Open, Write, Publish, Kill, Create, Stop
    <3>5. ~PowerLoss /\ \A c \in bins : ~Sync(c)
      BY DEF PowerLoss, Sync
    <3> QED
      BY <3>1, <3>3, <3>4, <3>5 DEF CacheNext
  <2>2. Latest # {} /\ \A c \in Latest : c.state = "whole"
    BY <1>1, WholeIsLatest
  <2>3. given \in [Procs -> FileStates \cup {"nothing", "rejected"}]
    BY <1>1 DEF CacheInv, CacheTypeOK
  <2> QED
    BY <2>1, <2>2, <2>3 DEF Start
<1>2. CacheInv /\ [CacheNext]_cacheVars => [\A p \in Procs : Found(p)]_cacheVars
  BY <1>1
<1> QED
  BY <1>2, CacheInvariance, PTL DEF CacheSpec, WholeIsFound

\* Only a power loss takes away what a whole file holds: a rename that replaces it brings
\* the same content, whoever wrote it.
THEOREM PersistedFilesStay == CacheSpec => PersistedStays
<1> DEFINE Stays == losses' = losses =>
                        \A b \in bins : b.state = "whole" =>
                            \E c \in bins' : c.stem.hash = b.stem.hash /\ c.state = "whole"
<1>1. ASSUME CacheInv, [CacheNext]_cacheVars
      PROVE  Stays
  <2> SUFFICES ASSUME losses' = losses, NEW b \in bins, b.state = "whole"
               PROVE  \E c \in bins' : c.stem.hash = b.stem.hash /\ c.state = "whole"
    OBVIOUS
  <2>1. CASE bins' = bins
    BY <2>1
  <2>2. ASSUME NEW p \in Procs, Publish(p), bins' # bins
        PROVE  \E c \in bins' : c.stem.hash = b.stem.hash /\ c.state = "whole"
    <3>1. PICK new : /\ bins' = {c \in bins : c.stem # new.stem} \cup {new}
                     /\ new.state = "whole"
      BY <1>1, <2>2, Published
    <3> QED
      BY <3>1
  <2>3. ASSUME NEW d \in bins, Sync(d)
        PROVE  \E c \in bins' : c.stem.hash = b.stem.hash /\ c.state = "whole"
    <3>1. d \in File
      BY <1>1 DEF CacheInv, CacheTypeOK, File
    <3>2. [d EXCEPT !.synced = TRUE].stem = d.stem /\ [d EXCEPT !.synced = TRUE].state = d.state
      BY <3>1 DEF File
    <3> QED
      BY <2>3, <3>2 DEF Sync
  <2>4. ~PowerLoss
    <3>1. losses \in Int
      BY <1>1, SizesAssumption DEF CacheInv, CacheTypeOK
    <3>2. losses' # losses + 1
      BY <3>1
    <3> QED
      BY <3>2 DEF PowerLoss
  <2> QED
    BY <1>1, <2>1, <2>2, <2>3, <2>4 DEF CacheNext, cacheVars, Start, Scan, Open, Write, Kill, Create
<1>2. CacheInv /\ [CacheNext]_cacheVars => [Stays]_cacheVars
  BY <1>1
<1> QED
  BY <1>2, CacheInvariance, PTL DEF CacheSpec, PersistedStays
=============================================================================
