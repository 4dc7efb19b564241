--------------------------- MODULE BuffersProofs ---------------------------
(***************************************************************************)
(* The properties of the buffers for any names, storage and contexts.      *)
(***************************************************************************)
EXTENDS Buffers, SequenceTheorems, TLAPS

Draws == UNION {[D -> Content] : D \in SUBSET Storage}

Submissions == [context : Contexts \cup {None}, copies : SUBSET Storage, draws : Draws,
                holds : SUBSET Storage]

\* TypeOK, and that the GPU has a queue of submissions.
Types == TypeOK /\ queue \in Seq(Submissions)

\* Who owns storage, but for the groups the GPU holds.
InSlot(b) == \E f \in Contexts : \E o \in OverlayNames : slot[f][o] = b
InRecord(b) == \E n \in Names : record[n].buffer = b
Rooted(b) == InRecord(b) \/ InSlot(b) \/ b \in pending \cup world \cup worldUploads \cup held

Uses(i) == queue[i].copies \cup DOMAIN queue[i].draws
InFlight(b) == \E i \in DOMAIN queue : b \in queue[i].copies
IsDrawn(b) == \E i \in DOMAIN queue : b \in DOMAIN queue[i].draws

\* What is recorded has an owner on the CPU; what is submitted has one there or in a group
\* that is freed with the submission or later.
OwnersInv ==
    /\ \A n \in Names : record[n].state # "allocated" => record[n].buffer = None
    /\ \A b \in recorded : Rooted(b)
    /\ \A i \in DOMAIN queue : \A b \in Uses(i) :
           Rooted(b) \/ \E j \in DOMAIN queue : j >= i /\ b \in queue[j].holds

\* The owners that write to storage do not share it.
Exclusive ==
    /\ \A m, n \in Names : record[m].buffer = record[n].buffer /\ record[m].buffer # None => m = n
    /\ \A n \in Names : record[n].buffer # None =>
           record[n].buffer \notin world \cup worldUploads /\ ~InSlot(record[n].buffer)
    /\ \A b \in pending \cup world \cup worldUploads : ~InSlot(b)
    /\ \A f, g \in Contexts : \A o, p \in OverlayNames :
           slot[f][o] = slot[g][p] /\ slot[f][o] # None => f = g /\ o = p
    /\ pending \cap (world \cup worldUploads) = {}

\* The storage of a slot is in use by submissions of its context only.
FramesInv ==
    /\ phase = "submitted" => recorded = {} /\ worldUploads = {}
    /\ \A i \in DOMAIN queue : queue[i].context = None => phase = "flushing"
    /\ \A i \in DOMAIN queue : queue[i].context = frame => phase = "submitted"
    /\ \A f \in Contexts : \A o \in OverlayNames : slot[f][o] \in recorded => f = frame
    /\ \A f \in Contexts : \A o \in OverlayNames : \A i \in DOMAIN queue :
           slot[f][o] \in Uses(i) =>
               queue[i].context = f \/ (queue[i].context = None /\ f = frame)
    /\ \A o \in OverlayNames : valid[o] \in {"sized", "written"} => slot[frame][o] # None

\* Storage a submission draws is not open, nor storage a copy reads, but for early ones:
\* those are storage of a name, so that new storage is not among them.
TicketsInv ==
    /\ \A n \in Names : record[n].ticket <= ticket
    /\ \A n \in Names : record[n].buffer = None => record[n].ticket = 0 /\ ~record[n].ready
    /\ \A b \in early : InRecord(b)
    /\ \A n \in Names : Open(n) =>
           /\ ~IsDrawn(record[n].buffer)
           /\ record[n].buffer \notin early =>
                  record[n].buffer \notin recorded /\ ~InFlight(record[n].buffer)

\* Staging holds what was written; the device too, unless a copy is to come.
ContentsInv ==
    /\ \A n \in Drawable : staging[record[n].buffer] = record[n].content
    /\ \A n \in Drawable : record[n].buffer \in pending \cup recorded \/ InFlight(record[n].buffer)
           \/ device[record[n].buffer] = staging[record[n].buffer]
    /\ \A b \in world : b \in worldUploads \cup recorded \/ InFlight(b) \/ device[b] = staging[b]

\* What a submission draws is in staging, if it or one before copies it, or on the device.
DrawsInv ==
    \A i \in DOMAIN queue : \A b \in DOMAIN queue[i].draws :
        queue[i].draws[b] = IF \E j \in DOMAIN queue : j <= i /\ b \in queue[j].copies
                            THEN staging[b] ELSE device[b]

IInv == /\ Types /\ OwnersInv /\ Exclusive /\ FramesInv
        /\ TicketsInv /\ ContentsInv /\ DrawsInv

-----------------------------------------------------------------------------
(* Types                                                                   *)

\* What the assumptions say of the constants.
LEMMA Bounds ==
    /\ MaxTicket \in Nat \ {0} /\ MaxWrites \in Nat
    /\ None \notin Storage /\ None \notin Contexts
BY MaxTicketAssumption, MaxWritesAssumption, NoneAssumption

LEMMA ContentTypes ==
    /\ Blank \in Content
    /\ \A w \in 0 .. MaxWrites : Filled(w) \in Content
    /\ \A k \in Content : \A c \in Cells : \A w \in 0 .. MaxWrites : [k EXCEPT ![c] = w] \in Content
BY Bounds DEF Blank, Filled, Content

LEMMA RecordTypes ==
    /\ \A r : r \in Record <=>
           /\ r = [state |-> r.state, buffer |-> r.buffer, ready |-> r.ready, ticket |-> r.ticket,
                   content |-> r.content]
           /\ r.state \in {"unallocated", "allocated", "released"}
           /\ r.buffer \in Storage \cup {None} /\ r.ready \in BOOLEAN
           /\ r.ticket \in 0 .. MaxTicket /\ r.content \in Content
    /\ \A state \in {"unallocated", "allocated", "released"} : Unset(state) \in Record
BY ContentTypes, Bounds DEF Record, Unset


LEMMA ClientTypes ==
    ASSUME Types, NEW n \in Names, NEW b, NEW c,
           \/ Allocate(n) \/ Release(n) \/ Upload(n) \/ Initialize(n, b)
           \/ c \in Cells /\ (UploadRangeInPlace(n, c) \/ UploadRangeToCopy(n, c, b))
    PROVE  Types'
<1>1. /\ record \in [Names -> Record] /\ record[n] \in Record
      /\ staging \in [Storage -> Content] /\ writes \in 0 .. MaxWrites
      /\ ticket \in 1 .. MaxTicket /\ pending \subseteq Storage /\ held \subseteq Storage
      /\ early \subseteq Storage
  BY DEF Types, TypeOK
<1>0. ticket \in 0 .. MaxTicket
  BY <1>1, Bounds
<1> DEFINE Goal == /\ record' \in [Names -> Record] /\ staging' \in [Storage -> Content]
                   /\ writes' \in 0 .. MaxWrites /\ ticket' \in 1 .. MaxTicket
                   /\ pending' \subseteq Storage /\ held' \subseteq Storage
                   /\ early' \subseteq Storage
                   /\ UNCHANGED <<world, worldUploads, slot, valid, frame, phase, recorded,
                                  queue, device>>
<1>2. CASE Allocate(n)
  <2>1. Goal
    BY <1>1, <1>2, RecordTypes DEF Allocate, scene, overlay, loop
  <2> QED
    BY <2>1 DEF Types, TypeOK
<1>3. CASE Release(n)
  <2>1. Goal
    BY <1>1, <1>3, RecordTypes DEF Release, Retaining, scene, overlay, loop
  <2> QED
    BY <2>1 DEF Types, TypeOK
<1>4. CASE Initialize(n, b)
  <2>1. /\ b \in Storage
        /\ [state |-> "allocated", buffer |-> b, ready |-> TRUE, ticket |-> 0, content |-> Blank]
               \in Record
    BY <1>4, ContentTypes, Bounds DEF Record, Initialize, Fresh
  <2>2. Goal
    BY <1>1, <1>4, <2>1, RecordTypes, ContentTypes DEF Initialize, Retaining, scene, overlay, loop
  <2> QED
    BY <2>2 DEF Types, TypeOK
<1>5. CASE Upload(n)
  <2>1. record[n].buffer \in Storage
    BY <1>1, <1>5 DEF Upload, Record
  <2>2. writes' \in 0 .. MaxWrites /\ Filled(writes') \in Content
    BY <1>1, <1>5, ContentTypes, Bounds DEF Upload
  <2>3. [record[n] EXCEPT !.ready = FALSE, !.ticket = ticket, !.content = Filled(writes')]
            \in Record
    BY <1>0, <1>1, <2>2 DEF Record
  <2>4. record' = [record EXCEPT ![n] =
            [record[n] EXCEPT !.ready = FALSE, !.ticket = ticket, !.content = Filled(writes')]]
    BY <1>1, <1>5 DEF Upload
  <2>5. Goal
    BY <1>1, <1>5, <2>1, <2>2, <2>3, <2>4 DEF Upload, scene, overlay, loop
  <2> QED
    BY <2>5 DEF Types, TypeOK
<1>6. CASE c \in Cells /\ UploadRangeInPlace(n, c)
  <2>1. record[n].buffer \in Storage
    BY <1>1, <1>6 DEF UploadRangeInPlace, Record
  <2>2. writes' \in 0 .. MaxWrites
    BY <1>1, <1>6, Bounds DEF UploadRangeInPlace
  <2>3. /\ [staging[record[n].buffer] EXCEPT ![c] = writes'] \in Content
        /\ [record[n].content EXCEPT ![c] = writes'] \in Content
    BY <1>1, <1>6, <2>1, <2>2, ContentTypes DEF Record
  <2>4. [record[n] EXCEPT !.content = [record[n].content EXCEPT ![c] = writes']] \in Record
    BY <1>1, <2>3 DEF Record
  <2>5. /\ record' = [record EXCEPT ![n] =
               [record[n] EXCEPT !.content = [record[n].content EXCEPT ![c] = writes']]]
        /\ staging' = [staging EXCEPT ![record[n].buffer] =
               [staging[record[n].buffer] EXCEPT ![c] = writes']]
    BY <1>1, <1>6 DEF UploadRangeInPlace
  <2>6. Goal
    BY <1>1, <1>6, <2>1, <2>2, <2>3, <2>4, <2>5 DEF UploadRangeInPlace, scene, overlay, loop
  <2> QED
    BY <2>6 DEF Types, TypeOK
<1>7. CASE c \in Cells /\ UploadRangeToCopy(n, c, b)
  <2>1. record[n].buffer \in Storage /\ b \in Storage
    BY <1>1, <1>7 DEF UploadRangeToCopy, Record, Fresh
  <2>2. writes' \in 0 .. MaxWrites
    BY <1>1, <1>7, Bounds DEF UploadRangeToCopy
  <2>3. /\ RangeCopied(n, c, writes') \in Content
        /\ [record[n].content EXCEPT ![c] = writes'] \in Content
    BY <1>1, <1>7, <2>1, <2>2, ContentTypes DEF Record, RangeCopied
  <2> DEFINE new == [record[n] EXCEPT !.buffer = b, !.ticket = ticket,
                                      !.content = [record[n].content EXCEPT ![c] = writes']]
  <2>4. new \in Record
    BY <1>0, <1>1, <2>1, <2>3 DEF Record
  <2>5. record' \in [Names -> Record]
    <3>1. record'[n] = new
      BY <1>1, <1>7 DEF UploadRangeToCopy, Record
    <3>2. \A m \in Names : m # n => record'[m] = record[m]
      BY <1>1, <1>7 DEF UploadRangeToCopy
    <3>3. record' = [m \in Names |-> record'[m]]
      BY <1>1, <1>7 DEF UploadRangeToCopy
    <3>4. \A m \in Names : record'[m] \in Record
      BY <1>1, <2>4, <3>1, <3>2
    <3> QED
      BY <3>3, <3>4
  <2>6. Goal
    BY <1>1, <1>7, <2>1, <2>2, <2>3, <2>5
       DEF UploadRangeToCopy, Retaining, scene, overlay, loop
  <2> QED
    BY <2>6 DEF Types, TypeOK
<1> QED
  BY <1>2, <1>3, <1>4, <1>5, <1>6, <1>7

LEMMA OverlayTypes ==
    ASSUME Types, NEW o \in OverlayNames,
           AllocateOverlay(o) \/ InitializeOverlay(o) \/ UploadOverlay(o),
           phase = "open" /\ valid[o] \in {"sized", "written"} => slot[frame][o] # None
    PROVE  Types'
<1>1. /\ slot \in [Contexts -> [OverlayNames -> Storage \cup {None}]]
      /\ valid \in [OverlayNames -> {"none", "allocated", "sized", "written"}]
      /\ staging \in [Storage -> Content] /\ writes \in 0 .. MaxWrites
      /\ world \subseteq Storage /\ worldUploads \subseteq Storage /\ held \subseteq Storage
      /\ frame \in Contexts
  BY DEF Types, TypeOK
<1>2. slot[frame] \in [OverlayNames -> Storage \cup {None}] /\ slot[frame][o] \in Storage \cup {None}
  BY <1>1
<1> DEFINE Goal == /\ slot' \in [Contexts -> [OverlayNames -> Storage \cup {None}]]
                   /\ valid' \in [OverlayNames -> {"none", "allocated", "sized", "written"}]
                   /\ staging' \in [Storage -> Content] /\ writes' \in 0 .. MaxWrites
                   /\ world' \subseteq Storage /\ worldUploads' \subseteq Storage
                   /\ held' \subseteq Storage
                   /\ UNCHANGED <<record, ticket, pending, early, frame, phase, recorded, queue,
                                  device>>
<1>3. Goal => Types'
  BY DEF Types, TypeOK
<1>4. CASE AllocateOverlay(o)
  BY <1>1, <1>3, <1>4 DEF AllocateOverlay, persistent, scene, loop
<1>5. CASE InitializeOverlay(o)
  <2>1. valid' \in [OverlayNames -> {"none", "allocated", "sized", "written"}]
    BY <1>1, <1>5 DEF InitializeOverlay
  <2>2. CASE UNCHANGED <<slot, held, staging>>
    BY <1>1, <1>3, <1>5, <2>1, <2>2 DEF InitializeOverlay, persistent, scene, loop
  <2>3. ASSUME NEW s \in Storage, held' = Retaining({slot[frame][o]}),
               slot' = [slot EXCEPT ![frame][o] = s], staging' = [staging EXCEPT ![s] = Blank]
        PROVE  Types'
    <3>1. slot' = [slot EXCEPT ![frame] = [slot[frame] EXCEPT ![o] = s]]
      BY <1>1, <2>3
    <3>2. [slot[frame] EXCEPT ![o] = s] \in [OverlayNames -> Storage \cup {None}]
      BY <1>2
    <3>3. slot' \in [Contexts -> [OverlayNames -> Storage \cup {None}]]
      BY <1>1, <3>1, <3>2
    <3>4. held' \subseteq Storage /\ staging' \in [Storage -> Content]
      BY <1>1, <1>2, <2>3, ContentTypes DEF Retaining
    <3> QED
      BY <1>1, <1>3, <1>5, <2>1, <3>3, <3>4 DEF InitializeOverlay, persistent, scene, loop
  <2> QED
    BY <1>5, <2>2, <2>3 DEF InitializeOverlay
<1>6. CASE UploadOverlay(o)
  <2>1. writes' \in 0 .. MaxWrites /\ Filled(writes') \in Content /\ slot[frame][o] \in Storage
    BY <1>1, <1>2, <1>6, ContentTypes, Bounds DEF UploadOverlay
  <2>2. valid' \in [OverlayNames -> {"none", "allocated", "sized", "written"}]
        /\ staging' \in [Storage -> Content]
    BY <1>1, <1>6, <2>1 DEF UploadOverlay
  <2> QED
    BY <1>1, <1>3, <1>6, <2>1, <2>2 DEF UploadOverlay, persistent, scene, loop
<1> QED
  BY <1>4, <1>5, <1>6

LEMMA WorldTypes ==
    ASSUME Types, NEW b, UploadWorld(b) \/ RetireWorld(b)
    PROVE  Types'
<1>1. /\ staging \in [Storage -> Content] /\ writes \in 0 .. MaxWrites
      /\ world \subseteq Storage /\ worldUploads \subseteq Storage /\ held \subseteq Storage
  BY DEF Types, TypeOK
<1> DEFINE Goal == /\ staging' \in [Storage -> Content] /\ writes' \in 0 .. MaxWrites
                   /\ world' \subseteq Storage /\ worldUploads' \subseteq Storage
                   /\ held' \subseteq Storage
                   /\ UNCHANGED <<record, ticket, pending, early, slot, valid, frame, phase, recorded,
                                  queue, device>>
<1>2. CASE UploadWorld(b)
  <2>1. writes' \in 0 .. MaxWrites /\ Filled(writes') \in Content /\ b \in Storage
    BY <1>1, <1>2, ContentTypes, Bounds DEF UploadWorld, Fresh
  <2>2. Goal
    BY <1>1, <1>2, <2>1 DEF UploadWorld, persistent, overlay, loop
  <2> QED
    BY <2>2 DEF Types, TypeOK
<1>3. CASE RetireWorld(b)
  <2>1. Goal
    BY <1>1, <1>3 DEF RetireWorld, Retaining, persistent, overlay, loop
  <2> QED
    BY <2>1 DEF Types, TypeOK
<1> QED
  BY <1>2, <1>3

\* What a submission draws with is typed as long as what is drawn with is.
LEMMA DrawnTypes ==
    ASSUME Types,
           \A o \in OverlayNames : valid[o] \in {"sized", "written"} => slot[frame][o] # None
    PROVE  /\ Drawn \subseteq Storage /\ Copied \subseteq Storage
           /\ [b \in Drawn |-> Written(b)] \in [Drawn -> Content]
<1>1. /\ record \in [Names -> Record] /\ world \subseteq Storage /\ worldUploads \subseteq Storage
      /\ slot \in [Contexts -> [OverlayNames -> Storage \cup {None}]] /\ frame \in Contexts
      /\ staging \in [Storage -> Content] /\ pending \subseteq Storage
  BY DEF Types, TypeOK
<1>2. \A n \in Names : record[n].buffer \in Storage \cup {None} /\ record[n].content \in Content
  BY <1>1 DEF Record
<1>3. OverlayStorage({"written"}) \subseteq Storage
      /\ OverlayStorage({"sized", "written"}) \subseteq Storage
  BY <1>1 DEF OverlayStorage
<1>4. Drawn \subseteq Storage /\ Copied \subseteq Storage
  BY <1>1, <1>2, <1>3 DEF Drawn, Drawable, Copied
<1>5. ASSUME NEW b \in Drawn
      PROVE  Written(b) \in Content
  <2>1. CASE \E n \in Names : record[n].buffer = b
    BY <1>2, <2>1 DEF Written
  <2>2. CASE ~\E n \in Names : record[n].buffer = b
    BY <1>1, <1>4, <2>2 DEF Written
  <2> QED
    BY <2>1, <2>2
<1> QED
  BY <1>4, <1>5

LEMMA PerformTypes ==
    ASSUME Types, Perform
    PROVE  /\ record' \in [Names -> Record] /\ ticket' \in 1 .. MaxTicket
           /\ pending' = {} /\ worldUploads' = {} /\ early' \subseteq Storage
<1>1. record \in [Names -> Record] /\ ticket \in 1 .. MaxTicket
      /\ early \subseteq Storage /\ pending \subseteq Storage
  BY DEF Types, TypeOK
<1>2. ticket' \in 1 .. MaxTicket
  BY <1>1, Bounds DEF Perform, NextTicket
<1>3. \A n \in Names : [record[n] EXCEPT !.ticket = 0] \in Record
  BY <1>1, Bounds DEF Record
<1> QED
  BY <1>1, <1>2, <1>3 DEF Perform, TicketsAfterClose, CopiedEarly

LEMMA FrameTypes ==
    ASSUME Types, NEW f \in Contexts,
           \/ PerformUploads \/ Submit \/ Flush \/ FlushDone \/ Acquire(f) \/ Execute,
           \A o \in OverlayNames : valid[o] \in {"sized", "written"} => slot[frame][o] # None
    PROVE  Types'
<1>1. /\ record \in [Names -> Record] /\ ticket \in 1 .. MaxTicket
      /\ pending \subseteq Storage /\ early \subseteq Storage
      /\ world \subseteq Storage /\ worldUploads \subseteq Storage
      /\ slot \in [Contexts -> [OverlayNames -> Storage \cup {None}]]
      /\ valid \in [OverlayNames -> {"none", "allocated", "sized", "written"}]
      /\ frame \in Contexts /\ phase \in {"open", "flushing", "submitted"}
      /\ recorded \subseteq Storage /\ held \subseteq Storage
      /\ staging \in [Storage -> Content] /\ device \in [Storage -> Content]
      /\ writes \in 0 .. MaxWrites
      /\ queue \in Seq(Submissions)
  BY DEF Types, TypeOK
<1>2. \A q \in Seq(Submissions) : \A i \in DOMAIN q :
          /\ q[i].context \in Contexts \cup {None}
          /\ q[i].copies \subseteq Storage /\ q[i].holds \subseteq Storage
          /\ q[i].draws \in [DOMAIN q[i].draws -> Content]
          /\ DOMAIN q[i].draws \subseteq Storage
  <2>1. ASSUME NEW s \in Submissions
        PROVE  /\ s.context \in Contexts \cup {None}
               /\ s.copies \subseteq Storage /\ s.holds \subseteq Storage
               /\ s.draws \in [DOMAIN s.draws -> Content]
               /\ DOMAIN s.draws \subseteq Storage
    BY DEF Submissions, Draws
  <2> QED
    BY <2>1
<1>3. CASE PerformUploads
  BY <1>1, <1>3, PerformTypes, DrawnTypes
     DEF PerformUploads, Retaining, overlay, gpu, Types, TypeOK
<1>4. ASSUME NEW c \in Contexts \cup {None}, NEW hs \in SUBSET Storage
      PROVE  Append(queue, Submission(c, hs)) \in Seq(Submissions)
  <2>1. [b \in Drawn |-> Written(b)] \in Draws /\ recorded \cup Copied \subseteq Storage
    BY <1>1, DrawnTypes DEF Draws
  <2>2. Submission(c, hs) \in Submissions
    BY <2>1 DEF Submission, Submissions
  <2> QED
    BY <1>1, <2>2
<1>5. CASE Submit
  <2>1. Retaining(pending \cup worldUploads) \subseteq Storage
    BY <1>1 DEF Retaining
  <2>2. queue' \in Seq(Submissions)
    BY <1>1, <1>4, <1>5, <2>1 DEF Submit
  <2> QED
    BY <1>1, <1>2, <1>5, <2>2, PerformTypes DEF Submit, overlay, Types, TypeOK
<1>6. CASE Flush
  <2>1. Retaining(pending \cup worldUploads) \subseteq Storage
    BY <1>1 DEF Retaining
  <2>2. queue' \in Seq(Submissions)
    BY <1>1, <1>4, <1>6 DEF Flush
  <2> QED
    BY <1>1, <1>2, <1>6, <2>1, <2>2, PerformTypes DEF Flush, overlay, Types, TypeOK
<1>7. CASE FlushDone
  BY <1>1, <1>7 DEF FlushDone, persistent, scene, overlay, gpu, Types, TypeOK
<1>8. CASE Acquire(f)
  <2>1. ASSUME NEW i \in DOMAIN queue
        PROVE  [queue[i] EXCEPT !.holds = @ \cup held] \in Submissions
    <3>1. queue[i] \in Submissions
      BY <1>1
    <3> QED
      BY <1>1, <3>1 DEF Submissions
  <2>2. queue' \in Seq(Submissions)
    <3>1. queue' = [i \in 1 .. Len(queue) |->
              IF i = Len(queue) THEN [queue[i] EXCEPT !.holds = @ \cup held] ELSE queue[i]]
      BY <1>1, <1>8 DEF Acquire
    <3>2. \A i \in 1 .. Len(queue) : queue[i] \in Submissions
      BY <1>1
    <3> QED
      BY <1>1, <2>1, <3>1, <3>2
  <2> QED
    BY <1>1, <1>2, <1>8, <2>2 DEF Acquire, persistent, Types, TypeOK
<1>9. CASE Execute
  <2>1. queue' \in Seq(Submissions)
    BY <1>1, <1>9 DEF Execute
  <2>2. device' \in [Storage -> Content]
    BY <1>1, <1>9 DEF Execute, After
  <2> QED
    BY <1>1, <1>2, <1>9, <2>1, <2>2 DEF Execute, persistent, scene, overlay, Types, TypeOK
<1> QED
  BY <1>3, <1>5, <1>6, <1>7, <1>8, <1>9

-----------------------------------------------------------------------------
(* What the client does in a frame: the frame and the GPU stay.            *)

\* New storage is in use by nobody.
LEMMA FreshIsUnused ==
    ASSUME OwnersInv, NEW b, Fresh(b)
    PROVE  /\ b \in Storage /\ b # None /\ ~Rooted(b)
           /\ b \notin recorded /\ (\A i \in DOMAIN queue : b \notin Uses(i))
           /\ ~InFlight(b) /\ ~IsDrawn(b)
<1>1. b \in Storage /\ b # None
  BY Bounds DEF Fresh
<1>2. ~Rooted(b) /\ \A j \in DOMAIN queue : b \notin queue[j].holds
  <2> DEFINE records == {record[n].buffer : n \in Names}
             slots == UNION {{slot[f][o] : o \in OverlayNames} : f \in Contexts}
             groups == UNION {queue[j].holds : j \in DOMAIN queue}
  <2>1. b \notin records \cup pending \cup world \cup worldUploads \cup slots \cup held \cup groups
    BY DEF Fresh, Owned
  <2>2. b \in slots <=> InSlot(b)
    BY DEF InSlot
  <2>3. b \in records <=> InRecord(b)
    BY DEF InRecord
  <2>4. \A j \in DOMAIN queue : queue[j].holds \subseteq groups
    OBVIOUS
  <2> HIDE DEF records, slots, groups
  <2> QED
    BY <2>1, <2>2, <2>3, <2>4 DEF Rooted
<1>3. b \notin recorded /\ \A i \in DOMAIN queue : b \notin Uses(i)
  BY <1>2 DEF OwnersInv
<1> QED
  BY <1>1, <1>2, <1>3 DEF InFlight, IsDrawn, Uses

\* Nothing in use is freed as long as what has an owner keeps one.
LEMMA OwnersKept ==
    ASSUME Types, OwnersInv, UNCHANGED <<recorded, queue>>,
           \A b \in Storage : Rooted(b) => Rooted(b)',
           \A n \in Names : record'[n].state # "allocated" => record'[n].buffer = None
    PROVE  OwnersInv'
<1>1. recorded \subseteq Storage /\ \A i \in DOMAIN queue : Uses(i) \subseteq Storage
  BY DEF Types, TypeOK, Uses
<1> QED
  BY <1>1 DEF OwnersInv, Uses



LEMMA RecordFields ==
    ASSUME Types, NEW n \in Names
    PROVE  /\ record[n].buffer \in Storage \cup {None} /\ record[n].ready \in BOOLEAN
           /\ record[n].ticket \in 0 .. MaxTicket /\ record[n].content \in Content
           /\ ticket \in 1 .. MaxTicket
BY DEF Types, TypeOK, Record

\* A step of a persistent name: its storage stays, goes or is new, and only it is written.
PersistentStep(n) ==
    /\ UNCHANGED <<ticket, world, worldUploads, slot, valid, frame, phase, recorded, queue, device>>
    /\ \A m \in Names : m # n => record'[m] = record[m]
    /\ record'[n].buffer \in {record[n].buffer, None} \/ Fresh(record'[n].buffer)
    /\ record'[n].state # "allocated" => record'[n].buffer = None
    /\ held' = held \cup ({record[n].buffer} \ {record'[n].buffer, None})
    /\ pending' = pending \/ pending' = pending \cup {record'[n].buffer}
    /\ early' = early \ ({record[n].buffer} \ {record'[n].buffer})
    /\ \A b \in Storage : b # record'[n].buffer => staging'[b] = staging[b]

LEMMA PersistentStructure ==
    ASSUME Types, OwnersInv, Exclusive, FramesInv, Types', NEW n \in Names, PersistentStep(n)
    PROVE  OwnersInv' /\ Exclusive' /\ FramesInv'
<1> DEFINE old == record[n].buffer
           new == record'[n].buffer
<1>1. old \in Storage \cup {None} /\ None \notin Storage /\ pending' \subseteq Storage
  BY RecordFields, Bounds DEF Types, TypeOK
<1>2. new \notin {old, None} => ~Rooted(new)
  BY FreshIsUnused DEF PersistentStep
<1>3. ASSUME NEW b \in Storage, Rooted(b)
      PROVE  Rooted(b)'
  <2>1. CASE b = old /\ new = old
    BY <2>1 DEF Rooted, InRecord
  <2>2. CASE b = old /\ new # old
    BY <1>1, <2>2 DEF Rooted, PersistentStep
  <2>3. CASE b # old
    BY <1>3, <2>3 DEF Rooted, InRecord, InSlot, PersistentStep
  <2> QED
    BY <2>1, <2>2, <2>3
<1>4. OwnersInv'
  BY <1>3, OwnersKept DEF PersistentStep, OwnersInv
<1>5. Exclusive'
  BY <1>1, <1>2 DEF Exclusive, PersistentStep, Rooted, InRecord, InSlot
<1>6. FramesInv'
  BY DEF FramesInv, PersistentStep, Uses
<1> QED
  BY <1>4, <1>5, <1>6

\* Storage is written that no submission draws, and what a name holds stays in staging.
PersistentWrite(n) ==
    /\ staging' = staging \/ ~IsDrawn(record'[n].buffer)
    /\ record'[n].ticket <= ticket
    /\ record'[n].buffer = None => record'[n].ticket = 0 /\ ~record'[n].ready
    /\ record'[n].ready \/ record'[n].ticket = ticket =>
           /\ ~IsDrawn(record'[n].buffer)
           /\ record'[n].buffer \notin early =>
                  record'[n].buffer \notin recorded /\ ~InFlight(record'[n].buffer)
    /\ record'[n].buffer # None /\ ~record'[n].ready =>
           record'[n].buffer \in pending' /\ staging'[record'[n].buffer] = record'[n].content

LEMMA PersistentContents ==
    ASSUME Types, OwnersInv, Exclusive, TicketsInv, ContentsInv, DrawsInv, Types', Exclusive',
           NEW n \in Names, PersistentStep(n), PersistentWrite(n)
    PROVE  TicketsInv' /\ ContentsInv' /\ DrawsInv'
<1> DEFINE old == record[n].buffer
           new == record'[n].buffer
<1>1. \A m \in Names : record[m].buffer \in Storage \cup {None}
                       /\ record'[m].buffer \in Storage \cup {None}
  BY RecordFields DEF Types, TypeOK, Record
<1>2. \A m \in Names : m # n => record'[m] = record[m]
  BY DEF PersistentStep
<1>3. \A m \in Names : m # n /\ record[m].buffer # None => record[m].buffer # new
  BY <1>1, <1>2 DEF Exclusive
<1>4. new \notin world'
  BY <1>1, Bounds DEF Exclusive, Types, TypeOK
<1>5. \A b : (InFlight(b)' <=> InFlight(b)) /\ (IsDrawn(b)' <=> IsDrawn(b))
  BY DEF InFlight, IsDrawn, PersistentStep
<1>6. \A b \in Storage : IsDrawn(b) => staging'[b] = staging[b]
  BY DEF PersistentStep, PersistentWrite
<1>7. DrawsInv'
  <2>1. \A i \in DOMAIN queue : \A b \in DOMAIN queue[i].draws : b \in Storage /\ IsDrawn(b)
    BY DEF Types, TypeOK, IsDrawn
  <2> QED
    BY <1>6, <2>1 DEF DrawsInv, PersistentStep
<1>8. TicketsInv'
  <2>1. ASSUME NEW m \in Names
        PROVE  /\ record'[m].ticket <= ticket
               /\ record'[m].buffer = None => record'[m].ticket = 0 /\ ~record'[m].ready
               /\ record'[m].ready \/ record'[m].ticket = ticket =>
                      /\ ~IsDrawn(record'[m].buffer)
                      /\ record'[m].buffer \notin early =>
                             record'[m].buffer \notin recorded /\ ~InFlight(record'[m].buffer)
    <3>1. CASE m = n
      BY <3>1 DEF PersistentWrite
    <3>2. CASE m # n
      BY <1>2, <3>2 DEF TicketsInv, Open
    <3> QED
      BY <3>1, <3>2
  <2>2. ASSUME NEW m \in Names, record'[m].buffer \notin early'
        PROVE  record'[m].buffer \notin early \/ record'[m].buffer = None
    BY <1>1, <1>2, <2>2 DEF PersistentStep, Exclusive
  <2>3. ASSUME NEW b \in early'
        PROVE  InRecord(b)'
    <3>1. b \in early /\ (b # old \/ old = new)
      BY <2>3 DEF PersistentStep
    <3>2. PICK m \in Names : record[m].buffer = b
      BY <3>1 DEF TicketsInv, InRecord
    <3> QED
      BY <1>2, <3>1, <3>2 DEF InRecord
  <2>4. ticket' = ticket /\ recorded' = recorded
    BY DEF PersistentStep
  <2>5. \A b : (InFlight(b) => b # None) /\ (b \in recorded => b # None)
    BY Bounds DEF InFlight, Types, TypeOK
  <2> HIDE DEF new, old
  <2> QED
    BY <1>5, <2>1, <2>2, <2>3, <2>4, <2>5 DEF TicketsInv, Open
<1>9. ContentsInv'
  <2>1. UNCHANGED <<recorded, world, worldUploads, device>> /\ pending \subseteq pending'
    BY DEF PersistentStep
  <2>2. ASSUME NEW m \in Names, record'[m].buffer # None, ~record'[m].ready
        PROVE  /\ staging'[record'[m].buffer] = record'[m].content
               /\ \/ record'[m].buffer \in pending' \cup recorded' \/ InFlight(record'[m].buffer)
                  \/ device'[record'[m].buffer] = staging'[record'[m].buffer]
    <3>1. CASE m = n
      BY <2>2, <3>1 DEF PersistentWrite
    <3>2. CASE m # n
      <4>1. record'[m] = record[m] /\ m \in Drawable
        BY <1>2, <2>2, <3>2 DEF Drawable
      <4>2. staging'[record[m].buffer] = staging[record[m].buffer]
        BY <1>1, <1>3, <2>2, <3>2, <4>1 DEF PersistentStep
      <4> QED
        BY <2>1, <4>1, <4>2 DEF ContentsInv
    <3> QED
      BY <3>1, <3>2
  <2>3. \A b \in world' : staging'[b] = staging[b]
    BY <1>4 DEF PersistentStep, Types, TypeOK
  <2> HIDE DEF new, old
  <2>4. \A b \in world' : b \in worldUploads' \cup recorded' \/ InFlight(b)' \/ device'[b] = staging'[b]
    BY <1>5, <2>1, <2>3 DEF ContentsInv
  <2> QED
    BY <1>5, <2>2, <2>4 DEF ContentsInv, Drawable
<1> QED
  BY <1>7, <1>8, <1>9

LEMMA PersistentInv ==
    ASSUME IInv, Types', NEW n \in Names, PersistentStep(n), PersistentWrite(n)
    PROVE  IInv'
BY PersistentStructure, PersistentContents DEF IInv

\* The fields a step of a name changes, those it writes by EXCEPT included.
LEMMA RecordUpdates ==
    ASSUME Types, NEW n \in Names
    PROVE  /\ record \in [Names -> Record]
           /\ \A k : [record[n] EXCEPT !.content = k].buffer = record[n].buffer
                     /\ [record[n] EXCEPT !.content = k].ready = record[n].ready
                     /\ [record[n] EXCEPT !.content = k].ticket = record[n].ticket
                     /\ [record[n] EXCEPT !.content = k].state = record[n].state
                     /\ [record[n] EXCEPT !.content = k].content = k
           /\ staging \in [Storage -> Content] /\ None \notin Storage
<1>1. record \in [Names -> Record] /\ staging \in [Storage -> Content] /\ None \notin Storage
  BY Bounds DEF Types, TypeOK
<1>2. record[n] \in Record
  BY <1>1
<1> QED
  BY <1>1, <1>2 DEF Record

LEMMA PersistentActions ==
    ASSUME IInv, NEW n \in Names, NEW b, NEW c,
           \/ Allocate(n) \/ Release(n) \/ Upload(n) \/ Initialize(n, b)
           \/ c \in Cells /\ (UploadRangeInPlace(n, c) \/ UploadRangeToCopy(n, c, b))
    PROVE  IInv'
<1> DEFINE old == record[n].buffer
<1>1. Types /\ Types' /\ OwnersInv
  BY ClientTypes DEF IInv
<1>2. /\ record \in [Names -> Record] /\ record' \in [Names -> Record]
      /\ staging \in [Storage -> Content] /\ staging' \in [Storage -> Content]
      /\ None \notin Storage /\ held \subseteq Storage /\ record[n] \in Record
      /\ ticket \in 1 .. MaxTicket /\ old \in Storage \cup {None} /\ record[n].content \in Content
  BY <1>1, Bounds, RecordFields DEF Types, TypeOK
<1>3. /\ ticket # 0 /\ 0 <= ticket /\ ticket <= ticket
      /\ record[n].ticket \in Nat
      /\ TicketsInv /\ ContentsInv /\ ~IsDrawn(None) /\ ~InFlight(None) /\ None \notin recorded
      /\ None \notin early
  BY <1>1, <1>2, Bounds DEF Record, IInv, IsDrawn, InFlight, Types, TypeOK
<1>4. Fresh(b) => /\ b # None /\ b # old /\ b \notin pending /\ b \notin recorded
                  /\ ~InFlight(b) /\ ~IsDrawn(b)
  BY <1>1, FreshIsUnused DEF Rooted, InRecord
<1>5. CASE Allocate(n)
  <2>1. old = None
    BY <1>1, <1>5 DEF OwnersInv, Allocate
  <2>2. record'[n] = Unset("allocated") /\ \A m \in Names : m # n => record'[m] = record[m]
    BY <1>2, <1>5 DEF Allocate
  <2>3. PersistentStep(n)
    BY <1>3, <1>5, <2>1, <2>2 DEF PersistentStep, Allocate, Unset, scene, overlay, loop
  <2>4. PersistentWrite(n)
    BY <1>3, <1>5, <2>2 DEF PersistentWrite, Allocate, Unset
  <2> QED
    BY <1>1, <2>3, <2>4, PersistentInv
<1>6. CASE Release(n)
  <2>1. record'[n] = Unset("released") /\ \A m \in Names : m # n => record'[m] = record[m]
    BY <1>2, <1>6 DEF Release
  <2>2. PersistentStep(n)
    BY <1>3, <1>6, <2>1 DEF PersistentStep, Release, Retaining, Unset, scene, overlay, loop
  <2>3. PersistentWrite(n)
    BY <1>3, <1>6, <2>1 DEF PersistentWrite, Release, Unset
  <2> QED
    BY <1>1, <2>2, <2>3, PersistentInv
<1>7. CASE Initialize(n, b)
  <2>1. record'[n] = [state |-> "allocated", buffer |-> b, ready |-> TRUE, ticket |-> 0,
                      content |-> Blank]
        /\ \A m \in Names : m # n => record'[m] = record[m]
    BY <1>2, <1>7 DEF Initialize
  <2>2. \A d \in Storage : d # b => staging'[d] = staging[d]
    BY <1>2, <1>7 DEF Initialize
  <2>3. PersistentStep(n)
    BY <1>4, <1>7, <2>1, <2>2 DEF PersistentStep, Initialize, Retaining, scene, overlay, loop
  <2>4. PersistentWrite(n)
    BY <1>3, <1>4, <1>7, <2>1 DEF PersistentWrite, Initialize
  <2> QED
    BY <1>1, <2>3, <2>4, PersistentInv
<1>8. CASE Upload(n)
  <2>1. /\ record'[n] = [record[n] EXCEPT !.ready = FALSE, !.ticket = ticket,
                                          !.content = Filled(writes')]
        /\ \A m \in Names : m # n => record'[m] = record[m]
    BY <1>2, <1>8 DEF Upload
  <2>2. /\ record'[n].buffer = old /\ record'[n].ready = FALSE /\ record'[n].ticket = ticket
        /\ record'[n].content = Filled(writes') /\ record'[n].state = record[n].state
    BY <1>2, <2>1 DEF Record
  <2>3. /\ old \in Storage /\ staging'[old] = Filled(writes')
        /\ \A d \in Storage : d # old => staging'[d] = staging[d]
    BY <1>2, <1>8 DEF Upload
  <2>6. /\ held' = held \cup ({old} \ {record'[n].buffer, None})
        /\ early' = early \ ({old} \ {record'[n].buffer})
    BY <1>8, <2>2 DEF Upload
  <2>4. PersistentStep(n)
    BY <1>1, <1>8, <2>1, <2>2, <2>3, <2>6
       DEF PersistentStep, Upload, OwnersInv, scene, overlay, loop
  <2>5. PersistentWrite(n)
    BY <1>3, <1>8, <2>2, <2>3 DEF PersistentWrite, Upload, TicketsInv, Open
  <2> QED
    BY <1>1, <2>4, <2>5, PersistentInv
<1>9. CASE c \in Cells /\ UploadRangeInPlace(n, c)
  <2> DEFINE k == [record[n].content EXCEPT ![c] = writes']
  <2>1. /\ record'[n] = [record[n] EXCEPT !.content = k]
        /\ \A m \in Names : m # n => record'[m] = record[m]
    BY <1>2, <1>9 DEF UploadRangeInPlace
  <2>2. /\ record'[n].buffer = old /\ record'[n].ready = record[n].ready
        /\ record'[n].ticket = record[n].ticket
        /\ record'[n].content = k /\ record'[n].state = record[n].state
    BY <1>1, <2>1, RecordUpdates
  <2>3. /\ old \in Storage /\ staging'[old] = [staging[old] EXCEPT ![c] = writes']
        /\ \A d \in Storage : d # old => staging'[d] = staging[d]
    BY <1>2, <1>9 DEF UploadRangeInPlace
  <2>4. PersistentStep(n)
    BY <1>1, <1>9, <2>1, <2>2, <2>3
       DEF PersistentStep, UploadRangeInPlace, OwnersInv, scene, overlay, loop
  <2>5. PersistentWrite(n)
    <3>1. ~record[n].ready => staging[old] = record[n].content
      BY <1>2, <1>3, <2>3 DEF ContentsInv, Drawable
    <3>2. /\ ~IsDrawn(old) /\ (old \notin early => old \notin recorded /\ ~InFlight(old))
      BY <1>3, <1>9 DEF UploadRangeInPlace, TicketsInv, Open
    <3> QED
      BY <1>2, <1>3, <1>9, <2>2, <2>3, <3>1, <3>2 DEF PersistentWrite, UploadRangeInPlace
  <2> QED
    BY <1>1, <2>4, <2>5, PersistentInv
<1>10. CASE c \in Cells /\ UploadRangeToCopy(n, c, b)
  <2> DEFINE k == [record[n].content EXCEPT ![c] = writes']
  <2>1. /\ record'[n] = [record[n] EXCEPT !.buffer = b, !.ticket = ticket, !.content = k]
        /\ \A m \in Names : m # n => record'[m] = record[m]
    BY <1>2, <1>10 DEF UploadRangeToCopy
  <2>2. /\ record'[n].buffer = b /\ record'[n].ready = record[n].ready
        /\ record'[n].ticket = ticket
        /\ record'[n].content = k /\ record'[n].state = record[n].state
    BY <1>2, <2>1 DEF Record
  <2>3. /\ old \in Storage /\ staging'[b] = [staging[old] EXCEPT ![c] = writes']
        /\ \A d \in Storage : d # b => staging'[d] = staging[d]
    BY <1>2, <1>10 DEF UploadRangeToCopy, RangeCopied
  <2>4. PersistentStep(n)
    BY <1>1, <1>2, <1>4, <1>10, <2>1, <2>2, <2>3
       DEF PersistentStep, UploadRangeToCopy, Retaining, OwnersInv, scene, overlay, loop
  <2>5. PersistentWrite(n)
    <3>1. ~record[n].ready => staging[old] = record[n].content
      BY <1>2, <1>3, <2>3 DEF ContentsInv, Drawable
    <3> QED
      BY <1>2, <1>3, <1>4, <1>10, <2>2, <2>3, <3>1 DEF PersistentWrite, UploadRangeToCopy
  <2> QED
    BY <1>1, <2>4, <2>5, PersistentInv
<1> QED
  BY <1>5, <1>6, <1>7, <1>8, <1>9, <1>10

\* A step of the overlay names or of resident geometry leaves the persistent ones alone.
SceneStep ==
    /\ UNCHANGED <<record, ticket, pending, early, frame, phase, recorded, queue, device>>
    /\ \A b \in Storage : Rooted(b) => Rooted(b)'

\* Storage is written that no name has and no copy in flight reads.
SceneWrite ==
    /\ \A n \in Names : record[n].buffer # None =>
           staging'[record[n].buffer] = staging[record[n].buffer]
    /\ \A b \in Storage : InFlight(b) => staging'[b] = staging[b]
    /\ \A b \in world' : b \in worldUploads' \cup recorded \/ InFlight(b)
                         \/ device[b] = staging'[b]

LEMMA SceneInv ==
    ASSUME IInv, Types', SceneStep, SceneWrite, Exclusive', FramesInv'
    PROVE  IInv'
<1>1. OwnersInv'
  BY OwnersKept DEF IInv, SceneStep, OwnersInv
<1>2. TicketsInv' /\ ContentsInv' /\ DrawsInv'
  <2>1. TicketsInv /\ ContentsInv /\ DrawsInv /\ Types
    BY DEF IInv
  <2>2. TicketsInv'
    BY <2>1 DEF TicketsInv, SceneStep, InFlight, IsDrawn, InRecord, Open
  <2>3. ContentsInv'
    BY <2>1 DEF ContentsInv, Drawable, SceneStep, SceneWrite, InFlight
  <2>4. \A i \in DOMAIN queue : DOMAIN queue[i].draws \subseteq Storage
    BY <2>1 DEF Types, TypeOK
  <2>5. DrawsInv'
    BY <2>1, <2>4 DEF DrawsInv, SceneStep, SceneWrite, InFlight
  <2> QED
    BY <2>2, <2>3, <2>5
<1> QED
  BY <1>1, <1>2 DEF IInv

LEMMA OverlayActions ==
    ASSUME IInv, NEW o \in OverlayNames,
           AllocateOverlay(o) \/ InitializeOverlay(o) \/ UploadOverlay(o)
    PROVE  IInv'
<1>1. Types /\ OwnersInv /\ Exclusive /\ FramesInv
  BY DEF IInv
<1>2. Types'
  BY <1>1, OverlayTypes DEF FramesInv
<1>3. /\ slot \in [Contexts -> [OverlayNames -> Storage \cup {None}]] /\ frame \in Contexts
      /\ slot[frame][o] \in Storage \cup {None} /\ None \notin Storage
      /\ valid \in [OverlayNames -> {"none", "allocated", "sized", "written"}]
      /\ staging \in [Storage -> Content] /\ world \subseteq Storage
  BY <1>1, Bounds DEF Types, TypeOK
<1>4. \A n \in Names : record[n].buffer \in Storage \cup {None}
  BY <1>1, RecordFields
<1>5. ContentsInv
  BY DEF IInv
<1>6. CASE AllocateOverlay(o)
  <2>1. UNCHANGED <<record, ticket, pending, early, world, worldUploads, slot, frame, phase,
                    recorded, queue, device, held, staging>>
    BY <1>6 DEF AllocateOverlay, persistent, scene, loop
  <2>2. SceneStep /\ Exclusive'
    BY <1>1, <2>1 DEF SceneStep, Rooted, InRecord, InSlot, Exclusive
  <2>3. FramesInv'
    BY <1>1, <1>3, <1>6, <2>1 DEF FramesInv, Uses, AllocateOverlay
  <2>4. SceneWrite
    BY <1>5, <2>1 DEF SceneWrite, ContentsInv
  <2> QED
    BY <1>2, <2>2, <2>3, <2>4, SceneInv
<1>7. CASE InitializeOverlay(o) /\ UNCHANGED <<slot, held, staging>> /\ slot[frame][o] # None
  <2>1. UNCHANGED <<record, ticket, pending, early, world, worldUploads, slot, frame, phase,
                    recorded, queue, device, held, staging>>
    BY <1>7 DEF InitializeOverlay, persistent, scene, loop
  <2>2. SceneStep /\ Exclusive'
    BY <1>1, <2>1 DEF SceneStep, Rooted, InRecord, InSlot, Exclusive
  <2>3. FramesInv'
    BY <1>1, <1>3, <1>7, <2>1 DEF FramesInv, Uses, InitializeOverlay
  <2>4. SceneWrite
    BY <1>5, <2>1 DEF SceneWrite, ContentsInv
  <2> QED
    BY <1>2, <2>2, <2>3, <2>4, SceneInv
<1>8. ASSUME InitializeOverlay(o), NEW s \in Storage, Fresh(s),
             held' = Retaining({slot[frame][o]}),
             slot' = [slot EXCEPT ![frame][o] = s],
             staging' = [staging EXCEPT ![s] = Blank]
      PROVE  IInv'
  <2>1. UNCHANGED <<record, ticket, pending, early, world, worldUploads, frame, phase, recorded,
                    queue, device>>
    BY <1>8 DEF InitializeOverlay, persistent, scene, loop
  <2>2. /\ slot'[frame][o] = s
        /\ \A f \in Contexts : \A p \in OverlayNames : f # frame \/ p # o => slot'[f][p] = slot[f][p]
    BY <1>3, <1>8
  <2>3. s # None /\ ~Rooted(s) /\ s \notin recorded /\ ~InFlight(s)
        /\ \A i \in DOMAIN queue : s \notin Uses(i)
    BY <1>1, <1>8, FreshIsUnused
  <2>4. /\ \A n \in Names : record[n].buffer # s
        /\ s \notin pending \cup world \cup worldUploads
        /\ \A f \in Contexts : \A p \in OverlayNames : slot[f][p] # s
    BY <2>3 DEF Rooted, InRecord, InSlot
  <2>5. ASSUME NEW b \in Storage, Rooted(b)
        PROVE  Rooted(b)'
    <3>1. CASE b = slot[frame][o]
      BY <1>3, <1>8, <3>1 DEF Rooted, Retaining
    <3>2. CASE InSlot(b) /\ b # slot[frame][o]
      <4>1. PICK f \in Contexts, p \in OverlayNames : slot[f][p] = b
        BY <3>2 DEF InSlot
      <4>2. slot'[f][p] = b
        BY <2>2, <3>2, <4>1
      <4> QED
        BY <4>2 DEF Rooted, InSlot
    <3>3. CASE ~InSlot(b)
      BY <1>8, <2>1, <2>5, <3>3 DEF Rooted, InRecord, Retaining
    <3> QED
      BY <3>1, <3>2, <3>3
  <2>6. SceneStep
    BY <2>1, <2>5 DEF SceneStep
  <2>7. Exclusive'
    <3>1. /\ \A m, n \in Names : record'[m].buffer = record'[n].buffer /\ record'[m].buffer # None
                                     => m = n
          /\ pending' \cap (world' \cup worldUploads') = {}
          /\ \A n \in Names : record'[n].buffer # None =>
                 record'[n].buffer \notin world' \cup worldUploads'
      BY <1>1, <2>1 DEF Exclusive
    <3>2. \A n \in Names : record[n].buffer # None =>
              \A f \in Contexts : \A p \in OverlayNames : slot'[f][p] # record[n].buffer
      BY <1>1, <2>2, <2>4 DEF Exclusive, InSlot
    <3>3. \A b \in pending \cup world \cup worldUploads :
              \A f \in Contexts : \A p \in OverlayNames : slot'[f][p] # b
      BY <1>1, <2>2, <2>4 DEF Exclusive, InSlot
    <3>4. \A f, g \in Contexts : \A p, q \in OverlayNames :
              slot'[f][p] = slot'[g][q] /\ slot'[f][p] # None => f = g /\ p = q
      BY <1>1, <1>3, <2>2, <2>4 DEF Exclusive
    <3> QED
      BY <2>1, <3>1, <3>2, <3>3, <3>4 DEF Exclusive, InSlot
  <2>8. FramesInv'
    <3>1. \A f \in Contexts : \A p \in OverlayNames :
              slot'[f][p] = slot[f][p] \/ (f = frame /\ slot'[f][p] = s)
      BY <1>3, <2>2
    <3>2. \A p \in OverlayNames : valid'[p] \in {"sized", "written"} => slot'[frame][p] # None
      BY <1>1, <1>3, <1>8, <2>2, <2>3 DEF FramesInv, InitializeOverlay
    <3> QED
      BY <1>1, <2>1, <2>3, <3>1, <3>2 DEF FramesInv, Uses
  <2>9. SceneWrite
    <3>1. \A b \in Storage : b # s => staging'[b] = staging[b]
      BY <1>3, <1>8
    <3> QED
      BY <1>3, <1>4, <1>5, <2>1, <2>3, <2>4, <3>1 DEF SceneWrite, ContentsInv
  <2> QED
    BY <1>2, <2>6, <2>7, <2>8, <2>9, SceneInv
<1>9. CASE UploadOverlay(o)
  <2> DEFINE s == slot[frame][o]
  <2>1. UNCHANGED <<record, ticket, pending, early, world, worldUploads, slot, frame, phase,
                    recorded, queue, device, held>>
    BY <1>9 DEF UploadOverlay, persistent, scene, loop
  <2>2. SceneStep /\ Exclusive'
    BY <1>1, <2>1 DEF SceneStep, Rooted, InRecord, InSlot, Exclusive
  <2>3. s # None /\ phase = "open"
    BY <1>1, <1>9 DEF FramesInv, UploadOverlay
  <2>4. FramesInv'
    BY <1>1, <1>3, <1>9, <2>1, <2>3 DEF FramesInv, Uses, UploadOverlay
  <2>5. ~InFlight(s)
    BY <1>1, <1>3, <2>3 DEF FramesInv, InFlight, Uses
  <2>6. InSlot(s)
    BY <1>3 DEF InSlot
  <2>7. \A b \in Storage : b # s => staging'[b] = staging[b]
    BY <1>3, <1>9 DEF UploadOverlay
  <2>8. /\ \A n \in Names : record[n].buffer # None => record[n].buffer # s
        /\ s \notin world
    BY <1>1, <2>6 DEF Exclusive
  <2>9. SceneWrite
    BY <1>3, <1>4, <1>5, <2>1, <2>5, <2>7, <2>8 DEF SceneWrite, ContentsInv
  <2> QED
    BY <1>2, <2>2, <2>4, <2>9, SceneInv
<1> QED
  BY <1>6, <1>7, <1>8, <1>9 DEF InitializeOverlay

LEMMA WorldActions ==
    ASSUME IInv, NEW b, UploadWorld(b) \/ RetireWorld(b)
    PROVE  IInv'
<1>1. Types /\ OwnersInv /\ Exclusive /\ FramesInv
  BY DEF IInv
<1>2. Types'
  BY <1>1, WorldTypes
<1>3. staging \in [Storage -> Content] /\ world \subseteq Storage /\ None \notin Storage
  BY <1>1, Bounds DEF Types, TypeOK
<1>4. \A n \in Names : record[n].buffer \in Storage \cup {None}
  BY <1>1, RecordFields
<1>5. ContentsInv
  BY DEF IInv
<1>6. UNCHANGED <<record, ticket, pending, early, slot, valid, frame, phase, recorded, queue,
                  device>>
  BY DEF UploadWorld, RetireWorld, persistent, overlay, loop
<1>7. CASE UploadWorld(b)
  <2>1. b \in Storage /\ b # None /\ ~Rooted(b) /\ b \notin recorded /\ ~InFlight(b)
    BY <1>1, <1>7, FreshIsUnused DEF UploadWorld
  <2>2. SceneStep
    BY <1>6, <1>7 DEF SceneStep, UploadWorld, Rooted, InRecord, InSlot
  <2>3. Exclusive'
    BY <1>1, <1>6, <1>7, <2>1 DEF Exclusive, UploadWorld, Rooted, InRecord, InSlot
  <2>4. FramesInv'
    BY <1>1, <1>6, <1>7 DEF FramesInv, UploadWorld, Uses
  <2>5. \A d \in Storage : d # b => staging'[d] = staging[d]
    BY <1>3, <1>7 DEF UploadWorld
  <2>6. \A n \in Names : record[n].buffer # b
    BY <2>1 DEF Rooted, InRecord
  <2>7. SceneWrite
    BY <1>3, <1>4, <1>5, <1>7, <2>1, <2>5, <2>6 DEF SceneWrite, ContentsInv, UploadWorld
  <2> QED
    BY <1>2, <2>2, <2>3, <2>4, <2>7, SceneInv
<1>8. CASE RetireWorld(b)
  <2>1. SceneStep
    BY <1>3, <1>6, <1>8 DEF SceneStep, RetireWorld, Retaining, Rooted, InRecord, InSlot
  <2>2. Exclusive'
    BY <1>1, <1>6, <1>8 DEF Exclusive, RetireWorld, InSlot
  <2>3. FramesInv'
    BY <1>1, <1>6, <1>8 DEF FramesInv, RetireWorld, Uses
  <2>4. SceneWrite
    BY <1>5, <1>6, <1>8 DEF SceneWrite, ContentsInv, RetireWorld
  <2> QED
    BY <1>2, <2>1, <2>2, <2>3, <2>4, SceneInv
<1> QED
  BY <1>7, <1>8

-----------------------------------------------------------------------------
(* The copies of a frame are recorded.                                     *)

\* Closing the batch leaves no storage open, also when the tickets roll over.
LEMMA ClosedTickets ==
    ASSUME Types, Perform, NEW n \in Names
    PROVE  /\ record'[n].buffer = record[n].buffer /\ record'[n].ready = record[n].ready
           /\ record'[n].state = record[n].state /\ record'[n].content = record[n].content
           /\ record[n].ticket <= ticket => record'[n].ticket < ticket'
           /\ record[n].ticket = 0 => record'[n].ticket = 0
<1>1. /\ record \in [Names -> Record] /\ record[n] \in Record /\ ticket \in 1 .. MaxTicket
      /\ record[n].ticket \in Nat /\ MaxTicket \in Nat
  BY Bounds DEF Types, TypeOK, Record
<1>2. CASE ticket = MaxTicket
  <2>1. record'[n] = [record[n] EXCEPT !.ticket = 0] /\ ticket' = 1
    BY <1>2 DEF Perform, TicketsAfterClose, NextTicket
  <2> QED
    BY <1>1, <2>1 DEF Record
<1>3. CASE ticket # MaxTicket
  <2>1. record'[n] = record[n] /\ ticket' = ticket + 1
    BY <1>3 DEF Perform, TicketsAfterClose, NextTicket
  <2> QED
    BY <1>1, <2>1
<1> QED
  BY <1>2, <1>3

\* What a frame copies and draws has an owner, and of the slots only those of its context.
LEMMA FrameUses ==
    ASSUME Types, Exclusive, FramesInv
    PROVE  /\ \A b \in Copied : b \in pending \cup worldUploads \/ InSlot(b)
           /\ \A n \in Names : record[n].buffer \in Copied => record[n].buffer \in pending
           /\ \A b \in Drawn : InRecord(b) \/ b \in world \/ InSlot(b)
           /\ \A f \in Contexts : \A o \in OverlayNames :
                  slot[f][o] \in Copied \cup Drawn => f = frame
<1>1. Copied \subseteq Storage /\ Drawn \subseteq Storage /\ None \notin Storage
  BY DrawnTypes, Bounds DEF FramesInv
<1>2. frame \in Contexts
  BY DEF Types, TypeOK
<1>3. \A states : \A b \in OverlayStorage(states) : \E o \in OverlayNames : slot[frame][o] = b
  BY DEF OverlayStorage
<1>4. \A b \in Copied : b \in pending \cup worldUploads \/ \E o \in OverlayNames : slot[frame][o] = b
  BY <1>3 DEF Copied
<1>5. \A b \in Drawn : \/ \E n \in Names : record[n].buffer = b /\ b # None
                       \/ b \in world \/ \E o \in OverlayNames : slot[frame][o] = b
  BY <1>3 DEF Drawn, Drawable
<1>6. \A n \in Names : record[n].buffer \in Copied => record[n].buffer \in pending
  BY <1>1, <1>2, <1>4 DEF Exclusive, InSlot
<1>7. ASSUME NEW f \in Contexts, NEW o \in OverlayNames, slot[f][o] \in Copied \cup Drawn
      PROVE  f = frame
  <2>1. slot[f][o] # None /\ InSlot(slot[f][o])
    BY <1>1, <1>7 DEF InSlot
  <2>2. PICK p \in OverlayNames : slot[frame][p] = slot[f][o]
    BY <1>4, <1>5, <1>7, <2>1 DEF Exclusive
  <2> QED
    BY <1>2, <2>1, <2>2 DEF Exclusive
<1> QED
  BY <1>2, <1>4, <1>5, <1>6, <1>7 DEF InSlot, InRecord

LEMMA PerformExclusive ==
    ASSUME Types, Exclusive, Perform, UNCHANGED <<world, slot>>
    PROVE  Exclusive'
<1>1. \A n \in Names : record'[n].buffer = record[n].buffer
  BY ClosedTickets
<1>2. pending' = {} /\ worldUploads' = {}
  BY DEF Perform
<1> QED
  BY <1>1, <1>2 DEF Exclusive, InSlot

\* All that was pending is recorded or submitted now, and nothing of it is open.
LEMMA PerformContents ==
    ASSUME Types, Exclusive, FramesInv, TicketsInv, ContentsInv, Perform,
           UNCHANGED <<world, device, staging>>,
           \A b : b \in recorded' \/ InFlight(b)' <=> b \in recorded \cup Copied \/ InFlight(b),
           \A b : IsDrawn(b)' => IsDrawn(b) \/ b \in Drawn
    PROVE  TicketsInv' /\ ContentsInv'
<1>1. \A n \in Names :
          /\ record'[n].buffer = record[n].buffer /\ record'[n].ready = record[n].ready
          /\ record'[n].content = record[n].content /\ record'[n].ticket < ticket'
          /\ record[n].ticket = 0 => record'[n].ticket = 0
  BY ClosedTickets DEF TicketsInv
<1>2. \A n \in Names : record'[n].ticket \in Int /\ ticket' \in Int
  BY PerformTypes, Bounds DEF Record
<1>3. pending' = {} /\ worldUploads' = {} /\ pending \subseteq Copied /\ worldUploads \subseteq Copied
  BY DEF Perform, Copied
<1>4. ASSUME NEW n \in Names, record[n].ready, NEW b, b = record[n].buffer
      PROVE  /\ ~IsDrawn(b)'
             /\ b \notin early' => ~(b \in recorded' \/ InFlight(b)')
  <2>1. /\ b # None /\ ~IsDrawn(b)
        /\ b \notin early => b \notin recorded /\ ~InFlight(b)
    BY <1>4 DEF TicketsInv, Open
  <2>2. b \notin Drawn
    <3>1. \A m \in Drawable : record[m].buffer # b
      BY <1>4, <2>1 DEF Drawable, Exclusive
    <3>2. b \notin world /\ ~InSlot(b)
      BY <1>4, <2>1 DEF Exclusive
    <3>3. b \notin OverlayStorage({"written"})
      BY <3>2 DEF OverlayStorage, InSlot, Types, TypeOK
    <3> QED
      BY <3>1, <3>2, <3>3 DEF Drawn
  <2>3. b \in pending => b \in early'
    BY <1>4 DEF Perform, CopiedEarly
  <2>4. b \in Copied => b \in pending
    BY <1>4, <2>1, FrameUses DEF Exclusive
  <2>5. early \subseteq early'
    BY DEF Perform
  <2> QED
    BY <2>1, <2>2, <2>3, <2>4, <2>5
<1>5. TicketsInv'
  <2>1. \A n \in Names : record'[n].ticket <= ticket' /\ record'[n].ticket # ticket'
    BY <1>1, <1>2
  <2>2. \A n \in Names : record'[n].buffer = None => record'[n].ticket = 0 /\ ~record'[n].ready
    BY <1>1 DEF TicketsInv
  <2>3. \A b \in early' : InRecord(b)'
    BY <1>1 DEF TicketsInv, Perform, CopiedEarly, InRecord
  <2> QED
    BY <1>1, <1>4, <2>1, <2>2, <2>3 DEF TicketsInv, Open
<1>6. ContentsInv'
  <2>1. \A n \in Names : record[n].buffer # None /\ ~record[n].ready =>
            /\ staging[record[n].buffer] = record[n].content
            /\ \/ record[n].buffer \in recorded' \/ device[record[n].buffer] = staging[record[n].buffer]
               \/ \E i \in DOMAIN queue' : record[n].buffer \in queue'[i].copies
    BY <1>3 DEF ContentsInv, Drawable, InFlight
  <2>2. \A b \in world : \/ b \in recorded' \/ device[b] = staging[b]
                         \/ \E i \in DOMAIN queue' : b \in queue'[i].copies
    BY <1>3 DEF ContentsInv, InFlight
  <2> QED
    BY <1>1, <2>1, <2>2 DEF ContentsInv, Drawable, InFlight
<1> QED
  BY <1>5, <1>6

LEMMA PerformUploadsInv ==
    ASSUME IInv, PerformUploads
    PROVE  IInv'
<1>1. Types /\ OwnersInv /\ Exclusive /\ FramesInv /\ Perform /\ Types'
  BY FrameTypes DEF IInv, PerformUploads, FramesInv, Types, TypeOK
<1>2. /\ UNCHANGED <<world, slot, valid, frame, phase, queue, device, staging>>
      /\ pending' = {} /\ worldUploads' = {} /\ phase = "open"
      /\ recorded' = recorded \cup Copied
  BY DEF PerformUploads, Perform, overlay, gpu
<1>3. pending \cup worldUploads \cup held \subseteq held'
  <2>1. None \notin pending \cup worldUploads
    BY <1>1, Bounds DEF Types, TypeOK
  <2> QED
    BY <2>1 DEF PerformUploads, Retaining
<1>4. \A b : Rooted(b) => Rooted(b)'
  <2>1. \A n \in Names : record'[n].buffer = record[n].buffer
    BY <1>1, ClosedTickets
  <2> QED
    BY <1>2, <1>3, <2>1 DEF Rooted, InRecord, InSlot
<1>5. OwnersInv'
  <2>1. \A b \in Copied : Rooted(b)
    BY <1>1, FrameUses DEF Rooted
  <2>2. \A n \in Names : record'[n].buffer = record[n].buffer /\ record'[n].state = record[n].state
    BY <1>1, ClosedTickets
  <2> QED
    BY <1>1, <1>2, <1>4, <2>1, <2>2 DEF OwnersInv, Uses
<1>6. FramesInv'
  <2>1. \A f \in Contexts : \A o \in OverlayNames : slot[f][o] \in Copied => f = frame
    BY <1>1, FrameUses
  <2> QED
    BY <1>1, <1>2, <2>1 DEF FramesInv, Uses
<1>7. Exclusive'
  BY <1>1, <1>2, PerformExclusive
<1>8. TicketsInv' /\ ContentsInv' /\ DrawsInv'
  <2>1. TicketsInv /\ ContentsInv /\ DrawsInv
    BY DEF IInv
  <2>2. DrawsInv'
    BY <1>2, <2>1 DEF DrawsInv
  <2>3. \A b : b \in recorded' \/ InFlight(b)' <=> b \in recorded \cup Copied \/ InFlight(b)
    BY <1>2 DEF InFlight
  <2>4. \A b : IsDrawn(b)' => IsDrawn(b)
    BY <1>2 DEF IsDrawn
  <2> QED
    BY <1>1, <1>2, <2>1, <2>2, <2>3, <2>4, PerformContents
<1> QED
  BY <1>1, <1>5, <1>6, <1>7, <1>8 DEF IInv

\* A submission draws what its copies bring from staging, or what the device already has.
LEMMA SubmittedDraws ==
    ASSUME Types, Exclusive, FramesInv, ContentsInv, NEW b \in Drawn
    PROVE  Written(b) = IF b \in recorded \cup Copied \/ InFlight(b) THEN staging[b] ELSE device[b]
<1>1. CASE b \in {record[n].buffer : n \in Drawable}
  <2>1. PICK n \in Drawable : record[n].buffer = b
    BY <1>1
  <2>2. n \in Names /\ b # None /\ \A m \in Names : record[m].buffer = b => m = n
    BY <2>1 DEF Drawable, Exclusive
  <2>3. Written(b) = record[n].content
    BY <2>1, <2>2 DEF Written
  <2> QED
    BY <2>1, <2>3 DEF ContentsInv, Copied
<1>2. CASE b \in world
  <2>1. ~\E n \in Names : record[n].buffer = b
    BY <1>2, Bounds DEF Exclusive, Types, TypeOK
  <2>2. Written(b) = staging[b]
    BY <2>1 DEF Written
  <2> QED
    BY <1>2, <2>2 DEF ContentsInv, Copied
<1>3. CASE b \in OverlayStorage({"written"})
  <2>1. b \in Copied
    BY <1>3 DEF Copied, OverlayStorage
  <2>2. InSlot(b) /\ b # None
    BY <1>3, DrawnTypes, Bounds DEF OverlayStorage, InSlot, Types, TypeOK, FramesInv, Drawn
  <2>3. ~\E n \in Names : record[n].buffer = b
    BY <2>2 DEF Exclusive
  <2> QED
    BY <2>1, <2>3 DEF Written
<1> QED
  BY <1>1, <1>2, <1>3 DEF Drawn

\* Submit and Flush: the submission goes to the end of the queue.
Submitting(context, holds) ==
    /\ Perform
    /\ phase = "open" /\ recorded' = {}
    /\ queue' = Append(queue, Submission(context, holds))
    /\ UNCHANGED <<world, slot, valid, frame, device, staging>>
    /\ \A b \in pending \cup worldUploads \cup held : b \in held' \cup holds

LEMMA SubmittingInv ==
    ASSUME IInv, Types', NEW context, NEW holds, Submitting(context, holds),
           \/ context = frame /\ phase' = "submitted"
           \/ context = None /\ phase' = "flushing"
    PROVE  IInv'
<1>1. Types /\ OwnersInv /\ Exclusive /\ FramesInv /\ Perform
  BY DEF IInv, Submitting
<1>2. /\ UNCHANGED <<world, slot, valid, frame, device, staging>> /\ recorded' = {}
      /\ pending' = {} /\ worldUploads' = {} /\ phase = "open"
      /\ queue \in Seq(Submissions) /\ frame \in Contexts /\ None \notin Contexts
  BY <1>1, Bounds DEF Submitting, Perform, Types, TypeOK
<1> DEFINE s == Submission(context, holds)
           last == Len(queue) + 1
<1>3. /\ DOMAIN queue' = DOMAIN queue \cup {last} /\ last \notin DOMAIN queue
      /\ \A i \in DOMAIN queue : queue'[i] = queue[i] /\ i <= last /\ ~(last <= i)
      /\ queue'[last] = s /\ last <= last /\ DOMAIN queue \subseteq Int /\ last \in Int
  BY <1>2 DEF Submitting
<1>4. /\ s.context = context /\ s.copies = recorded \cup Copied
      /\ s.draws = [b \in Drawn |-> Written(b)] /\ DOMAIN s.draws = Drawn /\ s.holds = holds
  BY DEF Submission
<1> HIDE DEF s, last
<1>5. \A n \in Names : record'[n].buffer = record[n].buffer /\ record'[n].state = record[n].state
  BY <1>1, ClosedTickets
<1>6. \A b : Rooted(b) => Rooted(b)' \/ b \in holds
  BY <1>2, <1>5 DEF Rooted, InRecord, InSlot, Submitting
<1>7. OwnersInv'
  <2>1. \A b \in Copied \cup Drawn : Rooted(b)
    BY <1>1, FrameUses DEF Rooted
  <2>2. \A b \in recorded \cup Copied \cup Drawn : Rooted(b)' \/ b \in queue'[last].holds
    BY <1>1, <1>3, <1>4, <1>6, <2>1 DEF OwnersInv
  <2>3. ASSUME NEW i \in DOMAIN queue', NEW b \in queue'[i].copies \cup DOMAIN queue'[i].draws
        PROVE  Rooted(b)' \/ \E j \in DOMAIN queue' : j >= i /\ b \in queue'[j].holds
    <3>1. CASE i = last
      BY <1>3, <1>4, <2>2, <2>3, <3>1
    <3>2. CASE i # last
      <4>1. i \in DOMAIN queue /\ b \in Uses(i)
        BY <1>3, <2>3, <3>2 DEF Uses
      <4>2. CASE Rooted(b)
        BY <1>3, <1>4, <1>6, <4>1, <4>2
      <4>3. CASE \E j \in DOMAIN queue : j >= i /\ b \in queue[j].holds
        BY <1>3, <4>3
      <4> QED
        BY <1>1, <4>1, <4>2, <4>3 DEF OwnersInv
    <3> QED
      BY <3>1, <3>2
  <2> QED
    BY <1>1, <1>2, <1>5, <2>3 DEF OwnersInv, Uses
<1>8. FramesInv'
  <2>1. \A f \in Contexts : \A o \in OverlayNames :
            slot[f][o] \in recorded \cup Copied \cup Drawn => f = frame
    BY <1>1, FrameUses DEF FramesInv
  <2>2. \A i \in DOMAIN queue : queue[i].context # None /\ queue[i].context # frame
    BY <1>1, <1>2 DEF FramesInv
  <2>3. ASSUME NEW i \in DOMAIN queue'
        PROVE  /\ queue'[i].context = None => phase' = "flushing"
               /\ queue'[i].context = frame => phase' = "submitted"
               /\ \A f \in Contexts : \A o \in OverlayNames :
                      slot[f][o] \in queue'[i].copies \cup DOMAIN queue'[i].draws =>
                          queue'[i].context = f \/ (queue'[i].context = None /\ f = frame)
    <3>1. CASE i = last
      BY <1>2, <1>3, <1>4, <2>1, <3>1
    <3>2. CASE i # last
      BY <1>1, <1>3, <2>2, <2>3, <3>2 DEF FramesInv, Uses
    <3> QED
      BY <3>1, <3>2
  <2> QED
    BY <1>1, <1>2, <2>3 DEF FramesInv, Uses
<1>9. Exclusive'
  BY <1>1, <1>2, PerformExclusive
<1>10. TicketsInv' /\ ContentsInv' /\ DrawsInv'
  <2>1. TicketsInv /\ ContentsInv /\ DrawsInv
    BY DEF IInv
  <2>2. \A b : b \in recorded' \/ InFlight(b)' <=> b \in recorded \cup Copied \/ InFlight(b)
    BY <1>2, <1>3, <1>4 DEF InFlight
  <2>3. ASSUME NEW i \in DOMAIN queue', NEW b \in DOMAIN queue'[i].draws
        PROVE  queue'[i].draws[b] = IF \E j \in DOMAIN queue' : j <= i /\ b \in queue'[j].copies
                                    THEN staging[b] ELSE device[b]
    <3>1. CASE i = last
      <4>1. b \in Drawn /\ queue'[i].draws[b] = Written(b)
        BY <1>3, <1>4, <2>3, <3>1
      <4>2. (\E j \in DOMAIN queue' : j <= i /\ b \in queue'[j].copies)
                <=> b \in recorded \cup Copied \/ InFlight(b)
        BY <1>3, <1>4, <3>1 DEF InFlight
      <4> QED
        BY <1>1, <2>1, <4>1, <4>2, SubmittedDraws
    <3>2. CASE i # last
      <4>1. i \in DOMAIN queue /\ queue'[i] = queue[i]
        BY <1>3, <2>3, <3>2
      <4>2. (\E j \in DOMAIN queue' : j <= i /\ b \in queue'[j].copies)
                <=> \E j \in DOMAIN queue : j <= i /\ b \in queue[j].copies
        BY <1>3, <4>1
      <4> QED
        BY <2>1, <2>3, <4>1, <4>2 DEF DrawsInv
    <3> QED
      BY <3>1, <3>2
  <2>4. DrawsInv'
    BY <1>2, <2>3 DEF DrawsInv
  <2>5. \A b : IsDrawn(b)' => IsDrawn(b) \/ b \in Drawn
    BY <1>3, <1>4 DEF IsDrawn
  <2> QED
    BY <1>1, <1>2, <2>1, <2>2, <2>4, <2>5, PerformContents
<1> QED
  BY <1>7, <1>8, <1>9, <1>10 DEF IInv

LEMMA SubmitInv ==
    ASSUME IInv, Submit \/ Flush
    PROVE  IInv'
<1>1. Types /\ FramesInv /\ None \notin Storage
  BY Bounds DEF IInv
<1>2. Types'
  BY <1>1, FrameTypes DEF FramesInv, Types, TypeOK
<1>3. Retaining(pending \cup worldUploads) = held \cup pending \cup worldUploads
  BY <1>1 DEF Retaining, Types, TypeOK
<1>4. CASE Submit
  <2>1. Submitting(frame, Retaining(pending \cup worldUploads)) /\ phase' = "submitted"
    BY <1>3, <1>4 DEF Submit, Submitting, overlay
  <2> QED
    BY <1>2, <2>1, SubmittingInv
<1>5. CASE Flush
  <2>1. Submitting(None, {}) /\ phase' = "flushing"
    BY <1>3, <1>5 DEF Flush, Submitting, overlay
  <2> QED
    BY <1>2, <2>1, SubmittingInv
<1> QED
  BY <1>4, <1>5

-----------------------------------------------------------------------------
(* The frame ends and the GPU goes on.                                     *)

LEMMA FlushDoneInv ==
    ASSUME IInv, FlushDone
    PROVE  IInv'
<1>1. Types' /\ frame \in Contexts
  BY FrameTypes DEF IInv, FramesInv, Types, TypeOK
<1>2. /\ UNCHANGED <<record, ticket, pending, early, world, worldUploads, slot, valid, frame,
                     recorded, queue, device, held, staging>>
      /\ queue = <<>> /\ phase' = "open"
  BY DEF FlushDone, persistent, scene, overlay, gpu
<1>3. OwnersInv' /\ Exclusive'
  BY <1>2 DEF IInv, OwnersInv, Exclusive, Uses, Rooted, InRecord, InSlot
<1>4. FramesInv'
  BY <1>2 DEF IInv, FramesInv, Uses
<1>5. TicketsInv' /\ ContentsInv' /\ DrawsInv'
  BY <1>2
     DEF IInv, TicketsInv, ContentsInv, DrawsInv, InFlight, IsDrawn, InRecord, Open, Drawable
<1> QED
  BY <1>1, <1>3, <1>4, <1>5 DEF IInv

\* What the frame retained passes to the submission last made, if the GPU still has one.
LEMMA AcquireInv ==
    ASSUME IInv, NEW f \in Contexts, Acquire(f)
    PROVE  IInv'
<1>1. Types /\ OwnersInv /\ Exclusive /\ FramesInv /\ Types'
  BY FrameTypes DEF IInv, FramesInv
<1>2. /\ UNCHANGED <<record, ticket, pending, early, world, slot, recorded, device, staging>>
      /\ phase = "submitted" /\ phase' = "open" /\ frame' = f
      /\ recorded = {} /\ worldUploads = {} /\ worldUploads' = {}
      /\ valid' = [o \in OverlayNames |-> "none"]
      /\ queue \in Seq(Submissions)
  BY <1>1 DEF Acquire, persistent, FramesInv, Types
<1>3. DOMAIN queue' = DOMAIN queue /\ DOMAIN queue = 1 .. Len(queue) /\ Len(queue) \in Nat
  BY <1>2 DEF Acquire
<1>4. ASSUME NEW i \in DOMAIN queue
      PROVE  /\ queue'[i].context = queue[i].context /\ queue'[i].copies = queue[i].copies
             /\ queue'[i].draws = queue[i].draws /\ queue[i].holds \subseteq queue'[i].holds
             /\ i = Len(queue) => held \subseteq queue'[i].holds
  <2>1. queue'[i] = IF i = Len(queue) THEN [queue[i] EXCEPT !.holds = @ \cup held] ELSE queue[i]
    BY DEF Acquire
  <2>2. queue[i] \in Submissions
    BY <1>2
  <2> QED
    BY <2>1, <2>2 DEF Submissions
<1>5. OwnersInv'
  <2>1. ASSUME NEW i \in DOMAIN queue, NEW b \in Uses(i)
        PROVE  Rooted(b)' \/ \E j \in DOMAIN queue : j >= i /\ b \in queue'[j].holds
    <3>1. CASE Rooted(b) /\ b \notin held
      BY <1>2, <3>1 DEF Rooted, InRecord, InSlot
    <3>2. CASE b \in held
      <4>1. Len(queue) \in DOMAIN queue /\ Len(queue) >= i
        BY <1>3
      <4> QED
        BY <1>4, <3>2, <4>1
    <3>3. CASE \E j \in DOMAIN queue : j >= i /\ b \in queue[j].holds
      BY <1>4, <3>3
    <3> QED
      BY <1>1, <3>1, <3>2, <3>3 DEF OwnersInv
  <2> QED
    BY <1>1, <1>2, <1>3, <1>4, <2>1 DEF OwnersInv, Uses
<1>6. Exclusive'
  BY <1>1, <1>2 DEF Exclusive, InSlot
<1>7. FramesInv'
  <2>1. \A i \in DOMAIN queue : queue[i].context # f /\ queue[i].context # None
    BY <1>1, <1>2 DEF Acquire, FramesInv
  <2> QED
    BY <1>1, <1>2, <1>3, <1>4, <2>1 DEF FramesInv, Uses
<1>8. TicketsInv' /\ ContentsInv' /\ DrawsInv'
  <2>1. TicketsInv /\ ContentsInv /\ DrawsInv
    BY DEF IInv
  <2>2. \A b : (InFlight(b)' <=> InFlight(b)) /\ (IsDrawn(b)' <=> IsDrawn(b))
    BY <1>3, <1>4 DEF InFlight, IsDrawn
  <2>3. TicketsInv'
    BY <1>2, <2>1, <2>2 DEF TicketsInv, InRecord, Open
  <2>4. ContentsInv'
    BY <1>2, <2>1, <2>2 DEF ContentsInv, Drawable
  <2>5. DrawsInv'
    BY <1>2, <1>3, <1>4, <2>1 DEF DrawsInv
  <2> QED
    BY <2>3, <2>4, <2>5
<1> QED
  BY <1>1, <1>5, <1>6, <1>7, <1>8 DEF IInv

\* The GPU is done with the oldest submission: its copies are on the device now.
LEMMA ExecuteInv ==
    ASSUME IInv, Execute
    PROVE  IInv'
<1>1. Types /\ OwnersInv /\ Exclusive /\ FramesInv /\ Types'
  BY FrameTypes DEF IInv, FramesInv, Types, TypeOK
<1>2. /\ UNCHANGED <<record, ticket, pending, early, world, worldUploads, slot, valid, frame,
                     phase, recorded, held, staging>>
      /\ queue \in Seq(Submissions) /\ queue # <<>>
  BY <1>1 DEF Execute, persistent, scene, overlay, Types
<1>3. /\ 1 \in DOMAIN queue /\ DOMAIN queue = 1 .. Len(queue) /\ Len(queue) \in Nat
      /\ DOMAIN queue' = 1 .. Len(queue) - 1
      /\ \A i \in DOMAIN queue' : i + 1 \in DOMAIN queue /\ queue'[i] = queue[i + 1]
      /\ \A j \in DOMAIN queue : j # 1 => j - 1 \in DOMAIN queue' /\ queue'[j - 1] = queue[j]
  BY <1>2 DEF Execute
<1>4. \A b \in Storage : device'[b] = IF b \in queue[1].copies THEN staging[b] ELSE device[b]
  BY <1>2 DEF Execute, After
<1>5. OwnersInv'
  <2>1. ASSUME NEW i \in DOMAIN queue', NEW b \in queue'[i].copies \cup DOMAIN queue'[i].draws
        PROVE  Rooted(b) \/ \E j \in DOMAIN queue' : j >= i /\ b \in queue'[j].holds
    <3>1. b \in Uses(i + 1) /\ i + 1 \in DOMAIN queue
      BY <1>3, <2>1 DEF Uses
    <3>2. CASE \E j \in DOMAIN queue : j >= i + 1 /\ b \in queue[j].holds
      <4>1. PICK j \in DOMAIN queue : j >= i + 1 /\ b \in queue[j].holds
        BY <3>2
      <4>2. j - 1 \in DOMAIN queue' /\ queue'[j - 1] = queue[j] /\ j - 1 >= i
        BY <1>3, <4>1
      <4> QED
        BY <4>1, <4>2
    <3> QED
      BY <1>1, <3>1, <3>2 DEF OwnersInv
  <2> QED
    BY <1>1, <1>2, <2>1 DEF OwnersInv, Uses, Rooted, InRecord, InSlot
<1>6. Exclusive'
  BY <1>1, <1>2 DEF Exclusive, InSlot
<1>7. FramesInv'
  BY <1>1, <1>2, <1>3 DEF FramesInv, Uses
<1>8. TicketsInv' /\ ContentsInv' /\ DrawsInv'
  <2>1. TicketsInv /\ ContentsInv /\ DrawsInv
    BY DEF IInv
  <2>2. \A b : (InFlight(b)' => InFlight(b)) /\ (IsDrawn(b)' => IsDrawn(b))
    BY <1>3 DEF InFlight, IsDrawn
  <2>3. \A b \in Storage : InFlight(b) => InFlight(b)' \/ device'[b] = staging[b]
    BY <1>3, <1>4 DEF InFlight
  <2>4. \A b \in Storage : device'[b] = device[b] \/ device'[b] = staging[b]
    BY <1>4
  <2>5. \A n \in Names : record[n].buffer \in Storage \cup {None}
    BY <1>1, RecordFields
  <2>6. TicketsInv'
    BY <1>2, <2>1, <2>2 DEF TicketsInv, InRecord, Open
  <2>7. ContentsInv'
    <3>1. ASSUME NEW n \in Drawable
          PROVE  record[n].buffer \in pending \cup recorded \/ InFlight(record[n].buffer)'
                     \/ device'[record[n].buffer] = staging[record[n].buffer]
      <4> DEFINE b == record[n].buffer
      <4>1. b \in Storage
        BY <2>5 DEF Drawable
      <4>2. b \in pending \cup recorded \/ InFlight(b) \/ device[b] = staging[b]
        BY <2>1 DEF ContentsInv
      <4>3. (\E i \in DOMAIN queue' : b \in queue'[i].copies) \/ b \in pending \cup recorded
                \/ device'[b] = staging[b]
        BY <2>3, <2>4, <4>1, <4>2 DEF InFlight
      <4> QED
        BY <1>2, <4>3 DEF InFlight
    <3>2. \A b \in world : b \in worldUploads \cup recorded \/ InFlight(b)'
                               \/ device'[b] = staging[b]
      BY <1>1, <2>1, <2>3, <2>4 DEF ContentsInv, Types, TypeOK
    <3> QED
      BY <1>2, <2>1, <3>1, <3>2 DEF ContentsInv, Drawable
  <2>8. DrawsInv'
    <3>1. ASSUME NEW i \in DOMAIN queue', NEW b \in DOMAIN queue'[i].draws
          PROVE  queue'[i].draws[b] = IF \E j \in DOMAIN queue' : j <= i /\ b \in queue'[j].copies
                                      THEN staging[b] ELSE device'[b]
      <4>1. i + 1 \in DOMAIN queue /\ b \in DOMAIN queue[i + 1].draws /\ b \in Storage
            /\ queue'[i] = queue[i + 1]
        BY <1>1, <1>3, <3>1 DEF Types, TypeOK
      <4>2. (\E j \in DOMAIN queue : j <= i + 1 /\ b \in queue[j].copies)
                <=> b \in queue[1].copies
                    \/ \E j \in DOMAIN queue' : j <= i /\ b \in queue'[j].copies
        <5>1. ASSUME NEW j \in DOMAIN queue, j <= i + 1, b \in queue[j].copies, j # 1
              PROVE  \E k \in DOMAIN queue' : k <= i /\ b \in queue'[k].copies
          <6>1. j - 1 \in DOMAIN queue' /\ queue'[j - 1] = queue[j] /\ j - 1 <= i
            BY <1>3, <5>1
          <6> QED
            BY <5>1, <6>1
        <5>2. ASSUME NEW j \in DOMAIN queue', j <= i, b \in queue'[j].copies
              PROVE  \E k \in DOMAIN queue : k <= i + 1 /\ b \in queue[k].copies
          <6>1. j + 1 \in DOMAIN queue /\ queue'[j] = queue[j + 1] /\ j + 1 <= i + 1
            BY <1>3, <5>2
          <6> QED
            BY <5>2, <6>1
        <5>3. 1 <= i + 1
          BY <1>3
        <5> QED
          BY <1>3, <5>1, <5>2, <5>3
      <4>3. queue[i + 1].draws[b] = IF \E j \in DOMAIN queue : j <= i + 1 /\ b \in queue[j].copies
                                    THEN staging[b] ELSE device[b]
        BY <2>1, <4>1 DEF DrawsInv
      <4> QED
        BY <1>4, <4>1, <4>2, <4>3
    <3> QED
      BY <1>2, <3>1 DEF DrawsInv
  <2> QED
    BY <2>6, <2>7, <2>8
<1> QED
  BY <1>1, <1>5, <1>6, <1>7, <1>8 DEF IInv

-----------------------------------------------------------------------------
(* The invariant                                                           *)

LEMMA InitInv ==
    ASSUME Init
    PROVE  IInv
<1>1. Types
  <2>1. record \in [Names -> Record]
    BY RecordTypes DEF Init
  <2>2. staging \in [Storage -> Content] /\ device \in [Storage -> Content]
    BY ContentTypes DEF Init
  <2>3. queue = <<>> /\ queue \in Seq(Submissions)
    BY DEF Init
  <2>4. ticket \in 1 .. MaxTicket /\ writes \in 0 .. MaxWrites
    BY Bounds DEF Init
  <2> QED
    BY <2>1, <2>2, <2>3, <2>4 DEF Init, Types, TypeOK
<1>2. \A n \in Names : record[n] = [state |-> "unallocated", buffer |-> None, ready |-> FALSE,
                                    ticket |-> 0, content |-> Blank]
  BY DEF Init, Unset
<1>3. OwnersInv /\ Exclusive /\ FramesInv
  BY <1>2, Bounds DEF Init, OwnersInv, Exclusive, FramesInv, InSlot
<1>4. TicketsInv /\ ContentsInv /\ DrawsInv
  BY <1>2, Bounds DEF Init, TicketsInv, ContentsInv, DrawsInv, Drawable, InFlight, IsDrawn, Open
<1> QED
  BY <1>1, <1>3, <1>4 DEF IInv

LEMMA NextInv ==
    ASSUME IInv, [Next]_vars
    PROVE  IInv'
<1>1. ASSUME NEW n \in Names, NEW b, NEW c,
             \/ Allocate(n) \/ Release(n) \/ Upload(n) \/ Initialize(n, b)
             \/ c \in Cells /\ (UploadRangeInPlace(n, c) \/ UploadRangeToCopy(n, c, b))
      PROVE  IInv'
  BY <1>1, PersistentActions
<1>2. ASSUME NEW o \in OverlayNames, AllocateOverlay(o) \/ InitializeOverlay(o) \/ UploadOverlay(o)
      PROVE  IInv'
  BY <1>2, OverlayActions
<1>3. ASSUME NEW b \in Storage, UploadWorld(b) \/ RetireWorld(b)
      PROVE  IInv'
  BY <1>3, WorldActions
<1>4. CASE PerformUploads \/ Submit \/ Flush \/ FlushDone \/ Execute
  BY <1>4, PerformUploadsInv, SubmitInv, FlushDoneInv, ExecuteInv
<1>5. ASSUME NEW f \in Contexts, Acquire(f)
      PROVE  IInv'
  BY <1>5, AcquireInv
<1>6. CASE UNCHANGED vars
  <2>1. UNCHANGED <<record, ticket, pending, early, world, worldUploads, slot, valid, frame,
                    phase, recorded, queue, held, staging, device, writes>>
    BY <1>6 DEF vars
  <2>2. Types'
    BY <2>1 DEF IInv, Types, TypeOK
  <2>3. OwnersInv' /\ Exclusive' /\ FramesInv'
    BY <2>1 DEF IInv, OwnersInv, Exclusive, FramesInv, Rooted, InRecord, InSlot, Uses
  <2>4. TicketsInv' /\ ContentsInv' /\ DrawsInv'
    BY <2>1
       DEF IInv, TicketsInv, ContentsInv, DrawsInv, Drawable, InFlight, IsDrawn, InRecord, Open
  <2> QED
    BY <2>2, <2>3, <2>4 DEF IInv
<1> QED
  BY <1>1, <1>2, <1>3, <1>4, <1>5, <1>6 DEF Next

\* The invariant all that follows rests on.
THEOREM Invariant == Spec => []IInv
BY InitInv, NextInv, PTL DEF Spec

-----------------------------------------------------------------------------
(* The properties                                                          *)

\* Names, storage, tickets, submissions and what is written stay in their types.
THEOREM TypeCorrect == Spec => []TypeOK
<1>1. IInv => TypeOK
  BY DEF IInv, Types
<1> QED
  BY <1>1, Invariant, PTL

\* However names are released, storage is replaced and geometry retired while frames are in
\* flight, nothing a recorded or submitted copy or draw uses is without an owner.
THEOREM UsedHasOwner == Spec => []UsedIsOwned
<1>1. ASSUME IInv
      PROVE  UsedIsOwned
  <2>1. OwnersInv
    BY <1>1 DEF IInv
  <2>2. ASSUME NEW b, Rooted(b)
        PROVE  b \in Owned
    <3> DEFINE slots == UNION {{slot[f][o] : o \in OverlayNames} : f \in Contexts}
    <3>1. InSlot(b) => b \in slots
      BY DEF InSlot
    <3>2. InRecord(b) => b \in {record[n].buffer : n \in Names}
      BY DEF InRecord
    <3> HIDE DEF slots
    <3>3. slots \subseteq Owned
      BY DEF slots, Owned
    <3> QED
      BY <2>2, <3>1, <3>2, <3>3 DEF Rooted, Owned
  <2>3. \A j \in DOMAIN queue : queue[j].holds \subseteq Owned
    <3>1. \A j \in DOMAIN queue : queue[j].holds \subseteq UNION {queue[i].holds : i \in DOMAIN queue}
      OBVIOUS
    <3> QED
      BY <3>1 DEF Owned
  <2> QED
    BY <2>1, <2>2, <2>3 DEF OwnersInv, UsedIsOwned, Uses
<1> QED
  BY <1>1, Invariant, PTL

\* Storage that may be written in place is drawn by no submission, and read by no copy
\* recorded or in flight but one of ranges written before its full upload; at any width of
\* the ticket, because the roll-over closes all storage at once.
THEOREM OpenStorageIsUnrecorded == Spec => []OpenIsUnrecorded
<1>1. IInv => OpenIsUnrecorded
  BY DEF IInv, TicketsInv, OpenIsUnrecorded, InFlight, IsDrawn
<1> QED
  BY <1>1, Invariant, PTL

\* Whatever is written, replaced, recycled or flushed in between, a submission draws what
\* the client had written when it was recorded, for any number of frames in flight, and
\* also when ranges were written before the full upload.
THEOREM SubmissionsDrawWhatWasWritten == Spec => []DrawsWhatWasWritten
<1>1. ASSUME IInv
      PROVE  DrawsWhatWasWritten
  <2>1. DrawsInv /\ queue \in Seq(Submissions)
    BY <1>1 DEF IInv, Types
  <2>2. ASSUME queue # <<>>, NEW b \in DOMAIN Head(queue).draws
        PROVE  After(Head(queue))[b] = Head(queue).draws[b]
    <3>1. 1 \in DOMAIN queue /\ Head(queue) = queue[1]
          /\ \A j \in DOMAIN queue : j <= 1 <=> j = 1
      BY <2>1, <2>2
    <3>2. b \in Storage
      BY <1>1, <2>2, <3>1 DEF IInv, Types, TypeOK
    <3>3. queue[1].draws[b] = IF b \in queue[1].copies THEN staging[b] ELSE device[b]
      BY <2>1, <2>2, <3>1 DEF DrawsInv
    <3> QED
      BY <3>1, <3>2, <3>3 DEF After
  <2> QED
    BY <2>2 DEF DrawsWhatWasWritten
<1> QED
  BY <1>1, Invariant, PTL
=============================================================================
