------------------------------ MODULE Buffers ------------------------------
(***************************************************************************)
(* The vertex, index and storage buffers of class Buffers and their way to *)
(* the GPU.  A buffer is a mapped staging allocation and a device          *)
(* allocation.  The client writes to staging; performQueuedUpload records  *)
(* the copies of a frame and the GPU reads staging when it executes them,  *)
(* frames later.  Persistent buffers keep their name and change their      *)
(* storage: PersistentWriteBatch tells by a ticket whether a range may be  *)
(* written in place.  Overlay buffers are named anew in every frame, and   *)
(* world buffers are written once by those who build geometry.             *)
(***************************************************************************)
EXTENDS Integers, Sequences

CONSTANTS Names,        \* names of persistent buffers
          OverlayNames, \* overlay names that can be allocated in a frame
          Storage,      \* buffers that can exist at a time
          Cells,        \* the ranges a persistent buffer is written by
          Contexts,     \* frame contexts, one per swapchain image
          MaxTicket,    \* the largest write ticket: 2^32 - 1 in the code
          MaxWrites,    \* a bound on the writes of the client
          None          \* no storage, and no context

ASSUME MaxTicketAssumption == MaxTicket \in Nat \ {0}
ASSUME MaxWritesAssumption == MaxWrites \in Nat

ASSUME NoneAssumption == None \notin Storage \cup Contexts

VARIABLES
    record,   \* persistentBuffers_: per name its storage, whether it awaits a full upload,
              \* its write ticket, and what the client has written
    ticket,   \* current_ of the write batch
    pending,  \* pendingPersistentUploads_
    early,    \* history: storage of a name copied while it still awaited its full upload
    world,    \* buffers of resident geometry
    worldUploads, \* importantIndexVertexBuffer_
    slot,     \* overlayIndexVertexBuffer_: per context and name
    valid,    \* validOverlayIndex_ of the current context, and what was written
    frame,    \* the current context
    phase,    \* where the render thread is in its frame
    recorded, \* copies in the upload command buffer of the open frame
    queue,    \* submissions the GPU has not executed, in order
    held,     \* what the open frame, or the last one, has retained
    staging,  \* per buffer and cell: the number of the write, 0 for none
    device,   \* the same of the device allocation
    writes    \* writes of the client

vars == <<record, ticket, pending, early, world, worldUploads, slot, valid, frame, phase,
          recorded, queue, held, staging, device, writes>>

gpu == <<queue, device>>
loop == <<frame, phase, recorded, queue, device>>
overlay == <<slot, valid>>
persistent == <<record, ticket, pending, early>>
scene == <<world, worldUploads>>

Blank == [c \in Cells |-> 0]
Filled(n) == [c \in Cells |-> n]
\* A record without storage, and a name not in the table: never allocated or released.
Unset(state) == [state |-> state, buffer |-> None, ready |-> FALSE, ticket |-> 0,
                 content |-> Blank]

-----------------------------------------------------------------------------
\* Who owns a buffer: the records, the lists, the slots and the retained groups.
Owned ==
    {record[n].buffer : n \in Names} \cup pending \cup world \cup worldUploads
        \cup (UNION {{slot[f][o] : o \in OverlayNames} : f \in Contexts})
        \cup held \cup (UNION {queue[i].holds : i \in DOMAIN queue})

\* DeviceLocalBuffer::create: storage nobody owns.
Fresh(b) == b \in Storage /\ b \notin Owned

\* The frame retainer keeps what a frame retires until the GPU has executed the frame.
RetainingNothing(bs) == held  \* as if what is retired were freed

Retaining(bs) == held \cup (bs \ {None})

Init ==
    /\ record = [n \in Names |-> Unset("unallocated")]
    /\ ticket = 1
    /\ pending = {}
    /\ early = {}
    /\ world = {}
    /\ worldUploads = {}
    /\ slot = [f \in Contexts |-> [o \in OverlayNames |-> None]]
    /\ valid = [o \in OverlayNames |-> "none"]
    /\ frame \in Contexts
    /\ phase = "open"
    /\ recorded = {}
    /\ queue = <<>>
    /\ held = {}
    /\ staging = [b \in Storage |-> Blank]
    /\ device = [b \in Storage |-> Blank]
    /\ writes = 0

-----------------------------------------------------------------------------
\* Persistent buffers.
Allocate(n) ==
    /\ record[n].state = "unallocated"
    /\ record' = [record EXCEPT ![n] = Unset("allocated")]
    /\ UNCHANGED <<ticket, pending, early, scene, overlay, loop, held, staging, writes>>

Release(n) ==
    /\ record[n].state = "allocated"
    /\ held' = Retaining({record[n].buffer})
    /\ record' = [record EXCEPT ![n] = Unset("released")]
    /\ early' = early \ {record[n].buffer}
    /\ UNCHANGED <<ticket, pending, scene, overlay, loop, staging, writes>>

\* initializeBuffer of a persistent name: new storage, to be written in full or by ranges.
Initialize(n, b) ==
    /\ record[n].state = "allocated"
    /\ Fresh(b)
    /\ held' = Retaining({record[n].buffer})
    /\ record' = [record EXCEPT ![n] = [state |-> "allocated", buffer |-> b, ready |-> TRUE,
                                        ticket |-> 0, content |-> Blank]]
    /\ early' = early \ {record[n].buffer}
    /\ staging' = [staging EXCEPT ![b] = Blank]
    /\ UNCHANGED <<ticket, pending, scene, overlay, loop, writes>>

\* queueOverlayUpload of a persistent name: once per initialisation.
Upload(n) ==
    /\ writes < MaxWrites
    /\ record[n].buffer # None /\ record[n].ready
    /\ writes' = writes + 1
    /\ staging' = [staging EXCEPT ![record[n].buffer] = Filled(writes')]
    /\ pending' = pending \cup {record[n].buffer}
    /\ record' = [record EXCEPT ![n].ready = FALSE, ![n].ticket = ticket,
                               ![n].content = Filled(writes')]
    /\ UNCHANGED <<ticket, early, scene, overlay, loop, held>>

\* stagePersistentRange while the storage belongs to the open batch: in place.  Ranges
\* may also be written to storage that awaits its full upload, and leave it awaiting.
UploadRangeInPlace(n, c) ==
    /\ writes < MaxWrites
    /\ record[n].buffer # None
    /\ record[n].ticket = ticket
    /\ writes' = writes + 1
    /\ staging' = [staging EXCEPT ![record[n].buffer][c] = writes']
    /\ pending' = pending \cup {record[n].buffer}
    /\ record' = [record EXCEPT ![n].content[c] = writes']
    /\ UNCHANGED <<ticket, early, scene, overlay, loop, held>>

\* The copy of the storage of a name, with a range written.
RangeAlone(n, c, w) == [Blank EXCEPT ![c] = w]  \* as if the rest were not copied

RangeCopied(n, c, w) == [staging[record[n].buffer] EXCEPT ![c] = w]

\* Otherwise copies may be reading the storage: the range is written to a copy of it.
UploadRangeToCopy(n, c, b) ==
    /\ writes < MaxWrites
    /\ record[n].buffer # None
    /\ record[n].ticket # ticket
    /\ Fresh(b)
    /\ writes' = writes + 1
    /\ staging' = [staging EXCEPT ![b] = RangeCopied(n, c, writes')]
    /\ held' = Retaining({record[n].buffer})
    /\ pending' = pending \cup {b}
    /\ record' = [record EXCEPT ![n].buffer = b, ![n].ticket = ticket,
                               ![n].content[c] = writes']
    /\ early' = early \ {record[n].buffer}
    /\ UNCHANGED <<ticket, scene, overlay, loop>>

-----------------------------------------------------------------------------
\* Overlay buffers of the open frame.
AllocateOverlay(o) ==
    /\ phase = "open" /\ valid[o] = "none"
    /\ valid' = [valid EXCEPT ![o] = "allocated"]
    /\ UNCHANGED <<persistent, scene, slot, loop, held, staging, writes>>

\* ensureOverlayBuffer: the slot of an earlier frame of this context will do, or is too
\* small or lacks a usage.
InitializeOverlay(o) ==
    /\ phase = "open" /\ valid[o] # "none"
    /\ valid' = [valid EXCEPT ![o] = "sized"]
    /\ \/ /\ slot[frame][o] # None
          /\ UNCHANGED <<slot, held, staging>>
       \/ \E b \in Storage :
              /\ Fresh(b)
              /\ held' = Retaining({slot[frame][o]})
              /\ slot' = [slot EXCEPT ![frame][o] = b]
              /\ staging' = [staging EXCEPT ![b] = Blank]
    /\ UNCHANGED <<persistent, scene, loop, writes>>

UploadOverlay(o) ==
    /\ phase = "open" /\ valid[o] \in {"sized", "written"} /\ writes < MaxWrites
    /\ valid' = [valid EXCEPT ![o] = "written"]
    /\ writes' = writes + 1
    /\ staging' = [staging EXCEPT ![slot[frame][o]] = Filled(writes')]
    /\ UNCHANGED <<persistent, scene, slot, loop, held>>

\* queueImportantWorldUpload, by the builders of geometry, in an open frame.
UploadWorld(b) ==
    /\ phase = "open" /\ writes < MaxWrites
    /\ Fresh(b)
    /\ writes' = writes + 1
    /\ staging' = [staging EXCEPT ![b] = Filled(writes')]
    /\ world' = world \cup {b}
    /\ worldUploads' = worldUploads \cup {b}
    /\ UNCHANGED <<persistent, overlay, loop, held>>

\* The geometry is replaced: its owner retires the buffer.
RetireWorld(b) ==
    /\ b \in world
    /\ world' = world \ {b}
    /\ held' = Retaining({b})
    /\ UNCHANGED <<persistent, worldUploads, overlay, loop, staging, writes>>

-----------------------------------------------------------------------------
OverlayStorage(states) == {slot[frame][o] : o \in {p \in OverlayNames : valid[p] \in states}}

\* What getBuffer lets the frame draw with: storage uploaded since it was initialised.
\* A client does not draw overlay buffers it has not written.
Drawable == {n \in Names : record[n].buffer # None /\ ~record[n].ready}
Drawn == {record[n].buffer : n \in Drawable} \cup world \cup OverlayStorage({"written"})

\* What the client has written to storage.
Written(b) ==
    IF \E n \in Names : record[n].buffer = b
    THEN record[CHOOSE n \in Names : record[n].buffer = b].content
    ELSE staging[b]

\* The copies performQueuedUpload records.
Copied == pending \cup worldUploads \cup OverlayStorage({"sized", "written"})

\* PersistentWriteBatch::close: on roll-over no ticket survives.
NextTicket == IF ticket = MaxTicket THEN 1 ELSE ticket + 1

TicketsKept == record  \* as if the tickets survived a roll-over

TicketsAfterClose ==
    IF ticket = MaxTicket THEN [n \in Names |-> [record[n] EXCEPT !.ticket = 0]] ELSE record

\* Storage that awaits its full upload and is copied for the ranges written so far.
CopiedEarly == {record[n].buffer : n \in {m \in Names : record[m].ready}} \cap pending

\* performQueuedUpload, up to what becomes of the copies it records.
Perform ==
    /\ worldUploads' = {}
    /\ pending' = {}
    /\ ticket' = NextTicket
    /\ record' = TicketsAfterClose
    /\ early' = early \cup CopiedEarly

\* The client asks for the copies to be recorded; the frame goes on.
PerformUploads ==
    /\ phase = "open"
    /\ Copied # {}
    /\ Perform
    /\ held' = Retaining(pending \cup worldUploads)
    /\ recorded' = recorded \cup Copied
    /\ UNCHANGED <<world, overlay, frame, phase, gpu, staging, writes>>

\* All that is recorded, what it draws with and what that ought to hold.
Submission(context, holds) ==
    [context |-> context, copies |-> recorded \cup Copied,
     draws |-> [b \in Drawn |-> Written(b)], holds |-> holds]

\* submitCommand: what the frame retained is held until it is executed.
Submit ==
    /\ phase = "open"
    /\ Perform
    /\ queue' = Append(queue, Submission(frame, Retaining(pending \cup worldUploads)))
    /\ held' = {}
    /\ recorded' = {}
    /\ phase' = "submitted"
    /\ UNCHANGED <<world, overlay, frame, device, staging, writes>>

\* flushForReadback submits what is recorded so far and waits; the frame goes on.
Flush ==
    /\ phase = "open"
    /\ Perform
    /\ queue' = Append(queue, Submission(None, {}))
    /\ held' = Retaining(pending \cup worldUploads)
    /\ recorded' = {}
    /\ phase' = "flushing"
    /\ UNCHANGED <<world, overlay, frame, device, staging, writes>>

FlushDone ==
    /\ phase = "flushing" /\ queue = <<>>
    /\ phase' = "open"
    /\ UNCHANGED <<persistent, scene, overlay, frame, recorded, gpu, held, staging, writes>>

\* acquireContext waits for the frame last submitted with the context.  What was retired
\* since the last submission is held until that is executed.  resetFrame() starts the
\* overlay names over and drops the world uploads.
Acquire(f) ==
    /\ phase = "submitted"
    /\ \A i \in DOMAIN queue : queue[i].context # f
    /\ frame' = f
    /\ phase' = "open"
    /\ queue' = [i \in DOMAIN queue |->
                     IF i = Len(queue) THEN [queue[i] EXCEPT !.holds = @ \cup held] ELSE queue[i]]
    /\ held' = worldUploads
    /\ worldUploads' = {}
    /\ valid' = [o \in OverlayNames |-> "none"]
    /\ UNCHANGED <<persistent, world, slot, recorded, device, staging, writes>>

\* The GPU executes the oldest submission: its copies, then its draws.
After(s) == [b \in Storage |-> IF b \in s.copies THEN staging[b] ELSE device[b]]

Execute ==
    /\ queue # <<>>
    /\ device' = After(Head(queue))
    /\ queue' = Tail(queue)
    /\ UNCHANGED <<persistent, scene, overlay, frame, phase, recorded, held, staging, writes>>

Next ==
    \/ \E n \in Names :
           \/ Allocate(n) \/ Release(n) \/ Upload(n)
           \/ \E b \in Storage : Initialize(n, b)
           \/ \E c \in Cells :
                  \/ UploadRangeInPlace(n, c)
                  \/ \E b \in Storage : UploadRangeToCopy(n, c, b)
    \/ \E o \in OverlayNames : AllocateOverlay(o) \/ InitializeOverlay(o) \/ UploadOverlay(o)
    \/ \E b \in Storage : UploadWorld(b) \/ RetireWorld(b)
    \/ PerformUploads \/ Submit \/ Flush \/ FlushDone
    \/ \E f \in Contexts : Acquire(f)
    \/ Execute

Spec == Init /\ [][Next]_vars

-----------------------------------------------------------------------------
Content == [Cells -> 0 .. MaxWrites]
Record == [state : {"unallocated", "allocated", "released"}, buffer : Storage \cup {None},
           ready : BOOLEAN, ticket : 0 .. MaxTicket, content : Content]

TypeOK ==
    /\ record \in [Names -> Record]
    /\ ticket \in 1 .. MaxTicket
    /\ pending \subseteq Storage /\ early \subseteq Storage
    /\ world \subseteq Storage /\ worldUploads \subseteq Storage
    /\ slot \in [Contexts -> [OverlayNames -> Storage \cup {None}]]
    /\ valid \in [OverlayNames -> {"none", "allocated", "sized", "written"}]
    /\ frame \in Contexts
    /\ phase \in {"open", "flushing", "submitted"}
    /\ recorded \subseteq Storage /\ held \subseteq Storage
    /\ \A i \in DOMAIN queue :
           /\ queue[i].context \in Contexts \cup {None}
           /\ queue[i].copies \subseteq Storage /\ queue[i].holds \subseteq Storage
           /\ queue[i].draws \in [DOMAIN queue[i].draws -> Content]
           /\ DOMAIN queue[i].draws \subseteq Storage
    /\ staging \in [Storage -> Content] /\ device \in [Storage -> Content]
    /\ writes \in 0 .. MaxWrites

(***************************************************************************)
(* A frame draws what the client had written when it was recorded: neither *)
(* a later write to a name, nor another owner's to recycled storage, nor a *)
(* write missing from a copy of the storage shows in a frame that was      *)
(* already submitted, however late the GPU executes it.                    *)
(***************************************************************************)
DrawsWhatWasWritten ==
    queue # <<>> =>
        LET s == Head(queue)
        IN  \A b \in DOMAIN s.draws : After(s)[b] = s.draws[b]

(***************************************************************************)
(* Storage the GPU may still read or write has an owner: releasing names,  *)
(* replacing storage and retiring geometry never free what a recorded or   *)
(* submitted copy or draw uses.                                            *)
(***************************************************************************)
UsedIsOwned ==
    /\ recorded \subseteq Owned
    /\ \A i \in DOMAIN queue : queue[i].copies \cup DOMAIN queue[i].draws \subseteq Owned

(***************************************************************************)
(* Storage that may be written in place - in the batch that staged it, or  *)
(* in full while it awaits that - is drawn by no submission, and no copy   *)
(* of it is recorded or in flight, also after the tickets have rolled      *)
(* over.  The copies of ranges written before the full upload are exempt:  *)
(* they read storage nothing draws, and are followed by another copy.      *)
(***************************************************************************)
Open(n) == record[n].ready \/ record[n].ticket = ticket

OpenIsUnrecorded ==
    \A n \in Names : Open(n) =>
        LET b == record[n].buffer
        IN  /\ \A i \in DOMAIN queue : b \notin DOMAIN queue[i].draws
            /\ b \notin early => /\ b \notin recorded
                                 /\ \A i \in DOMAIN queue : b \notin queue[i].copies

=============================================================================
