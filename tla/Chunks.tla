------------------------------- MODULE Chunks -------------------------------
(***************************************************************************)
(* Chunk meshes on their way to the GPU: class Chunks, its Chunk1 slots    *)
(* and the ChunkBuildScheduler.                                            *)
(*                                                                         *)
(* Three kinds of actor share the state.  Producers (the game's mesh       *)
(* workers) bring meshes through queueChunkBuild, which drops the mutex    *)
(* while it copies vertices.  The render thread polls finished batches and *)
(* schedules new ones, and drops the mutex while it builds and submits.    *)
(* The game dirties, invalidates, relocates, allocates and releases slots. *)
(* Every action below is one section of code under Chunks::mutex_, or one  *)
(* step of the render thread or of the GPU outside it.                     *)
(*                                                                         *)
(* A build's content is who it was meshed for (`owner'), its version and   *)
(* what its geometry holds.  A slot's owner is the section or the external *)
(* object that occupies it: history, unknown to the code.                  *)
(***************************************************************************)
EXTENDS HandleTable, FiniteSets

CONSTANTS
    ImplicitSlots,   \* slots whose builds carry generation -1
    Producers,       \* the game's mesh worker threads
    Fences,          \* chunkBuildingTotalBatches fences, a command buffer each
    BatchSize,       \* chunkBuildingBatchSize
    Kinds,           \* the geometry contents to enumerate
    EmissionSettings,\* the values of the light collection option to enumerate
    MaxVersion,      \* a bound on generations and versions
    MaxOwners,       \* a bound on the owners of all slots together
    MaxThrows,       \* a bound on the builds that throw
    NoBuild

ASSUME SlotsAssumption == MaxSlots \in Nat /\ PrimaryCounts \subseteq 0 .. MaxSlots
ASSUME FencesAssumption == IsFiniteSet(Fences)
ASSUME KindsAssumption == Kinds \subseteq {"empty", "plain", "emissive"}
ASSUME EmissionAssumption == EmissionSettings \subseteq BOOLEAN
ASSUME BoundsAssumption ==
    MaxVersion \in Nat /\ MaxOwners \in Nat /\ MaxThrows \in Nat /\ BatchSize \in Nat

Versions == -1 .. MaxVersion

\* ChunkBuildData.  `lit' says that it holds light records for emissive faces.
Build == [slot : Nat, sgen : Nat, version : Versions, owner : Nat,
          kind : Kinds, lit : BOOLEAN]

ASSUME NoBuildAssumption == NoBuild \notin Build

VARIABLES
    handles,      \* externalHandles_
    chunks,       \* chunks_: per slot a Chunk1
    buildDatas,   \* chunkBuildDatas_: per slot the newest build not yet scheduled
    queued,       \* queuedIndex_
    packed,       \* chunkPackedData_: per slot the build whose lights it points to
    collect,      \* options.collectChunkEmission
    scheduler,    \* whether chunkBuildScheduler_ exists
    freeFences,   \* freeFences_, and with each its command buffer
    gpu,          \* per fence: "idle" (reset), "pending" or "signaled"
    inFlight,     \* building{Fences,CommandBuffers,Batches}_: a batch knows the fences
                  \* of those submitted before it, which gives their order
    render,       \* where the render thread is inside tryScheduleBatches
    producers,    \* per producer: its call to queueChunkBuild
    fatal,        \* a failure was recorded: Framework::running_ is false
    \* history:
    owner,        \* per slot: who occupies it; 0 is nobody
    nextOwner,
    issued,       \* per slot: the newest generation the game has used
    accepted,     \* per slot: the newest version accepted and not withdrawn, or -1
    lost          \* fences that left the pool in a build that threw

slotVars == <<handles, chunks, buildDatas, queued, packed>>
poolVars == <<scheduler, freeFences, gpu, inFlight, lost>>
historyVars == <<owner, nextOwner, issued, accepted>>
vars == <<handles, chunks, buildDatas, queued, packed, collect, scheduler, freeFences,
          gpu, inFlight, render, producers, fatal, owner, nextOwner, issued, accepted,
          lost>>

Slots == StorageSlots(handles)

SlotIds == 0 .. MaxSlots - 1

MaxOf(a, b) == IF a >= b THEN a ELSE b

-----------------------------------------------------------------------------
(* Chunk1                                                                  *)

FreshChunk == [latest |-> 0, desired |-> -1, blasVersion |-> -1, mesh |-> NoBuild]

\* Mutant: whatever is newer than the published build is published.
AcceptsNewer(c, d) == d.version > c.blasVersion

\* Chunk1::enqueue publishes a build only if it is the one the slot wants and
\* newer than what the slot shows.
Accepts(c, d) == d.version = c.desired /\ d.version > c.blasVersion

Published(c, d) == [c EXCEPT !.blasVersion = d.version, !.mesh = d]

MarkedDirty(c, g) ==
    IF g >= 0
    THEN [c EXCEPT !.desired = MaxOf(@, g), !.latest = MaxOf(@, g + 1)]
    ELSE c

Invalidated(c, g) ==
    IF g >= 0
    THEN [MarkedDirty(c, g) EXCEPT !.mesh = NoBuild]
    ELSE [latest |-> c.latest + 1, desired |-> c.latest, blasVersion |-> c.latest,
          mesh |-> NoBuild]

\* The light buffer a published mesh holds, as storeChunkPackedData records it.
LightOf(m) == IF m # NoBuild THEN (IF m.lit THEN m ELSE NoBuild) ELSE NoBuild

\* Mutant: switching collection off leaves published meshes their lights.
KeptLit(m) == m

Dimmed(m) == IF m # NoBuild THEN [m EXCEPT !.lit = FALSE] ELSE NoBuild

-----------------------------------------------------------------------------
(* Publication of finished builds                                          *)

\* A finished build reaches its slot if the slot generation captured when it was
\* queued is still current and the slot accepts it.
Publishable(d) ==
    IsCurrent(handles, d.slot, d.sgen) /\ Accepts(chunks[d.slot], d)

\* The batches of inFlight form a list in submission order.
Earlier(b) == {c \in inFlight : c.fence \in b.before}

\* Several finished batches are visited in that order.  Of a slot's builds the first
\* acceptable one is published, which makes the slot refuse the others.
FirstPublishable(done, s) ==
    LET fit(b) == {d \in b.builds : d.slot = s /\ Publishable(d)}
        first == {b \in done : \A c \in Earlier(b) \cap done : fit(c) = {}}
        builds == UNION {fit(b) : b \in first}
    IN  IF builds = {} THEN NoBuild ELSE CHOOSE d \in builds : TRUE

\* storeChunkPackedData returns early while light collection is off.
StoredPacked(s, light) == IF collect THEN light ELSE packed[s]

\* The chunks and the packed data once pick[s], where there is one, is published.
ChunksWith(pick) ==
    [s \in Slots |-> IF pick[s] # NoBuild THEN Published(chunks[s], pick[s]) ELSE chunks[s]]

\* Mutant: a mesh without lights leaves the address of the one it replaces.
PackedIfLit(pick) ==
    [s \in Slots |->
        IF LightOf(pick[s]) # NoBuild THEN StoredPacked(s, LightOf(pick[s])) ELSE packed[s]]

PackedWith(pick) ==
    [s \in Slots |->
        IF pick[s] # NoBuild THEN StoredPacked(s, LightOf(pick[s])) ELSE packed[s]]

-----------------------------------------------------------------------------
(* The render thread: tryCheckBatchesFinish and tryScheduleBatches         *)

InFlightFences == {b.fence : b \in inFlight}

NoBatch == [pc |-> "idle", fence |-> {}, builds |-> {}]

RenderIdle == render.pc = "idle"

IdleProducer == [pc |-> "idle"]

\* Publishing the finished batches `done'.
Publish(done) ==
    LET pick == [s \in Slots |-> FirstPublishable(done, s)]
    IN  /\ chunks' = ChunksWith(pick)
        /\ packed' = PackedWith(pick)

\* tryCheckBatchesFinish polls the fences in submission order and recycles those
\* that are signaled, in whatever order the GPU finished.  A Vulkan error at a batch
\* is recorded and ends the poll, what was published stays published.  If it is the
\* reset of the command buffer that fails, the fence has been reset already and the
\* batch stays in flight with it (halfReset).
PollBatches(visited, halfReset) ==
    LET done == {b \in visited : gpu[b.fence] = "signaled"}
        recycled == {b.fence : b \in done}
    IN  /\ RenderIdle /\ ~fatal /\ scheduler
        /\ \A f \in halfReset : gpu[f] = "signaled"
        /\ Publish(done)
        /\ freeFences' = freeFences \cup recycled
        /\ gpu' = [f \in Fences |-> IF f \in recycled \cup halfReset THEN "idle" ELSE gpu[f]]
        /\ inFlight' = {[b EXCEPT !.before = @ \ recycled] : b \in inFlight \ done}
        /\ fatal' = (visited # inFlight)
        /\ UNCHANGED <<handles, buildDatas, queued, collect, scheduler, render, producers,
                       lost, historyVars>>

Poll == PollBatches(inFlight, {})

PollFails == \E b \in inFlight : \E halfReset \in {{}, {b.fence}} :
                 PollBatches(Earlier(b), halfReset)

\* Mutant: compares with the version counter instead of the wanted version.
StaleByCounter(s) ==
    LET d == buildDatas[s]
    IN  d = NoBuild \/ ~IsCurrent(handles, s, d.sgen) \/ d.version # chunks[s].latest

\* A queued build is stale once its slot was released, or a newer one is wanted.
Stale(s) ==
    LET d == buildDatas[s]
    IN  d = NoBuild \/ ~IsCurrent(handles, s, d.sgen) \/ d.version # chunks[s].desired

\* One round of tryScheduleBatches up to the unlock: drop stale builds, then take a
\* batch off the queue, and a fence.  An empty batch is an early return: nothing
\* queued, too early to run a part-filled batch, or the byte budget is used up.
Select(taken) ==
    LET kept == {s \in queued : ~Stale(s)}
    IN  /\ RenderIdle /\ ~fatal /\ scheduler /\ freeFences # {}
        /\ taken \subseteq kept /\ Cardinality(taken) <= BatchSize
        /\ queued' = kept \ taken
        /\ buildDatas' = [s \in Slots |-> IF s \in queued \ queued' THEN NoBuild ELSE buildDatas[s]]
        /\ IF taken = {}
           THEN UNCHANGED <<freeFences, render>>
           ELSE \E f \in freeFences :
                    /\ freeFences' = freeFences \ {f}
                    /\ render' = [pc |-> "building", fence |-> {f},
                                  builds |-> {buildDatas[s] : s \in taken}]
        /\ UNCHANGED <<handles, chunks, packed, collect, scheduler, gpu, inFlight, producers,
                       fatal, lost, historyVars>>

\* Without geometry and lights there is nothing to submit: the batch is published
\* at once.  Builds of one batch are of different slots.
PublishEmptyBatch ==
    /\ render.pc = "building"
    /\ \A d \in render.builds : d.kind = "empty"
    /\ LET pick == [s \in Slots |->
                       LET ds == {d \in render.builds : d.slot = s /\ Publishable(d)}
                       IN  IF ds = {} THEN NoBuild ELSE CHOOSE d \in ds : TRUE]
       IN  chunks' = ChunksWith(pick) /\ packed' = PackedWith(pick)
    /\ freeFences' = freeFences \cup render.fence
    /\ render' = NoBatch
    /\ UNCHANGED <<handles, buildDatas, queued, collect, scheduler, gpu, inFlight, producers,
                   fatal, lost, historyVars>>

\* vkQueueSubmit happens outside the mutex, the batch is recorded in a later step.
Submit ==
    /\ render.pc = "building"
    /\ \E d \in render.builds : d.kind # "empty"
    /\ gpu' = [f \in Fences |-> IF f \in render.fence THEN "pending" ELSE gpu[f]]
    /\ render' = [render EXCEPT !.pc = "submitted"]
    /\ UNCHANGED <<slotVars, collect, scheduler, freeFences, inFlight, producers, fatal, lost,
                   historyVars>>

\* Builds that are dropped with their batch: nobody waits for them any more.
Withdrawn(dropped) ==
    accepted' = [s \in DOMAIN accepted |->
                    IF \E d \in dropped : d.slot = s /\ d.version = accepted[s]
                    THEN -1 ELSE accepted[s]]

\* Mutant: the failed submission keeps the fence.
SubmitFailsLeaks ==
    /\ render.pc = "building"
    /\ \E d \in render.builds : d.kind # "empty"
    /\ fatal' = TRUE
    /\ Withdrawn(render.builds)
    /\ render' = NoBatch
    /\ UNCHANGED <<slotVars, poolVars, collect, producers, owner, nextOwner, issued>>

SubmitFails ==
    /\ render.pc = "building"
    /\ \E d \in render.builds : d.kind # "empty"
    /\ fatal' = TRUE
    /\ freeFences' = freeFences \cup render.fence
    /\ Withdrawn(render.builds)
    /\ render' = NoBatch
    /\ UNCHANGED <<slotVars, collect, scheduler, gpu, inFlight, producers, lost,
                   owner, nextOwner, issued>>

\* An exception in build() leaves the function: the fence and the command buffer
\* are destroyed with its locals.  Only a FatalError is recorded as a failure.
BuildThrows ==
    /\ render.pc = "building" /\ Cardinality(lost) < MaxThrows
    /\ lost' = lost \cup render.fence
    /\ Withdrawn(render.builds)
    /\ fatal' \in {fatal, TRUE}
    /\ render' = NoBatch
    /\ UNCHANGED <<slotVars, collect, scheduler, freeFences, gpu, inFlight, producers,
                   owner, nextOwner, issued>>

\* Mutant: the submitted batch is forgotten.
ForgetInFlight ==
    /\ render.pc = "submitted"
    /\ render' = NoBatch
    /\ UNCHANGED <<slotVars, poolVars, collect, producers, fatal, historyVars>>

RecordInFlight ==
    /\ render.pc = "submitted"
    /\ \E f \in render.fence :
           inFlight' = inFlight \cup
                           {[fence |-> f, before |-> InFlightFences, builds |-> render.builds]}
    /\ render' = NoBatch
    /\ UNCHANGED <<slotVars, collect, scheduler, freeFences, gpu, producers, fatal, lost,
                   historyVars>>

\* The GPU finishes a submitted batch.
Signal(f) ==
    /\ gpu[f] = "pending"
    /\ gpu' = [gpu EXCEPT ![f] = "signaled"]
    /\ UNCHANGED <<slotVars, collect, scheduler, freeFences, inFlight, render, producers, fatal,
                   lost, historyVars>>

-----------------------------------------------------------------------------
(* Operations that first wait for every batch in flight.  They run on the  *)
(* render thread, between two of its ticks, and hold the mutex throughout. *)

\* waitAllBatchesFinish: every batch is published and its fence comes back.
AllSignaled == \A f \in InFlightFences : gpu[f] = "signaled"

ResetScheduler ==
    /\ RenderIdle /\ ~fatal /\ scheduler /\ AllSignaled
    /\ Publish(inFlight)
    /\ freeFences' = Fences
    /\ gpu' = [f \in Fences |-> "idle"]
    /\ inFlight' = {}
    /\ lost' = {}
    /\ UNCHANGED <<handles, buildDatas, queued, collect, scheduler, render, producers, fatal,
                   historyVars>>

\* nativeSetCollectChunkEmission stores the option before it takes the mutex, so
\* that builds queued in between already follow it.
SetCollectOption ==
    /\ RenderIdle /\ ~fatal
    /\ collect' \in EmissionSettings \ {collect}
    /\ render' = [NoBatch EXCEPT !.pc = "collect"]
    /\ UNCHANGED <<slotVars, poolVars, producers, fatal, historyVars>>

\* setCollectChunkEmission: queued builds are lit or dimmed; switching off also
\* releases the lights of published meshes and forgets their addresses.
SetCollectChunkEmission ==
    LET published == [s \in Slots |-> FirstPublishable(inFlight, s)]
        relit(d) == IF d = NoBuild THEN d ELSE [d EXCEPT !.lit = collect /\ d.kind = "emissive"]
    IN  /\ render.pc = "collect" /\ ~fatal /\ AllSignaled
        /\ buildDatas' = [s \in Slots |-> relit(buildDatas[s])]
        /\ IF collect
           THEN Publish(inFlight)
           ELSE /\ chunks' = [s \in Slots |-> [ChunksWith(published)[s] EXCEPT !.mesh = Dimmed(@)]]
                /\ packed' = [s \in Slots |-> NoBuild]
        /\ freeFences' = freeFences \cup InFlightFences
        /\ gpu' = [f \in Fences |-> IF f \in InFlightFences THEN "idle" ELSE gpu[f]]
        /\ inFlight' = {}
        /\ render' = NoBatch
        /\ UNCHANGED <<handles, queued, collect, scheduler, producers, fatal, lost, historyVars>>

\* After a failure setCollectChunkEmission throws before it touches a build.
AbandonCollect ==
    /\ render.pc = "collect" /\ fatal
    /\ render' = NoBatch
    /\ UNCHANGED <<slotVars, collect, poolVars, producers, fatal, historyVars>>

\* What reset() and releaseScene() leave of the slots.
EmptyStorage(n) ==
    /\ handles' = ResetTable(n)
    /\ chunks' = [s \in 0 .. n - 1 |-> FreshChunk]
    /\ buildDatas' = [s \in 0 .. n - 1 |-> NoBuild]
    /\ packed' = [s \in 0 .. n - 1 |-> NoBuild]
    /\ queued' = {}
    /\ freeFences' = Fences
    /\ gpu' = [f \in Fences |-> "idle"]
    /\ inFlight' = {}
    /\ lost' = {}
    /\ issued' = [s \in SlotIds |-> -1]
    /\ accepted' = [s \in SlotIds |-> -1]

\* The game leaves a world only once no worker is inside queueChunkBuild, and drops
\* the meshes compiled for it.  The code relies on it: slot generations start over,
\* so the recheck after the copy would not notice that the world is another one.
WorkersStopped ==
    /\ \A p \in Producers : producers[p].pc # "copying"
    /\ producers' = [p \in Producers |-> IdleProducer]

\* Chunks::reset: a new world.  Both queues are idle, so no batch is executing; the
\* batches in flight disappear with the old scheduler, unpublished.
Reset(n) ==
    /\ RenderIdle /\ ~fatal /\ nextOwner + n <= MaxOwners + 1
    /\ \A f \in Fences : gpu[f] # "pending"
    /\ WorkersStopped
    /\ EmptyStorage(n)
    /\ scheduler' = TRUE
    /\ owner' = [s \in SlotIds |-> IF s < n THEN nextOwner + s ELSE 0]
    /\ nextOwner' = nextOwner + n
    /\ UNCHANGED <<collect, render, fatal>>

\* Chunks::releaseScene and Chunks::close.  Both wait for the batches in flight,
\* and close() runs even after a failure.
ReleaseScene ==
    /\ RenderIdle /\ scheduler
    /\ \A f \in Fences : gpu[f] # "pending"
    /\ AllSignaled
    /\ WorkersStopped
    /\ EmptyStorage(0)
    /\ scheduler' = FALSE
    /\ owner' = [s \in SlotIds |-> 0]
    /\ UNCHANGED <<collect, render, fatal, nextOwner>>

\* Any other part of the renderer may record a failure.
Fail ==
    /\ ~fatal
    /\ fatal' = TRUE
    /\ UNCHANGED <<slotVars, collect, poolVars, render, producers, historyVars>>

-----------------------------------------------------------------------------
(* The game: calls that take a handle of the slot's present occupant.  One *)
(* that no longer resolves returns early, and none runs after a failure.   *)

HandleOf(s) == Encode(s, IF s < handles.primary THEN 0 ELSE handles.gen[s])

Explicit(s) == s \notin ImplicitSlots

Callable(s) == ~fatal /\ s \in Slots /\ owner[s] # 0 /\ Resolves(handles, HandleOf(s))

\* A slot numbers its builds either by generations the game issues, a new one for
\* every change, or by the slot's own counter (generation -1).
NewGeneration(s) == IF Explicit(s) THEN issued[s] + 1 ELSE -1

MarkChunkDirty(s) ==
    LET g == NewGeneration(s)
        stale == buildDatas[s] # NoBuild /\ buildDatas[s].version < g
    IN  /\ Callable(s) /\ Explicit(s) /\ g <= MaxVersion
        /\ chunks' = [chunks EXCEPT ![s] = MarkedDirty(@, g)]
        /\ buildDatas' = [buildDatas EXCEPT ![s] = IF stale THEN NoBuild ELSE @]
        /\ queued' = IF stale THEN queued \ {s} ELSE queued
        /\ issued' = [issued EXCEPT ![s] = g]
        /\ accepted' = [accepted EXCEPT ![s] = -1]
        /\ UNCHANGED <<handles, packed, collect, poolVars, render, producers, fatal,
                       owner, nextOwner>>

\* Mutant: the index stays queued without a build.
WithdrawStillQueued(s, g) ==
    /\ chunks' = [chunks EXCEPT ![s] = Invalidated(@, g)]
    /\ buildDatas' = [buildDatas EXCEPT ![s] = NoBuild]
    /\ accepted' = [accepted EXCEPT ![s] = -1]
    /\ UNCHANGED queued

\* The part invalidateChunk, relocateChunk and releaseExternalChunk share.
Withdraw(s, g) ==
    /\ chunks' = [chunks EXCEPT ![s] = Invalidated(@, g)]
    /\ buildDatas' = [buildDatas EXCEPT ![s] = NoBuild]
    /\ queued' = queued \ {s}
    /\ accepted' = [accepted EXCEPT ![s] = -1]

InvalidateChunk(s) ==
    LET g == NewGeneration(s)
    IN  /\ Callable(s) /\ g <= MaxVersion /\ chunks[s].latest <= MaxVersion
        /\ Withdraw(s, g)
        /\ packed' = [packed EXCEPT ![s] = StoredPacked(s, NoBuild)]
        /\ issued' = [issued EXCEPT ![s] = g]
        /\ UNCHANGED <<handles, collect, poolVars, render, producers, fatal, owner, nextOwner>>

\* The slot changes hands: the section it showed has moved out of the grid.  Builds
\* without a generation could not be told from those of the section that moves in.
RelocateChunk(s) ==
    LET g == NewGeneration(s)
    IN  /\ Callable(s) /\ Explicit(s) /\ g <= MaxVersion /\ nextOwner <= MaxOwners
        /\ Withdraw(s, g)
        /\ packed' = [packed EXCEPT ![s] = StoredPacked(s, NoBuild)]
        /\ issued' = [issued EXCEPT ![s] = g]
        /\ owner' = [owner EXCEPT ![s] = nextOwner]
        /\ nextOwner' = nextOwner + 1
        /\ UNCHANGED <<handles, collect, poolVars, render, producers, fatal>>

\* allocateExternalChunk appends to the vectors or replaces the entries of a
\* released slot.
AllocateExternalChunk ==
    LET s == AllocatedSlot(handles, handles.size)
        put(f, v) == [k \in 0 .. handles'.size - 1 |-> IF k = s THEN v ELSE f[k]]
    IN  /\ ~fatal /\ nextOwner <= MaxOwners /\ s < MaxSlots
        /\ handles' = Allocate(handles, handles.size)
        /\ chunks' = put(chunks, FreshChunk)
        /\ buildDatas' = put(buildDatas, NoBuild)
        /\ packed' = put(packed, NoBuild)
        /\ owner' = [owner EXCEPT ![s] = nextOwner]
        /\ nextOwner' = nextOwner + 1
        /\ issued' = [issued EXCEPT ![s] = -1]
        /\ UNCHANGED <<queued, collect, poolVars, render, producers, fatal, accepted>>

\* releaseExternalChunk invalidates without a generation: the slot's own counter
\* numbers a version nobody can have queued.
ReleaseExternalChunk(s) ==
    /\ Callable(s) /\ CanRelease(handles, HandleOf(s))
    /\ Withdraw(s, -1)
    /\ packed' = [packed EXCEPT ![s] = NoBuild]
    /\ handles' = Release(handles, HandleOf(s))
    /\ owner' = [owner EXCEPT ![s] = 0]
    /\ UNCHANGED <<collect, poolVars, render, producers, fatal, nextOwner, issued>>

-----------------------------------------------------------------------------
(* A worker: meshes for a section, then calls queueChunkBuild              *)

StartCompile(p, s) ==
    /\ producers[p].pc = "idle" /\ Callable(s)
    /\ \E g \in IF Explicit(s) THEN {issued[s], issued[s] + 1} \cap 0 .. MaxVersion ELSE {-1} :
           /\ producers' = [producers EXCEPT ![p] =
                  [pc |-> "compiled", handle |-> HandleOf(s), gen |-> g, owner |-> owner[s]]]
           /\ issued' = [issued EXCEPT ![s] = MaxOf(@, g)]
    /\ UNCHANGED <<slotVars, collect, poolVars, render, fatal, owner, nextOwner, accepted>>

Outdated(s, g) == g >= 0 /\ g < chunks[s].desired

\* The first section under the mutex captures the slot's generation.
BeginQueue(p) ==
    LET task == producers[p]
        s == task.handle.slot
    IN  /\ task.pc = "compiled"
        /\ producers' = [producers EXCEPT ![p] =
               IF fatal \/ ~Resolves(handles, task.handle) \/ Outdated(s, task.gen)
               THEN IdleProducer
               ELSE [pc |-> "copying", slot |-> s, sgen |-> handles.gen[s],
                     gen |-> task.gen, owner |-> task.owner]]
        /\ UNCHANGED <<slotVars, collect, poolVars, render, fatal, historyVars>>

\* Mutant: the slot's generation is not checked again after the copy.
AdmittedByVersion(task) == ~Outdated(task.slot, task.gen)

\* The second section, once the vertices are copied, checks both again.
Admitted(task) == IsCurrent(handles, task.slot, task.sgen) /\ ~Outdated(task.slot, task.gen)

Refuse(p) ==
    /\ producers[p].pc = "copying" /\ ~Admitted(producers[p])
    /\ producers' = [producers EXCEPT ![p] = IdleProducer]
    /\ UNCHANGED <<slotVars, collect, poolVars, render, fatal, historyVars>>

\* The version a build gets, and what its slot knows of versions afterwards.
NextVersion(task) == IF task.gen >= 0 THEN task.gen ELSE chunks[task.slot].latest

Wanting(task) ==
    [chunks[task.slot] EXCEPT !.latest = IF task.gen >= 0 THEN @ ELSE @ + 1,
                              !.desired = MaxOf(@, NextVersion(task))]

NewBuild(task, kind, lit) ==
    [slot |-> task.slot, sgen |-> task.sgen, version |-> NextVersion(task),
     owner |-> task.owner, kind |-> kind, lit |-> lit]

\* A task may opt out of light collection.
Lights(kind) == IF collect /\ kind = "emissive" THEN BOOLEAN ELSE {FALSE}

Enqueue(p, kind, lit) ==
    LET task == producers[p]
        s == task.slot
        d == NewBuild(task, kind, lit)
    IN  /\ task.pc = "copying" /\ Admitted(task) /\ d.version <= MaxVersion
        /\ chunks' = [chunks EXCEPT ![s] = Wanting(task)]
        /\ queued' = queued \cup {s}
        /\ buildDatas' = [buildDatas EXCEPT ![s] = d]
        /\ producers' = [producers EXCEPT ![p] = IdleProducer]
        /\ accepted' = [accepted EXCEPT ![s] = d.version]
        /\ UNCHANGED <<handles, packed, collect, poolVars, render, fatal,
                       owner, nextOwner, issued>>

\* An important build is made and published at once, in the same section; what was
\* queued for the slot is dropped first.  If build() throws it is gone all the same.
EnqueueImportant(p, kind, lit, throws) ==
    LET task == producers[p]
        s == task.slot
        d == NewBuild(task, kind, lit)
        c == Wanting(task)
        shown == ~throws /\ Accepts(c, d)
    IN  /\ task.pc = "copying" /\ Admitted(task) /\ d.version <= MaxVersion
        /\ chunks' = [chunks EXCEPT ![s] = IF shown THEN Published(c, d) ELSE c]
        /\ packed' = [packed EXCEPT ![s] = IF shown THEN StoredPacked(s, LightOf(d)) ELSE @]
        /\ queued' = queued \ {s}
        /\ buildDatas' = [buildDatas EXCEPT ![s] = NoBuild]
        /\ producers' = [producers EXCEPT ![p] = IdleProducer]
        /\ accepted' = [accepted EXCEPT ![s] = IF throws THEN -1 ELSE d.version]
        /\ UNCHANGED <<handles, collect, poolVars, render, fatal, owner, nextOwner, issued>>

-----------------------------------------------------------------------------
Init ==
    /\ handles = ResetTable(0)
    /\ chunks = <<>> /\ buildDatas = <<>> /\ packed = <<>> /\ queued = {}
    /\ collect \in EmissionSettings
    /\ scheduler = FALSE /\ freeFences = Fences /\ lost = {}
    /\ gpu = [f \in Fences |-> "idle"]
    /\ inFlight = {} /\ render = NoBatch /\ fatal = FALSE
    /\ producers = [p \in Producers |-> IdleProducer]
    /\ owner = [s \in SlotIds |-> 0] /\ nextOwner = 1
    /\ issued = [s \in SlotIds |-> -1]
    /\ accepted = [s \in SlotIds |-> -1]

RenderThread ==
    \/ Poll \/ PollFails
    \/ \E taken \in SUBSET SlotIds : Select(taken)
    \/ PublishEmptyBatch \/ Submit \/ SubmitFails \/ BuildThrows \/ RecordInFlight
    \/ ResetScheduler \/ SetCollectOption \/ SetCollectChunkEmission \/ AbandonCollect
    \/ \E n \in PrimaryCounts : Reset(n)
    \/ ReleaseScene

Game ==
    \/ \E s \in SlotIds : \/ MarkChunkDirty(s) \/ InvalidateChunk(s)
                          \/ RelocateChunk(s) \/ ReleaseExternalChunk(s)
    \/ AllocateExternalChunk
    \/ Fail

Produce(p) ==
    \/ \E s \in SlotIds : StartCompile(p, s)
    \/ BeginQueue(p) \/ Refuse(p)
    \/ \E kind \in Kinds : \E lit \in Lights(kind) :
           \/ Enqueue(p, kind, lit)
           \/ \E throws \in BOOLEAN : EnqueueImportant(p, kind, lit, throws)

Next == \/ RenderThread
        \/ \E f \in Fences : Signal(f)
        \/ Game
        \/ \E p \in Producers : Produce(p)

Spec == Init /\ [][Next]_vars

\* The render thread ticks every frame, the GPU finishes what was submitted, and a
\* tick that finds builds it may take takes some: background builds wait for at
\* most backgroundWait and old ones are taken first.
Fairness ==
    /\ WF_vars(Poll)
    /\ WF_vars(\E taken \in SUBSET SlotIds \ {{}} : Select(taken))
    /\ WF_vars(PublishEmptyBatch \/ Submit)
    /\ WF_vars(RecordInFlight)
    /\ WF_vars(SetCollectChunkEmission)
    /\ \A f \in Fences : WF_vars(Signal(f))

FairSpec == Spec /\ Fairness

-----------------------------------------------------------------------------
ProducerState ==
    [pc : {"idle"}]
        \cup [pc : {"compiled"}, handle : Handle, gen : Versions, owner : Nat]
        \cup [pc : {"copying"}, slot : Nat, sgen : Nat, gen : Versions, owner : Nat]

ChunkState == [latest : Nat, desired : Int, blasVersion : Int, mesh : Build \cup {NoBuild}]

TypeOK ==
    /\ IsTable(handles)
    /\ chunks \in [Slots -> ChunkState]
    /\ buildDatas \in [Slots -> Build \cup {NoBuild}]
    /\ packed \in [Slots -> Build \cup {NoBuild}]
    /\ queued \subseteq Slots
    /\ collect \in BOOLEAN /\ scheduler \in BOOLEAN /\ fatal \in BOOLEAN
    /\ freeFences \subseteq Fences /\ lost \subseteq Fences
    /\ gpu \in [Fences -> {"idle", "pending", "signaled"}]
    /\ inFlight \subseteq [fence : Fences, before : SUBSET Fences, builds : SUBSET Build]
    /\ render \in [pc : {"idle", "building", "submitted", "collect"},
                   fence : SUBSET Fences, builds : SUBSET Build]
    /\ producers \in [Producers -> ProducerState]
    /\ owner \in [SlotIds -> Nat] /\ nextOwner \in Nat
    /\ issued \in [SlotIds -> Versions] /\ accepted \in [SlotIds -> Versions]

(***************************************************************************)
(* A slot never shows a mesh compiled for someone else: not one from       *)
(* before a relocation, not one for a former owner of a recycled external  *)
(* slot, not one of a world that was left, however late its copy, its      *)
(* batch or its fence arrives.                                             *)
(***************************************************************************)
NoForeignBuild ==
    \A s \in Slots : chunks[s].mesh # NoBuild => chunks[s].mesh.owner = owner[s]

BuildsAlive ==
    {buildDatas[s] : s \in queued} \cup render.builds
        \cup UNION {b.builds : b \in inFlight}

(***************************************************************************)
(* An accepted build is never silently dropped: until it is withdrawn, or  *)
(* superseded by a newer one, it is on show or still on its way, and the   *)
(* slot will take it.  What purging, deduplication by slot, recycling of   *)
(* batches and generation checks discard is always something else.         *)
(***************************************************************************)
NoLostBuild ==
    \A s \in Slots : accepted[s] >= 0 /\ ~fatal =>
        \/ chunks[s].blasVersion = accepted[s]
        \/ \E d \in BuildsAlive : d.slot = s /\ d.version = accepted[s] /\ Publishable(d)

(***************************************************************************)
(* While lights are collected, and the GPU given their addresses, the one  *)
(* for a slot is that of its published mesh: never of a mesh replaced,     *)
(* withdrawn or released since, whose buffer is kept only until the frames *)
(* in flight retire.  Addresses are not maintained while collection is     *)
(* off, yet none that went stale meanwhile is there when it is on again.   *)
(***************************************************************************)
PackedLightIsLive ==
    collect => \A s \in Slots : packed[s] = LightOf(chunks[s].mesh)

(***************************************************************************)
(* Every fence of the scheduler is in one place: free, with the batch being*)
(* built, with a batch in flight, or lost to an exception; and one that a  *)
(* submission may use next is not pending or signaled.                     *)
(***************************************************************************)
FencePool ==
    /\ \A b, c \in inFlight : b.fence = c.fence => b = c
    /\ Fences = freeFences \cup render.fence \cup InFlightFences \cup lost
    /\ freeFences \cap (render.fence \cup InFlightFences \cup lost) = {}
    /\ render.fence \cap (InFlightFences \cup lost) = {}
    /\ InFlightFences \cap lost = {}
    /\ \A f \in freeFences : gpu[f] = "idle"

(***************************************************************************)
(* The queue names exactly the slots with a build to take, so selection    *)
(* never dereferences an empty entry and no build waits unqueued.          *)
(***************************************************************************)
QueuedHasData == \A s \in Slots : s \in queued <=> buildDatas[s] # NoBuild

(***************************************************************************)
(* With light collection off nothing holds lights, although workers read   *)
(* the option on their own and batches with lights were in flight when it  *)
(* was switched off.                                                       *)
(***************************************************************************)
EmissionOff ==
    ~collect /\ ~fatal /\ render.pc # "collect" =>
        /\ \A s \in Slots : LightOf(chunks[s].mesh) = NoBuild
        /\ \A d \in BuildsAlive : ~d.lit

(***************************************************************************)
(* Every slot implements LatestWins: between them the producers, the       *)
(* render thread and the GPU cannot make it show a mesh that was not the   *)
(* one wanted at that moment, go back to an older one, or carry a mesh     *)
(* over to the next occupant.                                              *)
(***************************************************************************)
Occupied(s) == s \in Slots /\ owner[s] # 0

Shown(s) ==
    IF Occupied(s) /\ chunks[s].mesh # NoBuild
    THEN [owner |-> chunks[s].mesh.owner, version |-> chunks[s].mesh.version]
    ELSE NoBuild

Slot(s) == INSTANCE LatestWins WITH
    Nothing <- NoBuild,
    own <- IF s \in Slots THEN owner[s] ELSE 0,
    wanted <- IF Occupied(s) THEN chunks[s].desired ELSE -1,
    last <- IF Occupied(s) THEN chunks[s].blasVersion ELSE -1,
    shown <- Shown(s)

ImplementsLatestWins ==
    /\ \A s \in SlotIds : Slot(s)!Init
    /\ [][\A s \in SlotIds : [Slot(s)!Next]_(Slot(s)!slot)]_vars

(***************************************************************************)
(* An accepted build is published or overtaken, as long as the renderer    *)
(* has not failed and a fence is left: no order of fences, polls and       *)
(* requests leaves it waiting.                                             *)
(***************************************************************************)
Waiting(s) ==
    /\ s \in Slots /\ scheduler
    /\ accepted[s] >= 0 /\ chunks[s].blasVersion < accepted[s]

AcceptedBuildIsPublished ==
    \A s \in SlotIds : Waiting(s) ~> (~Waiting(s) \/ fatal)
=============================================================================
