# Verification of the MCVR renderer core

MCVR is the native part of a Minecraft ray tracing renderer: a C++ library that
the Java client calls through JNI. The game brings meshes, textures, models and
interface draws from many threads; a render thread turns them into GPU resources
and frames; the GPU runs behind both by up to a swapchain of frames. This
directory holds TLA+ models of the parts of it that are hard to test: those
where a mutex is dropped in the middle of an operation, where results arrive
out of order, where memory is freed on the evidence of a fence, and where several
threads fail at once.

- [Inventory](#inventory): the components, their state and what makes them correct
- [Modules](#modules): what models what, and how state and actions correspond
- [Runs](#runs): what TLC checks, the bounds and why they suffice
- [Fairness and assumptions](#fairness-and-assumptions)
- [Proofs](#proofs)
- [What is not modelled](#what-is-not-modelled), and the [plan](#plan)

To check a run: `tlc -config ChunkVersions.cfg MCChunks`. To check a proof:
`tlapm ChunksProofs.tla`. `PROJECT.json` lists every run, the source lines behind
every definition, the hazards with the properties that cover them, a mutation of
the code for every property, and the theorems.

## Inventory

Paths are below `src/src/core`.

| Component | State | Operations | What must be right |
|---|---|---|---|
| External chunk handles `render/external_chunk_handle.hpp` | a generation per slot, active flags, a free stack | reset, allocate, resolve, release | a stale handle never names its slot's next owner, through reuse and counter wrap |
| Chunk pipeline `render/chunks.*` | slots (`Chunk1`), queued builds, packed light addresses, fences and command buffers, batches in flight | queue a build, dirty, invalidate, relocate, allocate and release a slot, poll, schedule, toggle light collection, change world | a slot shows the newest wanted mesh of its owner; no build is lost; fences are not lost or shared; light addresses point to live buffers |
| Chunk batch selection `render/chunk_scheduling.hpp` | admission counter | rank, admit, ready | nobody starves; memory in flight is bounded |
| Frame retention `render/frame_retention.hpp` | groups of resources by frame serial | retain, begin frame, clear | a resource outlives the last command that uses it, and not by much |
| Frame loop `render/render_framework.*`, `render/world.cpp` | contexts, fences, serials, the retainer | acquire, submit, flush, present, recreate, release scene | completion is inferred soundly; nothing is freed in use |
| Failure state `failure_state.hpp`, `vulkan/device.cpp` | first cause, loss flag, details, twice (process and device) | record, snapshot, describe | one first cause, loss always seen, consistent reports |
| JNI boundary `middleware/jni_exception.hpp`, `..option_Options.cpp` | options | guard a call, store an option | failures are recorded; an option takes effect in the right order |
| JNI proxies `middleware/*Proxy.cpp` | none | check arguments, forward | handles and spans are what the callee expects |
| Buffers and uploads `render/buffers.cpp`, `persistent_write_batch.hpp`, `pending_uploads.hpp` | staging and device memory per name, write tickets, pending copies, overlay slots per context | allocate, initialize, upload in full or by ranges, release, perform, reset a frame | a frame draws what was written when it was recorded; tickets survive roll-over; nothing is freed in use |
| Textures `render/textures.cpp`, `texture_name_pool.hpp`, `texture_binding_snapshots.hpp`, `upload_retirement.hpp` | names, images, samplers, slots, aliases, fallbacks, upload batches | allocate, alias, release, initialize, resample, upload, poll, reload | a slot shows its texture or its fallback; an upload reaches the image it was made for |
| Entities and rigid models `render/entities.cpp`, `rigid_build_lifecycle.hpp`, `submitted_geometry_cache.hpp` | resident models, instances, builds, the cloud cache, the world mesh frame | queue, evict, build, record, commit, invalidate, give up | the world traces only what submitted commands have built; instances point to models that are owned |
| Instancing `render/instancing.cpp` | models, instance pools | register, update, release | ranges do not overlap, owners match |
| UI path tracing `middleware/..UiPathTracingProxy.cpp`, `render/ui_frame_batch.hpp`, `ui_history_retirement.hpp`, `util/deferred_frame_commands.hpp` | views and their slots, the batch, the shared engine and its histories, deferred commands | begin, trace, leave empty, end, release, close | a history is closed only when nothing recorded or submitted uses it; a view never blends another's samples |
| UI 2D interface `render/modules/ui_module.cpp`, `ui_framebuffer.cpp`, `ui_framebuffer_blit.cpp` | the mode of the overlay (which pass is open), the OpenGL state set last, what a diagram saved, the layout of every image | set state, draw, clear, blit, diagrams, effects, begin and end a frame | commands are recorded in the pass, the layouts and the state they need |
| Framebuffers and readback `render/framebuffers.*`, `framebuffer_readback.cpp` | names, attachments, bindings | bind, attach, check, read back | completeness; a change ends the open pass; a readback sees what was drawn |
| World modules `render/modules/world` | pass resources | record passes | parameters and barriers |
| Upscalers and Streamline `render/streamline_runtime.cpp` | vendor SDK objects | start, evaluate, release | lifetime of feature resources |
| Pipeline `render/pipeline.cpp` | module graph | build, rebuild | wiring |
| Vulkan layer `vulkan/` | Vulkan objects | create, destroy | ownership |
| Pipeline cache `vulkan/pipeline_cache.*` | files of a directory shared by instances of the game, the driver's cache | load, create pipelines, persist | the driver gets whole data only; what was persisted is found again |
| Loading renderer `loading/` | a slot per frame context, whether a frame is owed its successor | render the screen, hand over, capture, close | a slot is destroyed when no frame uses it; each frame has one successor |
| Utilities `util/parallel.hpp`, `util/close_gate.hpp` | none | parallelFor, close once | every worker joined, first exception rethrown |
| Diagnostics `diagnostics/` | traces | record | nothing depends on them |
| Shaders `src/src/shader` | none | GPU arithmetic | numeric |

**How they interact.** A mesh worker calls `ChunkProxy` → `Chunks::queueChunkBuild`,
which holds `Chunks::mutex_` twice and copies the vertices in between. Once a
frame the render thread runs `Framework::acquireContext` (which waits for a fence,
destroys what is retired, and opens a group of the retainer), then
`World`/`world_prepare`, which polls and schedules chunk batches on the secondary
queue, records the frame, `submitCommand` and `present`. A published mesh replaces
an older one, which goes to `FrameResourceRetainer::retain`, as do resources
of every other component, from any thread. `World::releaseScene` and
`Framework::recreate` bypass retirement: they wait for the GPU and destroy at
once. Every failing call ends in `failure::record`, and every component tests
`throwIfFatal` or `running_` before it waits for the GPU.

**What is hard.** *Interleaving*: a slot changes owner, version or world while a
worker copies, the render thread builds, or the GPU runs. *Ordering*: batches
and images finish in any order. *Failure*: a submission, a poll or a build fails
half way with a fence in hand. *Inference*: completion of a frame is inferred from
fences of other frames, which their next submission resets. *Liveness*: the
fairness between background and interactive builds. *Boundaries*: wrap of
generations and of write tickets, budgets smaller than one section. *Reuse*: names,
staging memory, slots and models are given to somebody else while frames that were
recorded with them have yet to be executed, and a frame may be flushed in the
middle or given up. *Crashes*: the game is killed while it writes its pipeline cache, or
the machine loses power before the file is on the medium. *Belief*: the interface
replays state and names old layouts from what the CPU thinks the commands did, and any
call may come after any other.

## Modules

| Module | Models | Composed of |
|---|---|---|
| `HandleTable` | the operations of `ExternalChunkHandleTable`, as functions of a table | |
| `ExternalHandles` | its life with every handle a caller can present | `HandleTable` |
| `LatestWins` | what a slot promises (abstract) | |
| `Chunks` | slots, queue, scheduler, workers, GPU | `HandleTable`; implements `LatestWins` per slot |
| `BatchSelection` | which builds a round takes | refines the free choice of `Select` in `Chunks` by policy |
| `FrameRetention` | `FrameRetention` as functions on groups | |
| `FrameLoop` | contexts, frames, GPU, retirement | `FrameRetention` |
| `FailureState` | both failure states and their recorders | |
| `Buffers` | persistent, overlay and world buffers, write tickets, uploads | |
| `ResidentGeometry` | rigid models, cached clouds, the world mesh frame | |
| `Textures` | names, slots, reloads and uploads of textures | |
| `UiFrames` | batches, slots and engines of UI path tracing | |
| `UiRaster` | passes, state and layouts of the 2D interface, with its framebuffers | |
| `PipelineCache` | loading and persisting the pipeline cache, over kills and power losses | |
| `MC*` | symmetry and definitions for TLC | |
| `*Proofs` | theorems: `ChunksProofs` of `ExternalHandles` and `Chunks`, `FrameworkProofs` of `FrameLoop`, `FailureState` and `PipelineCache`, the others of the module they are named for | |

A definition introduced by *Mutant* or *as if* in a module is a plausible bug, used by
nothing; it is what `PROJECT.json` puts in place of a definition to see that a property
notices. `TypeOK` gives the types of a module's variables:
it is proved, as `TypeCorrect`. Where a proof module extends several components, all but
one of them have their names marked: `TableInit` and `TableSpec` of `ExternalHandles`,
`FailureInit` and `FailureSpec` of `FailureState`, `CacheInit` and `CacheSpec` of
`PipelineCache`.

### HandleTable, ExternalHandles

The table is a record: `gen`, `active`, `free`, `primary`, `size`; `PrimaryCounts` are the
numbers of primary slots it may be reset to and `MaxSlots` bounds its storage. Generations are
1 .. MaxGen and `NextGen` skips 0 on the wrap, which in the code follows 0x7FFFFFFF;
0 marks a primary handle. `ExternalHandles` presents every pair of slot and
generation to `release`, which is every handle anybody could hold. `live` (who
owns what) and `recent` (how many times a slot was released since a handle was)
are history. A wrapped generation eventually equals an old one: that a handle is
dead is claimed for fewer than MaxGen - 1 further releases of its slot.

### Chunks, LatestWins

One action is one section of code under `Chunks::mutex_`, or one step of the
render thread or the GPU outside it.

| Code | Model |
|---|---|
| `Chunk1` (`latestVersion`, `desiredVersion`, `blasVersion`, mesh) | `chunks[s]`: `latest`, `desired`, `blasVersion`, `mesh` |
| `chunkBuildDatas_`, `queuedIndex_`, `chunkPackedData_` | `buildDatas`, `queued`, `packed` |
| `freeFences_` and the command buffers with them | `freeFences`, `gpu` (a fence's signal) |
| `buildingFences_`, `buildingBatches_` (parallel vectors in submission order) | `inFlight`: each batch names the fences before it |
| locals of `tryScheduleBatches` while the lock is dropped | `render` |
| locals of `queueChunkBuild` while the lock is dropped | `producers[p]`, `"compiled"` before the call, `"copying"` inside |
| `tryCheckBatchesFinish`, with errors at any batch | `Poll`, `PollFails` |
| one round of `tryScheduleBatches` | `Select`; then `PublishEmptyBatch`, or `Submit` and `RecordInFlight`, or `SubmitFails`, or `BuildThrows` |
| `queueChunkBuild` | `BeginQueue`; then `Refuse`, `Enqueue` or `EnqueueImportant` |
| `markChunkDirty`, `invalidateChunk`, `relocateChunk`, `allocateExternalChunk`, `releaseExternalChunk` | the actions of these names |
| `nativeSetCollectChunkEmission`, `setCollectChunkEmission` | `SetCollectOption`, `SetCollectChunkEmission`, `AbandonCollect` |
| `resetScheduler`, `reset`, `releaseScene` and `close` | `ResetScheduler`, `Reset`, `ReleaseScene` |

A mesh is who it was made for, its version, and whether it is empty, plain or
emissive and carries lights. `owner`, `issued`, `accepted` and `lost` are
history. `accepted[s]` is the newest version `queueChunkBuild` has accepted for
`s` and nobody has withdrawn since.

`LatestWins` has four variables per slot (`own`, `wanted`, `last`, `shown`) and
four steps: want, show, hide, pass. `Chunks` shows each slot to implement it
by `Slot(s) == INSTANCE LatestWins WITH ...`.

### BatchSelection

`Chunks!Select` takes any non-stale builds. Here age, priority, distance and bytes
decide as in `selectBatch`. `queue` maps the sections queued to their builds, `flights`
has the bytes of each batch in flight, `sequence` the remainder of the admission sequence.

| Code | Model |
|---|---|
| `before`, the comparison | `Before` |
| the lane of a slot, and every fourth slot for old background builds | `Lane`, `BackgroundTurn` |
| the first of the lane's sorted builds | `IsCandidate` |
| both budgets | `Fits`, `CanAdmit` |
| the loop of `selectBatch` | `IsSelection`: each slot has its candidate, each fits, and the next does not |
| `queueChunkBuild`, purging stale builds, a round, a poll, a new scheduler | `Enqueue`, `Drop`, `Round`, `Finish`, `ResetScheduler` |

`IsSelection` determines the batch, except where the code does as well by the order of the
queue. `row` (history) counts the admissions in a row that let an old background build,
or an interactive one, wait.

### FrameRetention, FrameLoop

`FrameRetention` gives `Retain`, `BeginFrame` and what they release as functions of
a sequence of groups. `FrameLoop` has the contexts with their fences and
serials, the render thread's `phase`, the commands `recorded` and the submissions
`pending` on the main queue, and each resource's life.

| Code | Model |
|---|---|
| `acquireContext` with `completedSerial` and `beginFrame` | `Acquire`, `AcquireExhausted` |
| `FrameResourceRetainer::retain` | `Retire` |
| `submitCommand`, with either call failing | `Submit`, `SubmitFails` |
| `flushForReadback` | `Flush("flushing")`, `FlushDone` |
| `World::releaseScene` | `Flush("unloading")` if a frame is open, `ReleaseScene` |
| `present`, `recreate` | `Present`, `Recreate` |
| a command that names a live resource | `Record` |

### FailureState

The three steps of `State::record` (flag, compare-exchange, store) are separate
actions, for the process-wide state and then the device's, then `running_` is
cleared. Readers take `snapshot` in two steps, or assemble a report from separate
reads as `Framework` does.

| Code | Model |
|---|---|
| `Framework::device_`, `running_` | `device`, `running` |
| `Framework::recordFailure`, `vk::Device::recordFailure`, `failure::record` from JNI | `StartRecord` with the states to record in and whether the loop is stopped (`Recorder`) |
| `State::record` | `SetFlag`, `CompareExchange`, `StoreDetails`, for each state; then `EndRecord` |
| `Framework::init`, creating the device | `CreateDevice` |
| `Framework::close`; `recordFailure` of a result the device does not count as a failure | `StopWithoutFailure` |
| `acquireContext`, `submitCommand`, `present`, `recreate` with the loop down; `acquireContext` without a device or with a failure | `RefuseFrame` |
| `inactiveResult` | `ReportRefusal`, a later step of the same caller |
| `State::snapshot` | `LoadFirst`, `CopyDetails` |
| `lastFailureOperation` and `lastFailure` | `BeginDescription`, `EndDescription` |

So the loop may be down with no failure: closed, without a device, or after a benign
result. `excused` (history) says that this was so when it went down.

### Buffers

The staging and the device allocation of each storage are kept apart: the client
writes the first at once, the GPU copies it to the second when it executes the
submission the copy was recorded in. The content of a cell is the number of the
write that put it there. Ranges of new storage may be written before it was uploaded in
full, and their copies performed; `early` (history) names storage copied this way.

| Code | Model |
|---|---|
| `allocatePersistentBuffer`, `releasePersistentBuffer`, `initializeBuffer` | `Allocate`, `Release`, `Initialize` |
| `queueOverlayUpload` of a persistent name | `Upload` |
| `stagePersistentRange`, in place or to a copy of the storage | `UploadRangeInPlace`, `UploadRangeToCopy` |
| `allocateBuffer`, `initializeBuffer`, `queueOverlayUpload` of a name of the frame | `AllocateOverlay`, `InitializeOverlay`, `UploadOverlay` |
| `queueImportantWorldUpload`, and its geometry's end | `UploadWorld`, `RetireWorld` |
| `performQueuedUpload` with `PersistentWriteBatch::close` | `PerformUploads`, and within `Submit` and `Flush` |
| `resetFrame`, in `acquireContext` | `Acquire` |

### ResidentGeometry

`resident` is `rigidModels_`, whose shared pointers own their models; `used` and
`batch.models` are the lists of a frame that own them too, `instances` and
`batch.instances` the bare pointers. A model's `life` is its
`RigidBuildLifecycle`. `recorded` is what the commands of the open frame build,
`built` what submitted commands have, `traced` what the world last recorded traces.
`cloudRevision`, `capturing` and `captured` are `cloudRevision_`, `cloudCapturing_` and
whether there is a `cloudBuildData_`: a cloud is filed under the revision of the last
capture begun, also if that one failed.

| Code | Model |
|---|---|
| `beginWorldMeshFrame`, `endWorldMeshFrame`, `invalidateWorldMeshGeneration` | `BeginWorldMeshFrame`, `EndWorldMeshFrame`, `Invalidate` |
| `queueRigidModels` with `residentRigidModel` | `QueueResident`, `QueueNew` |
| `beginCachedCloud`, `endCachedCloud` with `SubmittedGeometryCache` | `BeginCloud`, `EndCloud` |
| `build` | `Build` |
| `WorldPrepareContext::render`, recording builds and tracing | `RenderOnly`, and within `SubmitRendering` |
| `submitCommand` and `flushForReadback`, with the commits | `SubmitRendering`, `SubmitRest` |
| `resetFrame` | `Acquire` |
| `releaseScene` | `ReleaseScene` |

### Textures

`texture[id]` is an image and a sampler; `bound[id]` what the slot of the name
shows. A region is a number: `written` is what the client has queued for an image,
`content` what the GPU has copied there. `batches` is a set in which each batch names the
fences of those submitted before it, as `inFlight` of `Chunks` does: a poll that fails keeps
the failed batch and those it is before, and takes the completed ones it comes after.

| Code | Model |
|---|---|
| `TextureNamePool`, `allocateTexture`, `registerFrameAlias` | `AllocateTexture`, `RegisterFrameAlias` |
| `releaseTexture`, of aliases, of textures, during a reload | `ReleaseAlias`, `ReleaseTexture`, `ReleaseInReload` |
| `initializeTexture`, `setSamplingMode` and `setAddressMode` | `InitializeTexture`, `UpdateSampler` |
| `queueUpload`, `performQueuedUpload` | `QueueUpload`, `FlushUploads`, `Submit` |
| `collectCompletedUploads` with `retireUploads`, also with a failing poll | `Collected` wherever it is called, `PollFails` |
| `resetFrame` | `Acquire` |
| `beginResourceReload`, `endResourceReload` | `BeginReload`, `EndReload` |

### UiFrames

| Code | Model |
|---|---|
| `ponderScenes`: the slot of a view and whether it has buffers | `slot`, `buffered` |
| `PonderSharedWorld`: width and height, anchor, the histories of its pipeline | `shared`, `extent`, `anchor`, `history` |
| `ready`, of all in `ponderSceneLifetimes` | `ready` |
| `lastRecordingContext` and `lastRecordingGeneration` | `recordedNow`, emptied by the next acquisition |
| `FrameBatch` and `collected` | `collecting`, `missing`, `collected`, `requested` |
| shared pointers in the frame retainer | `held`, and `holds` of a submission |
| `beginFrame`, `trace`, `emptyView` | `BeginFrame`, `Trace`, `EmptyView` |
| `endFrame` without execution, whatever the reason | `EndFrame` |
| `execute`, with the engine as it is or a new one | `ExecuteSame`, `ExecuteNew` |
| `retireHistories` and its wait | guards of `ExecuteNew`; `WaitFails` |
| `releaseScenes`, `closePonderScenes` | `ReleaseScenes`, `CloseScenes` |
| `submitCommand`, `acquireContext`, `flushForReadback`, `World::releaseScene` | `Submit`, `Acquire`, `Flush`, `FlushDone` |

`blended` (history) says, of the views just recorded, whose samples each was traced over.

### UiRaster

`raster` is `UIModuleContext` with what it has recorded: `mode` is `overlayMode`, `state`
the viewport, scissor and blending it keeps, `saved` what a diagram puts aside, `track`
the `imageLayout()` of every image. Of the commands recorded the model keeps what they
amount to: `layout`, in which the images really are, `pass`, the attachments of the open
pass, and `dyn`, the dynamic state written in it. A command the API forbids, or a draw
with the wrong state, adds to `faults`. `client` is what the caller set last, so that what
a draw finds can be compared with what it should find. A rectangle carries the extent it
was flipped for. `stale` says that the main colour has been drawn since it was copied to
its alias.

| Code | Model |
|---|---|
| `syncToCommandBuffer`, `syncColorAttachments`, `deferIdleStateWrite` | `Replayed`, `Sync`, `Told` |
| `switchOverlayDraw`, `switchFramebufferDraw`, `switchOverlayPost` | the operators of these names |
| `end`, `endFramebufferDraw`, `captureMainAliases` | `End`, `EndFramebufferDraw`, `Capture` |
| `setOverlayViewport`, `setOverlayScissor`, `setOverlayScissorEnabled`, `setOverlayBlendEnable` | `SetViewport`, `SetScissor`, `SetScissorEnabled`, `SetBlend` |
| `FramebufferProxy` binding and attaching | `BindFramebuffer`, `Attach` |
| `drawIndexed`, `drawCustomVertexArray`; the clears with `clearMaskedFramebuffer` | `Draw`; `Clear` |
| `blitFramebuffer` with `blitAttachment` | `Blit` |
| `beginDiagram`, `postDiagram` | `BeginDiagram`, `PostDiagram` |
| `postBlur`, `postEntityEffect` with `postOverlay` and `postSpider` | `PostBlur`, `PostEntityEffect` |
| `PipelineContext::fuseWorld` with `writeMainDepth` | `FuseWorld` |
| `flushForReadback`; `submitCommand` with `fuseFinal`, and `begin` | `FlushForReadback`; `NextFrame` |

The code checks little of the order of these calls. What it leaves to the client is
written as one guard each, and `Lapses` names those to be dropped: a scissor set for a
target of another size is set again (`scissor`), nothing else happens inside a diagram
(`interrupt`), a diagram begins with no framebuffer bound (`nested`), its uniforms are
there (`uniform`), nothing unwritten is read (`unwritten`), entity effects come right after
the world (`late`), and an alias is sampled after a draw that follows the last effect
(`alias`). With any one of them dropped some property is violated: see Observations.

### PipelineCache

A cache file is named for its content: `stem` holds the hash of the content and a number.
`part` is the file being written, `bins` the published ones, each `"whole"`, `"short"` (which
the header shows) or `"garbled"` behind a valid header, on the medium (`synced`) or not.
`given` is what the driver was handed.

| Code | Model |
|---|---|
| scanning the directory, newest first, with the checks of header and hash | `Start` with `Usable`, `Latest` |
| creating a pipeline | `Create` |
| `persist`: its early returns, choosing a free stem, opening, writing, renaming | `Scan`, `FreeStems`, `Open`, `Write`, `Publish` |
| the operating system and the machine | `Kill`, `Sync`, `PowerLoss` |

## Runs

| Run | Config | States | Question |
|---|---|---|---|
| handles | `ExternalHandles.cfg` | 1.5 k | Does a handle resolve exactly while owned, through reuse and wrap? |
| chunk_versions | `ChunkVersions.cfg` | 0.63 M | Which mesh may a slot show, over relocation and worlds, is any lost, and is every accepted one published, with two workers racing everything else? |
| chunk_lights | `ChunkLights.cfg` | 1.2 M | Does a slot that is released and allocated again show a former owner's mesh, are packed light addresses those of live buffers, and is nothing lit with collection off? |
| frame_loop | `FrameLoop.cfg` | 1.3 M | Is a resource ever freed in use, freed twice, leaked or kept too long, or a fence waited for in vain? |
| failure_state | `FailureState.cfg` | 0.3 M | Do three threads that fail, read or are refused a frame agree on the first cause? |
| batch_selection | `BatchSelection.cfg` | 21 k | Do both kinds of builds get their share, within the budget, and does any build starve? |
| buffers | `Buffers.cfg` | 1.5 M | Does a late GPU draw what was written, from memory somebody owns? |
| resident_geometry | `ResidentGeometry.cfg` | 1.7 M | Is everything that is traced built, and every instance's model owned? |
| textures | `Textures.cfg` | 3.8 M | Does a slot show its texture or fallback, an upload reach its image, and a batch hold what the GPU reads? |
| ui_frames | `UiFrames.cfg` | 2.1 M | Is an open history ever closed in use, or blended into another view? |
| ui_raster | `UiRaster.cfg` | 0.2 M | Is every command of the interface recorded in the pass, the layouts and the state it needs? |
| pipeline_cache | `PipelineCache.cfg` | 1.1 M | Does a crash ever lose a cache that is whole, or hide it behind one that is not? |

All pass.

**What they show.**

- *handles*: `ResolvesExactlyLive`, `OneOwnerPerSlot`, `RecentlyReleasedStaysDead`.
  Four slots, one or two of them primary, and MaxGen = 3: every slot wraps
  several times.
- *chunk_versions*: `NoForeignBuild` (no mesh of a former owner, place or world),
  `NoLostBuild` (an accepted build is on show or on its way and
  will be taken), `FencePool` (fences are neither lost, except to an exception, nor
  shared), `ImplementsLatestWins`, and the liveness property
  `AcceptedBuildIsPublished`. One slot is enough because all
  of these are statements about one slot and the code has no path by which the
  builds of one slot decide what another shows; two workers and two fences give
  every race of an old build against a new one, over two generations and three
  occupants (the slot is relocated, or a new world takes it over, twice), with one exception.
- *chunk_lights*: `NoForeignBuild` again, `PackedLightIsLive`, `QueuedHasData`,
  `EmissionOff`. A primary and an external slot, or two external ones, in batches of two,
  all numbered by their own counter, so that versions start over and do not tell owners
  apart, and the option toggled at any time. The external slot is released and allocated
  again while the scheduler runs: a worker that copies, a batch being built and one in
  flight for the former owner meet the new one. One fence leaves room for one batch in
  flight beside builds that are queued and copied.
  Only an external slot numbered by generations and allocated twice is in neither run;
  with one worker, one fence and no lights it was explored without a different result, and
  `MeshesAreOwn` covers it.
- *frame_loop*: `NoUseAfterFree`, `HeldOnce`, `SignaledMeansComplete`,
  `HeldGroupsBounded`, `FencesComeBack` (the fence an acquisition waits for is signaled,
  or its submission is in the queue, until a failure stops the loop). Two and three images, six frames: twice around the larger
  swapchain, and enough for the longest retention (2·3 - 1 = 5 frames) to end.
- *failure_state*: `LossIsObserved`, `ReportsAreConsistent`, `RefusalsAreExplained` (who is
  refused a frame is told of a failure that `throwIfFatal` sees too, unless the loop was
  stopped by something else), `FirstCauseStays`. Three threads: two that race and one that
  reads, or is refused; the device may be created, and the loop closed, between any two steps.
- *batch_selection*: `LanesShare`, `InFlightBounded`, `NoStarvation`. Batches of two
  against a rule that counts to four, over two batches in flight, and one section (3)
  bigger than everything that may be in flight. A build is old after one tick.
- *buffers*: `DrawsWhatWasWritten`, `UsedIsOwned`, `OpenIsUnrecorded`. One persistent
  and one overlay name, two ranges, four storages, two frames in flight. Tickets
  roll over at 2, so a ticket of the batch before last is the current one again:
  the smallest distance there is. Two writes give an old one and a new one. Ranges may be
  written before the first full upload.
- *resident_geometry*: `TracedIsBuilt`, `InstancesAreOwned`. Two keys and a table of
  one model that keeps nothing idle, so that every second model evicts or is kept by a
  list only; two generations, two world frames, two revisions of the clouds.
- *textures*: `SlotsAreCurrent`, `UploadsArrive`, `InFlightIsHeld`. Three names (0 is
  reserved) over two images, so that a name that is released is allocated again; three
  staging buffers, so that two are in batches while one is filled; two writes and two
  fences, so that a poll that fails at one batch leaves one after it that was not polled.
  A failing poll is fatal, so nothing is *seen* to be used
  again after it; `InFlightIsHeld` asks for the ownership itself, in the state it leaves.
- *ui_frames*: `HistoriesInUseAreOpen`, `HistoryIsOwn`. Three views for two slots, so
  that a slot is taken over; two sizes, so that an engine is replaced; three engines,
  since the replaced one may be retained while its successor is replaced too; three
  frame contexts, and flushes and unloads in between.
- *ui_raster*: `PassesAreLegal`, `LayoutsAgree`, `DrawsSeeTheState`,
  `AliasesAreCurrent`. One texture of the window's size and one smaller, which any
  framebuffer may have with or without the main depth, or the main colour itself; both
  aliases bound; one rectangle, since what matters is whether it is the client's, a
  diagram's or everything, and for which extent it was flipped. Blits are of colour, of
  depth, or of depth with stencil: the buffers of one blit are done one after the other.
  A draw samples all that its client may sample; the six rounds of a blur are two.
  The state space is finite without bounds: any number of frames and any order of calls.
- *pipeline_cache*: `WholeIsFound`, `PersistedStays`. Two instances
  that start, compile two pipelines in either order and persist, three files
  and one power loss: a garbled file can be newer than a whole one, and two instances can
  have chosen the same name.

**Bounds.** `MaxVersion`, `MaxOwners`, `MaxThrows` and `MaxFrames` are guards on
counters that the code does not bound; `MaxSlots` bounds storage. A behaviour that
uses them up stops, so runs with such bounds do not check deadlock. In
`FailureState` each thread fails once, after which everything rests: the same.
`MaxWrites`, `MaxImages`, `MaxTokens`, `MaxGeneration`, `MaxClouds`, `MaxSize`, `MaxFiles`
and `MaxLosses` are such bounds too. `UiFrames` stops after a fatal failure, as the code does. `ExternalHandles`,
`BatchSelection` and `UiRaster` have no such bound and check deadlock.
`ChunkVersions` keeps `MaxVersion` at 1 because a race needs an old version
and a new one; runs with 2 and a single worker were explored without a
different result. `MaxGen` in `Chunks` is larger than the number of releases
`MaxOwners` allows, so the wrap is left to `ExternalHandles`.

**Cases the constants exclude.** `BuildsPerFrame = 1`, `ReloadMidFrame = FALSE` and
`Lapses = {}` leave out what the client does not do, or what the code is known not to
survive: see Observations for each. A run says nothing of these, nor do the properties it
checks; the theorems name the condition where they need it.

**Observations.**

- A group of the retainer is released when its frame is complete *and*
  `framesInFlight` newer frames have begun. In this model each condition suffices
  for `NoUseAfterFree` alone, since a context is acquired only after its fence has
  been waited for. Work of other queues, which the second may be meant for, is not part
  of the model.
- Retention is bounded by 2·(images - 1) frames, not by `framesInFlight`:
  submitting a context again overwrites the serial its fence had proved complete
  (`HeldGroupsBounded`).
- An exception in a chunk build destroys a fence and a command buffer of the pool
  (`lost`); `resetScheduler` and a new world bring them back.
- A range written to new persistent storage before it was uploaded in full opens the
  storage and leaves it waiting for the full upload (`queuePersistentUploadRange` does not
  refuse it). After `performQueuedUpload` the full upload then writes into staging memory
  whose copy is recorded or in flight, and the GPU may copy either content. The full upload
  is followed by a copy of its own, before which nothing draws the storage, so no draw
  shows the difference (`DrawsWhatWasWritten`); `OpenIsUnrecorded` exempts these copies
  (`CopiedEarly`) and only these.
- A captured cloud is filed under `cloudRevision_` (`entities.cpp:2151`), which a second
  capture of the same frame overwrites even if it fails: what was captured under one
  revision may be found under another. `ResidentGeometry` files clouds as the code does, but
  no property tells whose content a cloud has.
- After `Framework::close`, a benign result or an acquisition without a device, the loop is
  down and no cause is recorded: `inactiveResult` answers `VK_NOT_READY`.
- `endResourceReload` waits for the queue, which says nothing of views recorded in the
  open frame: it closes histories these use (`UiFrames` with `ReloadMidFrame = TRUE`
  violates `HistoriesInUseAreOpen`).
- The builds of instanced models are drained when the world is recorded. Unlike rigid models
  they have no lifecycle: in a frame that is given up they are lost.
- `PonderSharedWorld::execute` stores its pipeline before `init()` has succeeded. After an
  exception that is not fatal, the next frame would use the half made one.
- `SubmittedGeometryCache` says that "Recording/building alone never makes GPU geometry
  reusable" (`submitted_geometry_cache.hpp:7`), but `commitCachedCloudBuild`
  (`entities.cpp:835`) marks whatever the cache holds as submitted once any cloud build
  was recorded in the frame. If a cloud is built, `flushForReadback` renders and commits
  it, and the client builds another in the same frame, the next frame may reuse an
  acceleration structure no command has built (`ResidentGeometry` with
  `BuildsPerFrame = 2` violates `TracedIsBuilt`).
- The pipeline cache never deletes a file: every new content stays as a `.bin`, and an
  instance killed while writing leaves its `.part`. A rename may replace a file that is on
  the medium by an equal one that is not, which a power loss then takes away:
  `PersistedStays` speaks of the time before a loss.
- `setOverlayScissor` flips the scissor for the target bound when it is called, and
  `switchFramebufferDraw` does it again for its own target, but `switchOverlayDraw` does
  not. After drawing to a framebuffer of another size, the scissor of the main target is
  wrong until it is set anew (`scissor`).
- `end()` in a diagram forgets the saved state, so the diagram's viewport and scissor stay
  (`interrupt`); `beginDiagram`, the effects and `switchOverlayPost` do not close the pass of a
  framebuffer (`nested`); and `postDiagram` throws with its pass open and the state not
  given back when its uniforms were not uploaded (`uniform`).
- `postSpider` after a draw notes `COLOR_ATTACHMENT_OPTIMAL` for a main colour the pass has
  left in `PRESENT_SRC_KHR` (`late`), and the effects renew no alias (`alias`).
  `blitAttachment` gives the source its old layout back, which a barrier cannot when it was
  `UNDEFINED` (`unwritten`).
- `invalidateChunk` and `relocateChunk` without a generation number from the slot's
  counter. Relocated this way, a slot could take a build of its former section
  that has yet to be queued, because it will be numbered afterwards. The callers
  are outside this repository; `RelocateChunk` takes generations.

## Fairness and assumptions

`Chunks!Fairness`: the render thread ticks every frame (`Poll`, the steps of a
round, a pending toggle), the GPU finishes what was submitted (`Signal`), and a
tick that can take builds takes some: background builds wait for at most
`backgroundWait`, then old ones are taken first. That a *particular* build is
eventually taken is the question of `NoStarvation`; with one slot in
`chunk_versions` it is the same build. Nothing is assumed of workers, of the
game, or of failures, so the property holds only until a failure and is stated
so. Exceptions are limited by `MaxThrows` to fewer than there are fences: with all
lost, nothing is built any more.

`BatchSelection!Fairness`: time passes, a round runs every frame, batches finish.
`NoStarvation` excepts only behaviours in which the scheduler is replaced infinitely
often, since the admission sequence starts over with it.

Assumptions about what is outside the code modelled:

- The client stops its mesh workers before it leaves a world (`WorkersStopped`).
  Slot generations restart with `reset`, so the code cannot tell worlds apart.
- A slot's builds are numbered either by the game or by the slot itself
  (`ImplicitSlots`), and the game's generations increase.
- The GPU executes the submissions of the main queue in order, and a signaled fence
  means that its submission is complete.
- Both calls of `safeAcquireCurrentContext` in `World::releaseScene` return the same
  context.
- The client writes overlay names before it draws with them, and queues
  uploads while a frame is open, not between submission and the next acquisition.
- The client builds once per frame (`BuildsPerFrame = 1`), renders only frames it has built,
  and closes its world mesh frame before the next acquisition; its tokens are new.
- A reload of textures begins and ends when nothing is in flight, as its waits bring about,
  and not after views were traced in the open frame (`ReloadMidFrame = FALSE`).
- The batches of UI path tracing are recorded in an open frame, and its callers are one
  thread: each holds `recreateMtx` throughout.
- The client of the interface keeps the protocol described with `UiRaster`
  (`Lapses = {}`), and its framebuffers outlive the frame. The theorems say of each property
  which lapses it survives. Textures are small or large, and none is one of the images
  the interface has itself (`TexturesAssumption`).
- Values that stand for nothing differ from those that stand for something
  (`NoneAssumption`, `DistinctAssumption`): empty optionals and null pointers.
- Two instances never read the same tick of the clock their file names hold, and hashes do
  not collide.
- Sets whose elements the code counts or scans are finite: the fences of the pool, the
  views of the interface and staging buffers (`FencesAssumption`, `ViewsAssumption`,
  `StagingAssumption`).
- Budgets and distances are natural numbers, a batch has room, and what one poll may prepare
  is no more than what may be in flight (`PolicyAssumption`), as the constants of
  `chunk_scheduling.hpp` are.
- What a frame retains is freed as soon as the GPU has executed it, which is earlier than
  `FrameRetention` does: the properties do not lean on the delay.
- `failure::State::clear` runs only before the renderer starts.
- The release and acquire operations of `failure_state.hpp` are interleaved as if they
  were sequentially consistent. What a property relates is always published by one
  thread in the order in which another reads it back (loss before the first cause, the
  process-wide state before the device's, both before `running_`), so that
  release/acquire gives the reader the same view.

## Proofs

Each theorem holds for every value of the constants under the named assumptions of
its module; the runs show the same on a small instance. Every invariant a run checks is
proved, and every action property; type correctness, and that the driver gets whole files
only (`DriverIsGivenWholeData`), are proved and not among the properties of the runs. The theorems of a component
follow from one inductive invariant `IInv`, by `Init => IInv` and
`IInv /\ [Next]_vars => IInv'`, with one step per action and one lemma per conjunct
or helper.

**ChunksProofs**, of the handle table: `TableTypeCorrect`, `LiveResolve`, `SlotsHaveOneOwner`,
`ReleasedStaysDead`, on lemmas about what `Allocate`, `Release` and `NextGen` do to
any table. `TableInv` is: the table is well formed
(free slots are external, inactive and named once; the generations of external
slots are never 0), `LiveIsActive` (the handles owned are those of active slots at their present
generation) and `AgeIsDistance`: the present generation of a slot is as many
steps ahead, around the circle of MaxGen values, as `recent` counts releases. Without
the last, `RecentlyReleasedStaysDead` is not inductive: that a generation differs
from an old one says nothing of the next.

**ChunksProofs**, of the pipeline: `TypeCorrect`, `LightsAreLive`, `QueueMatchesData`,
`FencesAccountedFor`, `OffMeansDark`, `BuildsAreDelivered` and, with `MaxOwners < MaxGen`,
`MeshesAreOwn` and `LatestMeshWins`. What the handle table does is known from the same lemmas.

- `IInv` has five parts: `SlotsOK` (the
  storage; packed addresses; the queue; released slots hold nothing), `WorkOK` (builds
  in the queue, in the batch being built and in flight are builds of real slots),
  `PoolOK` (`FencePool`, and the render thread holds at most one fence, exactly while
  it builds or has submitted, reset while it builds), `FlagsOK` and `HistoryOK`.
  `DarkOK` strengthens `EmissionOff`: it also needs queued data and packed addresses
  dark, since they become meshes.
- That no build is lost needs to know what slots want: `VersionsOK` says that a slot shows
  no more than it wants, wants the newest version it has accepted, and has numbered that
  version if it numbers builds itself, so a newer one never looks stale. `OrderOK` says
  that batches in flight are in the order of their submission: a poll that finds several
  done publishes the newest build of a slot last.
- That no mesh is foreign needs to know who is on the way. `OwnersOK` follows everything
  that is `Coming`, from a worker's task before it is queued to a batch in flight: it was
  meant for a generation its slot has had, and if that is the current one, it is for the
  occupant or of a version the slot has been told to refuse (`Sound`); and generations do
  not come round (`GenerationsOK`), which is what `MaxOwners < MaxGen` is for.
- Steps are sorted by what they do to all this: they move builds along (`MovesAlong`, which
  also says that none is dropped on the way but stale ones), allocate a slot, take one
  back (`TakesBack`), take a build in (`QueuesBuild`), are a worker's own, or leave the
  world. The same sorting gives the refinement: a step that shows a build its slot accepts is
  `Show` of `LatestWins`, one that takes a build in is `Want`, the others hide, pass or
  leave the slot as it is.

**FrameworkProofs**, of failures: `FailureTypeCorrect`, `LossObserved`, `ConsistentReports`,
`RefusalsExplained`, `FirstCauseIsFinal`. `FailureInv` adds to the type invariant what the
states owe each other (`StateInv`), and per thread what it has done so far
(`RecorderInv`: a thread about to store is the first cause and nothing is stored; one
at the device's state has set the process's; loss is flagged before the exchange) and
what it has read (`ReaderInv`: the cause a reader holds is the first cause). A refusal is
explained because the loop is down only by who had recorded before, or `excused`, a
device's cause is recorded only after the process's, and neither is ever taken back, so
what `inactiveResult` reads one step later is still there.

**FrameworkProofs**, of frames: `TypeCorrect`, `SignalsAreSound`, `NothingFreedInUse`,
`RetiredHeldOnce`, `FencesReturn`, `RetentionBounded`. Why nothing is freed in use takes four facts together. The queue is
in the order of frames, and the submission that carries a context's fence is the last
of its frame, so a signaled fence proves the execution of all that came before
(`QueueInv`). An open frame's context has its fence signaled and nothing of that frame
is submitted yet (`FrameInv`). A retired resource is in a group at least as new as
every submission, and every open recording, that may use it (`RetainInv`). Each
retired resource is in one group (`HeldInv`). The groups `Acquire` frees are no newer
than the completed serial, and every pending submission is newer than it.

What bounds retention (`LagInv`) is how many contexts lag behind a group: those whose
last submission is older than the group's frame, so that their fence proves nothing about
it. Each frame begun either takes a context that does not lag, which releases the group,
or makes one that does catch up. So the contexts that lag and the frames since add up to
`2 * (images - 1)` at most. Group 0, before the first frame, waits for the first round
and is the one special case.

That every fence comes back (`FencesReturn`) is inductive together with `IInv`
(`FencesInductive`): a fence is reset by the submission that will signal it, only a
submission executed leaves the queue, and it signals then; a submission that fails after the
reset records the failure.

**ResidentGeometryProofs**: `TypeCorrect`, `InstancesOwned` and, when a frame builds at most
once, `TracedGeometryIsBuilt`. That the table keeps its bound needs the cardinality lemmas
of the library: a new model replaces one, evicts one or fits (`OneResidentMore`, `Shape`).
An instance is owned because a model used in the open world frame has an owner in the
frame already (`UsedInv`). What is traced is built because a model's lifecycle follows what
the commands did with it: one that is submitted is built, one that is recorded is recorded
by this frame's commands and held by its list, so a frame that is given up finds and
reopens it (`LifeInv`); and the clouds of a frame are built before or are what its builder
builds (`CloudInv`).

**BuffersProofs**: `TypeCorrect`, `UsedHasOwner`, `OpenStorageIsUnrecorded` and
`SubmissionsDrawWhatWasWritten`, all without a condition. That storage in use has an owner
(`OwnersInv`) holds by case: what is recorded is owned by its name, by a slot of its frame, by the
world or by the frame's own group, and submitting hands the group over with the
frame, at or behind the commands that use it. `Exclusive` says that storage which is written has
one owner only, and `FramesInv` that an overlay slot is in use by submissions of its own
context only, so that it may be written again once that context comes back. What is drawn
is right because of three facts about time: storage that is open has not been copied from
since it was opened, also when the ticket rolls over (`TicketsInv`); staging holds what
was written, and the device holds the same unless a copy is to come (`ContentsInv`); a submission in
the queue draws from staging if it, or one before it, copies, and from the device if not
(`DrawsInv`). `TicketsInv` exempts the storage in `early`
from what the first of these says of copies, not from what it says of draws; such storage
belongs to a name, so that new storage is never among it.

**UiFramesProofs**: `TypeCorrect`, `HistoriesAreOwn` and, with `~ReloadMidFrame`,
`EnginesInUseAreOpen`. An engine that a submission uses is held from that submission on: by the
group of that frame or a later one, or by the frame to come (`EngineInv`). What is used is then open
because engines are closed only when nothing owns them (`OpenInv`). `ViewInv` is about slots: at most
two views have a scene or are about to get one, which is why the second of them
always finds a slot (`NextSlot`) and the code's "UI PT scene slots were not retired before
collection" is never thrown; and a view with buffers finds its own samples or none in its
slot.

**FrameworkProofs**, of the pipeline cache: `CacheTypeCorrect`, `DriverIsGivenWholeData`, and the action properties
`WholeFilesAreFound` and `PersistedFilesStay`. `WritersOK` says of an instance that is
persisting that its cache is small enough and no longer changes, that the name it writes
under is its content's, and that it publishes complete files only; and of the files, that
none is larger than may be loaded. The last makes every whole file usable, so that one of the
usable files is the newest (`LatestTime`) and is loaded. A rename replaces a file by an
equal one, because names stand for contents.

**TexturesProofs**: `TypeCorrect`, `SlotsCurrent`, `UploadsReachImages`. Slots: a name that
is allocated has no fallback (`NamesOK`), and a name is handed out only while nothing has
it (`PoolOK`, which says that the stack of free names holds absent names, each once), so that
what follows a fallback's slot never overwrites a texture's. Uploads: an image is one
texture's (`ImagesOK`); a staging buffer with regions belongs to one name with a texture, or
to what one submission copies, never to both (`CachesOK`, `SubmissionsOK`), and holds only
what was written for that image; each submission the GPU has not executed has a batch with a fence
of its own that is not signaled, so no poll returns its buffers. Then every region written
for the image of a texture is there, on its way, or waits (`ContentsOK`). That what the GPU
may execute is held, also after a poll that failed (`BatchesHold`), is `SubmissionsOK`.

**BatchSelectionProofs**: `TypeCorrect`, `LanesAreShared`, `FlightsAreBounded`. Here the batch
and the totals are computed along sequences, so the proofs are by induction over data. The
library's induction rules take an operator, which the provers cannot instantiate;
`SetInduction` and `PrefixInduction` state induction for a *set* of numbers instead, which
they can, and rest on the least element of a set of naturals (`LeastNatural`, from the
library's theorem on well-founded relations). `RecursionExists` does the same for recursive
functions, whose step is a function. With them, `Total` adds up (`TotalAppend`,
`TotalRemoveAt`, `TotalBounds`) and the history of a batch is defined (`HistoryIs`).

- `LanesInv`: no more admissions in a row pass over an old background build than slots were
  filled since the last background turn, and an interactive build yields only at such a
  turn. One slot keeps this (`SlotKeepsRow`), therefore a batch does, from whatever turn the
  batches before it have left.
- `BudgetInv`: what is in flight is within the budget, or it is all in one batch, which has the
  bytes of one section. The prefixes of a batch are within the upload budget or have the
  bytes of one section (`BatchIsSmall`), since builds that follow an oversized one have no
  bytes; and a batch that finishes leaves the other where it was, or nothing.

**UiRasterProofs**: `PassesLegal`, `LayoutsAreNoted`, `StateIsSeen`, `AliasesCurrent`, for any
textures, rectangles and aliases. The first two survive scissors that are not set again
and aliases sampled too late, the third the latter, the last the former; with any other
lapse they are false. `Inv` has seven parts: the recorder's type (`Types`); the
mode says which pass is open and over which images, and outside of it every image has the
layout noted for it (`Passes`); a mode with a pass has the recorder's state in the command
buffer (`Sees`); client and recorder agree on being in a diagram (`InStep`) and on the state, a
diagram's saved one included (`Agrees`); the alias is current where it may be sampled
(`Shown`); and faults are those of lapses (`Allowed`). A command records a fault by `Blame`, so
each command is first shown to blame nothing where the invariant holds (`BarrierMoves`,
`PassBegins`, `Transfers`); then every operation is a chain of such commands.

**Model-checked only**: liveness (`AcceptedBuildIsPublished`, `NoStarvation`), since
fairness and ENABLED are beyond the prover. No module declares a RECURSIVE operator.

## What is not modelled

Inside the modelled components: the per-frame upload of packed data in `resetFrame`,
chunk transforms, the scene metadata cache and statistics; `withinBudget`, which only
ends a frame's rounds early; GPU profiles, frame limiting, semaphores, surface
handling and pipeline warm-up; the byte layout of handles and of failure texts.
Building an acceleration structure is one step: a mesh is built or the build
throws.

*Buffers*: the index buffers generated for quads, overlay uniforms, the world, exposure
and mapping uniforms with their history, sizes of overlay slots (an overlay slot may always
be too small or large enough), the pooled staging budget.

*ResidentGeometry*: dynamic entities and their conversion, post entities and histories, the
stages and audits of world meshes (counts and hashes of what the client sends). The
world's token is folded into the generation a batch was built in.

*Textures*: the ring of staging buffers of a texture is one buffer, and pooled staging and
fences are as good as new ones, so the 64 MiB budget of the pool is left out. The bindings
of the UI and of ray tracing are written together and are one here; snapshots of
descriptor tables per frame, attachments, downloads and emission maps are left out. After
a fatal failure the calls of the client are refused.

*UiFrames*: composites, the geometry cache, target textures, and failures inside
`execute()` other than the wait's. A new parent pipeline comes only with
`closePonderScenes`, so an engine is replaced here for its size only.

*UiRaster*: viewport, scissor and blending stand for all the dynamic state, which the code
keeps, replays and defers alike; one framebuffer with one colour and one depth attachment,
always ended before it changes; one frame context, since the others have images of their
own and take its state over. The copies for frame generation (`captureFrameGenerationHudless`,
background modulation) go to images nothing else here uses. Creation and resizing of
targets and pipelines, descriptor tables, whose entries the client's samples stand for,
targets of diagrams (`ui_diagram_target.cpp`), the layouts of AMD builds, and memory
barriers' stages and accesses are left out: a barrier is a layout transition. After the
loop has stopped every call returns at once.

*PipelineCache*: statistics, and errors of the file system, which end a load or a
persist as if there were no file.

Outside: the components marked `not_modelled` in `PROJECT.json`. Instancing is plain tables
behind one thread, apart from the hazard above. `parallelFor` forks and joins on locals. The
loading renderer runs on the game's thread, through the actions of `FrameLoop`, before the
game's own frames. World modules, the pipeline, the Vulkan layer, upscalers, diagnostics and shaders are parameters, wiring, vendor code
or numeric code, and they are most of the repository's lines: what the models map
is the part that holds protocol.

## Plan

1. Done: `HandleTable`, `ExternalHandles`, `Chunks` with `LatestWins`,
   `FrameRetention`, `FrameLoop`, `FailureState`, `BatchSelection` and the proofs
   above; `Buffers`, `ResidentGeometry`, `Textures`, `UiFrames`, `UiRaster`,
   `PipelineCache`.
2. Proofs: done for every invariant and action property. What remains is liveness, with
   TLC. Next would be that `BatchSelection!Round` implements `Chunks!Select`: the queue of
   one is that of the other without ages.
3. Further modules: `SceneFrames`, chunk slots with the frame loop, so that no frame reads
   the light or geometry buffer of a mesh that was replaced; `parallelFor` with failing
   bodies and failing thread creation; the loading renderer; descriptor tables of the
   interface and the targets of its diagrams.
