-------------------------- MODULE ResidentGeometry --------------------------
(***************************************************************************)
(* Geometry that class Entities keeps on the GPU from frame to frame: the  *)
(* rigid models, one acceleration structure per model key and resource     *)
(* generation, and the cloud geometry of the last revision.  Both are      *)
(* recorded in one frame and may be traced in later ones only if that      *)
(* frame was submitted.  A frame may also be flushed in the middle, fail   *)
(* before it is submitted, or show no world at all.                        *)
(***************************************************************************)
EXTENDS Integers, FiniteSets

CONSTANTS Keys,           \* model keys of the client
          Models,         \* RigidModelResource objects that can exist at a time
          Revisions,      \* revisions of the clouds; 0 in the code is none
          MaxResident,    \* the bound of rigidModels_: 1024 in the code
          MaxIdle,        \* world frames an unused model is kept: 120 in the code
          BuildsPerFrame, \* how often the client builds in one frame
          MaxTokens,      \* a bound on the world frames
          MaxGeneration,  \* a bound on the resource generations
          MaxClouds,      \* a bound on the cloud geometry built
          None            \* no model, no revision, no geometry

ASSUME BoundsAssumption ==
    /\ MaxResident \in Nat \ {0} /\ MaxIdle \in Nat /\ BuildsPerFrame \in Nat
    /\ MaxTokens \in Nat /\ MaxGeneration \in Nat \ {0} /\ MaxClouds \in Nat

ASSUME NoneAssumption == None \notin Models \cup Revisions \cup Nat
ASSUME ModelsAssumption == Models \cap Nat = {}

VARIABLES
    generation, \* activeResourceGeneration_
    token,      \* activeFrameToken_
    meshOpen,   \* worldMeshFrameOpen_
    resident,   \* rigidModels_
    model,      \* per model: generation, the world frame of its last use, its lifecycle
    used,       \* rigidUsed_, which owns its models
    instances,  \* rigidInstances_, which does not: the models they point to
    batch,      \* rigidBatch_
    cache,      \* cloudCache_
    cloudRevision, \* cloudRevision_: of the last capture that was begun
    capturing,  \* cloudCapturing_
    captured,   \* whether there is a cloudBuildData_
    builder,    \* cloudBlasBuilder_: the geometry it builds, or None
    builderRecorded, \* cloudBuildRecorded_
    queued,     \* queuedClouds_
    clouds,     \* the clouds in entityBatch_
    cloudCount, \* cloud geometry built so far
    phase,      \* whether the frame is open, submitted, or given up
    rendered,   \* worldRendered
    builds,     \* calls of build() in the frame
    recorded,   \* what is recorded to be built and not submitted
    traced,     \* what the world last recorded traces
    built       \* what submitted commands have built

rigid == <<resident, model, used, instances, batch>>
cloud == <<cache, cloudRevision, capturing, captured, builder, builderRecorded, queued, clouds,
           cloudCount>>
mesh == <<generation, token, meshOpen>>
frame == <<phase, rendered, builds, recorded, traced, built>>
vars == <<mesh, rigid, cloud, frame>>

Clouds == 1 .. MaxClouds

Unused == [generation |-> 0, used |-> 0, life |-> "pending"]
EmptyBatch == [models |-> {}, instances |-> {}, token |-> 0, generation |-> 0]
EmptyCache == [revision |-> None, value |-> None, submitted |-> FALSE, used |-> FALSE]

Init ==
    /\ generation = 1 /\ token = 0 /\ meshOpen = FALSE
    /\ resident = [k \in Keys |-> None]
    /\ model = [m \in Models |-> Unused]
    /\ used = {} /\ instances = {} /\ batch = EmptyBatch
    /\ cache = EmptyCache
    /\ cloudRevision = None /\ capturing = FALSE /\ captured = FALSE
    /\ builder = None /\ builderRecorded = FALSE
    /\ queued = {} /\ clouds = {} /\ cloudCount = 0
    /\ phase = "open" /\ rendered = FALSE /\ builds = 0
    /\ recorded = {} /\ traced = {} /\ built = {}

-----------------------------------------------------------------------------
\* The world frame of the client, within a frame; its token is new.
BeginWorldMeshFrame ==
    /\ phase = "open" /\ ~meshOpen /\ token < MaxTokens
    /\ token' = token + 1
    /\ meshOpen' = TRUE
    /\ UNCHANGED <<generation, rigid, cloud, frame>>

\* A frame that is not committed takes its instances back, not its models.
EndWorldMeshFrame(commit) ==
    /\ meshOpen
    /\ meshOpen' = FALSE
    /\ instances' = IF commit THEN instances ELSE {}
    /\ UNCHANGED <<generation, token, resident, model, used, batch, cloud, frame>>

\* invalidateWorldMeshGeneration: after a reload no model is resident any more.
Invalidate ==
    /\ generation < MaxGeneration
    /\ generation' = generation + 1
    /\ resident' = [k \in Keys |-> None]
    /\ instances' = {}
    /\ meshOpen' = FALSE
    /\ UNCHANGED <<token, model, used, batch, cloud, frame>>

Residents == {resident[k] : k \in Keys} \ {None}

\* A new object: no container owns it and no commands use it.
Fresh(m) == m \in Models \ (Residents \cup used \cup batch.models \cup traced \cup recorded)

\* residentRigidModel on a miss.  When the table is full and the key is not in it, a
\* model unused for longest leaves it.
Oldest(k) ==
    /\ resident[k] # None
    /\ \A l \in Keys : resident[l] # None => model[resident[k]].used <= model[resident[l]].used

Victims(k) ==
    IF resident[k] = None /\ Cardinality(Residents) >= MaxResident
    THEN {l \in Keys : Oldest(l)} ELSE {k}

Hit(k) == resident[k] # None /\ model[resident[k]].generation = generation

\* queueRigidModels, one record: a model is added once in a world frame.
UsedByName(m) == used  \* as if a resident model needed no owner in the frame

UsedWith(m) == IF model[m].used = token THEN used ELSE used \cup {m}

QueueResident(k) ==
    /\ phase = "open" /\ meshOpen
    /\ Hit(k)
    /\ used' = UsedWith(resident[k])
    /\ model' = [model EXCEPT ![resident[k]].used = token]
    /\ instances' = instances \cup {resident[k]}
    /\ UNCHANGED <<mesh, resident, batch, cloud, frame>>

QueueNew(k, m) ==
    /\ phase = "open" /\ meshOpen
    /\ ~Hit(k) /\ Fresh(m)
    /\ \E l \in Victims(k) : resident' = [resident EXCEPT ![l] = None, ![k] = m]
    /\ model' = [model EXCEPT ![m] = [generation |-> generation, used |-> token,
                                      life |-> "pending"]]
    /\ used' = used \cup {m}
    /\ instances' = instances \cup {m}
    /\ built' = built \ {m}
    /\ UNCHANGED <<mesh, batch, cloud, phase, rendered, builds, recorded, traced>>

-----------------------------------------------------------------------------
\* SubmittedGeometryCache: what the frame may reuse.
Found(r) == IF cache.revision = r /\ cache.submitted THEN {cache.value} ELSE {}

\* beginCachedCloud.  The lookup alone keeps the cached geometry for a frame.
BeginCloud(r) ==
    /\ phase = "open" /\ ~capturing
    /\ cache' = [cache EXCEPT !.used = TRUE]
    /\ queued' = queued \cup Found(r)
    /\ capturing' = (Found(r) = {})
    /\ cloudRevision' = IF Found(r) = {} THEN r ELSE cloudRevision
    /\ UNCHANGED <<mesh, rigid, captured, builder, builderRecorded, clouds, cloudCount, frame>>

\* endCachedCloud: what was captured waits for build(), or is dropped.
EndCloud(success) ==
    /\ capturing
    /\ captured' = (captured \/ success)
    /\ capturing' = FALSE
    /\ UNCHANGED <<mesh, rigid, cache, cloudRevision, builder, builderRecorded, queued, clouds,
                   cloudCount, frame>>

\* build() publishes the batches of the frame, and makes geometry of the captured cloud
\* each time it is called.  It is filed under the revision of the last capture begun,
\* also if that one failed.
Build ==
    /\ phase = "open" /\ ~capturing /\ builds < BuildsPerFrame
    /\ builds' = builds + 1
    /\ batch' = [models |-> used, instances |-> instances, token |-> token,
                 generation |-> generation]
    /\ IF ~captured
       THEN UNCHANGED <<cache, queued, builder, cloudCount>>
       ELSE /\ cloudCount < MaxClouds
            /\ cloudCount' = cloudCount + 1
            /\ builder' = cloudCount'
            /\ cache' = [revision |-> cloudRevision, value |-> cloudCount',
                         submitted |-> FALSE, used |-> TRUE]
            /\ queued' = queued \cup {cloudCount'}
    /\ clouds' = queued'
    /\ UNCHANGED <<mesh, resident, model, used, instances, cloudRevision, capturing, captured,
                   builderRecorded, phase, rendered, recorded, traced, built>>

-----------------------------------------------------------------------------
\* WorldPrepare records the builds that are due.
Due == {m \in used : model[m].life = "pending"}
DueCloud == IF builderRecorded THEN {} ELSE {builder} \ {None}

\* It traces the clouds and, while their world frame lasts, the rigid instances.
Accepted == batch.token = token /\ batch.generation = generation
Traced == clouds \cup (IF Accepted THEN batch.instances ELSE {})

\* The world is rendered once a frame, and only when geometry was built for it.
Render ==
    /\ phase = "open" /\ ~rendered /\ builds > 0
    /\ rendered' = TRUE
    /\ traced' = Traced
    /\ builderRecorded' = (builder # None)

\* Rendered, and an exception ends the call before the commands are submitted.
RenderOnly(next) ==
    /\ Render
    /\ phase' = next
    /\ recorded' = recorded \cup Due \cup DueCloud
    /\ model' = [m \in Models |-> IF m \in Due THEN [model[m] EXCEPT !.life = "recorded"]
                                               ELSE model[m]]
    /\ UNCHANGED <<mesh, resident, used, instances, batch, cache, cloudRevision, capturing,
                   captured, builder, queued, clouds, cloudCount, builds, built>>

\* commitCachedCloudBuild and commitRigidModels: what was recorded is submitted.
Committed(due) ==
    [m \in Models |-> IF m \in used /\ (model[m].life = "recorded" \/ m \in due)
                      THEN [model[m] EXCEPT !.life = "submitted"] ELSE model[m]]
Published(isRecorded) ==
    IF isRecorded /\ cache.value # None THEN [cache EXCEPT !.submitted = TRUE] ELSE cache

\* submitCommand, or flushForReadback when the overlay depends on the world: it renders
\* the world and submits.
SubmitRendering(next) ==
    /\ Render
    /\ phase' = next
    /\ recorded' = {}
    /\ built' = built \cup recorded \cup Due \cup DueCloud
    /\ model' = Committed(Due)
    /\ cache' = Published(builder # None)
    /\ UNCHANGED <<mesh, resident, used, instances, batch, cloudRevision, capturing, captured,
                   builder, queued, clouds, cloudCount, builds>>

\* The world was rendered earlier in the frame, or is not shown.
SubmitRest(next) ==
    /\ phase = "open"
    /\ phase' = next
    /\ recorded' = {}
    /\ built' = built \cup recorded
    /\ model' = IF rendered THEN Committed({}) ELSE model
    /\ cache' = IF rendered THEN Published(builderRecorded) ELSE cache
    /\ UNCHANGED <<mesh, resident, used, instances, batch, cloudRevision, capturing, captured,
                   builder, builderRecorded, queued, clouds, cloudCount, rendered, builds,
                   traced>>

-----------------------------------------------------------------------------
\* SubmittedGeometryCache::beginFrame
Aged == IF cache.used THEN [cache EXCEPT !.used = FALSE] ELSE EmptyCache

\* RigidBuildLifecycle::beginFrame: what was recorded and not submitted is recorded again.
ReopenedNone == model  \* as if recorded builds were taken for submitted

Reopened ==
    [m \in Models |-> IF m \in used /\ model[m].life = "recorded"
                      THEN [model[m] EXCEPT !.life = "pending"] ELSE model[m]]

\* acquireContext and resetFrame(), when the world frame of the client is over.
Acquire ==
    /\ phase \in {"submitted", "abandoned"} /\ ~meshOpen
    /\ phase' = "open"
    /\ rendered' = FALSE
    /\ builds' = 0
    /\ recorded' = {}
    /\ model' = Reopened
    /\ used' = {} /\ instances' = {}
    /\ resident' = [k \in Keys |->
           IF resident[k] # None /\ token > model[resident[k]].used + MaxIdle
           THEN None ELSE resident[k]]
    /\ capturing' = FALSE /\ captured' = FALSE /\ builder' = None /\ builderRecorded' = FALSE
    /\ queued' = {} /\ clouds' = {}
    /\ cache' = Aged
    /\ traced' = IF phase = "abandoned" THEN {} ELSE traced
    /\ UNCHANGED <<mesh, batch, cloudRevision, cloudCount, built>>

\* releaseScene, once what is recorded has been flushed.
ReleaseScene ==
    /\ recorded = {} /\ phase # "abandoned"
    /\ resident' = [k \in Keys |-> None]
    /\ used' = {} /\ instances' = {} /\ batch' = EmptyBatch
    /\ cache' = EmptyCache
    /\ capturing' = FALSE /\ captured' = FALSE /\ builder' = None /\ builderRecorded' = FALSE
    /\ queued' = {} /\ clouds' = {}
    /\ traced' = {}
    /\ UNCHANGED <<mesh, model, cloudRevision, cloudCount, phase, rendered, builds, recorded,
                   built>>

Next ==
    \/ BeginWorldMeshFrame \/ Invalidate
    \/ \E commit \in BOOLEAN : EndWorldMeshFrame(commit)
    \/ \E k \in Keys : QueueResident(k) \/ \E m \in Models : QueueNew(k, m)
    \/ \E r \in Revisions : BeginCloud(r)
    \/ \E success \in BOOLEAN : EndCloud(success)
    \/ Build
    \/ \E next \in {"open", "submitted"} : SubmitRendering(next) \/ SubmitRest(next)
    \/ \E next \in {"open", "abandoned"} : RenderOnly(next)
    \/ Acquire \/ ReleaseScene

Spec == Init /\ [][Next]_vars

-----------------------------------------------------------------------------
Life == {"pending", "recorded", "submitted"}
Model == [generation : 0 .. MaxGeneration, used : 0 .. MaxTokens, life : Life]
Geometry == Models \cup Clouds

TypeOK ==
    /\ generation \in 1 .. MaxGeneration /\ token \in 0 .. MaxTokens /\ meshOpen \in BOOLEAN
    /\ resident \in [Keys -> Models \cup {None}]
    /\ Cardinality(Residents) <= MaxResident
    /\ model \in [Models -> Model]
    /\ used \subseteq Models /\ instances \subseteq Models
    /\ batch \in [models : SUBSET Models, instances : SUBSET Models, token : 0 .. MaxTokens,
                  generation : 0 .. MaxGeneration]
    /\ cache \in [revision : Revisions \cup {None}, value : Clouds \cup {None},
                  submitted : BOOLEAN, used : BOOLEAN]
    /\ cloudRevision \in Revisions \cup {None}
    /\ capturing \in BOOLEAN /\ captured \in BOOLEAN
    /\ builder \in Clouds \cup {None} /\ builderRecorded \in BOOLEAN
    /\ queued \subseteq Clouds /\ clouds \subseteq Clouds /\ cloudCount \in 0 .. MaxClouds
    /\ phase \in {"open", "submitted", "abandoned"}
    /\ rendered \in BOOLEAN /\ builds \in 0 .. BuildsPerFrame
    /\ recorded \subseteq Geometry /\ traced \subseteq Geometry /\ built \subseteq Geometry

(***************************************************************************)
(* The world never traces geometry that is not there: what its commands    *)
(* trace is built by commands submitted before, or by those recorded with  *)
(* it.  A frame that was given up leaves its builds to be recorded again.  *)
(***************************************************************************)
TracedIsBuilt ==
    phase # "abandoned" => traced \subseteq built \cup recorded

(***************************************************************************)
(* An instance is a bare pointer to its model: the model is owned by the   *)
(* same batch however many models were evicted from the table, replaced    *)
(* or dropped by a reload since the instance was queued.                   *)
(***************************************************************************)
InstancesAreOwned ==
    instances \subseteq used /\ batch.instances \subseteq batch.models

(***************************************************************************)
(* "Recording/building alone never makes GPU geometry reusable": the       *)
(* cached clouds can be found only when submitted commands have built      *)
(* them.                                                                   *)
(***************************************************************************)
CloudReuseOnlyBuilt == cache.submitted => cache.value \in built
=============================================================================
