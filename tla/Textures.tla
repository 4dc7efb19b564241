------------------------------ MODULE Textures ------------------------------
(***************************************************************************)
(* Class Textures: the names of textures, what the descriptor slot of each *)
(* name shows, and the uploads.  Released names keep showing a fallback.   *)
(* While resources are reloaded nothing is bound; then everything is, at   *)
(* once.  Uploads are staged per texture, submitted in batches ahead of    *)
(* the frame, and retired by polling the fence of each batch.              *)
(***************************************************************************)
EXTENDS Integers, Sequences, SequencesExt, Functions, FiniteSets

CONSTANTS Limit,     \* capacity of the name pool: 4096 in the code
          Staging,   \* staging buffers that can exist at a time
          Fences,    \* upload fences that can exist at a time
          Samplers,  \* filters and address modes
          Nearest,   \* those of a new texture
          MaxImages, \* a bound on the images created
          MaxWrites, \* a bound on the regions queued
          None,      \* nothing yet
          Absent,    \* a name that is not allocated
          Alias      \* what the slot of a frame alias shows

Names == 1 .. Limit - 1
Images == 1 .. MaxImages
Writes == 1 .. MaxWrites

ASSUME LimitAssumption == Limit \in Nat \ {0}
ASSUME SamplersAssumption == Nearest \in Samplers
ASSUME BoundsAssumption == MaxImages \in Nat /\ MaxWrites \in Nat
ASSUME StagingAssumption == IsFiniteSet(Staging)

Binding == [image : Images, sampler : Samplers]

ASSUME NoneAssumption == None \notin Staging \cup Names \cup Binding
ASSUME DistinctAssumption == /\ Absent # None /\ Absent \notin Binding
                             /\ Alias # None /\ Alias \notin Binding

VARIABLES
    next,     \* next_ of the name pool
    free,     \* free_, last in first out
    texture,  \* textures_ and samplers: absent, none yet, or an image and a sampler
    alias,    \* frameAliases_: names that show the frame itself
    fallback, \* releasedTextureFallbacks_
    bound,    \* the bindings of the UI and of ray tracing, by slot
    reload,   \* resourceReloadActive_
    queue,    \* uploadQueue_: the names with regions to upload
    cache,    \* caches_: per name the staging buffer regions are appended to
    batches,  \* submittedUploadBatches_: a batch knows the fences of those submitted
              \* before it, which gives their order
    staging,  \* the regions in each staging buffer
    gpu,      \* what the GPU has not executed of them, in order
    signaled, \* fences that are signaled
    content,  \* the regions the GPU has copied to each image
    written,  \* the regions the client has queued for each image
    images,   \* images created so far
    submitted,\* the frame is submitted and the next one not acquired
    fatal     \* a fatal failure is recorded

naming == <<next, free, texture, alias, fallback, images>>
uploads == <<queue, cache, batches, staging, gpu, signaled>>
history == <<content, written>>
vars == <<naming, bound, reload, uploads, history, submitted, fatal>>

Initialized(id) == texture[id] \notin {Absent, None}

Init ==
    /\ next = 1 /\ free = <<>>
    /\ texture = [id \in Names |-> Absent]
    /\ alias = {}
    /\ fallback = [id \in Names |-> None]
    /\ bound = [id \in Names |-> None]
    /\ reload = FALSE
    /\ queue = {}
    /\ cache = [id \in Names |-> None]
    /\ batches = {} /\ gpu = <<>> /\ signaled = {}
    /\ staging = [s \in Staging |-> {}]
    /\ content = [i \in Images |-> {}] /\ written = [i \in Images |-> {}]
    /\ images = 0
    /\ submitted = FALSE
    /\ fatal = FALSE

-----------------------------------------------------------------------------
\* Staging buffers and fences nobody owns are in the free lists, or yet to be created.
Buffers(bs) == UNION {{c.from : c \in b.copies} : b \in bs}
FreeStaging(bs) == Staging \ (Range(cache) \cup Buffers(bs))
FencesOf(bs) == {b.fence : b \in bs}
FreeFences(bs) == Fences \ FencesOf(bs)

\* retireUploads: completed batches are recycled, the others stay.
Retire(visited) ==
    LET done == {b \in visited : b.fence \in signaled}
    IN  {[b EXCEPT !.before = @ \ FencesOf(done)] : b \in batches \ done}

CollectedUnpolled == {}  \* as if every batch were complete

Collected == Retire(batches)

\* flushQueuedUploadImpl.  The names in erased lose their cache afterwards.
Copies == {[from |-> cache[id], to |-> texture[id].image] : id \in queue}

SubmittedBatch(f) == [fence |-> f, before |-> FencesOf(Collected), copies |-> Copies]

WithoutCache(caches, erased) == [id \in Names |-> IF id \in erased THEN None ELSE caches[id]]

FlushNothing(erased) ==
    /\ queue = {}
    /\ batches' = Collected
    /\ cache' = WithoutCache(cache, erased)
    /\ UNCHANGED <<queue, staging, gpu, signaled>>

\* Which of the free fences and staging buffers a batch takes makes no difference.
FreeFence == CHOOSE f \in FreeFences(Collected) : TRUE

Replacement ==
    CHOOSE r \in [queue -> FreeStaging(Collected)] : IsInjective(r)

Replaced == [id \in Names |-> IF id \in queue THEN Replacement[id] ELSE cache[id]]

FlushQueue(erased) ==
    LET f == FreeFence
    IN  /\ queue # {} /\ FreeFences(Collected) # {}
        /\ Cardinality(queue) <= Cardinality(FreeStaging(Collected))
        /\ batches' = Collected \cup {SubmittedBatch(f)}
        /\ gpu' = Append(gpu, [fence |-> f, copies |-> Copies])
        /\ signaled' = signaled \ {f}
        /\ cache' = WithoutCache(Replaced, erased)
        /\ staging' = [s \in Staging |-> IF s \in Range(Replacement) THEN {} ELSE staging[s]]
        /\ queue' = {}

Flush(erased) == FlushNothing(erased) \/ FlushQueue(erased)

-----------------------------------------------------------------------------
\* Binding a name, and the released names that show it.
BoundAlone(id, binding) == [bound EXCEPT ![id] = binding]  \* as if without those

Bound(id, binding) ==
    [n \in Names |-> IF n = id \/ fallback[n] = id THEN binding ELSE bound[n]]

\* The name pool.
NextName == IF free # <<>> THEN Last(free) ELSE next

Capacity == NextName < Limit

AllocateTexture ==
    LET id == NextName
    IN  /\ Capacity
        /\ next' = IF free # <<>> THEN next ELSE next + 1
        /\ free' = IF free # <<>> THEN Front(free) ELSE free
        /\ fallback' = [fallback EXCEPT ![id] = None]
        /\ texture' = [texture EXCEPT ![id] = None]
        /\ UNCHANGED <<alias, images, bound, reload, uploads, history, submitted, fatal>>

RegisterFrameAlias(id) ==
    /\ texture[id] = None /\ id \notin alias
    /\ alias' = alias \cup {id}
    /\ bound' = [bound EXCEPT ![id] = Alias]
    /\ UNCHANGED <<next, free, texture, fallback, images, reload, uploads, history, submitted, fatal>>

ReleaseAlias(id) ==
    /\ id \in alias
    /\ alias' = alias \ {id}
    /\ bound' = [bound EXCEPT ![id] = None]
    /\ texture' = [texture EXCEPT ![id] = Absent]
    /\ free' = Append(free, id)
    /\ UNCHANGED <<next, fallback, images, reload, uploads, history, submitted, fatal>>

\* releaseTexture: refused, unless the fallback can be shown.  The name is free at once.
Releasable(id, to) == texture[id] # Absent /\ id \notin alias /\ id # to /\ Initialized(to)

Released(id, to) ==
    /\ fallback' = [fallback EXCEPT ![id] = to]
    /\ texture' = [texture EXCEPT ![id] = Absent]
    /\ free' = Append(free, id)

ReleaseTexture(id, to) ==
    /\ ~reload
    /\ Releasable(id, to)
    /\ Flush({id})
    /\ bound' = [bound EXCEPT ![id] = texture[to]]
    /\ Released(id, to)
    /\ UNCHANGED <<next, alias, images, reload, history, submitted, fatal>>

\* In a reload, what is queued for the texture is dropped.
ReleaseInReload(id, to) ==
    /\ reload
    /\ Releasable(id, to)
    /\ Released(id, to)
    /\ cache' = WithoutCache(cache, {id})
    /\ queue' = queue \ {id}
    /\ UNCHANGED <<next, alias, images, bound, reload, batches, staging, gpu, signaled, history,
                   submitted, fatal>>

\* initializeTexture: uploads queued for the old image are submitted first.
InitializeTexture(id) ==
    /\ texture[id] # Absent /\ id \notin alias
    /\ images < MaxImages
    /\ images' = images + 1
    /\ IF id \in queue THEN Flush({}) ELSE UNCHANGED uploads
    /\ texture' = [texture EXCEPT ![id] = [image |-> images', sampler |-> Nearest]]
    /\ bound' = IF reload THEN bound ELSE Bound(id, texture'[id])
    /\ UNCHANGED <<next, free, alias, fallback, reload, history, submitted, fatal>>

\* setSamplingMode and setAddressMode, of an initialised texture.
UpdateSampler(id, s) ==
    /\ Initialized(id) /\ texture[id].sampler # s
    /\ texture' = [texture EXCEPT ![id].sampler = s]
    /\ bound' = IF reload THEN bound ELSE Bound(id, texture'[id])
    /\ UNCHANGED <<next, free, alias, fallback, images, reload, uploads, history, submitted, fatal>>

-----------------------------------------------------------------------------
\* queueUpload, short of the flush threshold.  The client uploads while a frame is open.
NextWrite == Cardinality(UNION Range(written)) + 1

QueueUpload(id) ==
    /\ ~submitted
    /\ Initialized(id)
    /\ NextWrite <= MaxWrites
    /\ cache[id] = None => FreeStaging(batches) # {}
    /\ cache' = [cache EXCEPT ![id] = IF @ = None THEN CHOOSE s \in FreeStaging(batches) : TRUE ELSE @]
    /\ staging' = [staging EXCEPT ![cache'[id]] = (IF cache[id] = None THEN {} ELSE @) \cup {NextWrite}]
    /\ written' = [written EXCEPT ![texture[id].image] = @ \cup {NextWrite}]
    /\ queue' = queue \cup {id}
    /\ UNCHANGED <<naming, bound, reload, batches, gpu, signaled, content, submitted, fatal>>

\* At the threshold, and before a readback.
FlushUploads ==
    /\ queue # {}
    /\ Flush({})
    /\ UNCHANGED <<naming, bound, reload, history, submitted, fatal>>

\* submitCommand starts with performQueuedUpload.
Submit ==
    /\ ~submitted
    /\ Flush({})
    /\ submitted' = TRUE
    /\ UNCHANGED <<naming, bound, reload, history, fatal>>

\* resetFrame: what is queued is dropped, and the staging buffers are written anew.
Acquire ==
    /\ submitted
    /\ batches' = Collected
    /\ queue' = {}
    /\ staging' = [s \in Staging |-> IF s \in Range(cache) THEN {} ELSE staging[s]]
    /\ submitted' = FALSE
    /\ UNCHANGED <<naming, bound, reload, cache, gpu, signaled, history, fatal>>

\* Mutant: a failing poll gives back the batches it has not come to.
PollDropsUnpolled ==
    /\ \E failed \in batches :
           batches' = {b \in Retire({b \in batches : b.fence \in failed.before}) :
                          failed.fence \notin b.before}
    /\ fatal' = TRUE
    /\ UNCHANGED <<naming, bound, reload, queue, cache, staging, gpu, signaled, history, submitted>>

\* A poll fails: the failed batch and those not polled stay, and the caller is left.
PollFails ==
    /\ \E failed \in batches : batches' = Retire({b \in batches : b.fence \in failed.before})
    /\ fatal' = TRUE
    /\ UNCHANGED <<naming, bound, reload, queue, cache, staging, gpu, signaled, history, submitted>>

\* The GPU executes the oldest batch and signals its fence.
After(b) ==
    [i \in Images |-> content[i] \cup UNION {staging[c.from] : c \in {d \in b.copies : d.to = i}}]

Execute ==
    /\ gpu # <<>>
    /\ content' = After(Head(gpu))
    /\ signaled' = signaled \cup {Head(gpu).fence}
    /\ gpu' = Tail(gpu)
    /\ UNCHANGED <<naming, bound, reload, queue, cache, batches, staging, written, submitted, fatal>>

-----------------------------------------------------------------------------
\* Begin and end of a resource reload submit what is queued, wait for the GPU and poll;
\* the wait is Execute's.
Quiet == queue = {} /\ gpu = <<>>

BeginReload ==
    /\ ~reload /\ Quiet
    /\ reload' = TRUE
    /\ batches' = Collected
    /\ UNCHANGED <<naming, bound, queue, cache, staging, gpu, signaled, history, submitted, fatal>>

\* bindAllTextures
AllBound ==
    [id \in Names |->
        IF id \in alias THEN Alias
        ELSE IF Initialized(id) THEN texture[id]
        ELSE IF fallback[id] # None /\ Initialized(fallback[id]) THEN texture[fallback[id]]
        ELSE bound[id]]

EndReload ==
    /\ reload /\ Quiet
    /\ bound' = AllBound
    /\ reload' = FALSE
    /\ batches' = Collected
    /\ UNCHANGED <<naming, queue, cache, staging, gpu, signaled, history, submitted, fatal>>

\* After a fatal failure preflight refuses the calls of the client.
Next ==
    \/ /\ ~fatal
       /\ \/ AllocateTexture
          \/ \E id \in Names :
                 \/ RegisterFrameAlias(id) \/ ReleaseAlias(id) \/ InitializeTexture(id)
                 \/ \E to \in Names : ReleaseTexture(id, to) \/ ReleaseInReload(id, to)
                 \/ \E s \in Samplers : UpdateSampler(id, s)
                 \/ QueueUpload(id)
          \/ FlushUploads \/ Submit \/ Acquire \/ PollFails
          \/ BeginReload \/ EndReload
    \/ Execute

Spec == Init /\ [][Next]_vars

-----------------------------------------------------------------------------
Copy == [from : Staging, to : Images]
Batch == [fence : Fences, before : SUBSET Fences, copies : SUBSET Copy]
Submission == [fence : Fences, copies : SUBSET Copy]

TypeOK ==
    /\ next \in 1 .. Limit /\ free \in Seq(Names)
    /\ texture \in [Names -> Binding \cup {Absent, None}]
    /\ alias \subseteq Names
    /\ fallback \in [Names -> Names \cup {None}]
    /\ bound \in [Names -> Binding \cup {None, Alias}]
    /\ reload \in BOOLEAN
    /\ queue \subseteq Names
    /\ cache \in [Names -> Staging \cup {None}]
    /\ batches \subseteq Batch /\ gpu \in Seq(Submission)
    /\ signaled \subseteq Fences
    /\ staging \in [Staging -> SUBSET Writes]
    /\ content \in [Images -> SUBSET Writes] /\ written \in [Images -> SUBSET Writes]
    /\ images \in 0 .. MaxImages
    /\ submitted \in BOOLEAN /\ fatal \in BOOLEAN

(***************************************************************************)
(* Except during a reload, the slot of a texture shows its current image   *)
(* and sampler, and the slot of a released name those of its fallback,     *)
(* whichever of the two was replaced, resampled, released and allocated    *)
(* again in between.                                                       *)
(***************************************************************************)
SlotsAreCurrent ==
    ~reload =>
        \A id \in Names :
            /\ Initialized(id) => bound[id] = texture[id]
            /\ id \in alias <=> bound[id] = Alias
            /\ fallback[id] # None /\ Initialized(fallback[id]) => bound[id] = texture[fallback[id]]

(***************************************************************************)
(* A region reaches the image it was queued for and no other one, although *)
(* the name may get a new image meanwhile and staging buffers, fences and  *)
(* command buffers are used again: once nothing is queued or in flight for *)
(* it, an image holds exactly what was written to it.                      *)
(***************************************************************************)
Awaited(i) == \E k \in DOMAIN gpu : \E c \in gpu[k].copies : c.to = i

UploadsArrive ==
    /\ \A i \in Images : content[i] \subseteq written[i]
    /\ \A id \in Names :
           Initialized(id) /\ id \notin queue /\ ~Awaited(texture[id].image) =>
               content[texture[id].image] = written[texture[id].image]

(***************************************************************************)
(* Until the GPU has executed a batch, the batch holds its fence and its   *)
(* staging buffers, whichever poll is made meanwhile, succeeds, stops in   *)
(* the middle or fails: none of them is free, and no name appends to one.  *)
(***************************************************************************)
Holds(b, submission) == b.fence = submission.fence /\ b.copies = submission.copies

InFlightIsHeld ==
    \A k \in DOMAIN gpu :
        /\ gpu[k].fence \notin signaled
        /\ \E b \in batches : Holds(b, gpu[k])
        /\ \A c \in gpu[k].copies : c.from \notin Range(cache)
=============================================================================
