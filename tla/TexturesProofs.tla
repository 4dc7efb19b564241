--------------------------- MODULE TexturesProofs ---------------------------
(***************************************************************************)
(* Slots show current textures, and uploads reach their images, for any    *)
(* number of names, images, staging buffers and fences.                    *)
(***************************************************************************)
EXTENDS Textures, FiniteSetTheorems, TLAPS

-----------------------------------------------------------------------------
(* The invariant                                                           *)

\* Names to be handed out are absent, and each is to be handed out once.
PoolOK ==
    /\ \A k \in DOMAIN free : texture[free[k]] = Absent /\ free[k] < next
    /\ \A j, k \in DOMAIN free : free[j] = free[k] => j = k
    /\ \A id \in Names : id >= next => texture[id] = Absent

\* A name that is allocated has no fallback, and that of a frame no texture.
NamesOK ==
    \A id \in Names :
        /\ texture[id] # Absent => fallback[id] = None
        /\ id \in alias => texture[id] = None
        /\ id \in alias <=> bound[id] = Alias

ShownOK ==
    ~reload =>
        \A id \in Names :
            /\ Initialized(id) => bound[id] = texture[id]
            /\ fallback[id] # None /\ Initialized(fallback[id]) => bound[id] = texture[fallback[id]]

\* Each image is one texture's, and images not created yet are not written.
ImagesOK ==
    /\ \A id \in Names : Initialized(id) => texture[id].image <= images
    /\ \A i \in Images : i > images => written[i] = {}
    /\ \A m, n \in Names :
           Initialized(m) /\ Initialized(n) /\ texture[m].image = texture[n].image => m = n

\* Names with uploads have a texture and a staging buffer, no two the same; without
\* uploads nothing is in it.  Nothing is queued between submission and acquisition.
CachesOK ==
    /\ \A id \in queue : cache[id] # None
    /\ \A id \in Names : cache[id] # None =>
           /\ Initialized(id)
           /\ id \notin queue => staging[cache[id]] = {}
           /\ staging[cache[id]] \subseteq written[texture[id].image]
    /\ \A m, n \in Names : cache[m] # None /\ cache[m] = cache[n] => m = n
    /\ submitted => queue = {}

\* What the GPU is to copy: its batches are not polled away, their fences differ, and
\* their staging buffers are nobody else's.
SubmissionsOK ==
    /\ \A k \in DOMAIN gpu :
           /\ gpu[k].fence \notin signaled
           /\ \E b \in batches : b.fence = gpu[k].fence /\ b.copies = gpu[k].copies
           /\ \A c \in gpu[k].copies :
                  /\ c.from \notin Range(cache)
                  /\ staging[c.from] \subseteq written[c.to]
    /\ \A j, k \in DOMAIN gpu : gpu[j].fence = gpu[k].fence => j = k

\* A region queued for the image of a texture is there, on its way, or waits.
OnTheWay(i, w) == \E k \in DOMAIN gpu : \E c \in gpu[k].copies : c.to = i /\ w \in staging[c.from]

ContentsOK ==
    /\ \A i \in Images : content[i] \subseteq written[i]
    /\ \A id \in Names : Initialized(id) =>
           \A w \in written[texture[id].image] :
               \/ w \in content[texture[id].image]
               \/ OnTheWay(texture[id].image, w)
               \/ id \in queue /\ w \in staging[cache[id]]

SlotsInv == PoolOK /\ NamesOK /\ ShownOK
UploadsInv == ImagesOK /\ CachesOK /\ SubmissionsOK /\ ContentsOK
IInv == TypeOK /\ SlotsInv /\ UploadsInv

-----------------------------------------------------------------------------
(* Batches and staging buffers                                             *)

LEMMA Retired ==
    ASSUME batches \subseteq Batch, NEW visited \in SUBSET batches
    PROVE  /\ Retire(visited) \subseteq Batch
           /\ \A b \in batches : b.fence \notin signaled =>
                  \E c \in Retire(visited) : c.fence = b.fence /\ c.copies = b.copies
<1> DEFINE done == {b \in visited : b.fence \in signaled}
           kept(b) == [b EXCEPT !.before = @ \ FencesOf(done)]
<1>1. Retire(visited) = {kept(b) : b \in batches \ done}
  BY DEF Retire
<1>2. \A b \in batches : kept(b) \in Batch /\ kept(b).fence = b.fence /\ kept(b).copies = b.copies
  BY DEF Batch
<1> HIDE DEF kept
<1> QED
  BY <1>1, <1>2

LEMMA CollectedBatches ==
    ASSUME batches \subseteq Batch
    PROVE  /\ Collected \subseteq Batch
           /\ \A b \in batches : b.fence \notin signaled =>
                  \E c \in Collected : c.fence = b.fence /\ c.copies = b.copies
BY Retired DEF Collected

LEMMA InjectionExists ==
    ASSUME NEW S, NEW T, IsFiniteSet(S), IsFiniteSet(T), Cardinality(S) <= Cardinality(T)
    PROVE  \E f \in [S -> T] : IsInjective(f)
<1> DEFINE m == Cardinality(S)  n == Cardinality(T)
<1>1. m \in Nat /\ n \in Nat /\ ExistsBijection(1 .. m, S) /\ ExistsBijection(1 .. n, T)
  BY FS_CardinalityType
<1>2. PICK g \in [1 .. m -> S] :
          /\ \A s \in S : \E k \in 1 .. m : g[k] = s
          /\ \A j, k \in 1 .. m : g[j] = g[k] => j = k
  BY <1>1 DEF ExistsBijection, Bijection, Injection, Surjection, IsInjective
<1>3. PICK h \in [1 .. n -> T] : \A j, k \in 1 .. n : h[j] = h[k] => j = k
  BY <1>1 DEF ExistsBijection, Bijection, Injection, Surjection, IsInjective
<1> DEFINE at(s) == CHOOSE k \in 1 .. m : g[k] = s
           f == [s \in S |-> h[at(s)]]
<1>4. \A s \in S : at(s) \in 1 .. m /\ g[at(s)] = s
  BY <1>2
<1>5. 1 .. m \subseteq 1 .. n
  BY <1>1
<1> HIDE DEF at, m, n
<1>6. f \in [S -> T]
  BY <1>3, <1>4, <1>5
<1>7. IsInjective(f)
  BY <1>3, <1>4, <1>5 DEF IsInjective
<1> QED
  BY <1>6, <1>7

LEMMA NamesFinite == IsFiniteSet(Names)
BY FS_Interval, LimitAssumption DEF Names

LEMMA ReplacementIs ==
    ASSUME queue \subseteq Names, Cardinality(queue) <= Cardinality(FreeStaging(Collected))
    PROVE  /\ Replacement \in [queue -> FreeStaging(Collected)]
           /\ \A m, n \in queue : Replacement[m] = Replacement[n] => m = n
<1>1. IsFiniteSet(queue) /\ IsFiniteSet(FreeStaging(Collected))
  BY NamesFinite, StagingAssumption, FS_Subset DEF FreeStaging
<1>2. \E r \in [queue -> FreeStaging(Collected)] : IsInjective(r)
  BY <1>1, InjectionExists
<1>3. Replacement \in [queue -> FreeStaging(Collected)] /\ IsInjective(Replacement)
  BY <1>2 DEF Replacement
<1> QED
  BY <1>3 DEF IsInjective

-----------------------------------------------------------------------------
(* What a flush does                                                       *)

UploadTypes ==
    /\ queue \subseteq Names
    /\ cache \in [Names -> Staging \cup {None}]
    /\ batches \subseteq Batch /\ gpu \in Seq(Submission)
    /\ signaled \subseteq Fences
    /\ staging \in [Staging -> SUBSET Writes]

NamingTypes ==
    /\ next \in 1 .. Limit /\ free \in Seq(Names)
    /\ texture \in [Names -> Binding \cup {Absent, None}]
    /\ alias \subseteq Names
    /\ fallback \in [Names -> Names \cup {None}]
    /\ images \in 0 .. MaxImages

HistoryTypes == content \in [Images -> SUBSET Writes] /\ written \in [Images -> SUBSET Writes]

LEMMA Initializeds ==
    ASSUME NamingTypes
    PROVE  \A id \in Names : Initialized(id) =>
               texture[id] \in Binding /\ texture[id].image \in Images
BY DEF NamingTypes, Initialized, Binding

LEMMA InSubmissions ==
    ASSUME UploadTypes
    PROVE  \A k \in DOMAIN gpu : gpu[k] \in Submission /\ gpu[k].copies \subseteq Copy
<1>1. \A k \in DOMAIN gpu : gpu[k] \in Submission
  BY DEF UploadTypes
<1> QED
  BY <1>1 DEF Submission

LEMMA CopiesAre ==
    ASSUME NamingTypes, UploadTypes, CachesOK
    PROVE  /\ Copies \subseteq Copy
           /\ \A c \in Copies : \E id \in queue :
                  Initialized(id) /\ c.from = cache[id] /\ c.to = texture[id].image
           /\ \A id \in queue : \E c \in Copies : c.from = cache[id] /\ c.to = texture[id].image
<1>1. \A id \in queue : /\ cache[id] \in Staging /\ Initialized(id)
                       /\ texture[id].image \in Images
  BY Initializeds DEF UploadTypes, CachesOK
<1> DEFINE copy(id) == [from |-> cache[id], to |-> texture[id].image]
<1>2. \A id \in queue : /\ copy(id) \in Copy /\ copy(id).from = cache[id]
                       /\ copy(id).to = texture[id].image
  BY <1>1 DEF Copy
<1>3. Copies = {copy(id) : id \in queue}
  BY DEF Copies
<1> HIDE DEF copy
<1> QED
  BY <1>1, <1>2, <1>3

\* Nothing is queued afterwards, what was is on its way, and no name keeps regions.
Flushed(erased) ==
    /\ queue' = {}
    /\ UploadTypes'
    /\ SubmissionsOK'
    /\ \A id \in Names : cache'[id] # None =>
           id \notin erased /\ Initialized(id) /\ staging'[cache'[id]] = {}
    /\ \A m, n \in Names : cache'[m] # None /\ cache'[m] = cache'[n] => m = n
    /\ \A i \in Images : \A id \in Names : Initialized(id) /\ texture[id].image = i =>
           \A w \in written[i] : w \in content[i] \/ OnTheWay(i, w)'

LEMMA FlushNothingFlushes ==
    ASSUME NamingTypes, UploadTypes, HistoryTypes, UploadsInv, NEW erased \in SUBSET Names,
           FlushNothing(erased), UNCHANGED history
    PROVE  Flushed(erased)
<1> USE DEF FlushNothing
<1>1. UploadTypes'
  BY CollectedBatches DEF UploadTypes, WithoutCache
<1>2. \A id \in Names : cache'[id] = IF id \in erased THEN None ELSE cache[id]
  BY DEF WithoutCache
<1>3. Range(cache') \subseteq Range(cache) \cup {None}
  BY <1>1, <1>2 DEF Range, UploadTypes
<1>4. SubmissionsOK'
  <2>1. \A k \in DOMAIN gpu : \A c \in gpu[k].copies : c.from \in Staging
    BY InSubmissions DEF Copy
  <2>2. \A k \in DOMAIN gpu : \A c \in gpu[k].copies : c.from \notin Range(cache')
    BY <1>3, <2>1, NoneAssumption DEF SubmissionsOK, UploadsInv
  <2>3. \A k \in DOMAIN gpu :
            \E b \in batches' : b.fence = gpu[k].fence /\ b.copies = gpu[k].copies
    BY CollectedBatches DEF SubmissionsOK, UploadsInv, UploadTypes
  <2> QED
    BY <2>2, <2>3 DEF SubmissionsOK, UploadsInv, history
<1>5. \A id \in Names : cache'[id] # None =>
          id \notin erased /\ Initialized(id) /\ staging'[cache'[id]] = {}
  BY <1>2 DEF UploadsInv, CachesOK
<1>6. \A m, n \in Names : cache'[m] # None /\ cache'[m] = cache'[n] => m = n
  BY <1>2 DEF UploadsInv, CachesOK
<1>7. \A i \in Images : \A id \in Names : Initialized(id) /\ texture[id].image = i =>
          \A w \in written[i] : w \in content[i] \/ OnTheWay(i, w)'
  BY DEF UploadsInv, ContentsOK, OnTheWay
<1> QED
  BY <1>1, <1>4, <1>5, <1>6, <1>7 DEF Flushed

LEMMA FlushQueueFlushes ==
    ASSUME NamingTypes, UploadTypes, HistoryTypes, UploadsInv, NEW erased \in SUBSET Names,
           FlushQueue(erased), UNCHANGED history
    PROVE  Flushed(erased)
<1>1. PICK f \in FreeFences(Collected) :
          /\ Cardinality(queue) <= Cardinality(FreeStaging(Collected))
          /\ batches' = Collected \cup {SubmittedBatch(f)}
          /\ gpu' = Append(gpu, [fence |-> f, copies |-> Copies])
          /\ signaled' = signaled \ {f}
          /\ cache' = WithoutCache(Replaced, erased)
          /\ staging' = [s \in Staging |-> IF s \in Range(Replacement) THEN {} ELSE staging[s]]
          /\ queue' = {}
  <2>1. FreeFences(Collected) # {}
    BY DEF FlushQueue
  <2>2. FreeFence \in FreeFences(Collected)
    BY <2>1 DEF FreeFence
  <2> QED
    BY <2>2 DEF FlushQueue
<1> DEFINE new == [fence |-> f, copies |-> Copies]
<1>2. /\ Replacement \in [queue -> FreeStaging(Collected)]
      /\ \A m, n \in queue : Replacement[m] = Replacement[n] => m = n
  BY <1>1, ReplacementIs DEF UploadTypes
<1>3. /\ Collected \subseteq Batch
      /\ \A b \in batches : b.fence \notin signaled =>
             \E c \in Collected : c.fence = b.fence /\ c.copies = b.copies
  BY CollectedBatches DEF UploadTypes
<1>4. Copies \subseteq Copy
  BY CopiesAre DEF UploadsInv
<1>5. f \in Fences /\ new \in Submission /\ SubmittedBatch(f) \in Batch
  BY <1>3, <1>4 DEF FreeFences, Submission, Batch, SubmittedBatch, FencesOf
<1>6. \A id \in Names : cache'[id] = IF id \in erased THEN None
                                    ELSE IF id \in queue THEN Replacement[id] ELSE cache[id]
  BY <1>1 DEF WithoutCache, Replaced
<1>7. \A s \in FreeStaging(Collected) :
          /\ s \in Staging /\ s \notin Range(cache)
          /\ \A b \in Collected : \A c \in b.copies : c.from # s
  BY DEF FreeStaging, Buffers
<1>8. UploadTypes'
  <2>1. cache' \in [Names -> Staging \cup {None}]
    BY <1>1, <1>2, <1>7 DEF WithoutCache, Replaced, UploadTypes
  <2>2. staging' \in [Staging -> SUBSET Writes]
    BY <1>1 DEF UploadTypes
  <2>3. gpu' \in Seq(Submission)
    BY <1>1, <1>5 DEF UploadTypes
  <2> QED
    BY <1>1, <1>3, <1>5, <2>1, <2>2, <2>3 DEF UploadTypes
<1>9. /\ DOMAIN gpu' = DOMAIN gpu \cup {Len(gpu) + 1} /\ Len(gpu) + 1 \notin DOMAIN gpu
      /\ gpu'[Len(gpu) + 1] = new
      /\ \A k \in DOMAIN gpu : gpu'[k] = gpu[k]
  BY <1>1, <1>5 DEF UploadTypes
<1>10. \A k \in DOMAIN gpu :
          /\ gpu[k].fence # f
          /\ \E b \in Collected : b.fence = gpu[k].fence /\ b.copies = gpu[k].copies
  <2>1. \A k \in DOMAIN gpu :
            \E b \in Collected : b.fence = gpu[k].fence /\ b.copies = gpu[k].copies
    BY <1>3 DEF UploadsInv, SubmissionsOK
  <2> QED
    BY <2>1 DEF FreeFences, FencesOf
<1>11. \A k \in DOMAIN gpu : \A c \in gpu[k].copies :
          c \in Copy /\ c.from \notin FreeStaging(Collected)
  <2> SUFFICES ASSUME NEW k \in DOMAIN gpu, NEW c \in gpu[k].copies
               PROVE  c \in Copy /\ c.from \notin FreeStaging(Collected)
    OBVIOUS
  <2>1. c \in Copy
    BY InSubmissions
  <2>2. PICK b \in Collected : b.copies = gpu[k].copies
    BY <1>10
  <2> QED
    BY <1>7, <2>1, <2>2
<1>12. \A c \in Copies : c.from \in Range(cache) /\ c.from \notin FreeStaging(Collected)
  <2>1. \A id \in queue : cache[id] \in Range(cache)
    BY DEF Range, UploadTypes
  <2> QED
    BY <2>1, <1>7, CopiesAre DEF UploadsInv
<1>13. \A s \in Staging \ FreeStaging(Collected) : staging'[s] = staging[s]
  BY <1>1, <1>2 DEF Range
<1>14. \A id \in queue : staging'[Replacement[id]] = {}
  BY <1>1, <1>2, <1>7 DEF Range
<1>15. \A id \in Names : cache'[id] # None =>
          id \notin erased /\ Initialized(id) /\ staging'[cache'[id]] = {}
  <2> SUFFICES ASSUME NEW id \in Names, cache'[id] # None
               PROVE  id \notin erased /\ Initialized(id) /\ staging'[cache'[id]] = {}
    OBVIOUS
  <2>1. id \notin erased
    BY <1>6
  <2>2. CASE id \in queue
    BY <1>6, <1>14, <2>1, <2>2 DEF UploadsInv, CachesOK
  <2>3. CASE id \notin queue
    <3>1. cache'[id] = cache[id] /\ cache[id] \in Staging /\ staging[cache[id]] = {}
      BY <1>6, <2>1, <2>3 DEF UploadsInv, CachesOK, UploadTypes
    <3> QED
      BY <1>1, <2>1, <3>1 DEF UploadsInv, CachesOK
  <2> QED
    BY <2>2, <2>3
<1>16. \A m, n \in Names : cache'[m] # None /\ cache'[m] = cache'[n] => m = n
  <2>1. \A m \in Names : m \notin queue => cache[m] \notin FreeStaging(Collected)
    BY <1>7 DEF Range, UploadTypes
  <2> QED
    BY <1>2, <1>6, <2>1 DEF UploadsInv, CachesOK
<1>17. \A k \in DOMAIN gpu' : \A c \in gpu'[k].copies :
          /\ c.from \in Staging /\ c.from \notin Range(cache')
          /\ staging'[c.from] = staging[c.from] /\ staging[c.from] \subseteq written[c.to]
  <2>1. \A s \in Range(cache') : s = None \/ s \in FreeStaging(Collected)
                                  \/ \E id \in Names \ queue : s = cache[id]
    BY <1>2, <1>6, <1>8 DEF Range, UploadTypes
  <2> SUFFICES ASSUME NEW k \in DOMAIN gpu', NEW c \in gpu'[k].copies
               PROVE  /\ c.from \in Staging /\ c.from \notin Range(cache')
                      /\ staging'[c.from] = staging[c.from] /\ staging[c.from] \subseteq written[c.to]
    OBVIOUS
  <2>2. CASE k \in DOMAIN gpu
    <3>1. c \in gpu[k].copies
      BY <1>9, <2>2
    <3>2. c \in Copy /\ c.from \notin FreeStaging(Collected) /\ c.from \notin Range(cache)
      BY <1>11, <2>2, <3>1 DEF UploadsInv, SubmissionsOK
    <3>3. c.from \in Staging /\ c.from # None
      BY <3>2, NoneAssumption DEF Copy
    <3>4. \A id \in Names : cache[id] # c.from
      BY <3>2 DEF Range, UploadTypes
    <3> QED
      BY <1>13, <2>1, <2>2, <3>1, <3>2, <3>3, <3>4 DEF UploadsInv, SubmissionsOK
  <2>3. CASE k = Len(gpu) + 1
    <3>1. c \in Copies /\ c.from \in Staging /\ c.from # None
      BY <1>4, <1>9, <2>3, NoneAssumption DEF Copy
    <3>2. PICK id \in queue : Initialized(id) /\ c.from = cache[id] /\ c.to = texture[id].image
      BY <3>1, CopiesAre DEF UploadsInv
    <3>3. \A n \in Names \ queue : cache[n] # c.from
      BY <3>1, <3>2 DEF UploadsInv, CachesOK, UploadTypes
    <3>4. staging[c.from] \subseteq written[c.to]
      BY <3>1, <3>2 DEF UploadsInv, CachesOK, UploadTypes
    <3> QED
      BY <1>12, <1>13, <2>1, <3>1, <3>3, <3>4
  <2> QED
    BY <1>9, <2>2, <2>3
<1>18. SubmissionsOK'
  <2>1. \A k \in DOMAIN gpu' : gpu'[k].fence \notin signaled'
    BY <1>1, <1>9 DEF UploadsInv, SubmissionsOK
  <2>2. \A k \in DOMAIN gpu' :
            \E b \in batches' : b.fence = gpu'[k].fence /\ b.copies = gpu'[k].copies
    <3>1. \A k \in DOMAIN gpu :
              \E b \in batches' : b.fence = gpu[k].fence /\ b.copies = gpu[k].copies
      BY <1>1, <1>10
    <3>2. /\ SubmittedBatch(f) \in batches'
          /\ SubmittedBatch(f).fence = new.fence /\ SubmittedBatch(f).copies = new.copies
      BY <1>1 DEF SubmittedBatch
    <3> HIDE DEF new
    <3> QED
      BY <1>9, <3>1, <3>2
  <2>3. \A j, k \in DOMAIN gpu' : gpu'[j].fence = gpu'[k].fence => j = k
    BY <1>9, <1>10 DEF UploadsInv, SubmissionsOK
  <2> QED
    BY <1>17, <2>1, <2>2, <2>3 DEF SubmissionsOK, history
<1>19. \A i \in Images : \A id \in Names : Initialized(id) /\ texture[id].image = i =>
          \A w \in written[i] : w \in content[i] \/ OnTheWay(i, w)'
  <2> SUFFICES ASSUME NEW i \in Images, NEW id \in Names, Initialized(id), texture[id].image = i,
                      NEW w \in written[i], w \notin content[i]
               PROVE  \E k \in DOMAIN gpu' : \E c \in gpu'[k].copies :
                          c.to = i /\ w \in staging'[c.from]
    BY DEF OnTheWay
  <2>1. CASE OnTheWay(i, w)
    <3>1. PICK k \in DOMAIN gpu : \E c \in gpu[k].copies : c.to = i /\ w \in staging[c.from]
      BY <2>1 DEF OnTheWay
    <3> QED
      BY <1>9, <1>17, <3>1
  <2>2. CASE id \in queue /\ w \in staging[cache[id]]
    <3>1. PICK c \in Copies : c.from = cache[id] /\ c.to = i
      BY <2>2, CopiesAre DEF UploadsInv
    <3> QED
      BY <1>9, <1>17, <2>2, <3>1
  <2> QED
    BY <2>1, <2>2 DEF UploadsInv, ContentsOK
<1> QED
  BY <1>1, <1>8, <1>15, <1>16, <1>18, <1>19 DEF Flushed

LEMMA FlushFlushes ==
    ASSUME NamingTypes, UploadTypes, HistoryTypes, UploadsInv, NEW erased \in SUBSET Names,
           Flush(erased), UNCHANGED history
    PROVE  Flushed(erased)
BY FlushNothingFlushes, FlushQueueFlushes DEF Flush

-----------------------------------------------------------------------------
(* Names and slots                                                         *)

SlotTypes == bound \in [Names -> Binding \cup {None, Alias}] /\ reload \in BOOLEAN

LEMMA TypesAre ==
    TypeOK <=> /\ NamingTypes /\ SlotTypes /\ UploadTypes /\ HistoryTypes
               /\ submitted \in BOOLEAN /\ fatal \in BOOLEAN
BY DEF TypeOK, NamingTypes, SlotTypes, UploadTypes, HistoryTypes

LEMMA TypesNext ==
    TypeOK' <=> /\ NamingTypes' /\ SlotTypes' /\ UploadTypes' /\ HistoryTypes'
                /\ submitted' \in BOOLEAN /\ fatal' \in BOOLEAN
BY DEF TypeOK, NamingTypes, SlotTypes, UploadTypes, HistoryTypes

LEMMA SlotsKept ==
    ASSUME SlotsInv, UNCHANGED <<naming, bound, reload>>
    PROVE  SlotsInv'
BY DEF SlotsInv, PoolOK, NamesOK, ShownOK, Initialized, naming

LEMMA PoolKept ==
    ASSUME PoolOK, NamingTypes, UNCHANGED <<next, free>>,
           \A n \in Names : texture[n] = Absent => texture'[n] = Absent
    PROVE  PoolOK'
<1>1. \A k \in DOMAIN free : free[k] \in Names
  BY DEF NamingTypes
<1> QED
  BY <1>1 DEF PoolOK

LEMMA PoolReturns ==
    ASSUME PoolOK, NamingTypes, NEW id \in Names, texture[id] # Absent,
           texture' = [texture EXCEPT ![id] = Absent], free' = Append(free, id), next' = next
    PROVE  PoolOK' /\ free' \in Seq(Names)
<1>1. /\ DOMAIN free' = DOMAIN free \cup {Len(free) + 1} /\ Len(free) + 1 \notin DOMAIN free
      /\ free'[Len(free) + 1] = id /\ free' \in Seq(Names)
      /\ \A k \in DOMAIN free : free'[k] = free[k] /\ free[k] \in Names
  BY DEF NamingTypes
<1>2. \A n \in Names : texture'[n] = IF n = id THEN Absent ELSE texture[n]
  BY DEF NamingTypes
<1>3. id < next /\ \A k \in DOMAIN free : free[k] # id
  BY DEF PoolOK, NamingTypes, Names
<1> QED
  BY <1>1, <1>2, <1>3 DEF PoolOK

LEMMA NextNameIs ==
    ASSUME PoolOK, NamingTypes, Capacity
    PROVE  /\ NextName \in Names /\ texture[NextName] = Absent
           /\ free # <<>> => /\ Front(free) \in Seq(Names)
                             /\ DOMAIN Front(free) = DOMAIN free \ {Len(free)}
                             /\ \A k \in DOMAIN Front(free) :
                                    Front(free)[k] = free[k] /\ free[k] # NextName
<1>1. CASE free = <<>>
  BY <1>1, LimitAssumption DEF PoolOK, NamingTypes, Capacity, NextName, Names
<1>2. CASE free # <<>>
  <2>1. Len(free) \in DOMAIN free /\ NextName = free[Len(free)] /\ NextName \in Names
    BY <1>2 DEF NamingTypes, NextName, Last
  <2>2. /\ Front(free) \in Seq(Names) /\ DOMAIN Front(free) = DOMAIN free \ {Len(free)}
        /\ \A k \in DOMAIN Front(free) : Front(free)[k] = free[k]
    BY <1>2 DEF NamingTypes, Front
  <2> QED
    BY <2>1, <2>2 DEF PoolOK
<1> QED
  BY <1>1, <1>2

LEMMA AllocateSlots ==
    ASSUME TypeOK, SlotsInv, AllocateTexture
    PROVE  SlotsInv' /\ NamingTypes'
<1> DEFINE id == NextName
<1>1. NamingTypes /\ SlotTypes
  BY TypesAre
<1>2. /\ id \in Names /\ texture[id] = Absent
      /\ free # <<>> => /\ Front(free) \in Seq(Names)
                        /\ DOMAIN Front(free) = DOMAIN free \ {Len(free)}
                        /\ \A k \in DOMAIN Front(free) : Front(free)[k] = free[k] /\ free[k] # id
  BY <1>1, NextNameIs DEF AllocateTexture, SlotsInv
<1>3. /\ next' = IF free # <<>> THEN next ELSE next + 1
      /\ free' = IF free # <<>> THEN Front(free) ELSE free
      /\ fallback' = [fallback EXCEPT ![id] = None]
      /\ texture' = [texture EXCEPT ![id] = None]
      /\ UNCHANGED <<alias, images, bound, reload>>
  BY DEF AllocateTexture
<1>4. free = <<>> => id = next /\ next < Limit
  BY DEF AllocateTexture, NextName, Capacity
<1> HIDE DEF id
<1>5. /\ \A n \in Names : texture'[n] = IF n = id THEN None ELSE texture[n]
      /\ \A n \in Names : fallback'[n] = IF n = id THEN None ELSE fallback[n]
  BY <1>1, <1>2, <1>3 DEF NamingTypes
<1>6. NamingTypes'
  BY <1>1, <1>2, <1>3, <1>4, LimitAssumption DEF NamingTypes
<1>7. PoolOK'
  <2>1. CASE free = <<>>
    BY <1>1, <1>3, <1>4, <1>5, <2>1 DEF SlotsInv, PoolOK, NamingTypes, Names
  <2>2. CASE free # <<>>
    <3>1. \A k \in DOMAIN free : free[k] \in Names /\ free[k] < next
      BY <1>1 DEF NamingTypes, SlotsInv, PoolOK
    <3>2. id < next
      BY <2>2, <3>1, <1>1 DEF id, NextName, Last, NamingTypes
    <3>3. /\ DOMAIN free' \subseteq DOMAIN free /\ next' = next
          /\ \A k \in DOMAIN free' : free'[k] = free[k] /\ free[k] # id
      BY <1>2, <1>3, <2>2
    <3>4. \A k \in DOMAIN free' : texture'[free'[k]] = Absent /\ free'[k] < next'
      BY <1>5, <3>1, <3>3 DEF SlotsInv, PoolOK
    <3>5. \A j, k \in DOMAIN free' : free'[j] = free'[k] => j = k
      BY <3>3 DEF SlotsInv, PoolOK
    <3>6. \A n \in Names : n >= next' => texture'[n] = Absent
      BY <1>1, <1>2, <1>5, <3>2, <3>3 DEF SlotsInv, PoolOK, NamingTypes, Names
    <3> QED
      BY <3>4, <3>5, <3>6 DEF PoolOK
  <2> QED
    BY <2>1, <2>2
<1>8. NamesOK'
  BY <1>2, <1>3, <1>5, DistinctAssumption DEF SlotsInv, NamesOK
<1>9. ShownOK'
  BY <1>1, <1>2, <1>3, <1>5 DEF SlotsInv, ShownOK, Initialized, NamingTypes
<1> QED
  BY <1>6, <1>7, <1>8, <1>9 DEF SlotsInv

LEMMA RegisterFrameAliasSlots ==
    ASSUME TypeOK, SlotsInv, NEW id \in Names, RegisterFrameAlias(id)
    PROVE  SlotsInv' /\ NamingTypes' /\ SlotTypes'
<1>1. NamingTypes /\ SlotTypes
  BY TypesAre
<1>2. /\ texture[id] = None /\ alias' = alias \cup {id}
      /\ UNCHANGED <<next, free, texture, fallback, images, reload>>
  BY DEF RegisterFrameAlias
<1>3. \A n \in Names : bound'[n] = IF n = id THEN Alias ELSE bound[n]
  BY <1>1 DEF RegisterFrameAlias, SlotTypes
<1>4. NamingTypes' /\ SlotTypes'
  BY <1>1, <1>2 DEF NamingTypes, SlotTypes, RegisterFrameAlias
<1>5. fallback[id] = None
  BY <1>2, DistinctAssumption DEF SlotsInv, NamesOK
<1>6. PoolOK'
  BY <1>1, <1>2, PoolKept DEF SlotsInv
<1>7. NamesOK'
  BY <1>2, <1>3, DistinctAssumption DEF SlotsInv, NamesOK
<1>8. ShownOK'
  BY <1>2, <1>3, <1>5 DEF SlotsInv, ShownOK, Initialized
<1> QED
  BY <1>4, <1>6, <1>7, <1>8 DEF SlotsInv

LEMMA ReleaseAliasSlots ==
    ASSUME TypeOK, SlotsInv, NEW id \in Names, ReleaseAlias(id)
    PROVE  SlotsInv' /\ NamingTypes' /\ SlotTypes'
<1>1. NamingTypes /\ SlotTypes
  BY TypesAre
<1>2. /\ id \in alias /\ alias' = alias \ {id} /\ free' = Append(free, id)
      /\ texture' = [texture EXCEPT ![id] = Absent]
      /\ UNCHANGED <<next, fallback, images, reload>>
  BY DEF ReleaseAlias
<1>3. /\ \A n \in Names : bound'[n] = IF n = id THEN None ELSE bound[n]
      /\ \A n \in Names : texture'[n] = IF n = id THEN Absent ELSE texture[n]
  BY <1>1 DEF ReleaseAlias, SlotTypes, NamingTypes
<1>4. texture[id] = None /\ fallback[id] = None
  BY <1>2, DistinctAssumption DEF SlotsInv, NamesOK
<1>5. PoolOK' /\ free' \in Seq(Names)
  BY <1>1, <1>2, <1>4, PoolReturns, DistinctAssumption DEF SlotsInv
<1>6. NamingTypes' /\ SlotTypes'
  BY <1>1, <1>2, <1>5 DEF NamingTypes, SlotTypes, ReleaseAlias
<1>7. NamesOK'
  BY <1>2, <1>3, DistinctAssumption DEF SlotsInv, NamesOK
<1>8. ShownOK'
  BY <1>1, <1>2, <1>3, <1>4 DEF SlotsInv, ShownOK, Initialized, NamingTypes
<1> QED
  BY <1>5, <1>6, <1>7, <1>8 DEF SlotsInv

\* A release, in a reload or not, has two things in common.
LEMMA ReleasedSlots ==
    ASSUME NamingTypes, SlotsInv, NEW id \in Names, NEW to \in Names,
           Releasable(id, to), Released(id, to), UNCHANGED <<next, alias, images>>
    PROVE  /\ PoolOK' /\ NamingTypes'
           /\ \A n \in Names : texture'[n] = IF n = id THEN Absent ELSE texture[n]
           /\ \A n \in Names : fallback'[n] = IF n = id THEN to ELSE fallback[n]
<1>1. /\ texture' = [texture EXCEPT ![id] = Absent] /\ free' = Append(free, id)
      /\ fallback' = [fallback EXCEPT ![id] = to] /\ texture[id] # Absent
  BY DEF Released, Releasable
<1>2. PoolOK' /\ free' \in Seq(Names)
  BY <1>1, PoolReturns DEF SlotsInv
<1> QED
  BY <1>1, <1>2 DEF NamingTypes

LEMMA ReleaseTextureSlots ==
    ASSUME TypeOK, SlotsInv, NEW id \in Names, NEW to \in Names, ReleaseTexture(id, to)
    PROVE  SlotsInv' /\ NamingTypes' /\ SlotTypes'
<1>1. NamingTypes /\ SlotTypes
  BY TypesAre
<1>2. /\ ~reload /\ Releasable(id, to) /\ Released(id, to)
      /\ bound' = [bound EXCEPT ![id] = texture[to]]
      /\ UNCHANGED <<next, alias, images, reload>>
  BY DEF ReleaseTexture
<1>3. /\ PoolOK' /\ NamingTypes'
      /\ \A n \in Names : texture'[n] = IF n = id THEN Absent ELSE texture[n]
      /\ \A n \in Names : fallback'[n] = IF n = id THEN to ELSE fallback[n]
  BY <1>1, <1>2, ReleasedSlots
<1>4. /\ texture[id] # Absent /\ id \notin alias /\ id # to
      /\ Initialized(to) /\ texture[to] \in Binding
  BY <1>1, <1>2, Initializeds DEF Releasable
<1>5. \A n \in Names : bound'[n] = IF n = id THEN texture[to] ELSE bound[n]
  BY <1>1, <1>2 DEF SlotTypes
<1>6. SlotTypes'
  BY <1>1, <1>2, <1>4 DEF SlotTypes
<1>7. NamesOK'
  BY <1>2, <1>3, <1>4, <1>5, DistinctAssumption DEF SlotsInv, NamesOK
<1>8. ShownOK'
  BY <1>1, <1>2, <1>3, <1>4, <1>5 DEF SlotsInv, ShownOK, Initialized, NamingTypes
<1> QED
  BY <1>3, <1>6, <1>7, <1>8 DEF SlotsInv

LEMMA ReleaseInReloadSlots ==
    ASSUME TypeOK, SlotsInv, NEW id \in Names, NEW to \in Names, ReleaseInReload(id, to)
    PROVE  SlotsInv' /\ NamingTypes' /\ SlotTypes'
<1>1. NamingTypes /\ SlotTypes
  BY TypesAre
<1>2. /\ reload /\ Releasable(id, to) /\ Released(id, to)
      /\ UNCHANGED <<next, alias, images, bound, reload>>
  BY DEF ReleaseInReload
<1>3. /\ PoolOK' /\ NamingTypes'
      /\ \A n \in Names : texture'[n] = IF n = id THEN Absent ELSE texture[n]
      /\ \A n \in Names : fallback'[n] = IF n = id THEN to ELSE fallback[n]
  BY <1>1, <1>2, ReleasedSlots
<1>4. NamesOK'
  BY <1>2, <1>3 DEF SlotsInv, NamesOK, Releasable
<1> QED
  BY <1>1, <1>2, <1>3, <1>4 DEF SlotsInv, ShownOK, SlotTypes

\* A name gets another image or sampler, and is bound with those that show it.
LEMMA ReboundSlots ==
    ASSUME TypeOK, SlotsInv, NEW id \in Names, NEW binding \in Binding,
           texture[id] # Absent, id \notin alias,
           texture' = [texture EXCEPT ![id] = binding],
           bound' = IF reload THEN bound ELSE Bound(id, binding),
           images' \in 0 .. MaxImages, UNCHANGED <<next, free, alias, fallback, reload>>
    PROVE  SlotsInv' /\ NamingTypes' /\ SlotTypes'
<1>1. NamingTypes /\ SlotTypes
  BY TypesAre
<1>2. \A n \in Names : texture'[n] = IF n = id THEN binding ELSE texture[n]
  BY <1>1 DEF NamingTypes
<1>3. reload \/ \A n \in Names : bound'[n] = IF n = id \/ fallback[n] = id THEN binding ELSE bound[n]
  BY DEF Bound
<1>4. NamingTypes' /\ SlotTypes'
  BY <1>1 DEF NamingTypes, SlotTypes, Bound
<1>5. PoolOK'
  BY <1>1, <1>2, PoolKept DEF SlotsInv
<1>6. fallback[id] = None /\ id # None
  BY NoneAssumption DEF SlotsInv, NamesOK
<1>7. \A n \in Names : fallback[n] = id => n # id /\ n \notin alias /\ texture[n] = Absent
  BY <1>6, DistinctAssumption DEF SlotsInv, NamesOK
<1>8. NamesOK'
  BY <1>2, <1>3, <1>6, <1>7, DistinctAssumption DEF SlotsInv, NamesOK
<1>9. ShownOK'
  BY <1>1, <1>2, <1>3, <1>6, <1>7 DEF SlotsInv, ShownOK, Initialized, NamingTypes
<1> QED
  BY <1>4, <1>5, <1>8, <1>9 DEF SlotsInv

LEMMA EndReloadSlots ==
    ASSUME TypeOK, SlotsInv, EndReload
    PROVE  SlotsInv' /\ SlotTypes'
<1>1. NamingTypes /\ SlotTypes
  BY TypesAre
<1>2. bound' = AllBound /\ reload' = FALSE /\ UNCHANGED naming
  BY DEF EndReload
<1>3. \A n \in Names : n \in alias => fallback[n] = None /\ ~Initialized(n)
  BY DistinctAssumption DEF SlotsInv, NamesOK, Initialized
<1>4. \A n \in Names : Initialized(n) => fallback[n] = None
  BY DEF SlotsInv, NamesOK, Initialized
<1>5. \A n \in Names :
          bound'[n] = IF n \in alias THEN Alias
                      ELSE IF Initialized(n) THEN texture[n]
                      ELSE IF fallback[n] # None /\ Initialized(fallback[n]) THEN texture[fallback[n]]
                      ELSE bound[n]
  BY <1>2 DEF AllBound
<1>6. \A n \in Names : fallback[n] # None => fallback[n] \in Names
  BY <1>1 DEF NamingTypes
<1>7. \A n \in Names : Initialized(n) => texture[n] \in Binding
  BY <1>1, Initializeds
<1>8. SlotTypes'
  BY <1>1, <1>2, <1>6, <1>7 DEF SlotTypes, AllBound
<1>9. PoolOK'
  <2>1. UNCHANGED <<next, free>> /\ texture' = texture
    BY <1>2 DEF naming
  <2> QED
    BY <1>1, <2>1, PoolKept DEF SlotsInv
<1>10. NamesOK'
  BY <1>2, <1>5, <1>6, <1>7, DistinctAssumption DEF SlotsInv, NamesOK, naming
<1>11. ShownOK'
  BY <1>2, <1>3, <1>4, <1>5 DEF ShownOK, Initialized, naming
<1> QED
  BY <1>8, <1>9, <1>10, <1>11 DEF SlotsInv

-----------------------------------------------------------------------------
(* Uploads                                                                 *)

LEMMA UploadsKept ==
    ASSUME UploadsInv, UNCHANGED <<uploads, history, submitted, images>>,
           \A id \in Names : Initialized(id)' <=> Initialized(id),
           \A id \in Names : Initialized(id) => texture'[id].image = texture[id].image
    PROVE  UploadsInv'
<1> USE DEF uploads, history
<1>1. ImagesOK'
  BY DEF UploadsInv, ImagesOK
<1>2. CachesOK'
  BY DEF UploadsInv, CachesOK
<1>3. SubmissionsOK'
  BY DEF UploadsInv, SubmissionsOK
<1>4. ContentsOK'
  <2>1. \A i, w : OnTheWay(i, w)' <=> OnTheWay(i, w)
    BY DEF OnTheWay
  <2> QED
    BY <2>1 DEF UploadsInv, ContentsOK
<1> QED
  BY <1>1, <1>2, <1>3, <1>4 DEF UploadsInv

\* After a flush the textures may stay, or that of an erased name go.
LEMMA FlushedUploads ==
    ASSUME NamingTypes, UploadsInv, NEW erased \in SUBSET Names, Flushed(erased), UNCHANGED history,
           images' = images,
           \A id \in Names : Initialized(id)' =>
               Initialized(id) /\ texture'[id].image = texture[id].image,
           \A id \in Names \ erased : Initialized(id) => Initialized(id)'
    PROVE  UploadsInv'
<1> USE DEF history
<1>1. ImagesOK'
  BY DEF UploadsInv, ImagesOK
<1>2. CachesOK'
  <2>1. \A id \in Names : cache'[id] # None => Initialized(id)'
    BY DEF Flushed
  <2> QED
    BY <2>1 DEF Flushed, CachesOK
<1>3. SubmissionsOK'
  BY DEF Flushed
<1>4. ContentsOK'
  <2>1. \A id \in Names : Initialized(id)' => texture'[id].image \in Images
    BY Initializeds
  <2> SUFFICES ASSUME NEW id \in Names, Initialized(id)', NEW w \in written[texture'[id].image]
               PROVE  w \in content[texture'[id].image] \/ OnTheWay(texture[id].image, w)'
    BY DEF UploadsInv, ContentsOK
  <2> QED
    BY <2>1 DEF Flushed
<1> QED
  BY <1>1, <1>2, <1>3, <1>4 DEF UploadsInv

LEMMA RetireUploads ==
    ASSUME UploadTypes, UploadsInv, NEW visited \in SUBSET batches, batches' = Retire(visited),
           UNCHANGED <<queue, cache, staging, gpu, signaled, history, submitted, texture, images>>
    PROVE  UploadsInv' /\ UploadTypes'
<1> USE DEF history
<1>1. UploadTypes'
  BY Retired DEF UploadTypes
<1>2. ImagesOK' /\ CachesOK' /\ ContentsOK'
  BY DEF UploadsInv, ImagesOK, CachesOK, ContentsOK, OnTheWay, Initialized
<1>3. SubmissionsOK'
  <2>1. \A k \in DOMAIN gpu :
            \E b \in batches' : b.fence = gpu[k].fence /\ b.copies = gpu[k].copies
    BY Retired DEF UploadTypes, UploadsInv, SubmissionsOK
  <2> QED
    BY <2>1 DEF UploadsInv, SubmissionsOK
<1> QED
  BY <1>1, <1>2, <1>3 DEF UploadsInv

LEMMA ReleaseTextureUploads ==
    ASSUME TypeOK, SlotsInv, UploadsInv, NEW id \in Names, NEW to \in Names, ReleaseTexture(id, to)
    PROVE  UploadsInv' /\ UploadTypes'
<1>1. NamingTypes /\ UploadTypes /\ HistoryTypes
  BY TypesAre
<1>2. /\ Releasable(id, to) /\ Released(id, to) /\ Flush({id})
      /\ UNCHANGED <<next, alias, images, history>>
  BY DEF ReleaseTexture
<1>3. Flushed({id})
  BY <1>1, <1>2, FlushFlushes
<1>4. \A n \in Names : texture'[n] = IF n = id THEN Absent ELSE texture[n]
  BY <1>1, <1>2, ReleasedSlots
<1>5. UploadsInv'
  BY <1>1, <1>2, <1>3, <1>4, FlushedUploads DEF Initialized
<1> QED
  BY <1>3, <1>5 DEF Flushed

LEMMA ReleaseInReloadUploads ==
    ASSUME TypeOK, SlotsInv, UploadsInv, NEW id \in Names, NEW to \in Names, ReleaseInReload(id, to)
    PROVE  UploadsInv' /\ UploadTypes'
<1>1. NamingTypes /\ UploadTypes /\ HistoryTypes
  BY TypesAre
<1>2. /\ Releasable(id, to) /\ Released(id, to)
      /\ cache' = WithoutCache(cache, {id}) /\ queue' = queue \ {id}
      /\ UNCHANGED <<next, alias, images, batches, staging, gpu, signaled, content, written,
                     submitted>>
  BY DEF ReleaseInReload, history
<1>3. \A n \in Names : texture'[n] = IF n = id THEN Absent ELSE texture[n]
  BY <1>1, <1>2, ReleasedSlots
<1>4. \A n \in Names : cache'[n] = IF n = id THEN None ELSE cache[n]
  BY <1>2 DEF WithoutCache
<1>5. cache' \in [Names -> Staging \cup {None}]
  BY <1>1, <1>2 DEF WithoutCache, UploadTypes
<1>6. UploadTypes'
  BY <1>1, <1>2, <1>5 DEF UploadTypes
<1>7. ImagesOK'
  BY <1>2, <1>3 DEF UploadsInv, ImagesOK, Initialized
<1>8. CachesOK'
  <2>1. \A n \in queue' : n \in Names /\ n # id /\ n \in queue /\ cache'[n] # None
    BY <1>1, <1>2, <1>4 DEF UploadsInv, CachesOK, UploadTypes
  <2>2. \A n \in Names : cache'[n] # None =>
            n # id /\ cache'[n] = cache[n] /\ texture'[n] = texture[n]
    BY <1>3, <1>4
  <2>3. \A n \in Names : cache'[n] # None =>
            /\ Initialized(n)'
            /\ n \notin queue' => staging'[cache'[n]] = {}
            /\ staging'[cache'[n]] \subseteq written'[texture'[n].image]
    BY <1>2, <2>2 DEF UploadsInv, CachesOK, Initialized
  <2>4. \A m, n \in Names : cache'[m] # None /\ cache'[m] = cache'[n] => m = n
    BY <2>2 DEF UploadsInv, CachesOK
  <2>5. submitted' => queue' = {}
    BY <1>2 DEF UploadsInv, CachesOK
  <2> QED
    BY <2>1, <2>3, <2>4, <2>5 DEF CachesOK
<1>9. SubmissionsOK'
  <2>1. Range(cache') \subseteq Range(cache) \cup {None}
    BY <1>1, <1>4, <1>5 DEF Range, UploadTypes
  <2>2. \A k \in DOMAIN gpu : \A c \in gpu[k].copies : c.from \in Staging
    BY <1>1, InSubmissions DEF Copy
  <2>3. \A k \in DOMAIN gpu : \A c \in gpu[k].copies : c.from \notin Range(cache')
    BY <2>1, <2>2, NoneAssumption DEF UploadsInv, SubmissionsOK
  <2> QED
    BY <1>2, <2>3 DEF UploadsInv, SubmissionsOK
<1>10. ContentsOK'
  <2>1. \A i, w : OnTheWay(i, w)' <=> OnTheWay(i, w)
    BY <1>2 DEF OnTheWay
  <2> QED
    BY <1>2, <1>3, <1>4, <2>1 DEF UploadsInv, ContentsOK, Initialized
<1> QED
  BY <1>6, <1>7, <1>8, <1>9, <1>10 DEF UploadsInv

LEMMA InitializeTextureUploads ==
    ASSUME TypeOK, SlotsInv, UploadsInv, NEW id \in Names, InitializeTexture(id)
    PROVE  UploadsInv' /\ UploadTypes'
<1> DEFINE binding == [image |-> images + 1, sampler |-> Nearest]
<1>1. NamingTypes /\ UploadTypes /\ HistoryTypes
  BY TypesAre
<1>2. /\ images < MaxImages /\ images' = images + 1
      /\ texture' = [texture EXCEPT ![id] = binding]
      /\ IF id \in queue THEN Flush({}) ELSE UNCHANGED uploads
      /\ UNCHANGED <<content, written, submitted>>
  BY DEF InitializeTexture, history
<1>3. binding \in Binding /\ binding.image = images + 1 /\ images + 1 \in Images /\ images \in Nat
  BY <1>1, <1>2, SamplersAssumption, BoundsAssumption DEF Binding, Images, NamingTypes
<1> HIDE DEF binding
<1>4. \A n \in Names : texture'[n] = IF n = id THEN binding ELSE texture[n]
  BY <1>1, <1>2 DEF NamingTypes
<1>5. \A n \in Names : Initialized(n)' <=> n = id \/ Initialized(n)
  BY <1>3, <1>4, NoneAssumption, DistinctAssumption DEF Initialized
<1>6. written[images + 1] = {}
  BY <1>3 DEF UploadsInv, ImagesOK
<1>7. ImagesOK'
  <2>1. \A n \in Names : Initialized(n) => texture[n].image <= images /\ texture[n].image \in Nat
    BY <1>1, Initializeds DEF UploadsInv, ImagesOK, Images
  <2>2. \A n \in Names : Initialized(n)' => texture'[n].image <= images'
    BY <1>2, <1>3, <1>4, <1>5, <2>1
  <2>3. \A i \in Images : i > images' => written'[i] = {}
    BY <1>2, <1>3 DEF UploadsInv, ImagesOK, Images
  <2>4. \A m, n \in Names :
            Initialized(m)' /\ Initialized(n)' /\ texture'[m].image = texture'[n].image => m = n
    BY <1>3, <1>4, <1>5, <2>1 DEF UploadsInv, ImagesOK
  <2> QED
    BY <2>2, <2>3, <2>4 DEF ImagesOK
<1>8. CASE id \in queue
  <2>1. Flushed({})
    BY <1>1, <1>2, <1>8, FlushFlushes DEF history
  <2>2. CachesOK'
    <3>1. \A n \in Names : cache'[n] # None => Initialized(n)'
      BY <1>5, <2>1 DEF Flushed
    <3> QED
      BY <2>1, <3>1 DEF Flushed, CachesOK
  <2>3. ContentsOK'
    <3>1. \A n \in Names : Initialized(n) => texture[n].image \in Images
      BY <1>1, Initializeds
    <3> SUFFICES ASSUME NEW n \in Names, Initialized(n)', NEW w \in written[texture'[n].image]
                 PROVE  w \in content[texture'[n].image] \/ OnTheWay(texture[n].image, w)'
      BY <1>2 DEF UploadsInv, ContentsOK
    <3>2. n # id
      BY <1>3, <1>4, <1>6
    <3> QED
      BY <1>4, <1>5, <2>1, <3>1, <3>2 DEF Flushed
  <2> QED
    BY <1>7, <2>1, <2>2, <2>3 DEF Flushed, UploadsInv
<1>9. CASE id \notin queue
  <2>1. UNCHANGED <<queue, cache, batches, staging, gpu, signaled>>
    BY <1>2, <1>9 DEF uploads
  <2>2. UploadTypes'
    BY <1>1, <2>1 DEF UploadTypes
  <2>3. CachesOK'
    BY <1>2, <1>4, <1>5, <1>9, <2>1 DEF UploadsInv, CachesOK
  <2>4. SubmissionsOK'
    BY <1>2, <2>1 DEF UploadsInv, SubmissionsOK
  <2>5. ContentsOK'
    <3>1. \A i, w : OnTheWay(i, w)' <=> OnTheWay(i, w)
      BY <2>1 DEF OnTheWay
    <3> QED
      BY <1>2, <1>3, <1>4, <1>5, <1>6, <2>1, <3>1 DEF UploadsInv, ContentsOK
  <2> QED
    BY <1>7, <2>2, <2>3, <2>4, <2>5 DEF UploadsInv
<1> QED
  BY <1>8, <1>9

LEMMA NextWriteIs ==
    ASSUME HistoryTypes, NextWrite <= MaxWrites
    PROVE  NextWrite \in Writes
<1> DEFINE all == UNION Range(written)
<1>1. all \subseteq Writes
  BY DEF HistoryTypes, Range
<1>2. IsFiniteSet(Writes)
  BY FS_Interval, BoundsAssumption DEF Writes
<1>3. Cardinality(all) \in Nat
  BY <1>1, <1>2, FS_Subset, FS_CardinalityType
<1> HIDE DEF all
<1>4. NextWrite = Cardinality(all) + 1
  BY DEF NextWrite, all
<1> QED
  BY <1>3, <1>4, BoundsAssumption DEF Writes

LEMMA QueueUploadUploads ==
    ASSUME TypeOK, SlotsInv, UploadsInv, NEW id \in Names, QueueUpload(id)
    PROVE  UploadsInv' /\ UploadTypes' /\ HistoryTypes'
<1> DEFINE w == NextWrite
           s == IF cache[id] = None THEN CHOOSE f \in FreeStaging(batches) : TRUE ELSE cache[id]
           old == IF cache[id] = None THEN {} ELSE staging[s]
           i == texture[id].image
<1>1. NamingTypes /\ UploadTypes /\ HistoryTypes
  BY TypesAre
<1>2. /\ ~submitted /\ Initialized(id) /\ NextWrite <= MaxWrites
      /\ cache[id] = None => FreeStaging(batches) # {}
      /\ cache' = [cache EXCEPT ![id] = s]
      /\ staging' = [staging EXCEPT ![cache'[id]] = (IF cache[id] = None THEN {} ELSE @) \cup {w}]
      /\ written' = [written EXCEPT ![i] = @ \cup {w}]
      /\ queue' = queue \cup {id}
      /\ UNCHANGED <<naming, bound, reload, batches, gpu, signaled, content, submitted, fatal>>
  BY DEF QueueUpload
<1>3. w \in Writes /\ i \in Images
  BY <1>1, <1>2, NextWriteIs, Initializeds
<1>4. \/ cache[id] = None /\ s \in FreeStaging(batches)
      \/ cache[id] # None /\ s = cache[id]
  BY <1>2
<1>5. s \in Staging
  BY <1>1, <1>4 DEF FreeStaging, UploadTypes
<1>6. \A n \in Names : n # id => cache[n] # s
  BY <1>1, <1>4 DEF UploadsInv, CachesOK, FreeStaging, Range, UploadTypes
<1>7. \A k \in DOMAIN gpu : \A c \in gpu[k].copies : c.from # s
  <2> SUFFICES ASSUME NEW k \in DOMAIN gpu, NEW c \in gpu[k].copies
               PROVE  c.from # s
    OBVIOUS
  <2>1. PICK b \in batches : b.copies = gpu[k].copies
    BY DEF UploadsInv, SubmissionsOK
  <2>2. c.from \in Buffers(batches) /\ c.from \notin Range(cache)
    BY <2>1 DEF UploadsInv, SubmissionsOK, Buffers
  <2>3. cache[id] \in Range(cache)
    BY <1>1 DEF Range, UploadTypes
  <2> QED
    BY <1>4, <2>2, <2>3 DEF FreeStaging
<1> HIDE DEF s, w, i
<1>8. /\ \A n \in Names : cache'[n] = IF n = id THEN s ELSE cache[n]
      /\ cache' \in [Names -> Staging \cup {None}]
  BY <1>1, <1>2, <1>5 DEF UploadTypes
<1>9. staging' = [staging EXCEPT ![s] = old \cup {w}]
  BY <1>1, <1>2, <1>5, <1>8 DEF UploadTypes
<1>10. old \subseteq written[i]
  BY <1>4 DEF UploadsInv, CachesOK, i
<1>11. id \notin queue => old = {}
  BY <1>4 DEF UploadsInv, CachesOK
<1> HIDE DEF old
<1>12. /\ \A b \in Staging : staging'[b] = IF b = s THEN old \cup {w} ELSE staging[b]
       /\ \A j \in Images : written'[j] = IF j = i THEN written[j] \cup {w} ELSE written[j]
       /\ written' \in [Images -> SUBSET Writes]
  BY <1>1, <1>2, <1>3, <1>9 DEF UploadTypes, HistoryTypes
<1>13. UploadTypes' /\ HistoryTypes'
  <2>1. old \in SUBSET Writes
    BY <1>1, <1>3, <1>10 DEF HistoryTypes
  <2>2. staging' \in [Staging -> SUBSET Writes]
    BY <1>1, <1>3, <1>9, <2>1 DEF UploadTypes
  <2> QED
    BY <1>1, <1>2, <1>8, <1>12, <2>2 DEF UploadTypes, HistoryTypes
<1>14. UNCHANGED <<texture, images>> /\ \A n \in Names : Initialized(n)' <=> Initialized(n)
  BY <1>2 DEF naming, Initialized
<1>15. ImagesOK'
  <2>1. i <= images /\ i \in Nat /\ images \in Nat
    BY <1>1, <1>2, <1>3 DEF UploadsInv, ImagesOK, Images, NamingTypes, i
  <2>2. \A j \in Images : j > images => written'[j] = {}
    BY <1>12, <2>1 DEF UploadsInv, ImagesOK
  <2> QED
    BY <1>14, <2>2 DEF UploadsInv, ImagesOK
<1>16. CachesOK'
  <2>1. \A n \in Names : n # id /\ cache[n] # None => staging'[cache'[n]] = staging[cache[n]]
    BY <1>1, <1>6, <1>8, <1>12 DEF UploadTypes
  <2>2. staging'[cache'[id]] = old \cup {w} /\ i = texture'[id].image
    BY <1>5, <1>8, <1>12, <1>14 DEF i
  <2>3. \A n \in Names : Initialized(n) => written[texture[n].image] \subseteq written'[texture'[n].image]
    BY <1>1, <1>12, <1>14, Initializeds
  <2>4. old \cup {w} \subseteq written'[i]
    BY <1>3, <1>10, <1>12
  <2>5. s # None
    BY <1>5, NoneAssumption
  <2>6. \A n \in queue' : cache'[n] # None
    BY <1>1, <1>2, <1>8, <2>5 DEF UploadsInv, CachesOK, UploadTypes
  <2>7. \A n \in Names : cache'[n] # None =>
            /\ Initialized(n)'
            /\ n \notin queue' => staging'[cache'[n]] = {}
            /\ staging'[cache'[n]] \subseteq written'[texture'[n].image]
    <3> SUFFICES ASSUME NEW n \in Names, cache'[n] # None
                 PROVE  /\ Initialized(n)'
                        /\ n \notin queue' => staging'[cache'[n]] = {}
                        /\ staging'[cache'[n]] \subseteq written'[texture'[n].image]
      OBVIOUS
    <3>1. CASE n = id
      BY <1>2, <1>14, <2>2, <2>4, <3>1
    <3>2. CASE n # id
      BY <1>2, <1>8, <1>14, <2>1, <2>3, <3>2 DEF UploadsInv, CachesOK
    <3> QED
      BY <3>1, <3>2
  <2>8. \A m, n \in Names : cache'[m] # None /\ cache'[m] = cache'[n] => m = n
    BY <1>6, <1>8 DEF UploadsInv, CachesOK
  <2> QED
    BY <1>2, <2>6, <2>7, <2>8 DEF CachesOK
<1>17. \A k \in DOMAIN gpu : \A c \in gpu[k].copies :
          /\ c.from \in Staging /\ c.to \in Images /\ staging'[c.from] = staging[c.from]
          /\ written[c.to] \subseteq written'[c.to]
  <2>1. \A k \in DOMAIN gpu : \A c \in gpu[k].copies : c.from \in Staging /\ c.to \in Images
    BY <1>1, InSubmissions DEF Copy
  <2> QED
    BY <1>7, <1>12, <2>1
<1>18. SubmissionsOK'
  <2>1. Range(cache') \subseteq Range(cache) \cup {s}
    BY <1>1, <1>8 DEF Range, UploadTypes
  <2>2. \A k \in DOMAIN gpu : \A c \in gpu[k].copies :
            c.from \notin Range(cache') /\ staging'[c.from] \subseteq written'[c.to]
    BY <1>7, <1>17, <2>1 DEF UploadsInv, SubmissionsOK
  <2> QED
    BY <1>2, <2>2 DEF UploadsInv, SubmissionsOK
<1>19. ContentsOK'
  <2>1. \A j \in Images : content'[j] \subseteq written'[j]
    BY <1>2, <1>12 DEF UploadsInv, ContentsOK
  <2> SUFFICES ASSUME NEW n \in Names, Initialized(n), NEW v \in written'[texture[n].image]
               PROVE  \/ v \in content[texture[n].image]
                      \/ OnTheWay(texture[n].image, v)'
                      \/ n \in queue' /\ v \in staging'[cache'[n]]
    BY <1>2, <1>14, <2>1 DEF ContentsOK
  <2>2. OnTheWay(texture[n].image, v) => OnTheWay(texture[n].image, v)'
    BY <1>2, <1>14, <1>17 DEF OnTheWay
  <2>3. texture[n].image \in Images
    BY <1>1, Initializeds
  <2>4. CASE n # id
    <3>1. v \in written[texture[n].image]
      BY <1>2, <1>12, <2>3, <2>4 DEF UploadsInv, ImagesOK, i
    <3>2. n \in queue => staging'[cache'[n]] = staging[cache[n]]
      BY <1>1, <1>6, <1>8, <1>12, <2>4 DEF UploadsInv, CachesOK, UploadTypes
    <3> QED
      BY <1>2, <2>2, <3>1, <3>2 DEF UploadsInv, ContentsOK
  <2>5. CASE n = id
    <3>1. staging'[cache'[id]] = old \cup {w} /\ id \in queue'
      BY <1>2, <1>5, <1>8, <1>12
    <3>2. v = w \/ v \in written[i]
      BY <1>12, <2>3, <2>5 DEF i
    <3>3. id \in queue => staging[cache[id]] = old
      BY <1>4 DEF old, UploadsInv, CachesOK
    <3> QED
      BY <2>2, <2>5, <3>1, <3>2, <3>3 DEF UploadsInv, ContentsOK, i
  <2> QED
    BY <2>4, <2>5
<1> QED
  BY <1>13, <1>15, <1>16, <1>18, <1>19 DEF UploadsInv

LEMMA AcquireUploads ==
    ASSUME TypeOK, UploadsInv, Acquire
    PROVE  UploadsInv' /\ UploadTypes'
<1>1. NamingTypes /\ UploadTypes /\ HistoryTypes
  BY TypesAre
<1>2. /\ submitted /\ batches' = Collected /\ queue' = {}
      /\ staging' = [s \in Staging |-> IF s \in Range(cache) THEN {} ELSE staging[s]]
      /\ UNCHANGED <<naming, cache, gpu, signaled, content, written>>
  BY DEF Acquire, history
<1>3. queue = {}
  BY <1>2 DEF UploadsInv, CachesOK
<1>4. \A n \in Names : cache[n] # None => staging'[cache[n]] = {}
  BY <1>1, <1>2 DEF Range, UploadTypes
<1>5. \A k \in DOMAIN gpu : \A c \in gpu[k].copies : staging'[c.from] = staging[c.from]
  <2>1. \A k \in DOMAIN gpu : \A c \in gpu[k].copies : c.from \in Staging
    BY <1>1, InSubmissions DEF Copy
  <2> QED
    BY <1>2, <2>1 DEF UploadsInv, SubmissionsOK
<1>6. UploadTypes'
  <2>1. staging' \in [Staging -> SUBSET Writes]
    BY <1>1, <1>2 DEF UploadTypes
  <2> QED
    BY <1>1, <1>2, <2>1, CollectedBatches DEF UploadTypes
<1>7. UNCHANGED <<texture, images>> /\ \A n \in Names : Initialized(n)' <=> Initialized(n)
  BY <1>2 DEF naming, Initialized
<1>8. ImagesOK'
  BY <1>2, <1>7 DEF UploadsInv, ImagesOK
<1>9. CachesOK'
  BY <1>2, <1>3, <1>4, <1>7 DEF UploadsInv, CachesOK
<1>10. SubmissionsOK'
  <2>1. \A k \in DOMAIN gpu :
            \E b \in batches' : b.fence = gpu[k].fence /\ b.copies = gpu[k].copies
    BY <1>1, <1>2, CollectedBatches DEF UploadTypes, UploadsInv, SubmissionsOK
  <2> QED
    BY <1>2, <1>5, <2>1 DEF UploadsInv, SubmissionsOK
<1>11. ContentsOK'
  <2>1. \A i, w : OnTheWay(i, w) => OnTheWay(i, w)'
    BY <1>2, <1>5 DEF OnTheWay
  <2> QED
    BY <1>2, <1>3, <1>7, <2>1 DEF UploadsInv, ContentsOK
<1> QED
  BY <1>6, <1>8, <1>9, <1>10, <1>11 DEF UploadsInv

LEMMA ExecuteUploads ==
    ASSUME TypeOK, UploadsInv, Execute
    PROVE  UploadsInv' /\ UploadTypes' /\ HistoryTypes'
<1> DEFINE head == gpu[1]
<1>1. NamingTypes /\ UploadTypes /\ HistoryTypes
  BY TypesAre
<1>2. /\ gpu # <<>> /\ content' = After(head) /\ signaled' = signaled \cup {head.fence}
      /\ gpu' = Tail(gpu)
      /\ UNCHANGED <<naming, queue, cache, batches, staging, written, submitted>>
  BY <1>1 DEF Execute, UploadTypes
<1>3. /\ 1 \in DOMAIN gpu /\ gpu' \in Seq(Submission)
      /\ \A k \in DOMAIN gpu' : k + 1 \in DOMAIN gpu /\ gpu'[k] = gpu[k + 1] /\ k \in Nat /\ k >= 1
      /\ \A k \in DOMAIN gpu : k = 1 \/ (k - 1 \in DOMAIN gpu' /\ gpu'[k - 1] = gpu[k])
  BY <1>1, <1>2 DEF UploadTypes
<1>4. head \in Submission /\ head.copies \subseteq Copy
  BY <1>1, <1>3, InSubmissions
<1> HIDE DEF head
<1>5. \A i \in Images : \A w :
          w \in content'[i] <=> \/ w \in content[i]
                               \/ \E c \in head.copies : c.to = i /\ w \in staging[c.from]
  BY <1>2 DEF After
<1>6. content' \in [Images -> SUBSET Writes]
  <2>1. \A c \in head.copies : staging[c.from] \subseteq Writes
    BY <1>1, <1>4 DEF Copy, UploadTypes
  <2>2. \A i \in Images : content'[i] \subseteq Writes
    BY <1>1, <1>5, <2>1 DEF HistoryTypes
  <2>3. content' = [i \in Images |-> content'[i]]
    BY <1>2 DEF After
  <2> QED
    BY <2>2, <2>3
<1>7. UploadTypes' /\ HistoryTypes'
  BY <1>1, <1>2, <1>3, <1>4, <1>6 DEF UploadTypes, HistoryTypes, Submission
<1>8. UNCHANGED <<texture, images>> /\ \A n \in Names : Initialized(n)' <=> Initialized(n)
  BY <1>2 DEF naming, Initialized
<1>9. ImagesOK' /\ CachesOK'
  BY <1>2, <1>8 DEF UploadsInv, ImagesOK, CachesOK
<1>10. SubmissionsOK'
  <2>1. \A k \in DOMAIN gpu' : gpu'[k].fence \notin signaled'
    BY <1>2, <1>3 DEF UploadsInv, SubmissionsOK, head
  <2>2. \A j, k \in DOMAIN gpu' : gpu'[j].fence = gpu'[k].fence => j = k
    BY <1>3 DEF UploadsInv, SubmissionsOK
  <2>3. \A k \in DOMAIN gpu :
            /\ \E b \in batches : b.fence = gpu[k].fence /\ b.copies = gpu[k].copies
            /\ \A c \in gpu[k].copies :
                   c.from \notin Range(cache) /\ staging[c.from] \subseteq written[c.to]
    BY DEF UploadsInv, SubmissionsOK
  <2>4. \A k \in DOMAIN gpu' :
            /\ \E b \in batches : b.fence = gpu'[k].fence /\ b.copies = gpu'[k].copies
            /\ \A c \in gpu'[k].copies :
                   c.from \notin Range(cache) /\ staging[c.from] \subseteq written[c.to]
    <3> SUFFICES ASSUME NEW k \in DOMAIN gpu'
                 PROVE  /\ \E b \in batches : b.fence = gpu'[k].fence /\ b.copies = gpu'[k].copies
                        /\ \A c \in gpu'[k].copies :
                               c.from \notin Range(cache) /\ staging[c.from] \subseteq written[c.to]
      OBVIOUS
    <3>1. k + 1 \in DOMAIN gpu /\ gpu'[k] = gpu[k + 1]
      BY <1>3
    <3> QED
      BY <2>3, <3>1
  <2> QED
    BY <1>2, <2>1, <2>2, <2>4 DEF SubmissionsOK
<1>11. ContentsOK'
  <2>1. \A c \in head.copies : staging[c.from] \subseteq written[c.to]
    BY <1>3 DEF UploadsInv, SubmissionsOK, head
  <2>2. \A i \in Images : content'[i] \subseteq written'[i]
    BY <1>2, <1>5, <2>1 DEF UploadsInv, ContentsOK
  <2>3. \A i \in Images : \A w : OnTheWay(i, w) => w \in content'[i] \/ OnTheWay(i, w)'
    <3> SUFFICES ASSUME NEW i \in Images, NEW w, OnTheWay(i, w)
                 PROVE  w \in content'[i] \/ OnTheWay(i, w)'
      OBVIOUS
    <3>1. PICK k \in DOMAIN gpu : \E c \in gpu[k].copies : c.to = i /\ w \in staging[c.from]
      BY DEF OnTheWay
    <3>2. CASE k = 1
      BY <1>5, <3>1, <3>2 DEF head
    <3>3. CASE k # 1
      <4>1. k - 1 \in DOMAIN gpu' /\ gpu'[k - 1] = gpu[k]
        BY <1>3, <3>3
      <4> QED
        BY <1>2, <3>1, <4>1 DEF OnTheWay
    <3> QED
      BY <3>2, <3>3
  <2>4. \A n \in Names : Initialized(n) => texture[n].image \in Images
    BY <1>1, Initializeds
  <2> SUFFICES ASSUME NEW n \in Names, Initialized(n), NEW w \in written[texture[n].image]
               PROVE  \/ w \in content'[texture[n].image]
                      \/ OnTheWay(texture[n].image, w)'
                      \/ n \in queue /\ w \in staging[cache[n]]
    BY <1>2, <1>8, <2>2 DEF ContentsOK
  <2>5. \/ w \in content[texture[n].image]
        \/ OnTheWay(texture[n].image, w)
        \/ n \in queue /\ w \in staging[cache[n]]
    BY DEF UploadsInv, ContentsOK
  <2> QED
    BY <1>5, <1>8, <2>3, <2>4, <2>5
<1> QED
  BY <1>7, <1>9, <1>10, <1>11 DEF UploadsInv

-----------------------------------------------------------------------------
(* The theorems                                                            *)

LEMMA InitInv == Init => IInv
<1> SUFFICES ASSUME Init PROVE IInv
  OBVIOUS
<1> USE DEF Init
<1>1. \A n \in Names : texture[n] = Absent /\ fallback[n] = None /\ bound[n] = None /\ cache[n] = None
  OBVIOUS
<1>2. TypeOK
  <2>1. NamingTypes /\ SlotTypes
    <3>1. next \in 1 .. Limit /\ images \in 0 .. MaxImages
      BY LimitAssumption, BoundsAssumption
    <3>2. free \in Seq(Names) /\ alias \subseteq Names
      OBVIOUS
    <3>3. /\ texture \in [Names -> Binding \cup {Absent, None}]
          /\ fallback \in [Names -> Names \cup {None}]
          /\ bound \in [Names -> Binding \cup {None, Alias}] /\ reload \in BOOLEAN
      OBVIOUS
    <3> QED
      BY <3>1, <3>2, <3>3 DEF NamingTypes, SlotTypes
  <2>2. UploadTypes /\ HistoryTypes
    BY DEF UploadTypes, HistoryTypes
  <2> QED
    BY <2>1, <2>2, TypesAre
<1>3. PoolOK /\ NamesOK /\ ShownOK
  BY <1>1, DistinctAssumption DEF PoolOK, NamesOK, ShownOK, Initialized
<1>4. ImagesOK /\ CachesOK /\ SubmissionsOK /\ ContentsOK
  BY <1>1 DEF ImagesOK, CachesOK, SubmissionsOK, ContentsOK, Initialized
<1> QED
  BY <1>2, <1>3, <1>4 DEF IInv, SlotsInv, UploadsInv

\* A step that only flushes.
LEMMA FlushStep ==
    ASSUME IInv, Flush({}), submitted' \in BOOLEAN,
           UNCHANGED <<naming, bound, reload, history, fatal>>
    PROVE  IInv'
<1>1. NamingTypes /\ SlotTypes /\ UploadTypes /\ HistoryTypes /\ fatal \in BOOLEAN
  BY TypesAre DEF IInv
<1>2. Flushed({})
  BY <1>1, FlushFlushes DEF IInv
<1>3. UNCHANGED <<next, free, texture, alias, fallback, images, bound, content, written>>
  BY DEF naming, history
<1>4. UploadsInv'
  BY <1>1, <1>2, <1>3, FlushedUploads DEF IInv, Initialized
<1>5. TypeOK'
  BY <1>1, <1>2, <1>3, TypesNext DEF NamingTypes, SlotTypes, HistoryTypes, Flushed
<1> QED
  BY <1>4, <1>5, SlotsKept DEF IInv

\* A step that changes names and what slots show, but no upload and no image.
LEMMA SlotsStep ==
    ASSUME IInv, SlotsInv', NamingTypes', SlotTypes',
           UNCHANGED <<uploads, history, submitted, fatal, images>>,
           \A id \in Names : Initialized(id)' <=> Initialized(id),
           \A id \in Names : Initialized(id) => texture'[id].image = texture[id].image
    PROVE  IInv'
<1>1. UploadTypes /\ HistoryTypes /\ submitted \in BOOLEAN /\ fatal \in BOOLEAN
  BY TypesAre DEF IInv
<1>2. UploadTypes' /\ HistoryTypes'
  BY <1>1 DEF UploadTypes, HistoryTypes, uploads, history
<1>3. TypeOK'
  BY <1>1, <1>2, TypesNext
<1> QED
  BY <1>3, UploadsKept DEF IInv

\* A step that polls.
LEMMA RetireStep ==
    ASSUME IInv, NEW visited \in SUBSET batches, batches' = Retire(visited),
           SlotsInv', SlotTypes', fatal' \in BOOLEAN,
           UNCHANGED <<naming, queue, cache, staging, gpu, signaled, history, submitted>>
    PROVE  IInv'
<1>1. NamingTypes /\ UploadTypes /\ HistoryTypes /\ submitted \in BOOLEAN
  BY TypesAre DEF IInv
<1>2. UNCHANGED <<next, free, texture, alias, fallback, images, content, written>>
  BY DEF naming, history
<1>3. UploadsInv' /\ UploadTypes'
  BY <1>1, <1>2, RetireUploads DEF IInv
<1>4. TypeOK'
  BY <1>1, <1>2, <1>3, TypesNext DEF NamingTypes, HistoryTypes
<1> QED
  BY <1>3, <1>4 DEF IInv

LEMMA NextInv == IInv /\ [Next]_vars => IInv'
<1> SUFFICES ASSUME IInv, [Next]_vars PROVE IInv'
  OBVIOUS
<1>1. /\ TypeOK /\ SlotsInv /\ UploadsInv /\ NamingTypes /\ SlotTypes /\ UploadTypes /\ HistoryTypes
      /\ submitted \in BOOLEAN /\ fatal \in BOOLEAN
  BY TypesAre DEF IInv
<1>2. CASE AllocateTexture
  <2>1. SlotsInv' /\ NamingTypes'
    BY <1>1, <1>2, AllocateSlots
  <2>2. /\ UNCHANGED <<bound, reload, uploads, history, submitted, fatal, images>>
        /\ texture' = [texture EXCEPT ![NextName] = None]
        /\ NextName \in Names /\ texture[NextName] = Absent
    BY <1>1, <1>2, NextNameIs DEF AllocateTexture, SlotsInv
  <2>3. \A id \in Names : /\ Initialized(id)' <=> Initialized(id)
                          /\ Initialized(id) => texture'[id] = texture[id]
    BY <1>1, <2>2 DEF Initialized, NamingTypes
  <2>4. SlotTypes'
    BY <1>1, <2>2 DEF SlotTypes
  <2> QED
    BY <2>1, <2>2, <2>3, <2>4, SlotsStep
<1>3. ASSUME NEW id \in Names, RegisterFrameAlias(id) PROVE IInv'
  <2>1. SlotsInv' /\ NamingTypes' /\ SlotTypes'
    BY <1>1, <1>3, RegisterFrameAliasSlots
  <2>2. UNCHANGED <<texture, uploads, history, submitted, fatal, images>>
    BY <1>3 DEF RegisterFrameAlias
  <2> QED
    BY <2>1, <2>2, SlotsStep DEF Initialized
<1>4. ASSUME NEW id \in Names, ReleaseAlias(id) PROVE IInv'
  <2>1. SlotsInv' /\ NamingTypes' /\ SlotTypes'
    BY <1>1, <1>4, ReleaseAliasSlots
  <2>2. /\ UNCHANGED <<uploads, history, submitted, fatal, images>>
        /\ \A n \in Names : texture'[n] = IF n = id THEN Absent ELSE texture[n]
        /\ texture[id] = None
    BY <1>1, <1>4 DEF ReleaseAlias, NamingTypes, SlotsInv, NamesOK
  <2>3. \A n \in Names : /\ Initialized(n)' <=> Initialized(n)
                         /\ Initialized(n) => texture'[n] = texture[n]
    BY <2>2 DEF Initialized
  <2> QED
    BY <2>1, <2>2, <2>3, SlotsStep
<1>5. ASSUME NEW id \in Names, InitializeTexture(id) PROVE IInv'
  <2> DEFINE binding == [image |-> images + 1, sampler |-> Nearest]
  <2>1. /\ texture[id] # Absent /\ id \notin alias /\ images < MaxImages /\ images' = images + 1
        /\ texture' = [texture EXCEPT ![id] = binding]
        /\ bound' = IF reload THEN bound ELSE Bound(id, texture'[id])
        /\ UNCHANGED <<next, free, alias, fallback, reload, history, submitted, fatal>>
    BY <1>5 DEF InitializeTexture
  <2>2. binding \in Binding /\ images' \in 0 .. MaxImages
    BY <1>1, <2>1, SamplersAssumption, BoundsAssumption DEF Binding, Images, NamingTypes
  <2>3. texture'[id] = binding
    BY <1>1, <2>1 DEF NamingTypes
  <2> HIDE DEF binding
  <2>4. SlotsInv' /\ NamingTypes' /\ SlotTypes'
    BY <1>1, <2>1, <2>2, <2>3, ReboundSlots
  <2>5. UploadsInv' /\ UploadTypes'
    BY <1>1, <1>5, InitializeTextureUploads
  <2>6. HistoryTypes'
    BY <1>1, <2>1 DEF HistoryTypes, history
  <2> QED
    BY <1>1, <2>1, <2>4, <2>5, <2>6, TypesNext DEF IInv
<1>6. ASSUME NEW id \in Names, NEW to \in Names, ReleaseTexture(id, to) PROVE IInv'
  <2>1. SlotsInv' /\ NamingTypes' /\ SlotTypes'
    BY <1>1, <1>6, ReleaseTextureSlots
  <2>2. UploadsInv' /\ UploadTypes'
    BY <1>1, <1>6, ReleaseTextureUploads
  <2>3. HistoryTypes' /\ submitted' \in BOOLEAN /\ fatal' \in BOOLEAN
    BY <1>1, <1>6 DEF HistoryTypes, history, ReleaseTexture
  <2> QED
    BY <2>1, <2>2, <2>3, TypesNext DEF IInv
<1>7. ASSUME NEW id \in Names, NEW to \in Names, ReleaseInReload(id, to) PROVE IInv'
  <2>1. SlotsInv' /\ NamingTypes' /\ SlotTypes'
    BY <1>1, <1>7, ReleaseInReloadSlots
  <2>2. UploadsInv' /\ UploadTypes'
    BY <1>1, <1>7, ReleaseInReloadUploads
  <2>3. HistoryTypes' /\ submitted' \in BOOLEAN /\ fatal' \in BOOLEAN
    BY <1>1, <1>7 DEF HistoryTypes, history, ReleaseInReload
  <2> QED
    BY <2>1, <2>2, <2>3, TypesNext DEF IInv
<1>8. ASSUME NEW id \in Names, NEW s \in Samplers, UpdateSampler(id, s) PROVE IInv'
  <2> DEFINE binding == [texture[id] EXCEPT !.sampler = s]
  <2>1. /\ Initialized(id) /\ texture' = [texture EXCEPT ![id].sampler = s]
        /\ bound' = IF reload THEN bound ELSE Bound(id, texture'[id])
        /\ UNCHANGED <<next, free, alias, fallback, images, reload, uploads, history, submitted,
                       fatal>>
    BY <1>8 DEF UpdateSampler
  <2>2. texture[id] \in Binding
    BY <1>1, <2>1, Initializeds
  <2>3. /\ binding \in Binding /\ binding.image = texture[id].image
        /\ texture' = [texture EXCEPT ![id] = binding] /\ texture'[id] = binding
    BY <1>1, <2>1, <2>2 DEF Binding, NamingTypes
  <2> HIDE DEF binding
  <2>4. id \notin alias /\ texture[id] # Absent /\ images' \in 0 .. MaxImages
    BY <1>1, <2>1 DEF Initialized, SlotsInv, NamesOK, NamingTypes
  <2>5. SlotsInv' /\ NamingTypes' /\ SlotTypes'
    BY <1>1, <2>1, <2>3, <2>4, ReboundSlots
  <2>6. \A n \in Names : /\ Initialized(n)' <=> Initialized(n)
                         /\ Initialized(n) => texture'[n].image = texture[n].image
    BY <1>1, <2>1, <2>3, NoneAssumption, DistinctAssumption DEF Initialized, NamingTypes
  <2> QED
    BY <2>1, <2>5, <2>6, SlotsStep
<1>9. ASSUME NEW id \in Names, QueueUpload(id) PROVE IInv'
  <2>1. UploadsInv' /\ UploadTypes' /\ HistoryTypes'
    BY <1>1, <1>9, QueueUploadUploads
  <2>2. UNCHANGED <<naming, bound, reload, submitted, fatal>>
    BY <1>9 DEF QueueUpload
  <2>3. NamingTypes' /\ SlotTypes'
    BY <1>1, <2>2 DEF NamingTypes, SlotTypes, naming
  <2> QED
    BY <1>1, <2>1, <2>2, <2>3, SlotsKept, TypesNext DEF IInv
<1>10. CASE FlushUploads
  BY <1>1, <1>10, FlushStep DEF FlushUploads
<1>11. CASE Submit
  BY <1>11, FlushStep DEF Submit
<1>12. CASE Acquire
  <2>1. UploadsInv' /\ UploadTypes'
    BY <1>1, <1>12, AcquireUploads
  <2>2. UNCHANGED <<naming, bound, reload, history, fatal>> /\ submitted' = FALSE
    BY <1>12 DEF Acquire
  <2>3. NamingTypes' /\ SlotTypes' /\ HistoryTypes'
    BY <1>1, <2>2 DEF NamingTypes, SlotTypes, HistoryTypes, naming, history
  <2> QED
    BY <1>1, <2>1, <2>2, <2>3, SlotsKept, TypesNext DEF IInv
<1>13. CASE PollFails
  <2>1. PICK failed \in batches : batches' = Retire({b \in batches : b.fence \in failed.before})
    BY <1>13 DEF PollFails
  <2>2. /\ fatal' = TRUE
        /\ UNCHANGED <<naming, bound, reload, queue, cache, staging, gpu, signaled, history, submitted>>
    BY <1>13 DEF PollFails
  <2>3. SlotsInv' /\ SlotTypes'
    BY <1>1, <2>2, SlotsKept DEF SlotTypes
  <2> QED
    BY <2>1, <2>2, <2>3, RetireStep
<1>14. CASE BeginReload
  <2>1. /\ batches' = Retire(batches) /\ reload' = TRUE
        /\ UNCHANGED <<naming, bound, queue, cache, staging, gpu, signaled, history, submitted, fatal>>
    BY <1>14 DEF BeginReload, Collected
  <2>2. SlotsInv' /\ SlotTypes'
    BY <1>1, <2>1 DEF SlotsInv, PoolOK, NamesOK, ShownOK, Initialized, naming, SlotTypes
  <2> QED
    BY <1>1, <2>1, <2>2, RetireStep
<1>15. CASE EndReload
  <2>1. /\ batches' = Retire(batches)
        /\ UNCHANGED <<naming, queue, cache, staging, gpu, signaled, history, submitted, fatal>>
    BY <1>15 DEF EndReload, Collected
  <2>2. SlotsInv' /\ SlotTypes'
    BY <1>1, <1>15, EndReloadSlots
  <2> QED
    BY <1>1, <2>1, <2>2, RetireStep
<1>16. CASE Execute
  <2>1. UploadsInv' /\ UploadTypes' /\ HistoryTypes'
    BY <1>1, <1>16, ExecuteUploads
  <2>2. UNCHANGED <<naming, bound, reload, submitted, fatal>>
    BY <1>16 DEF Execute
  <2>3. NamingTypes' /\ SlotTypes'
    BY <1>1, <2>2 DEF NamingTypes, SlotTypes, naming
  <2> QED
    BY <1>1, <2>1, <2>2, <2>3, SlotsKept, TypesNext DEF IInv
<1>17. CASE UNCHANGED vars
  BY <1>17 DEF vars, naming, uploads, history, IInv, TypeOK, SlotsInv, PoolOK, NamesOK, ShownOK,
               UploadsInv, ImagesOK, CachesOK, SubmissionsOK, ContentsOK, OnTheWay, Initialized
<1> QED
  BY <1>2, <1>3, <1>4, <1>5, <1>6, <1>7, <1>8, <1>9, <1>10, <1>11, <1>12, <1>13, <1>14, <1>15,
     <1>16, <1>17 DEF Next

\* Every call, poll and batch of the GPU keeps the invariant of slots and uploads.
THEOREM Invariance == Spec => []IInv
BY InitInv, NextInv, PTL DEF Spec

\* The name pool, the slots, the upload queue and the batches keep their types.
THEOREM TypeCorrect == Spec => []TypeOK
<1>1. IInv => TypeOK
  BY DEF IInv
<1> QED
  BY <1>1, Invariance, PTL

(***************************************************************************)
(* Class Textures: outside a reload every slot shows the present image and *)
(* sampler of its texture, or those of the fallback of a released name.    *)
(***************************************************************************)
THEOREM SlotsCurrent == Spec => []SlotsAreCurrent
<1>1. IInv => SlotsAreCurrent
  BY DEF IInv, SlotsInv, NamesOK, ShownOK, SlotsAreCurrent
<1> QED
  BY <1>1, Invariance, PTL

(***************************************************************************)
(* flushQueuedUploadImpl and retireUploads: what is uploaded to an image   *)
(* reaches it and no other, with buffers and fences used again.            *)
(***************************************************************************)
THEOREM UploadsReachImages == Spec => []UploadsArrive
<1>1. ASSUME IInv PROVE UploadsArrive
  <2>1. \A i \in Images : content[i] \subseteq written[i]
    BY <1>1 DEF IInv, UploadsInv, ContentsOK
  <2>2. ASSUME NEW id \in Names, Initialized(id), id \notin queue, ~Awaited(texture[id].image)
        PROVE  content[texture[id].image] = written[texture[id].image]
    <3>1. texture[id].image \in Images
      BY <1>1, <2>2, Initializeds, TypesAre DEF IInv
    <3>2. \A w : ~OnTheWay(texture[id].image, w)
      BY <2>2 DEF OnTheWay, Awaited
    <3> QED
      BY <1>1, <2>1, <2>2, <3>1, <3>2 DEF IInv, UploadsInv, ContentsOK
  <2> QED
    BY <2>1, <2>2 DEF UploadsArrive
<1> QED
  BY <1>1, Invariance, PTL

(***************************************************************************)
(* retireUploads: what the GPU may still execute of the uploads is held by *)
(* a batch, a failing poll included, for any number of batches.            *)
(***************************************************************************)
THEOREM BatchesHold == Spec => []InFlightIsHeld
<1>1. IInv => InFlightIsHeld
  BY DEF IInv, UploadsInv, SubmissionsOK, InFlightIsHeld, Holds
<1> QED
  BY <1>1, Invariance, PTL
=============================================================================
