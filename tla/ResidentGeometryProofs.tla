----------------------- MODULE ResidentGeometryProofs -----------------------
(***************************************************************************)
(* The properties of resident geometry for any keys, models and bounds.    *)
(***************************************************************************)
EXTENDS ResidentGeometry, FiniteSetTheorems, TLAPS

\* No two keys share a model, and geometry in the cache that may be found exists.
Shape ==
    /\ IsFiniteSet(Residents)
    /\ \A k, l \in Keys : resident[k] # None /\ resident[k] = resident[l] => k = l
    /\ cache.submitted => cache.value # None

\* A resident model used in the open world frame has an owner in the frame.
UsedInv ==
    /\ \A m \in Models : model[m].used <= token
    /\ meshOpen => \A m \in Residents : model[m].used = token => m \in used

\* Models somebody may still queue or trace.
Tracked == Residents \cup used \cup batch.models

\* What the life of a model says of the commands.
LifeInv ==
    /\ \A m \in Tracked :
           /\ model[m].life = "submitted" => m \in built
           /\ model[m].life = "recorded" => rendered /\ m \in used /\ m \in recorded
    /\ builds > 0 => batch.models \subseteq used

\* The clouds a frame may trace are built, or those it has a builder for.
CloudInv ==
    /\ clouds \subseteq queued /\ queued \subseteq built \cup {builder}
    /\ builder # None => cache.value = builder /\ builds > 0
    /\ builderRecorded => rendered /\ builder # None /\ builder \in built \cup recorded
    /\ CloudReuseOnlyBuilt
    /\ rendered => builds > 0

TraceInv == TracedIsBuilt /\ (phase = "submitted" => recorded = {})

-----------------------------------------------------------------------------
\* What the assumptions say of the constants.
LEMMA Bounds ==
    /\ MaxResident \in Nat \ {0} /\ MaxTokens \in Nat /\ MaxGeneration \in Nat \ {0}
    /\ MaxClouds \in Nat /\ BuildsPerFrame \in Nat /\ MaxIdle \in Nat
    /\ None \notin Models /\ None \notin Revisions /\ None \notin Nat
    /\ Clouds \subseteq Nat /\ Models \cap Clouds = {} /\ None \notin Clouds
BY BoundsAssumption, NoneAssumption, ModelsAssumption DEF Clouds

\* Keys that lose their models leave fewer of them.
LEMMA FewerResidents ==
    ASSUME TypeOK, Shape, resident' \in [Keys -> Models \cup {None}],
           \A k \in Keys : resident'[k] \in {resident[k], None}
    PROVE  /\ Residents' \subseteq Residents
           /\ IsFiniteSet(Residents') /\ Cardinality(Residents') <= MaxResident
           /\ \A k, l \in Keys : resident'[k] # None /\ resident'[k] = resident'[l] => k = l
<1>1. Residents' \subseteq Residents
  BY DEF Residents
<1>2. IsFiniteSet(Residents)
  BY DEF Shape
<1>3. IsFiniteSet(Residents') /\ Cardinality(Residents') <= Cardinality(Residents)
  BY <1>1, <1>2, FS_Subset
<1>4. Cardinality(Residents) <= MaxResident
  BY DEF TypeOK
<1>5. Cardinality(Residents') \in Nat /\ Cardinality(Residents) \in Nat
  BY <1>2, <1>3, FS_CardinalityType
<1>6. \A k, l \in Keys : resident'[k] # None /\ resident'[k] = resident'[l] => k = l
  BY DEF Shape
<1> QED
  BY <1>1, <1>3, <1>4, <1>5, <1>6, Bounds

\* A new model takes a key's place, evicts another's, or fits into the table.
LEMMA OneResidentMore ==
    ASSUME TypeOK, Shape, NEW k \in Keys, NEW m \in Models, m \notin Residents,
           NEW l \in Victims(k),
           resident' = [resident EXCEPT ![l] = None, ![k] = m]
    PROVE  /\ resident' \in [Keys -> Models \cup {None}]
           /\ Residents' \subseteq Residents \cup {m}
           /\ IsFiniteSet(Residents') /\ Cardinality(Residents') <= MaxResident
           /\ \A i, j \in Keys : resident'[i] # None /\ resident'[i] = resident'[j] => i = j
<1>1. l \in Keys /\ (l # k => resident[l] # None)
  BY DEF Victims, Oldest
<1>2. /\ resident' \in [Keys -> Models \cup {None}]
      /\ \A i \in Keys : resident'[i] = IF i = k THEN m ELSE IF i = l THEN None ELSE resident[i]
  BY <1>1 DEF TypeOK
<1>3. \A i, j \in Keys : resident'[i] # None /\ resident'[i] = resident'[j] => i = j
  BY <1>2 DEF Shape, Residents
<1>4. \A i, j \in Keys : resident[i] # None /\ resident[i] = resident[j] => i = j
  BY DEF Shape
<1>5. Residents' \subseteq (Residents \ {resident[l]}) \cup {m}
  <2> SUFFICES ASSUME NEW i \in Keys, resident'[i] # None, i # k
               PROVE  resident'[i] \in Residents /\ resident'[i] # resident[l]
    BY <1>2 DEF Residents
  <2>1. i # l /\ resident'[i] = resident[i]
    BY <1>2
  <2> QED
    BY <2>1, <1>1, <1>4 DEF Residents
<1>6. IsFiniteSet(Residents) /\ Cardinality(Residents) \in Nat
      /\ Cardinality(Residents) <= MaxResident
  BY FS_CardinalityType DEF Shape, TypeOK
<1>7. CASE resident[l] # None
  <2>1. resident[l] \in Residents
    BY <1>1, <1>7 DEF Residents
  <2>2. IsFiniteSet(Residents \ {resident[l]})
        /\ Cardinality(Residents \ {resident[l]}) = Cardinality(Residents) - 1
    BY <1>6, <2>1, FS_RemoveElement
  <2>3. IsFiniteSet((Residents \ {resident[l]}) \cup {m})
        /\ Cardinality((Residents \ {resident[l]}) \cup {m}) = Cardinality(Residents)
    <3> DEFINE Others == Residents \ {resident[l]}
    <3>1. IsFiniteSet(Others) /\ Cardinality(Others) = Cardinality(Residents) - 1 /\ m \notin Others
      BY <2>2
    <3> HIDE DEF Others
    <3>2. IsFiniteSet(Others \cup {m}) /\ Cardinality(Others \cup {m}) = Cardinality(Others) + 1
      BY <3>1, FS_AddElement
    <3>3. Cardinality(Others \cup {m}) = Cardinality(Residents)
      BY <1>6, <3>1, <3>2
    <3> QED
      BY <3>2, <3>3 DEF Others
  <2> DEFINE Rest == (Residents \ {resident[l]}) \cup {m}
  <2>4. IsFiniteSet(Residents') /\ Cardinality(Residents') <= Cardinality(Residents)
    <3>1. IsFiniteSet(Rest) /\ Cardinality(Rest) = Cardinality(Residents) /\ Residents' \subseteq Rest
      BY <1>5, <2>3
    <3> HIDE DEF Rest
    <3> QED
      BY <3>1, FS_Subset
  <2>5. Cardinality(Residents') \in Nat
    BY <2>4, FS_CardinalityType
  <2> QED
    BY <1>2, <1>3, <1>5, <1>6, <2>4, <2>5, Bounds
<1>8. CASE resident[l] = None
  <2>1. l = k
    BY <1>1, <1>8
  <2>2. ~(Cardinality(Residents) >= MaxResident)
    <3> SUFFICES ASSUME Cardinality(Residents) >= MaxResident PROVE FALSE
      OBVIOUS
    <3>1. Victims(k) = {j \in Keys : Oldest(j)}
      BY <1>8, <2>1 DEF Victims
    <3> QED
      BY <3>1, <1>8 DEF Oldest
  <2>3. Residents' \subseteq Residents \cup {m}
    BY <1>5
  <2>4. IsFiniteSet(Residents \cup {m}) /\ Cardinality(Residents \cup {m}) = Cardinality(Residents) + 1
    BY <1>6, FS_AddElement
  <2>5. IsFiniteSet(Residents') /\ Cardinality(Residents') <= Cardinality(Residents) + 1
    BY <2>3, <2>4, FS_Subset
  <2>6. Cardinality(Residents') \in Nat
    BY <2>5, FS_CardinalityType
  <2> QED
    BY <1>2, <1>3, <2>2, <2>3, <2>5, <2>6, <1>6, Bounds
<1> QED
  BY <1>7, <1>8

\* The table keeps its bound and its shape.
LEMMA ShapeStep ==
    ASSUME TypeOK, Shape, [Next]_vars
    PROVE  /\ Shape' /\ Cardinality(Residents') <= MaxResident
           /\ resident' \in [Keys -> Models \cup {None}]
<1> DEFINE Goal == /\ Shape' /\ Cardinality(Residents') <= MaxResident
                   /\ resident' \in [Keys -> Models \cup {None}]
<1> SUFFICES Goal
  OBVIOUS
<1>1. CASE BeginWorldMeshFrame
  <2>1. resident' = resident /\ (cache'.submitted => cache'.value # None)
    BY <1>1, Bounds DEF BeginWorldMeshFrame, rigid, cloud, frame, Shape, TypeOK, Published
  <2>2. Residents' = Residents
    BY <2>1 DEF Residents
  <2> QED
    BY <2>1, <2>2 DEF Shape, TypeOK
<1>2. CASE Invalidate
  <2>1. /\ resident' \in [Keys -> Models \cup {None}]
        /\ \A k \in Keys : resident'[k] \in {resident[k], None}
        /\ cache'.submitted => cache'.value # None
    BY <1>2 DEF Invalidate, cloud, frame, Shape, TypeOK
  <2> QED
    BY <2>1, FewerResidents DEF Shape
<1>3. ASSUME NEW commit \in BOOLEAN, EndWorldMeshFrame(commit)
      PROVE  Goal
  <2>1. resident' = resident /\ (cache'.submitted => cache'.value # None)
    BY <1>3, Bounds DEF EndWorldMeshFrame, cloud, frame, Shape, TypeOK, Published
  <2>2. Residents' = Residents
    BY <2>1 DEF Residents
  <2> QED
    BY <2>1, <2>2 DEF Shape, TypeOK
<1>4. ASSUME NEW k \in Keys, QueueResident(k)
      PROVE  Goal
  <2>1. resident' = resident /\ (cache'.submitted => cache'.value # None)
    BY <1>4, Bounds DEF QueueResident, UsedWith, Hit, mesh, cloud, frame, Shape, TypeOK,
         Published
  <2>2. Residents' = Residents
    BY <2>1 DEF Residents
  <2> QED
    BY <2>1, <2>2 DEF Shape, TypeOK
<1>5. ASSUME NEW k \in Keys, NEW m \in Models, QueueNew(k, m)
      PROVE  Goal
  <2>1. PICK l \in Victims(k) : resident' = [resident EXCEPT ![l] = None, ![k] = m]
    BY <1>5 DEF QueueNew
  <2>2. m \notin Residents /\ cache' = cache
    BY <1>5 DEF QueueNew, Fresh, cloud
  <2> QED
    BY <2>1, <2>2, OneResidentMore DEF Shape
<1>6. ASSUME NEW r \in Revisions, BeginCloud(r)
      PROVE  Goal
  <2>1. resident' = resident /\ (cache'.submitted => cache'.value # None)
    BY <1>6, Bounds DEF BeginCloud, Found, mesh, rigid, frame, Shape, TypeOK, Published
  <2>2. Residents' = Residents
    BY <2>1 DEF Residents
  <2> QED
    BY <2>1, <2>2 DEF Shape, TypeOK
<1>7. ASSUME NEW success \in BOOLEAN, EndCloud(success)
      PROVE  Goal
  <2>1. resident' = resident /\ (cache'.submitted => cache'.value # None)
    BY <1>7, Bounds DEF EndCloud, mesh, rigid, frame, Shape, TypeOK, Published
  <2>2. Residents' = Residents
    BY <2>1 DEF Residents
  <2> QED
    BY <2>1, <2>2 DEF Shape, TypeOK
<1>8. CASE Build
  <2>1. resident' = resident /\ (cache'.submitted => cache'.value # None)
    BY <1>8, Bounds DEF Build, mesh, Shape, TypeOK, Published
  <2>2. Residents' = Residents
    BY <2>1 DEF Residents
  <2> QED
    BY <2>1, <2>2 DEF Shape, TypeOK
<1>9. ASSUME NEW next \in {"open", "submitted"}, SubmitRendering(next)
      PROVE  Goal
  <2>1. resident' = resident /\ (cache'.submitted => cache'.value # None)
    BY <1>9, Bounds DEF SubmitRendering, Render, mesh, Shape, TypeOK, Published
  <2>2. Residents' = Residents
    BY <2>1 DEF Residents
  <2> QED
    BY <2>1, <2>2 DEF Shape, TypeOK
<1>10. ASSUME NEW next \in {"open", "submitted"}, SubmitRest(next)
      PROVE  Goal
  <2>1. resident' = resident /\ (cache'.submitted => cache'.value # None)
    BY <1>10, Bounds DEF SubmitRest, mesh, Shape, TypeOK, Published
  <2>2. Residents' = Residents
    BY <2>1 DEF Residents
  <2> QED
    BY <2>1, <2>2 DEF Shape, TypeOK
<1>11. ASSUME NEW next \in {"open", "abandoned"}, RenderOnly(next)
      PROVE  Goal
  <2>1. resident' = resident /\ (cache'.submitted => cache'.value # None)
    BY <1>11, Bounds DEF RenderOnly, Render, mesh, Shape, TypeOK, Published
  <2>2. Residents' = Residents
    BY <2>1 DEF Residents
  <2> QED
    BY <2>1, <2>2 DEF Shape, TypeOK
<1>12. CASE Acquire
  <2>1. /\ resident' \in [Keys -> Models \cup {None}]
        /\ \A k \in Keys : resident'[k] \in {resident[k], None}
        /\ cache'.submitted => cache'.value # None
    BY <1>12 DEF Acquire, Aged, mesh, Shape, TypeOK, EmptyCache
  <2> QED
    BY <2>1, FewerResidents DEF Shape
<1>13. CASE ReleaseScene
  <2>1. /\ resident' \in [Keys -> Models \cup {None}]
        /\ \A k \in Keys : resident'[k] \in {resident[k], None}
        /\ cache'.submitted => cache'.value # None
    BY <1>13 DEF ReleaseScene, mesh, EmptyBatch, EmptyCache, Shape, TypeOK
  <2> QED
    BY <2>1, FewerResidents DEF Shape
<1>14. CASE UNCHANGED vars
  <2>1. resident' = resident /\ (cache'.submitted => cache'.value # None)
    BY <1>14, Bounds DEF vars, mesh, rigid, cloud, frame, Shape, TypeOK, Published
  <2>2. Residents' = Residents
    BY <2>1 DEF Residents
  <2> QED
    BY <2>1, <2>2 DEF Shape, TypeOK
<1> QED
  BY <1>1, <1>2, <1>3, <1>4, <1>5, <1>6, <1>7, <1>8, <1>9, <1>10, <1>11, <1>12, <1>13,
       <1>14 DEF Next

\* The parts of TypeOK, but for the table.
MeshTypes ==
    /\ generation \in 1 .. MaxGeneration /\ token \in 0 .. MaxTokens /\ meshOpen \in BOOLEAN
    /\ phase \in {"open", "submitted", "abandoned"}
    /\ rendered \in BOOLEAN /\ builds \in 0 .. BuildsPerFrame

RigidTypes ==
    /\ model \in [Models -> Model]
    /\ used \subseteq Models /\ instances \subseteq Models
    /\ batch \in [models : SUBSET Models, instances : SUBSET Models, token : 0 .. MaxTokens,
                  generation : 0 .. MaxGeneration]

CloudTypes ==
    /\ cache \in [revision : Revisions \cup {None}, value : Clouds \cup {None},
                  submitted : BOOLEAN, used : BOOLEAN]
    /\ cloudRevision \in Revisions \cup {None}
    /\ capturing \in BOOLEAN /\ captured \in BOOLEAN
    /\ builder \in Clouds \cup {None} /\ builderRecorded \in BOOLEAN
    /\ queued \subseteq Clouds /\ clouds \subseteq Clouds /\ cloudCount \in 0 .. MaxClouds

FrameTypes == recorded \subseteq Geometry /\ traced \subseteq Geometry /\ built \subseteq Geometry

\* TypeOK is the conjunction of its parts and of the table's bound.
LEMMA TypeParts ==
    /\ TypeOK => MeshTypes /\ RigidTypes /\ CloudTypes /\ FrameTypes
    /\ (/\ MeshTypes' /\ RigidTypes' /\ CloudTypes' /\ FrameTypes'
        /\ Cardinality(Residents') <= MaxResident /\ resident' \in [Keys -> Models \cup {None}])
       => TypeOK'
BY DEF TypeOK, MeshTypes, RigidTypes, CloudTypes, FrameTypes

\* A model's record keeps its type when one field changes.
LEMMA RecordTypes ==
    /\ \A r : r \in Model <=> /\ r = [generation |-> r.generation, used |-> r.used, life |-> r.life]
                              /\ r.generation \in 0 .. MaxGeneration /\ r.used \in 0 .. MaxTokens
                              /\ r.life \in Life
    /\ \A r \in Model : \A u \in 0 .. MaxTokens : [r EXCEPT !.used = u] \in Model
    /\ \A r \in Model : \A l \in Life : [r EXCEPT !.life = l] \in Model
BY DEF Model

\* The world frame and the phase of the frame keep their types.
LEMMA MeshTypesStep ==
    ASSUME TypeOK, Shape, [Next]_vars
    PROVE  MeshTypes'
<1>1. CASE BeginWorldMeshFrame
  BY <1>1, TypeParts, Bounds DEF BeginWorldMeshFrame, rigid, cloud, frame, MeshTypes
<1>2. CASE Invalidate
  <2>1. /\ generation < MaxGeneration /\ generation' = generation + 1 /\ meshOpen' = FALSE
        /\ UNCHANGED <<token, phase, rendered, builds>>
    BY <1>2 DEF Invalidate, frame
  <2>2. generation' \in 1 .. MaxGeneration
    BY <2>1, TypeParts, Bounds DEF MeshTypes
  <2>3. meshOpen' \in BOOLEAN
    BY <2>1
  <2> QED
    BY <2>1, <2>2, <2>3, TypeParts DEF MeshTypes
<1>3. ASSUME NEW commit \in BOOLEAN, EndWorldMeshFrame(commit)
      PROVE  MeshTypes'
  BY <1>3, TypeParts, Bounds DEF EndWorldMeshFrame, cloud, frame, MeshTypes
<1>4. ASSUME NEW k \in Keys, QueueResident(k)
      PROVE  MeshTypes'
  BY <1>4, TypeParts, Bounds DEF QueueResident, UsedWith, Hit, mesh, cloud, frame, MeshTypes
<1>5. ASSUME NEW k \in Keys, NEW m \in Models, QueueNew(k, m)
      PROVE  MeshTypes'
  BY <1>5, TypeParts, Bounds DEF QueueNew, mesh, cloud, MeshTypes
<1>6. ASSUME NEW r \in Revisions, BeginCloud(r)
      PROVE  MeshTypes'
  BY <1>6, TypeParts, Bounds DEF BeginCloud, Found, mesh, rigid, frame, MeshTypes
<1>7. ASSUME NEW success \in BOOLEAN, EndCloud(success)
      PROVE  MeshTypes'
  BY <1>7, TypeParts, Bounds DEF EndCloud, mesh, rigid, frame, MeshTypes
<1>8. CASE Build
  BY <1>8, TypeParts, Bounds DEF Build, mesh, MeshTypes
<1>9. ASSUME NEW next \in {"open", "submitted"}, SubmitRendering(next)
      PROVE  MeshTypes'
  BY <1>9, TypeParts, Bounds DEF SubmitRendering, Render, mesh, MeshTypes
<1>10. ASSUME NEW next \in {"open", "submitted"}, SubmitRest(next)
      PROVE  MeshTypes'
  BY <1>10, TypeParts, Bounds DEF SubmitRest, mesh, MeshTypes
<1>11. ASSUME NEW next \in {"open", "abandoned"}, RenderOnly(next)
      PROVE  MeshTypes'
  BY <1>11, TypeParts, Bounds DEF RenderOnly, Render, mesh, MeshTypes
<1>12. CASE Acquire
  <2>1. /\ phase' = "open" /\ rendered' = FALSE /\ builds' = 0
        /\ UNCHANGED <<generation, token, meshOpen>>
    BY <1>12 DEF Acquire, mesh
  <2>2. builds' \in 0 .. BuildsPerFrame
    BY <2>1, Bounds
  <2>3. rendered' \in BOOLEAN
    BY <2>1
  <2> QED
    BY <2>1, <2>2, <2>3, TypeParts DEF MeshTypes
<1>13. CASE ReleaseScene
  BY <1>13, TypeParts, Bounds DEF ReleaseScene, mesh, EmptyBatch, EmptyCache, MeshTypes
<1>14. CASE UNCHANGED vars
  BY <1>14, TypeParts, Bounds DEF vars, mesh, rigid, cloud, frame, MeshTypes
<1> QED
  BY <1>1, <1>2, <1>3, <1>4, <1>5, <1>6, <1>7, <1>8, <1>9, <1>10, <1>11, <1>12, <1>13,
       <1>14 DEF Next

\* Models, their owners, instances and batches keep their types.
LEMMA RigidTypesStep ==
    ASSUME TypeOK, Shape, [Next]_vars
    PROVE  RigidTypes'
<1>1. CASE BeginWorldMeshFrame
  BY <1>1, TypeParts, Bounds, RecordTypes DEF BeginWorldMeshFrame, rigid, cloud, frame,
       RigidTypes
<1>2. CASE Invalidate
  BY <1>2, TypeParts, Bounds, RecordTypes DEF Invalidate, cloud, frame, RigidTypes
<1>3. ASSUME NEW commit \in BOOLEAN, EndWorldMeshFrame(commit)
      PROVE  RigidTypes'
  BY <1>3, TypeParts, Bounds, RecordTypes DEF EndWorldMeshFrame, cloud, frame, RigidTypes
<1>4. ASSUME NEW k \in Keys, QueueResident(k)
      PROVE  RigidTypes'
  BY <1>4, TypeParts, Bounds, RecordTypes DEF QueueResident, UsedWith, Hit, MeshTypes,
       TypeOK, mesh, cloud, frame, RigidTypes
<1>5. ASSUME NEW k \in Keys, NEW m \in Models, QueueNew(k, m)
      PROVE  RigidTypes'
  BY <1>5, TypeParts, Bounds, RecordTypes DEF QueueNew, MeshTypes, Model, Life, mesh,
       cloud, RigidTypes
<1>6. ASSUME NEW r \in Revisions, BeginCloud(r)
      PROVE  RigidTypes'
  BY <1>6, TypeParts, Bounds, RecordTypes DEF BeginCloud, Found, mesh, rigid, frame,
       RigidTypes
<1>7. ASSUME NEW success \in BOOLEAN, EndCloud(success)
      PROVE  RigidTypes'
  BY <1>7, TypeParts, Bounds, RecordTypes DEF EndCloud, mesh, rigid, frame, RigidTypes
<1>8. CASE Build
  BY <1>8, TypeParts, Bounds, RecordTypes DEF Build, MeshTypes, mesh, RigidTypes
<1>9. ASSUME NEW next \in {"open", "submitted"}, SubmitRendering(next)
      PROVE  RigidTypes'
  BY <1>9, TypeParts, Bounds, RecordTypes DEF SubmitRendering, Render, Committed, Life,
       mesh, RigidTypes
<1>10. ASSUME NEW next \in {"open", "submitted"}, SubmitRest(next)
      PROVE  RigidTypes'
  BY <1>10, TypeParts, Bounds, RecordTypes DEF SubmitRest, Committed, Life, mesh, RigidTypes
<1>11. ASSUME NEW next \in {"open", "abandoned"}, RenderOnly(next)
      PROVE  RigidTypes'
  BY <1>11, TypeParts, Bounds, RecordTypes DEF RenderOnly, Render, Life, mesh, RigidTypes
<1>12. CASE Acquire
  BY <1>12, TypeParts, Bounds, RecordTypes DEF Acquire, Reopened, Life, mesh, RigidTypes
<1>13. CASE ReleaseScene
  BY <1>13, TypeParts, Bounds, RecordTypes DEF ReleaseScene, mesh, EmptyBatch,
       EmptyCache, RigidTypes
<1>14. CASE UNCHANGED vars
  BY <1>14, TypeParts, Bounds, RecordTypes DEF vars, mesh, rigid, cloud, frame, RigidTypes
<1> QED
  BY <1>1, <1>2, <1>3, <1>4, <1>5, <1>6, <1>7, <1>8, <1>9, <1>10, <1>11, <1>12, <1>13,
       <1>14 DEF Next

\* Clouds, their cache and their builder keep their types.
LEMMA CloudTypesStep ==
    ASSUME TypeOK, Shape, [Next]_vars
    PROVE  CloudTypes'
<1>1. CASE BeginWorldMeshFrame
  BY <1>1, TypeParts, Bounds DEF BeginWorldMeshFrame, rigid, cloud, frame, CloudTypes
<1>2. CASE Invalidate
  BY <1>2, TypeParts, Bounds DEF Invalidate, cloud, frame, CloudTypes
<1>3. ASSUME NEW commit \in BOOLEAN, EndWorldMeshFrame(commit)
      PROVE  CloudTypes'
  BY <1>3, TypeParts, Bounds DEF EndWorldMeshFrame, cloud, frame, CloudTypes
<1>4. ASSUME NEW k \in Keys, QueueResident(k)
      PROVE  CloudTypes'
  BY <1>4, TypeParts, Bounds DEF QueueResident, UsedWith, Hit, mesh, cloud, frame,
       CloudTypes
<1>5. ASSUME NEW k \in Keys, NEW m \in Models, QueueNew(k, m)
      PROVE  CloudTypes'
  BY <1>5, TypeParts, Bounds DEF QueueNew, mesh, cloud, CloudTypes
<1>6. ASSUME NEW r \in Revisions, BeginCloud(r)
      PROVE  CloudTypes'
  BY <1>6, TypeParts, Bounds DEF BeginCloud, Found, Shape, mesh, rigid, frame, CloudTypes
<1>7. ASSUME NEW success \in BOOLEAN, EndCloud(success)
      PROVE  CloudTypes'
  BY <1>7, TypeParts, Bounds DEF EndCloud, mesh, rigid, frame, CloudTypes
<1>8. CASE Build
  <2>1. CASE ~captured
    BY <1>8, <2>1, TypeParts, Bounds DEF Build, CloudTypes
  <2>2. CASE captured
    <3>1. cloudCount < MaxClouds /\ cloudCount' = cloudCount + 1
      BY <1>8, <2>2 DEF Build
    <3>2. cloudCount' \in Clouds /\ cloudCount' \in 0 .. MaxClouds
      BY <3>1, TypeParts, Bounds DEF CloudTypes, Clouds
    <3>3. /\ builder' = cloudCount' /\ queued' = queued \cup {cloudCount'} /\ clouds' = queued'
          /\ cache' = [revision |-> cloudRevision, value |-> cloudCount', submitted |-> FALSE,
                       used |-> TRUE]
          /\ UNCHANGED <<cloudRevision, capturing, captured, builderRecorded>>
      BY <1>8, <2>2 DEF Build
    <3>4. cache' \in [revision : Revisions \cup {None}, value : Clouds \cup {None},
                      submitted : BOOLEAN, used : BOOLEAN]
      BY <3>2, <3>3, TypeParts DEF CloudTypes
    <3> QED
      BY <3>2, <3>3, <3>4, TypeParts DEF CloudTypes
  <2> QED
    BY <2>1, <2>2
<1>9. ASSUME NEW next \in {"open", "submitted"}, SubmitRendering(next)
      PROVE  CloudTypes'
  BY <1>9, TypeParts, Bounds DEF SubmitRendering, Render, Published, mesh, CloudTypes
<1>10. ASSUME NEW next \in {"open", "submitted"}, SubmitRest(next)
      PROVE  CloudTypes'
  BY <1>10, TypeParts, Bounds DEF SubmitRest, Published, mesh, CloudTypes
<1>11. ASSUME NEW next \in {"open", "abandoned"}, RenderOnly(next)
      PROVE  CloudTypes'
  BY <1>11, TypeParts, Bounds DEF RenderOnly, Render, mesh, CloudTypes
<1>12. CASE Acquire
  BY <1>12, TypeParts, Bounds DEF Acquire, Aged, EmptyCache, mesh, CloudTypes
<1>13. CASE ReleaseScene
  BY <1>13, TypeParts, Bounds DEF ReleaseScene, mesh, EmptyBatch, EmptyCache, CloudTypes
<1>14. CASE UNCHANGED vars
  BY <1>14, TypeParts, Bounds DEF vars, mesh, rigid, cloud, frame, CloudTypes
<1> QED
  BY <1>1, <1>2, <1>3, <1>4, <1>5, <1>6, <1>7, <1>8, <1>9, <1>10, <1>11, <1>12, <1>13,
       <1>14 DEF Next

\* What is recorded, traced and built remains models and clouds.
LEMMA FrameTypesStep ==
    ASSUME TypeOK, Shape, [Next]_vars
    PROVE  FrameTypes'
<1>1. CASE BeginWorldMeshFrame
  BY <1>1, TypeParts, Bounds DEF BeginWorldMeshFrame, rigid, cloud, frame, FrameTypes,
       Geometry
<1>2. CASE Invalidate
  BY <1>2, TypeParts, Bounds DEF Invalidate, cloud, frame, FrameTypes, Geometry
<1>3. ASSUME NEW commit \in BOOLEAN, EndWorldMeshFrame(commit)
      PROVE  FrameTypes'
  BY <1>3, TypeParts, Bounds DEF EndWorldMeshFrame, cloud, frame, FrameTypes, Geometry
<1>4. ASSUME NEW k \in Keys, QueueResident(k)
      PROVE  FrameTypes'
  BY <1>4, TypeParts, Bounds DEF QueueResident, UsedWith, Hit, mesh, cloud, frame,
       FrameTypes, Geometry
<1>5. ASSUME NEW k \in Keys, NEW m \in Models, QueueNew(k, m)
      PROVE  FrameTypes'
  BY <1>5, TypeParts, Bounds DEF QueueNew, mesh, cloud, FrameTypes, Geometry
<1>6. ASSUME NEW r \in Revisions, BeginCloud(r)
      PROVE  FrameTypes'
  BY <1>6, TypeParts, Bounds DEF BeginCloud, Found, mesh, rigid, frame, FrameTypes, Geometry
<1>7. ASSUME NEW success \in BOOLEAN, EndCloud(success)
      PROVE  FrameTypes'
  BY <1>7, TypeParts, Bounds DEF EndCloud, mesh, rigid, frame, FrameTypes, Geometry
<1>8. CASE Build
  BY <1>8, TypeParts, Bounds DEF Build, mesh, FrameTypes, Geometry
<1>9. ASSUME NEW next \in {"open", "submitted"}, SubmitRendering(next)
      PROVE  FrameTypes'
  BY <1>9, TypeParts, Bounds DEF SubmitRendering, Render, Traced, Due, DueCloud,
       RigidTypes, CloudTypes, mesh, FrameTypes, Geometry
<1>10. ASSUME NEW next \in {"open", "submitted"}, SubmitRest(next)
      PROVE  FrameTypes'
  BY <1>10, TypeParts, Bounds DEF SubmitRest, mesh, FrameTypes, Geometry
<1>11. ASSUME NEW next \in {"open", "abandoned"}, RenderOnly(next)
      PROVE  FrameTypes'
  BY <1>11, TypeParts, Bounds DEF RenderOnly, Render, Traced, Due, DueCloud, RigidTypes,
       CloudTypes, mesh, FrameTypes, Geometry
<1>12. CASE Acquire
  BY <1>12, TypeParts, Bounds DEF Acquire, Aged, mesh, FrameTypes, Geometry
<1>13. CASE ReleaseScene
  BY <1>13, TypeParts, Bounds DEF ReleaseScene, mesh, EmptyBatch, EmptyCache, FrameTypes,
       Geometry
<1>14. CASE UNCHANGED vars
  BY <1>14, TypeParts, Bounds DEF vars, mesh, rigid, cloud, frame, FrameTypes, Geometry
<1> QED
  BY <1>1, <1>2, <1>3, <1>4, <1>5, <1>6, <1>7, <1>8, <1>9, <1>10, <1>11, <1>12, <1>13,
       <1>14 DEF Next

\* Every step keeps every type.
LEMMA TypeStep ==
    ASSUME TypeOK, Shape, [Next]_vars
    PROVE  TypeOK'
BY ShapeStep, MeshTypesStep, RigidTypesStep, CloudTypesStep, FrameTypesStep, TypeParts

\* A model queued in a world frame is owned in it from then on.
LEMMA UsedStep ==
    ASSUME TypeOK, Shape, UsedInv, [Next]_vars
    PROVE  UsedInv'
<1>1. CASE BeginWorldMeshFrame
  BY <1>1, Bounds DEF BeginWorldMeshFrame, rigid, cloud, frame, UsedInv, TypeOK, Model,
       Residents
<1>2. CASE Invalidate
  BY <1>2, Bounds DEF Invalidate, cloud, frame, UsedInv, TypeOK, Model, Residents
<1>3. ASSUME NEW commit \in BOOLEAN, EndWorldMeshFrame(commit)
      PROVE  UsedInv'
  BY <1>3, Bounds DEF EndWorldMeshFrame, cloud, frame, UsedInv, TypeOK, Model, Residents
<1>4. ASSUME NEW k \in Keys, QueueResident(k)
      PROVE  UsedInv'
  BY <1>4, Bounds DEF QueueResident, UsedWith, Hit, mesh, cloud, frame, UsedInv, TypeOK,
       Model, Residents
<1>5. ASSUME NEW k \in Keys, NEW m \in Models, QueueNew(k, m)
      PROVE  UsedInv'
  BY <1>5, Bounds DEF QueueNew, Fresh, Victims, mesh, cloud, UsedInv, TypeOK, Model,
       Residents
<1>6. ASSUME NEW r \in Revisions, BeginCloud(r)
      PROVE  UsedInv'
  BY <1>6, Bounds DEF BeginCloud, Found, mesh, rigid, frame, UsedInv, TypeOK, Model,
       Residents
<1>7. ASSUME NEW success \in BOOLEAN, EndCloud(success)
      PROVE  UsedInv'
  BY <1>7, Bounds DEF EndCloud, mesh, rigid, frame, UsedInv, TypeOK, Model, Residents
<1>8. CASE Build
  BY <1>8, Bounds DEF Build, mesh, UsedInv, TypeOK, Model, Residents
<1>9. ASSUME NEW next \in {"open", "submitted"}, SubmitRendering(next)
      PROVE  UsedInv'
  <2>1. /\ meshOpen' = meshOpen /\ token' = token
        /\ \A m \in Models : model'[m].used = model[m].used
    BY <1>9 DEF SubmitRendering, Committed, mesh, TypeOK, Model
  <2> QED
    BY <1>9, <2>1 DEF SubmitRendering, mesh, UsedInv, Residents, TypeOK
<1>10. ASSUME NEW next \in {"open", "submitted"}, SubmitRest(next)
      PROVE  UsedInv'
  <2>1. /\ meshOpen' = meshOpen /\ token' = token
        /\ \A m \in Models : model'[m].used = model[m].used
    BY <1>10 DEF SubmitRest, Committed, mesh, TypeOK, Model
  <2> QED
    BY <1>10, <2>1 DEF SubmitRest, mesh, UsedInv, Residents, TypeOK
<1>11. ASSUME NEW next \in {"open", "abandoned"}, RenderOnly(next)
      PROVE  UsedInv'
  BY <1>11, Bounds DEF RenderOnly, Render, mesh, UsedInv, TypeOK, Model, Residents
<1>12. CASE Acquire
  <2>1. /\ meshOpen' = FALSE /\ token' = token
        /\ \A m \in Models : model'[m].used = model[m].used
    BY <1>12 DEF Acquire, Reopened, mesh, TypeOK, Model
  <2> QED
    BY <2>1 DEF UsedInv
<1>13. CASE ReleaseScene
  BY <1>13, Bounds DEF ReleaseScene, mesh, EmptyBatch, EmptyCache, UsedInv, TypeOK,
       Model, Residents
<1>14. CASE UNCHANGED vars
  BY <1>14, Bounds DEF vars, mesh, rigid, cloud, frame, UsedInv, TypeOK, Model, Residents
<1> QED
  BY <1>1, <1>2, <1>3, <1>4, <1>5, <1>6, <1>7, <1>8, <1>9, <1>10, <1>11, <1>12, <1>13,
       <1>14 DEF Next

\* An instance is queued together with the owner of its model.
LEMMA OwnedStep ==
    ASSUME TypeOK, Shape, UsedInv, InstancesAreOwned, [Next]_vars
    PROVE  InstancesAreOwned'
<1>1. CASE BeginWorldMeshFrame
  BY <1>1, Bounds DEF BeginWorldMeshFrame, rigid, cloud, frame, InstancesAreOwned,
       UsedInv, TypeOK, Residents, EmptyBatch
<1>2. CASE Invalidate
  BY <1>2, Bounds DEF Invalidate, cloud, frame, InstancesAreOwned, UsedInv, TypeOK,
       Residents, EmptyBatch
<1>3. ASSUME NEW commit \in BOOLEAN, EndWorldMeshFrame(commit)
      PROVE  InstancesAreOwned'
  BY <1>3, Bounds DEF EndWorldMeshFrame, cloud, frame, InstancesAreOwned, UsedInv,
       TypeOK, Residents, EmptyBatch
<1>4. ASSUME NEW k \in Keys, QueueResident(k)
      PROVE  InstancesAreOwned'
  BY <1>4, Bounds DEF QueueResident, UsedWith, Hit, mesh, cloud, frame,
       InstancesAreOwned, UsedInv, TypeOK, Residents, EmptyBatch
<1>5. ASSUME NEW k \in Keys, NEW m \in Models, QueueNew(k, m)
      PROVE  InstancesAreOwned'
  BY <1>5, Bounds DEF QueueNew, Fresh, Victims, mesh, cloud, InstancesAreOwned, UsedInv,
       TypeOK, Residents, EmptyBatch
<1>6. ASSUME NEW r \in Revisions, BeginCloud(r)
      PROVE  InstancesAreOwned'
  BY <1>6, Bounds DEF BeginCloud, Found, mesh, rigid, frame, InstancesAreOwned, UsedInv,
       TypeOK, Residents, EmptyBatch
<1>7. ASSUME NEW success \in BOOLEAN, EndCloud(success)
      PROVE  InstancesAreOwned'
  BY <1>7, Bounds DEF EndCloud, mesh, rigid, frame, InstancesAreOwned, UsedInv, TypeOK,
       Residents, EmptyBatch
<1>8. CASE Build
  BY <1>8, Bounds DEF Build, mesh, InstancesAreOwned, UsedInv, TypeOK, Residents, EmptyBatch
<1>9. ASSUME NEW next \in {"open", "submitted"}, SubmitRendering(next)
      PROVE  InstancesAreOwned'
  BY <1>9, Bounds DEF SubmitRendering, Render, mesh, InstancesAreOwned, UsedInv, TypeOK,
       Residents, EmptyBatch
<1>10. ASSUME NEW next \in {"open", "submitted"}, SubmitRest(next)
      PROVE  InstancesAreOwned'
  BY <1>10, Bounds DEF SubmitRest, mesh, InstancesAreOwned, UsedInv, TypeOK, Residents,
       EmptyBatch
<1>11. ASSUME NEW next \in {"open", "abandoned"}, RenderOnly(next)
      PROVE  InstancesAreOwned'
  BY <1>11, Bounds DEF RenderOnly, Render, mesh, InstancesAreOwned, UsedInv, TypeOK,
       Residents, EmptyBatch
<1>12. CASE Acquire
  BY <1>12, Bounds DEF Acquire, Aged, mesh, InstancesAreOwned, UsedInv, TypeOK,
       Residents, EmptyBatch
<1>13. CASE ReleaseScene
  BY <1>13, Bounds DEF ReleaseScene, mesh, EmptyBatch, EmptyCache, InstancesAreOwned,
       UsedInv, TypeOK, Residents
<1>14. CASE UNCHANGED vars
  BY <1>14, Bounds DEF vars, mesh, rigid, cloud, frame, InstancesAreOwned, UsedInv,
       TypeOK, Residents, EmptyBatch
<1> QED
  BY <1>1, <1>2, <1>3, <1>4, <1>5, <1>6, <1>7, <1>8, <1>9, <1>10, <1>11, <1>12, <1>13,
       <1>14 DEF Next

\* What is said of a model's build follows what the commands did with it.
LEMMA LifeStep ==
    ASSUME TypeOK, Shape, LifeInv, [Next]_vars
    PROVE  LifeInv'
<1>1. CASE BeginWorldMeshFrame
  BY <1>1, Bounds DEF BeginWorldMeshFrame, rigid, cloud, frame, LifeInv, Tracked, TypeOK,
       Model, Residents, Due, Committed, Reopened, EmptyBatch
<1>2. CASE Invalidate
  BY <1>2, Bounds DEF Invalidate, cloud, frame, LifeInv, Tracked, TypeOK, Model,
       Residents, Due, Committed, Reopened, EmptyBatch
<1>3. ASSUME NEW commit \in BOOLEAN, EndWorldMeshFrame(commit)
      PROVE  LifeInv'
  BY <1>3, Bounds DEF EndWorldMeshFrame, cloud, frame, LifeInv, Tracked, TypeOK, Model,
       Residents, Due, Committed, Reopened, EmptyBatch
<1>4. ASSUME NEW k \in Keys, QueueResident(k)
      PROVE  LifeInv'
  BY <1>4, Bounds DEF QueueResident, UsedWith, Hit, mesh, cloud, frame, LifeInv, Tracked,
       TypeOK, Model, Residents, Due, Committed, Reopened, EmptyBatch
<1>5. ASSUME NEW k \in Keys, NEW m \in Models, QueueNew(k, m)
      PROVE  LifeInv'
  BY <1>5, Bounds DEF QueueNew, Fresh, Victims, mesh, cloud, LifeInv, Tracked, TypeOK,
       Model, Residents, Due, Committed, Reopened, EmptyBatch
<1>6. ASSUME NEW r \in Revisions, BeginCloud(r)
      PROVE  LifeInv'
  BY <1>6, Bounds DEF BeginCloud, Found, mesh, rigid, frame, LifeInv, Tracked, TypeOK,
       Model, Residents, Due, Committed, Reopened, EmptyBatch
<1>7. ASSUME NEW success \in BOOLEAN, EndCloud(success)
      PROVE  LifeInv'
  BY <1>7, Bounds DEF EndCloud, mesh, rigid, frame, LifeInv, Tracked, TypeOK, Model,
       Residents, Due, Committed, Reopened, EmptyBatch
<1>8. CASE Build
  BY <1>8, Bounds DEF Build, mesh, LifeInv, Tracked, TypeOK, Model, Residents, Due,
       Committed, Reopened, EmptyBatch
<1>9. ASSUME NEW next \in {"open", "submitted"}, SubmitRendering(next)
      PROVE  LifeInv'
  BY <1>9, Bounds DEF SubmitRendering, Render, mesh, LifeInv, Tracked, TypeOK, Model,
       Residents, Due, Committed, Reopened, EmptyBatch
<1>10. ASSUME NEW next \in {"open", "submitted"}, SubmitRest(next)
      PROVE  LifeInv'
  BY <1>10, Bounds DEF SubmitRest, mesh, LifeInv, Tracked, TypeOK, Model, Residents, Due,
       Committed, Reopened, EmptyBatch
<1>11. ASSUME NEW next \in {"open", "abandoned"}, RenderOnly(next)
      PROVE  LifeInv'
  BY <1>11, Bounds DEF RenderOnly, Render, mesh, LifeInv, Tracked, TypeOK, Model,
       Residents, Due, Committed, Reopened, EmptyBatch
<1>12. CASE Acquire
  BY <1>12, Bounds DEF Acquire, Aged, mesh, LifeInv, Tracked, TypeOK, Model, Residents,
       Due, Committed, Reopened, EmptyBatch
<1>13. CASE ReleaseScene
  BY <1>13, Bounds DEF ReleaseScene, mesh, EmptyBatch, EmptyCache, LifeInv, Tracked,
       TypeOK, Model, Residents, Due, Committed, Reopened
<1>14. CASE UNCHANGED vars
  BY <1>14, Bounds DEF vars, mesh, rigid, cloud, frame, LifeInv, Tracked, TypeOK, Model,
       Residents, Due, Committed, Reopened, EmptyBatch
<1> QED
  BY <1>1, <1>2, <1>3, <1>4, <1>5, <1>6, <1>7, <1>8, <1>9, <1>10, <1>11, <1>12, <1>13,
       <1>14 DEF Next

\* Clouds are built before they can be found, when a frame builds them once.
LEMMA CloudStep ==
    ASSUME TypeOK, Shape, CloudInv, BuildsPerFrame <= 1, [Next]_vars
    PROVE  CloudInv'
<1>1. CASE BeginWorldMeshFrame
  BY <1>1, Bounds DEF BeginWorldMeshFrame, rigid, cloud, frame, CloudInv,
       CloudReuseOnlyBuilt, TypeOK, Shape, DueCloud, Published, EmptyCache
<1>2. CASE Invalidate
  BY <1>2, Bounds DEF Invalidate, cloud, frame, CloudInv, CloudReuseOnlyBuilt, TypeOK,
       Shape, DueCloud, Published, EmptyCache
<1>3. ASSUME NEW commit \in BOOLEAN, EndWorldMeshFrame(commit)
      PROVE  CloudInv'
  BY <1>3, Bounds DEF EndWorldMeshFrame, cloud, frame, CloudInv, CloudReuseOnlyBuilt,
       TypeOK, Shape, DueCloud, Published, EmptyCache
<1>4. ASSUME NEW k \in Keys, QueueResident(k)
      PROVE  CloudInv'
  BY <1>4, Bounds DEF QueueResident, UsedWith, Hit, mesh, cloud, frame, CloudInv,
       CloudReuseOnlyBuilt, TypeOK, Shape, DueCloud, Published, EmptyCache
<1>5. ASSUME NEW k \in Keys, NEW m \in Models, QueueNew(k, m)
      PROVE  CloudInv'
  BY <1>5, Bounds DEF QueueNew, Fresh, Victims, mesh, cloud, CloudInv,
       CloudReuseOnlyBuilt, TypeOK, Shape, DueCloud, Published, EmptyCache
<1>6. ASSUME NEW r \in Revisions, BeginCloud(r)
      PROVE  CloudInv'
  BY <1>6, Bounds DEF BeginCloud, Found, mesh, rigid, frame, CloudInv,
       CloudReuseOnlyBuilt, TypeOK, Shape, DueCloud, Published, EmptyCache
<1>7. ASSUME NEW success \in BOOLEAN, EndCloud(success)
      PROVE  CloudInv'
  BY <1>7, Bounds DEF EndCloud, mesh, rigid, frame, CloudInv, CloudReuseOnlyBuilt,
       TypeOK, Shape, DueCloud, Published, EmptyCache
<1>8. CASE Build
  <2>1. /\ builds = 0 /\ builds' = 1 /\ clouds' = queued'
        /\ UNCHANGED <<builderRecorded, rendered, built, recorded>>
    BY <1>8, Bounds DEF Build, TypeOK
  <2>2. builder = None /\ ~builderRecorded /\ ~rendered /\ queued \subseteq built
    BY <2>1, Bounds DEF CloudInv, TypeOK
  <2>3. CASE ~captured
    BY <1>8, <2>1, <2>2, <2>3 DEF Build, CloudInv, CloudReuseOnlyBuilt
  <2>4. CASE captured
    <3>1. /\ builder' = cloudCount' /\ queued' = queued \cup {cloudCount'}
          /\ cache' = [revision |-> cloudRevision, value |-> cloudCount', submitted |-> FALSE,
                       used |-> TRUE]
      BY <1>8, <2>4 DEF Build
    <3> QED
      BY <2>1, <2>2, <3>1 DEF CloudInv, CloudReuseOnlyBuilt
  <2> QED
    BY <2>3, <2>4
<1>9. ASSUME NEW next \in {"open", "submitted"}, SubmitRendering(next)
      PROVE  CloudInv'
  BY <1>9, Bounds DEF SubmitRendering, Render, mesh, CloudInv, CloudReuseOnlyBuilt,
       TypeOK, Shape, DueCloud, Published, EmptyCache
<1>10. ASSUME NEW next \in {"open", "submitted"}, SubmitRest(next)
      PROVE  CloudInv'
  BY <1>10, Bounds DEF SubmitRest, mesh, CloudInv, CloudReuseOnlyBuilt, TypeOK, Shape,
       DueCloud, Published, EmptyCache
<1>11. ASSUME NEW next \in {"open", "abandoned"}, RenderOnly(next)
      PROVE  CloudInv'
  BY <1>11, Bounds DEF RenderOnly, Render, mesh, CloudInv, CloudReuseOnlyBuilt, TypeOK,
       Shape, DueCloud, Published, EmptyCache
<1>12. CASE Acquire
  BY <1>12, Bounds DEF Acquire, Aged, mesh, CloudInv, CloudReuseOnlyBuilt, TypeOK, Shape,
       DueCloud, Published, EmptyCache
<1>13. CASE ReleaseScene
  BY <1>13, Bounds DEF ReleaseScene, mesh, EmptyBatch, EmptyCache, CloudInv,
       CloudReuseOnlyBuilt, TypeOK, Shape, DueCloud, Published
<1>14. CASE UNCHANGED vars
  BY <1>14, Bounds DEF vars, mesh, rigid, cloud, frame, CloudInv, CloudReuseOnlyBuilt,
       TypeOK, Shape, DueCloud, Published, EmptyCache
<1> QED
  BY <1>1, <1>2, <1>3, <1>4, <1>5, <1>6, <1>7, <1>8, <1>9, <1>10, <1>11, <1>12, <1>13,
       <1>14 DEF Next

\* The world traces what was built before or is recorded with it.
LEMMA TraceStep ==
    ASSUME TypeOK, Shape, InstancesAreOwned, LifeInv, CloudInv, TraceInv, [Next]_vars
    PROVE  TraceInv'
<1>1. CASE BeginWorldMeshFrame
  BY <1>1, Bounds DEF BeginWorldMeshFrame, rigid, cloud, frame, TraceInv, TracedIsBuilt,
       LifeInv, CloudInv, InstancesAreOwned, TypeOK, Tracked, Due, DueCloud, Traced,
       Life, Model
<1>2. CASE Invalidate
  BY <1>2, Bounds DEF Invalidate, cloud, frame, TraceInv, TracedIsBuilt, LifeInv,
       CloudInv, InstancesAreOwned, TypeOK, Tracked, Due, DueCloud, Traced, Life, Model
<1>3. ASSUME NEW commit \in BOOLEAN, EndWorldMeshFrame(commit)
      PROVE  TraceInv'
  BY <1>3, Bounds DEF EndWorldMeshFrame, cloud, frame, TraceInv, TracedIsBuilt, LifeInv,
       CloudInv, InstancesAreOwned, TypeOK, Tracked, Due, DueCloud, Traced, Life, Model
<1>4. ASSUME NEW k \in Keys, QueueResident(k)
      PROVE  TraceInv'
  BY <1>4, Bounds DEF QueueResident, UsedWith, Hit, mesh, cloud, frame, TraceInv,
       TracedIsBuilt, LifeInv, CloudInv, InstancesAreOwned, TypeOK, Tracked, Due,
       DueCloud, Traced, Life, Model
<1>5. ASSUME NEW k \in Keys, NEW m \in Models, QueueNew(k, m)
      PROVE  TraceInv'
  BY <1>5, Bounds DEF QueueNew, Fresh, Victims, mesh, cloud, TraceInv, TracedIsBuilt,
       LifeInv, CloudInv, InstancesAreOwned, TypeOK, Tracked, Due, DueCloud, Traced,
       Life, Model
<1>6. ASSUME NEW r \in Revisions, BeginCloud(r)
      PROVE  TraceInv'
  BY <1>6, Bounds DEF BeginCloud, Found, mesh, rigid, frame, TraceInv, TracedIsBuilt,
       LifeInv, CloudInv, InstancesAreOwned, TypeOK, Tracked, Due, DueCloud, Traced,
       Life, Model
<1>7. ASSUME NEW success \in BOOLEAN, EndCloud(success)
      PROVE  TraceInv'
  BY <1>7, Bounds DEF EndCloud, mesh, rigid, frame, TraceInv, TracedIsBuilt, LifeInv,
       CloudInv, InstancesAreOwned, TypeOK, Tracked, Due, DueCloud, Traced, Life, Model
<1>8. CASE Build
  BY <1>8, Bounds DEF Build, mesh, TraceInv, TracedIsBuilt, LifeInv, CloudInv,
       InstancesAreOwned, TypeOK, Tracked, Due, DueCloud, Traced, Life, Model
<1>9. ASSUME NEW next \in {"open", "submitted"}, SubmitRendering(next)
      PROVE  TraceInv'
  <2>1. /\ builds > 0 /\ ~rendered /\ traced' = Traced /\ recorded' = {}
        /\ built' = built \cup recorded \cup Due \cup DueCloud
    BY <1>9 DEF SubmitRendering, Render
  <2>2. clouds \subseteq built'
    BY <2>1, Bounds DEF CloudInv, DueCloud, TypeOK
  <2>3. batch.instances \subseteq used /\ used \subseteq Models
    BY <2>1 DEF LifeInv, InstancesAreOwned, TypeOK
  <2>4. \A m \in used : m \in built'
    BY <2>1, <2>3 DEF LifeInv, Tracked, Due, TypeOK, Model, Life
  <2> QED
    BY <2>1, <2>2, <2>3, <2>4 DEF TraceInv, TracedIsBuilt, Traced
<1>10. ASSUME NEW next \in {"open", "submitted"}, SubmitRest(next)
      PROVE  TraceInv'
  BY <1>10, Bounds DEF SubmitRest, mesh, TraceInv, TracedIsBuilt, LifeInv, CloudInv,
       InstancesAreOwned, TypeOK, Tracked, Due, DueCloud, Traced, Life, Model
<1>11. ASSUME NEW next \in {"open", "abandoned"}, RenderOnly(next)
      PROVE  TraceInv'
  BY <1>11, Bounds DEF RenderOnly, Render, mesh, TraceInv, TracedIsBuilt, LifeInv,
       CloudInv, InstancesAreOwned, TypeOK, Tracked, Due, DueCloud, Traced, Life, Model
<1>12. CASE Acquire
  BY <1>12, Bounds DEF Acquire, Aged, mesh, TraceInv, TracedIsBuilt, LifeInv, CloudInv,
       InstancesAreOwned, TypeOK, Tracked, Due, DueCloud, Traced, Life, Model
<1>13. CASE ReleaseScene
  BY <1>13, Bounds DEF ReleaseScene, mesh, EmptyBatch, EmptyCache, TraceInv,
       TracedIsBuilt, LifeInv, CloudInv, InstancesAreOwned, TypeOK, Tracked, Due,
       DueCloud, Traced, Life, Model
<1>14. CASE UNCHANGED vars
  BY <1>14, Bounds DEF vars, mesh, rigid, cloud, frame, TraceInv, TracedIsBuilt, LifeInv,
       CloudInv, InstancesAreOwned, TypeOK, Tracked, Due, DueCloud, Traced, Life, Model
<1> QED
  BY <1>1, <1>2, <1>3, <1>4, <1>5, <1>6, <1>7, <1>8, <1>9, <1>10, <1>11, <1>12, <1>13,
       <1>14 DEF Next

\* The invariants hold before the first frame.
LEMMA InitInv ==
    ASSUME Init
    PROVE  /\ TypeOK /\ Shape /\ UsedInv /\ InstancesAreOwned
           /\ LifeInv /\ CloudInv /\ TraceInv
<1>1. Residents = {} /\ IsFiniteSet({}) /\ Cardinality({}) = 0
  BY FS_EmptySet DEF Init, Residents
<1>2. MeshTypes
  <2>1. 1 \in 1 .. MaxGeneration /\ 0 \in 0 .. MaxTokens /\ 0 \in 0 .. BuildsPerFrame
    BY Bounds
  <2> QED
    BY <2>1 DEF Init, MeshTypes
<1>3. RigidTypes
  <2>1. 0 \in 0 .. MaxGeneration /\ 0 \in 0 .. MaxTokens
    BY Bounds
  <2> QED
    BY <2>1 DEF Init, RigidTypes, Unused, EmptyBatch, Model, Life
<1>4. CloudTypes
  <2>1. 0 \in 0 .. MaxClouds
    BY Bounds
  <2> QED
    BY <2>1 DEF Init, CloudTypes, EmptyCache
<1>5. TypeOK
  BY <1>1, <1>2, <1>3, <1>4, Bounds DEF TypeOK, Init, MeshTypes, RigidTypes, CloudTypes
<1>6. Shape
  BY <1>1 DEF Init, Shape, EmptyCache
<1>7. UsedInv /\ InstancesAreOwned /\ LifeInv
  BY <1>1 DEF Init, UsedInv, InstancesAreOwned, LifeInv, Tracked, Unused, EmptyBatch
<1>8. CloudInv /\ TraceInv
  BY DEF Init, CloudInv, CloudReuseOnlyBuilt, EmptyCache, TraceInv, TracedIsBuilt
<1> QED
  BY <1>5, <1>6, <1>7, <1>8

\* The table of resident models keeps its bound, and every value its type.
THEOREM TypeCorrect == Spec => []TypeOK
<1>1. Init => TypeOK /\ Shape
  BY InitInv
<1>2. TypeOK /\ Shape /\ [Next]_vars => (TypeOK /\ Shape)'
  BY TypeStep, ShapeStep
<1> QED
  BY <1>1, <1>2, PTL DEF Spec

\* An instance's model has an owner in the same batch, whatever left the table since.
THEOREM InstancesOwned == Spec => []InstancesAreOwned
<1> DEFINE Inv == TypeOK /\ Shape /\ UsedInv /\ InstancesAreOwned
<1>1. Init => Inv
  BY InitInv
<1>2. Inv /\ [Next]_vars => Inv'
  BY TypeStep, ShapeStep, UsedStep, OwnedStep
<1>3. Inv => InstancesAreOwned
  OBVIOUS
<1> HIDE DEF Inv
<1> QED
  BY <1>1, <1>2, <1>3, PTL DEF Spec

\* When a frame builds at most once, as a frame of the client does, no command traces
\* geometry that is not built, and no cached cloud is found before it is.
THEOREM TracedGeometryIsBuilt ==
    ASSUME BuildsPerFrame <= 1
    PROVE  Spec => [](TracedIsBuilt /\ CloudReuseOnlyBuilt)
<1> DEFINE Inv == /\ TypeOK /\ Shape /\ UsedInv /\ InstancesAreOwned
                  /\ LifeInv /\ CloudInv /\ TraceInv
<1>1. Init => Inv
  BY InitInv
<1>2. Inv /\ [Next]_vars => Inv'
  BY TypeStep, ShapeStep, UsedStep, OwnedStep, LifeStep, CloudStep, TraceStep
<1>3. Inv => TracedIsBuilt /\ CloudReuseOnlyBuilt
  BY DEF TraceInv, CloudInv
<1> HIDE DEF Inv
<1> QED
  BY <1>1, <1>2, <1>3, PTL DEF Spec

=============================================================================
