---------------------------- MODULE PipelineCache ---------------------------
(***************************************************************************)
(* vk::PipelineCache: what the driver has compiled, kept on disk from one  *)
(* run of the game to the next.  Several instances of the game share the   *)
(* directory of their device and nothing but the file system coordinates   *)
(* them.  An instance may be killed at any point; when the machine loses   *)
(* power, a file that was not yet on the medium keeps its name and loses   *)
(* its content.                                                            *)
(***************************************************************************)
EXTENDS Integers, FiniteSets

CONSTANTS Procs,      \* instances of the game
          Pipelines,  \* what can be compiled
          MaxSize,    \* MAX_PIPELINE_CACHE_BYTES, in pipelines
          MaxFiles,   \* a bound on the .bin files published
          MaxLosses   \* a bound on the power losses

ASSUME SizesAssumption ==
    MaxSize \in Nat /\ MaxFiles \in Nat /\ MaxLosses \in Nat

VARIABLES
    pc,      \* per instance: where it is
    cache,   \* per instance: what its VkPipelineCache holds
    given,   \* per instance: what the driver was given to start with
    part,    \* per instance: its .part file
    bins,    \* the .bin files
    clock,   \* modification times
    losses   \* power losses so far

cacheVars == <<pc, cache, given, part, bins, clock, losses>>

\* A file is named for the hash of its content and, when that name is taken, a sequence.
\* What it holds is that content, something else behind a valid header, or no header.
Contents == SUBSET Pipelines
Stems == [hash : Contents, sequence : 0 .. MaxFiles]
FileStates == {"whole", "garbled", "short"}
NoPart == [stem |-> [hash |-> {}, sequence |-> 0], state |-> "short"]

CacheInit ==
    /\ pc = [p \in Procs |-> "down"]
    /\ cache = [p \in Procs |-> {}] /\ given = [p \in Procs |-> "nothing"]
    /\ part = [p \in Procs |-> NoPart]
    /\ bins = {} /\ clock = 0 /\ losses = 0

-----------------------------------------------------------------------------
\* validatePipelineCacheData: the header names the device and its own size.
Valid(b) == b.state # "short"

\* contentHashMatches
NamedForContent(b) == b.state = "whole"

Usable(b) == Valid(b) /\ NamedForContent(b) /\ Cardinality(b.stem.hash) <= MaxSize

Newest == {b \in bins : Usable(b) /\ \A c \in bins : c.time <= b.time}  \* no other is tried

\* loadLatest: the newest file that can be used, older ones when newer ones cannot.
Latest == {b \in bins : Usable(b) /\ \A c \in bins : Usable(c) => c.time <= b.time}

\* The driver may reject what was loaded, and starts empty.
Start(p) ==
    /\ pc[p] = "down"
    /\ IF Latest = {}
       THEN given' = [given EXCEPT ![p] = "nothing"] /\ cache' = [cache EXCEPT ![p] = {}]
       ELSE \/ \E b \in Latest : /\ given' = [given EXCEPT ![p] = b.state]
                                 /\ cache' = [cache EXCEPT ![p] = b.stem.hash]
            \/ given' = [given EXCEPT ![p] = "rejected"] /\ cache' = [cache EXCEPT ![p] = {}]
    /\ pc' = [pc EXCEPT ![p] = "running"]
    /\ UNCHANGED <<part, bins, clock, losses>>

\* createGraphicsPipelines, createComputePipelines and createRayTracingPipelines without
\* a deferred operation: the driver adds what it compiles.
Create(p, x) ==
    /\ pc[p] = "running" /\ x \notin cache[p]
    /\ cache' = [cache EXCEPT ![p] = @ \cup {x}]
    /\ UNCHANGED <<pc, given, part, bins, clock, losses>>

-----------------------------------------------------------------------------
Stop(p) ==
    /\ pc' = [pc EXCEPT ![p] = "down"]
    /\ part' = [part EXCEPT ![p] = NoPart]

\* The destructor: persist() up to the scan of the directory.  There is nothing to do
\* when the data is too large or a file holds it; an empty cache is only a header.
Held(content) == \E b \in bins : b.stem.hash = content /\ b.state = "whole"

Scan(p) ==
    /\ pc[p] = "running"
    /\ IF Cardinality(cache[p]) <= MaxSize /\ ~Held(cache[p])
       THEN pc' = [pc EXCEPT ![p] = "name"] /\ UNCHANGED part
       ELSE Stop(p)
    /\ UNCHANGED <<cache, given, bins, clock, losses>>

Taken(stem) == \E b \in bins : b.stem = stem
Named(p, n) == [hash |-> cache[p], sequence |-> n]

\* A name that is taken gets the time of the clock, which no two instances read alike.
FreeStems(p) ==
    IF ~Taken(Named(p, 0)) THEN {Named(p, 0)}
    ELSE {Named(p, n) : n \in {m \in 1 .. MaxFiles :
              ~Taken(Named(p, m)) /\ \A q \in Procs : part[q].stem.sequence # m}}

\* The .part file has the time of the clock in its name too, and is empty as yet.
Open(p) ==
    /\ pc[p] = "name"
    /\ \E stem \in FreeStems(p) : part' = [part EXCEPT ![p] = [stem |-> stem, state |-> "short"]]
    /\ pc' = [pc EXCEPT ![p] = "write"]
    /\ UNCHANGED <<cache, given, bins, clock, losses>>

\* Everything is written and flushed, or persist() gives up.
Write(p) ==
    /\ pc[p] = "write"
    /\ \/ Stop(p)
       \/ /\ part' = [part EXCEPT ![p].state = "whole"]
          /\ pc' = [pc EXCEPT ![p] = "publish"]
    /\ UNCHANGED <<cache, given, bins, clock, losses>>

PublishPruning(p) ==  \* as if older files were deleted
    /\ pc[p] = "publish" /\ clock < MaxFiles
    /\ clock' = clock + 1
    /\ bins' = {[stem |-> part[p].stem, state |-> part[p].state, time |-> clock',
                 synced |-> FALSE]}
    /\ Stop(p)
    /\ UNCHANGED <<cache, given, losses>>

\* The rename replaces a file of that name, or fails.
Publish(p) ==
    /\ pc[p] = "publish"
    /\ \/ UNCHANGED <<bins, clock>>
       \/ /\ clock < MaxFiles
          /\ clock' = clock + 1
          /\ bins' = {b \in bins : b.stem # part[p].stem}
                       \cup {[stem |-> part[p].stem, state |-> part[p].state, time |-> clock',
                              synced |-> FALSE]}
    /\ Stop(p)
    /\ UNCHANGED <<cache, given, losses>>

-----------------------------------------------------------------------------
\* The instance is killed.
Kill(p) ==
    /\ pc[p] # "down"
    /\ Stop(p)
    /\ UNCHANGED <<cache, given, bins, clock, losses>>

\* The operating system writes a file to the medium in its own time.
Sync(b) ==
    /\ ~b.synced
    /\ bins' = (bins \ {b}) \cup {[b EXCEPT !.synced = TRUE]}
    /\ UNCHANGED <<pc, cache, given, part, clock, losses>>

PowerLoss ==
    /\ losses < MaxLosses
    /\ losses' = losses + 1
    /\ \E left \in [{b \in bins : ~b.synced} -> FileStates] :
           bins' = {IF b.synced THEN b ELSE [b EXCEPT !.state = left[b], !.synced = TRUE] :
                       b \in bins}
    /\ pc' = [p \in Procs |-> "down"]
    /\ part' = [p \in Procs |-> NoPart]
    /\ UNCHANGED <<cache, given, clock>>

CacheNext ==
    \/ \E p \in Procs :
           \/ Start(p) \/ Scan(p) \/ Open(p) \/ Write(p) \/ Publish(p) \/ Kill(p)
           \/ \E x \in Pipelines : Create(p, x)
    \/ \E b \in bins : Sync(b)
    \/ PowerLoss

CacheSpec == CacheInit /\ [][CacheNext]_cacheVars

-----------------------------------------------------------------------------
\* A name is used once.
CacheTypeOK ==
    /\ pc \in [Procs -> {"down", "running", "name", "write", "publish"}]
    /\ cache \in [Procs -> Contents]
    /\ given \in [Procs -> FileStates \cup {"nothing", "rejected"}]
    /\ part \in [Procs -> [stem : Stems, state : FileStates]]
    /\ bins \subseteq [stem : Stems, state : FileStates, time : 1 .. MaxFiles, synced : BOOLEAN]
    /\ \A b, c \in bins : b.stem = c.stem => b = c
    /\ clock \in 0 .. MaxFiles /\ losses \in 0 .. MaxLosses

(***************************************************************************)
(* However instances are killed and files are lost, the driver is never    *)
(* given data that is not what some instance got from it.                  *)
(***************************************************************************)
DriverGetsWholeData == \A p \in Procs : given[p] \notin {"garbled", "short"}

(***************************************************************************)
(* Files that were lost do not hide one that was not: an instance starts   *)
(* with what a whole file holds whenever there is one, unless the driver   *)
(* rejects it.                                                             *)
(***************************************************************************)
WholeIsFound ==
    [][\A p \in Procs :
           (\E b \in bins : b.state = "whole") /\ pc[p] = "down" /\ pc'[p] = "running"
           => given'[p] \in {"whole", "rejected"}]_cacheVars

(***************************************************************************)
(* What was compiled is kept: a cache an instance took the trouble to      *)
(* persist stays on disk until the machine loses power.                    *)
(***************************************************************************)
PersistedStays ==
    [][losses' = losses =>
          \A b \in bins : b.state = "whole" =>
              \E c \in bins' : c.stem.hash = b.stem.hash /\ c.state = "whole"]_cacheVars
=============================================================================
