-------------------------- MODULE ExternalHandles --------------------------
(***************************************************************************)
(* The life of external chunk handles: callers allocate and release them   *)
(* in any order, and may present any handle they ever received, again and  *)
(* long after it was released.  The table is the code's; `live' and        *)
(* `recent' are history the code does not keep.                            *)
(***************************************************************************)
EXTENDS HandleTable, FiniteSets

VARIABLES table,    \* the slot table
          live,     \* handles allocated and not yet released
          recent    \* per handle released since reset: how often its slot was
                    \* released again, while that is less than MaxGen - 1

tableVars == <<table, live, recent>>

TableInit == \E n \in PrimaryCounts :
            /\ table = ResetTable(n)
            /\ live = {}
            /\ recent = <<>>

ResetHandles(n) ==
    /\ table' = ResetTable(n)
    /\ live' = {}
    /\ recent' = <<>>

AllocateHandle ==
    /\ IsReuse(table) \/ table.size < MaxSlots
    /\ LET slot == AllocatedSlot(table, table.size)
       IN  /\ table' = Allocate(table, table.size)
           /\ live' = live \cup {Encode(slot, table'.gen[slot])}
    /\ UNCHANGED recent

\* How the release of h ages the handles released before it.
Aged(h) ==
    LET age(k) == IF k = h THEN 0 ELSE recent[k] + (IF k.slot = h.slot THEN 1 ELSE 0)
    IN  [k \in {k \in (DOMAIN recent) \cup {h} : age(k) < MaxGen - 1} |-> age(k)]

\* release() resolves the handle first: nothing happens for one that is stale,
\* foreign or primary.
ReleaseHandle(h) ==
    IF CanRelease(table, h)
    THEN /\ table' = Release(table, h)
         /\ live' = live \ {h}
         /\ recent' = Aged(h)
    ELSE UNCHANGED tableVars

\* Every handle a caller can hold: primary ones, and any generation of a slot.
Presentable == {Encode(s, g) : s \in 0 .. MaxSlots - 1, g \in 0 .. MaxGen}

TableNext == \/ \E n \in PrimaryCounts : ResetHandles(n)
        \/ AllocateHandle
        \/ \E h \in Presentable : ReleaseHandle(h)

TableSpec == TableInit /\ [][TableNext]_tableVars

-----------------------------------------------------------------------------
TableTypeOK ==
    /\ IsTable(table)
    /\ live \subseteq Handle
    /\ DOMAIN recent \subseteq Handle
    /\ \A h \in DOMAIN recent : recent[h] \in Nat

(***************************************************************************)
(* An external handle resolves exactly while its owner holds it: a double  *)
(* release, a release by a former owner and a reuse of the slot never make *)
(* the table accept a handle nobody owns or refuse one somebody does.      *)
(***************************************************************************)
ResolvesExactlyLive ==
    \A s \in 0 .. MaxSlots - 1, g \in 1 .. MaxGen :
        Resolves(table, Encode(s, g)) <=> Encode(s, g) \in live

(***************************************************************************)
(* Two owners never share a slot, and no slot is at once owned and on the  *)
(* free stack, or on it twice (which would hand one slot to two owners).   *)
(***************************************************************************)
OneOwnerPerSlot ==
    /\ \A h, k \in live : h.slot = k.slot => h = k
    /\ \A i \in DOMAIN table.free :
           /\ \A h \in live : h.slot # table.free[i]
           /\ \A j \in DOMAIN table.free : table.free[i] = table.free[j] => i = j

(***************************************************************************)
(* A released handle stays dead through any number of reuses of its slot   *)
(* smaller than MaxGen - 1, across the wrap of the generation counter,     *)
(* which skips the value 0 that would name a primary slot.                 *)
(***************************************************************************)
RecentlyReleasedStaysDead ==
    \A h \in DOMAIN recent : h \notin live /\ ~Resolves(table, h)
=============================================================================
