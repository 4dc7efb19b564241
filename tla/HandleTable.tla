---------------------------- MODULE HandleTable ----------------------------
(***************************************************************************)
(* The generation-checked slot table behind external chunk handles:        *)
(* mcvr::ExternalChunkHandleTable.  The table is a value, so the operators *)
(* take it as a parameter and the state machines that own one decide when  *)
(* it changes.                                                             *)
(*                                                                         *)
(* A table is a record                                                     *)
(*   primary  the number of primary slots: 0 .. primary - 1                *)
(*   size     the number of slots with an entry in the two vectors         *)
(*   gen      the generation of every slot                                 *)
(*   active   whether an external slot is allocated                        *)
(*   free     the released slots, a stack whose top is the last element    *)
(* A handle is the pair encode() packs into 64 bits.                       *)
(***************************************************************************)
EXTENDS Integers, Sequences, SequencesExt

CONSTANTS MaxGen,        \* the last generation before the counter wraps to 1
          PrimaryCounts, \* the sizes reset() may be called with
          MaxSlots       \* a bound on the storage, for finite checking

ASSUME MaxGenAssumption == MaxGen \in Nat \ {0}
ASSUME PrimaryCountsAssumption == PrimaryCounts \subseteq Nat
ASSUME MaxSlotsAssumption == MaxSlots \in Nat

Encode(slot, gen) == [slot |-> slot, gen |-> gen]

Handle == [slot : Nat, gen : Nat]

IsTable(t) ==
    LET slots == 0 .. t.size - 1
    IN  /\ t.size \in Nat
        /\ t \in [primary : 0 .. t.size, size : Nat, gen : [slots -> 0 .. MaxGen],
                  active : [slots -> BOOLEAN], free : Seq(slots)]

StorageSlots(t) == 0 .. t.size - 1

ResetTable(n) == [primary |-> n,
                  size |-> n,
                  gen |-> [s \in 0 .. n - 1 |-> 0],
                  active |-> [s \in 0 .. n - 1 |-> TRUE],
                  free |-> <<>>]

\* Mutant: the generation alone decides, also while the slot is free.
IsCurrentUnchecked(t, slot, gen) ==
    IF gen = 0
    THEN slot < t.primary
    ELSE /\ slot >= t.primary
         /\ slot \in StorageSlots(t)
         /\ t.gen[slot] = gen

\* resolve() of a handle and isCurrent() of a captured (slot, generation) pair
\* are the same test: generation 0 names a primary slot, any other generation
\* an allocated external slot that still carries it.
IsCurrent(t, slot, gen) ==
    IF gen = 0
    THEN slot < t.primary
    ELSE /\ slot >= t.primary
         /\ slot \in StorageSlots(t)
         /\ t.active[slot]
         /\ t.gen[slot] = gen

Resolves(t, h) == IsCurrent(t, h.slot, h.gen)

IsReuse(t) == t.free # <<>>

\* The slot allocate() hands out, given the number of slots the caller stores.
AllocatedSlot(t, storageSize) == IF IsReuse(t) THEN Last(t.free) ELSE storageSize

Allocate(t, storageSize) ==
    LET slot == AllocatedSlot(t, storageSize)
        size == IF IsReuse(t) THEN t.size ELSE t.size + 1
    IN  [primary |-> t.primary,
         size |-> size,
         gen |-> [s \in 0 .. size - 1 |-> IF s \in StorageSlots(t) THEN t.gen[s] ELSE 1],
         active |-> [s \in 0 .. size - 1 |->
                        s = slot \/ (s \in StorageSlots(t) /\ t.active[s])],
         free |-> IF IsReuse(t) THEN Front(t.free) ELSE t.free]

\* Mutant: the counter wraps one generation early.
NextGenShort(g) == IF g >= MaxGen - 1 THEN 1 ELSE g + 1

NextGen(g) == IF g >= MaxGen THEN 1 ELSE g + 1

\* Mutant: release() does not resolve the handle, it only checks its range.
CanReleaseInRange(t, h) == h.slot >= t.primary /\ h.slot \in StorageSlots(t) /\ h.gen # 0

CanRelease(t, h) == Resolves(t, h) /\ h.slot >= t.primary

Release(t, h) ==
    [t EXCEPT !.active[h.slot] = FALSE,
              !.gen[h.slot] = NextGen(t.gen[h.slot]),
              !.free = Append(@, h.slot)]
=============================================================================
