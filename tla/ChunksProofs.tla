---------------------------- MODULE ChunksProofs ----------------------------
(***************************************************************************)
(* The table of external handles, for every number of slots, every length  *)
(* of the history and every width of the generation counter; then the      *)
(* chunks that own one: types, the fence pool, the queue, the light        *)
(* addresses, the owners of meshes, the delivery of builds and the         *)
(* refinement of LatestWins, for any number of slots, workers, fences and  *)
(* versions.                                                               *)
(***************************************************************************)
EXTENDS Chunks, ExternalHandles, FiniteSetTheorems, SequenceTheorems, TLAPS

-----------------------------------------------------------------------------
(* The handle table                                                        *)

\* Beyond its type: what the free stack and the generations of a table are.
WellFormed(t) ==
    /\ IsTable(t)
    /\ \A s \in 0 .. t.primary - 1 : t.gen[s] = 0
    /\ \A s \in t.primary .. t.size - 1 : t.gen[s] \in 1 .. MaxGen
    /\ \A i \in 1 .. Len(t.free) : t.free[i] >= t.primary /\ ~t.active[t.free[i]]
    /\ \A i, j \in 1 .. Len(t.free) : t.free[i] = t.free[j] => i = j

\* A stack without its top: what the code's pop_back leaves.
LEMMA FrontProperty ==
    ASSUME NEW S, NEW seq \in Seq(S), seq # <<>>
    PROVE  /\ Front(seq) \in Seq(S)
           /\ Len(Front(seq)) = Len(seq) - 1
           /\ \A i \in 1 .. Len(seq) - 1 : Front(seq)[i] = seq[i]
           /\ Last(seq) \in S
           /\ Len(seq) \in Nat \ {0}
<1>1. Len(seq) \in Nat \ {0}
  BY EmptySeq
<1>2. \A i \in 1 .. Len(seq) : seq[i] \in S
  BY ElementOfSeq
<1> DEFINE n == Len(seq) - 1
<1>3. n \in Nat /\ \A i \in 1 .. n : seq[i] \in S
  BY <1>1, <1>2
<1>4. /\ SubSeq(seq, 1, n) \in Seq(S)
      /\ Len(SubSeq(seq, 1, n)) = IF 1 <= n THEN n - 1 + 1 ELSE 0
      /\ \A i \in 1 .. n - 1 + 1 : SubSeq(seq, 1, n)[i] = seq[1 + i - 1]
  BY <1>3, SubSeqProperties
<1>5. /\ Len(SubSeq(seq, 1, n)) = n
      /\ \A i \in 1 .. n : SubSeq(seq, 1, n)[i] = seq[i]
  <2>1. n - 1 + 1 = n /\ \A i \in 1 .. n : 1 + i - 1 = i
    BY <1>3
  <2> QED
    BY <1>3, <1>4, <2>1
<1>6. Last(seq) \in S
  BY <1>1, <1>2 DEF Last
<1> QED
  BY <1>1, <1>4, <1>5, <1>6 DEF Front

\* reset(): the table of a new world.
LEMMA ResetWellFormed ==
    ASSUME NEW n \in Nat
    PROVE  WellFormed(ResetTable(n))
<1> DEFINE t == ResetTable(n)
<1>1. /\ t.primary = n /\ t.size = n /\ t.free = <<>>
      /\ t.gen = [s \in 0 .. n - 1 |-> 0] /\ t.active = [s \in 0 .. n - 1 |-> TRUE]
  BY DEF ResetTable
<1>2. 0 \in 0 .. MaxGen
  BY MaxGenAssumption
<1>3. <<>> \in Seq(0 .. n - 1) /\ Len(<<>>) = 0
  BY EmptySeq
<1>4. IsTable(t)
  BY <1>2, <1>3 DEF IsTable, ResetTable
<1> QED
  BY <1>1, <1>3, <1>4 DEF WellFormed

\* allocate(): the slot it hands out was free or is new, is the only one whose
\* allocation changes, and keeps the generation its last release gave it.
LEMMA AllocateWellFormed ==
    ASSUME NEW t, WellFormed(t)
    PROVE  LET slot == AllocatedSlot(t, t.size)
               u == Allocate(t, t.size)
           IN  /\ WellFormed(u)
               /\ u.primary = t.primary /\ u.size >= t.size
               /\ slot \in t.primary .. u.size - 1
               /\ slot < t.size => ~t.active[slot]
               /\ \A s \in 0 .. u.size - 1 : s # slot => s < t.size
               /\ \A s \in 0 .. t.size - 1 : u.gen[s] = t.gen[s]
               /\ u.active[slot]
               /\ \A s \in 0 .. t.size - 1 : s # slot => u.active[s] = t.active[s]
<1> DEFINE slot == AllocatedSlot(t, t.size)
           u == Allocate(t, t.size)
           slots == 0 .. t.size - 1
<1>1. /\ t.size \in Nat /\ t.primary \in 0 .. t.size
      /\ t.gen \in [slots -> 0 .. MaxGen] /\ t.active \in [slots -> BOOLEAN]
      /\ t.free \in Seq(slots)
  BY DEF WellFormed, IsTable
<1>2. CASE t.free # <<>>
  <2>1. /\ Front(t.free) \in Seq(slots)
        /\ Len(Front(t.free)) = Len(t.free) - 1
        /\ \A i \in 1 .. Len(t.free) - 1 : Front(t.free)[i] = t.free[i]
        /\ Last(t.free) \in slots /\ Len(t.free) \in Nat \ {0}
    BY <1>1, <1>2, FrontProperty
  <2>2. /\ slot = Last(t.free) /\ slot = t.free[Len(t.free)]
        /\ u.primary = t.primary /\ u.size = t.size /\ u.free = Front(t.free)
    BY <1>2, <2>1 DEF AllocatedSlot, Allocate, IsReuse, Last
  <2>3. /\ u.gen = [s \in slots |-> IF s \in slots THEN t.gen[s] ELSE 1]
        /\ u.active = [s \in slots |-> s = slot \/ (s \in slots /\ t.active[s])]
    BY <1>2 DEF Allocate, IsReuse, StorageSlots
  <2>4. slot \in t.primary .. t.size - 1 /\ ~t.active[slot]
    BY <1>1, <2>1, <2>2 DEF WellFormed
  <2>5. IsTable(u)
    <3>1. u = [primary |-> t.primary, size |-> t.size, gen |-> u.gen,
               active |-> u.active, free |-> u.free]
      BY <1>2, <2>2 DEF Allocate, IsReuse
    <3>2. u.gen \in [slots -> 0 .. MaxGen] /\ u.active \in [slots -> BOOLEAN]
      BY <1>1, <2>3
    <3> QED
      BY <1>1, <2>1, <2>2, <3>1, <3>2 DEF IsTable
  <2>6. \A i \in 1 .. Len(u.free) : i \in 1 .. Len(t.free) /\ u.free[i] = t.free[i]
                                  /\ i < Len(t.free)
    BY <2>1, <2>2
  <2>7. \A i \in 1 .. Len(u.free) : u.free[i] \in slots /\ u.free[i] # slot
    <3> TAKE i \in 1 .. Len(u.free)
    <3>1. t.free[i] # t.free[Len(t.free)]
      BY <2>1, <2>6 DEF WellFormed
    <3> QED
      BY <1>1, <2>2, <2>6, <3>1, ElementOfSeq
  <2>9. u.active[slot] /\ \A s \in slots : s # slot => u.active[s] = t.active[s]
    <3>1. slot \in slots
      BY <1>1, <2>4
    <3>2. u.active[slot]
      BY <2>3, <3>1
    <3>3. ASSUME NEW s \in slots, s # slot PROVE u.active[s] = t.active[s]
      BY <1>1, <2>3, <3>3
    <3> QED
      BY <3>2, <3>3
  <2>8. WellFormed(u)
    <3>1. \A i \in 1 .. Len(u.free) : u.free[i] >= u.primary /\ ~u.active[u.free[i]]
      <4> TAKE i \in 1 .. Len(u.free)
      <4>1. t.free[i] >= t.primary /\ ~t.active[t.free[i]]
        BY <2>6 DEF WellFormed
      <4>2. u.active[u.free[i]] = t.active[u.free[i]]
        BY <2>7, <2>9
      <4> QED
        BY <2>2, <2>6, <4>1, <4>2
    <3>2. \A i, j \in 1 .. Len(u.free) : u.free[i] = u.free[j] => i = j
      BY <2>6 DEF WellFormed
    <3>3. /\ \A s \in 0 .. u.primary - 1 : u.gen[s] = 0
          /\ \A s \in u.primary .. u.size - 1 : u.gen[s] \in 1 .. MaxGen
      BY <1>1, <2>2, <2>3 DEF WellFormed
    <3> QED
      BY <2>5, <3>1, <3>2, <3>3 DEF WellFormed
  <2>10. \A s \in slots : u.gen[s] = t.gen[s]
    BY <2>3
  <2> HIDE DEF u, slot
  <2> QED
    BY <1>1, <2>2, <2>4, <2>8, <2>9, <2>10 DEF u, slot
<1>3. CASE t.free = <<>>
  <2> DEFINE all == 0 .. t.size
             gen == [s \in all |-> IF s \in slots THEN t.gen[s] ELSE 1]
             active == [s \in all |-> s = slot \/ (s \in slots /\ t.active[s])]
  <2>1. slot = t.size
    BY <1>3 DEF AllocatedSlot, IsReuse
  <2>2. t.size + 1 - 1 = t.size
    BY <1>1
  <2>3. u = [primary |-> t.primary, size |-> t.size + 1, gen |-> gen,
             active |-> active, free |-> <<>>]
    <3> DEFINE n == IF IsReuse(t) THEN t.size ELSE t.size + 1
    <3>1. u = [primary |-> t.primary, size |-> n,
               gen |-> [s \in 0 .. n - 1 |-> IF s \in slots THEN t.gen[s] ELSE 1],
               active |-> [s \in 0 .. n - 1 |-> s = slot \/ (s \in slots /\ t.active[s])],
               free |-> IF IsReuse(t) THEN Front(t.free) ELSE t.free]
      BY DEF Allocate, StorageSlots
    <3>2. ~IsReuse(t) /\ n = t.size + 1
      BY <1>3 DEF IsReuse
    <3> HIDE DEF n, u, slot
    <3>3. n - 1 = t.size
      BY <1>1, <3>2
    <3> QED
      BY <1>3, <3>1, <3>2, <3>3
  <2>4. gen \in [all -> 0 .. MaxGen] /\ active \in [all -> BOOLEAN]
    BY <1>1, MaxGenAssumption
  <2>5. <<>> \in Seq(all) /\ Len(<<>>) = 0
    BY EmptySeq
  <2>6. IsTable(u)
    BY <1>1, <2>2, <2>3, <2>4, <2>5 DEF IsTable
  <2>7. active[slot]
    <3>1. slot \in all
      BY <1>1, <2>1
    <3> QED
      BY <3>1
  <2>8. \A s \in slots : active[s] = t.active[s]
    <3> TAKE s \in slots
    <3>1. s \in all /\ s # slot /\ t.active[s] \in BOOLEAN
      BY <1>1, <2>1
    <3> QED
      BY <3>1
  <2>9. \A s \in slots : gen[s] = t.gen[s]
    BY <1>1
  <2>10. gen[t.size] = 1
    BY <1>1
  <2>11. /\ \A s \in 0 .. t.primary - 1 : gen[s] = 0
         /\ \A s \in t.primary .. t.size : gen[s] \in 1 .. MaxGen
    BY <1>1, <2>9, <2>10, MaxGenAssumption DEF WellFormed
  <2> HIDE DEF gen, active, slot, u
  <2>12. WellFormed(u)
    BY <1>1, <2>2, <2>3, <2>5, <2>6, <2>11 DEF WellFormed
  <2>13. /\ u.primary = t.primary /\ u.size = t.size + 1 /\ u.gen = gen /\ u.active = active
    BY <2>3
  <2>14. /\ u.size >= t.size /\ slot \in t.primary .. u.size - 1 /\ ~(slot < t.size)
         /\ \A s \in 0 .. u.size - 1 : s # slot => s < t.size
    BY <1>1, <2>1, <2>13
  <2> QED
    BY <2>7, <2>8, <2>9, <2>12, <2>13, <2>14 DEF u, slot
<1> QED
  BY <1>2, <1>3

\* release() of a handle that resolves: its slot joins the stack inactive, under
\* the next generation; no other slot changes.
LEMMA ReleaseWellFormed ==
    ASSUME NEW t, WellFormed(t), NEW h \in Handle, CanRelease(t, h)
    PROVE  LET u == Release(t, h)
           IN  /\ WellFormed(u)
               /\ u.primary = t.primary /\ u.size = t.size
               /\ h.slot \in t.primary .. t.size - 1
               /\ t.active[h.slot] /\ t.gen[h.slot] = h.gen
               /\ u.gen = [t.gen EXCEPT ![h.slot] = NextGen(t.gen[h.slot])]
               /\ u.active = [t.active EXCEPT ![h.slot] = FALSE]
<1> DEFINE u == Release(t, h)
           slots == 0 .. t.size - 1
<1>1. /\ t.size \in Nat /\ t.primary \in 0 .. t.size
      /\ t.gen \in [slots -> 0 .. MaxGen] /\ t.active \in [slots -> BOOLEAN]
      /\ t.free \in Seq(slots)
  BY DEF WellFormed, IsTable
<1>2. h.slot \in t.primary .. t.size - 1 /\ t.active[h.slot] /\ t.gen[h.slot] = h.gen
  BY <1>1 DEF CanRelease, Resolves, IsCurrent, StorageSlots, Handle
<1> h.slot \in slots
  BY <1>1, <1>2
<1>3. NextGen(t.gen[h.slot]) \in 1 .. MaxGen
  BY <1>1, <1>2, MaxGenAssumption DEF NextGen
<1>4. /\ u.primary = t.primary /\ u.size = t.size
      /\ u.gen = [t.gen EXCEPT ![h.slot] = NextGen(t.gen[h.slot])]
      /\ u.active = [t.active EXCEPT ![h.slot] = FALSE]
      /\ u.free = Append(t.free, h.slot)
      /\ u \in [primary : 0 .. t.size, size : Nat, gen : [slots -> 0 .. MaxGen],
                active : [slots -> BOOLEAN], free : Seq(slots)]
  <2>1. t \in [primary : 0 .. t.size, size : Nat, gen : [slots -> 0 .. MaxGen],
               active : [slots -> BOOLEAN], free : Seq(slots)]
    BY DEF WellFormed, IsTable
  <2>2. /\ [t.gen EXCEPT ![h.slot] = NextGen(t.gen[h.slot])] \in [slots -> 0 .. MaxGen]
        /\ [t.active EXCEPT ![h.slot] = FALSE] \in [slots -> BOOLEAN]
        /\ Append(t.free, h.slot) \in Seq(slots)
    BY <1>1, <1>2, <1>3, AppendProperties
  <2> QED
    BY <2>1, <2>2 DEF Release
<1>5. IsTable(u)
  BY <1>1, <1>4 DEF IsTable
<1>6. /\ Len(u.free) = Len(t.free) + 1 /\ Len(t.free) \in Nat
      /\ \A i \in 1 .. Len(t.free) : u.free[i] = t.free[i] /\ t.free[i] \in slots
      /\ u.free[Len(t.free) + 1] = h.slot
  <2>1. Len(t.free) \in Nat /\ \A i \in 1 .. Len(t.free) : t.free[i] \in slots
    BY <1>1, LenProperties, ElementOfSeq
  <2> DEFINE pushed == Append(t.free, h.slot)
  <2>2. /\ Len(pushed) = Len(t.free) + 1
        /\ \A i \in 1 .. Len(t.free) : pushed[i] = t.free[i]
        /\ pushed[Len(t.free) + 1] = h.slot
    BY <1>1, AppendProperties
  <2> QED
    BY <1>4, <2>1, <2>2
<1>7. \A i \in 1 .. Len(t.free) : t.free[i] # h.slot
  BY <1>2 DEF WellFormed
<1>8. \A i \in 1 .. Len(u.free) : u.free[i] >= u.primary /\ ~u.active[u.free[i]]
  <2> TAKE i \in 1 .. Len(u.free)
  <2>1. CASE i \in 1 .. Len(t.free)
    BY <1>1, <1>4, <1>6, <1>7, <2>1 DEF WellFormed
  <2>2. CASE i = Len(t.free) + 1
    BY <1>1, <1>2, <1>4, <1>6, <2>2
  <2> QED
    BY <1>6, <2>1, <2>2
<1>9. \A i, j \in 1 .. Len(u.free) : u.free[i] = u.free[j] => i = j
  <2>1. \A i, j \in 1 .. Len(t.free) : t.free[i] = t.free[j] => i = j
    BY DEF WellFormed
  <2> HIDE DEF u
  <2> SUFFICES ASSUME NEW i \in 1 .. Len(u.free), NEW j \in 1 .. Len(u.free),
                      u.free[i] = u.free[j]
               PROVE  i = j
    OBVIOUS
  <2>2. CASE i \in 1 .. Len(t.free) /\ j \in 1 .. Len(t.free)
    BY <1>6, <2>1, <2>2
  <2>3. CASE i = Len(t.free) + 1 \/ j = Len(t.free) + 1
    BY <1>6, <1>7, <2>3
  <2> QED
    BY <1>6, <2>2, <2>3
<1>10. /\ \A s \in 0 .. u.primary - 1 : u.gen[s] = 0
       /\ \A s \in u.primary .. u.size - 1 : u.gen[s] \in 1 .. MaxGen
  BY <1>1, <1>2, <1>3, <1>4 DEF WellFormed
<1> QED
  BY <1>2, <1>4, <1>5, <1>8, <1>9, <1>10 DEF WellFormed

LEMMA TableFields ==
    ASSUME NEW t, WellFormed(t)
    PROVE  /\ IsTable(t)
           /\ \A s \in 0 .. t.primary - 1 : t.gen[s] = 0
           /\ \A s \in t.primary .. t.size - 1 : t.gen[s] \in 1 .. MaxGen
BY DEF WellFormed

-----------------------------------------------------------------------------
(* The life of handles                                                     *)

\* The handles owned are those the table has active, under their generation.
LiveIsActive ==
    live = {Encode(s, table.gen[s]) :
               s \in {s \in table.primary .. table.size - 1 : table.active[s]}}

\* How far the generation of a slot has moved since one of its handles was
\* released: as many steps as there were releases, at most once around.
AgeIsDistance ==
    \A h \in DOMAIN recent :
        /\ h \in [slot : table.primary .. table.size - 1, gen : 1 .. MaxGen]
        /\ recent[h] \in 0 .. MaxGen - 2
        /\ \/ table.gen[h.slot] = h.gen + 1 + recent[h]
           \/ table.gen[h.slot] = h.gen + 1 + recent[h] - MaxGen

TableInv == WellFormed(table) /\ LiveIsActive /\ AgeIsDistance

-----------------------------------------------------------------------------
LEMMA TableType ==
    ASSUME WellFormed(table)
    PROVE  /\ table.size \in Nat /\ table.primary \in 0 .. table.size
           /\ table.gen \in [0 .. table.size - 1 -> 0 .. MaxGen]
           /\ table.active \in [0 .. table.size - 1 -> BOOLEAN]
           /\ table.free \in Seq(0 .. table.size - 1)
BY DEF WellFormed, IsTable

LEMMA FreshInv ==
    ASSUME NEW n \in PrimaryCounts, table = ResetTable(n), live = {}, recent = <<>>
    PROVE  TableInv
<1>1. n \in Nat
  BY PrimaryCountsAssumption
<1>2. WellFormed(table)
  BY <1>1, ResetWellFormed
<1>3. table.primary = n /\ table.size = n
  BY DEF ResetTable
<1>4. LiveIsActive
  BY <1>1, <1>3 DEF LiveIsActive
<1>5. AgeIsDistance
  BY DEF AgeIsDistance
<1> QED
  BY <1>2, <1>4, <1>5 DEF TableInv

LEMMA AllocatePreserves ==
    ASSUME TableInv, AllocateHandle
    PROVE  TableInv'
<1> DEFINE slot == AllocatedSlot(table, table.size)
<1>1. /\ table' = Allocate(table, table.size)
      /\ live' = live \cup {Encode(slot, table'.gen[slot])}
      /\ recent' = recent
  BY DEF AllocateHandle
<1>2. /\ WellFormed(table')
      /\ table'.primary = table.primary /\ table'.size >= table.size
      /\ slot \in table.primary .. table'.size - 1
      /\ slot < table.size => ~table.active[slot]
      /\ \A s \in 0 .. table'.size - 1 : s # slot => s < table.size
      /\ \A s \in 0 .. table.size - 1 : table'.gen[s] = table.gen[s]
      /\ table'.active[slot]
      /\ \A s \in 0 .. table.size - 1 : s # slot => table'.active[s] = table.active[s]
  BY <1>1, AllocateWellFormed DEF TableInv
<1>3. /\ table.size \in Nat /\ table.primary \in 0 .. table.size /\ table'.size \in Nat
  BY <1>2, TableType DEF TableInv, WellFormed, IsTable
<1> HIDE DEF slot
<1>4. LiveIsActive'
  <2> DEFINE owned == {s \in table.primary .. table.size - 1 : table.active[s]}
             owned2 == {s \in table'.primary .. table'.size - 1 : table'.active[s]}
  <2>1. owned2 = owned \cup {slot}
    <3>1. ASSUME NEW s \in owned2, s # slot PROVE s \in owned
      <4>1. s \in table.primary .. table.size - 1
        BY <1>2, <1>3, <3>1
      <4>2. table'.active[s] = table.active[s]
        BY <1>2, <1>3, <3>1, <4>1
      <4> QED
        BY <4>1, <4>2, <3>1
    <3>2. ASSUME NEW s \in owned PROVE s \in owned2
      <4>1. s \in table'.primary .. table'.size - 1 /\ s \in 0 .. table.size - 1 /\ s # slot
        BY <1>2, <1>3
      <4>2. table'.active[s] = table.active[s]
        BY <1>2, <4>1
      <4> QED
        BY <4>1, <4>2
    <3>3. slot \in owned2
      BY <1>2, <1>3
    <3> QED
      BY <3>1, <3>2, <3>3
  <2>2. \A s \in owned : table'.gen[s] = table.gen[s]
    BY <1>2, <1>3
  <2>3. live = {Encode(s, table.gen[s]) : s \in owned}
    BY DEF TableInv, LiveIsActive
  <2>4. live' = {Encode(s, table'.gen[s]) : s \in owned2}
    <3> HIDE DEF owned, owned2
    <3> QED
      BY <1>1, <2>1, <2>2, <2>3 DEF slot
  <2> QED
    BY <2>4 DEF LiveIsActive
<1>5. AgeIsDistance'
  <2> SUFFICES ASSUME NEW h \in DOMAIN recent
               PROVE /\ h \in [slot : table'.primary .. table'.size - 1, gen : 1 .. MaxGen]
                     /\ recent[h] \in 0 .. MaxGen - 2
                     /\ \/ table'.gen[h.slot] = h.gen + 1 + recent[h]
                        \/ table'.gen[h.slot] = h.gen + 1 + recent[h] - MaxGen
    BY <1>1 DEF AgeIsDistance
  <2>1. /\ h \in [slot : table.primary .. table.size - 1, gen : 1 .. MaxGen]
        /\ recent[h] \in 0 .. MaxGen - 2
        /\ \/ table.gen[h.slot] = h.gen + 1 + recent[h]
           \/ table.gen[h.slot] = h.gen + 1 + recent[h] - MaxGen
    BY DEF TableInv, AgeIsDistance
  <2>2. table'.gen[h.slot] = table.gen[h.slot]
    BY <1>2, <1>3, <2>1
  <2>3. h \in [slot : table'.primary .. table'.size - 1, gen : 1 .. MaxGen]
    BY <1>2, <1>3, <2>1
  <2> QED
    BY <2>1, <2>2, <2>3
<1> QED
  BY <1>2, <1>4, <1>5 DEF TableInv

LEMMA ReleasePreserves ==
    ASSUME TableInv, NEW h \in Presentable, CanRelease(table, h), ReleaseHandle(h)
    PROVE  TableInv'
<1>1. /\ table' = Release(table, h)
      /\ live' = live \ {h}
      /\ recent' = Aged(h)
  BY DEF ReleaseHandle
<1>2. h \in Handle /\ h = Encode(h.slot, h.gen)
  BY MaxSlotsAssumption, MaxGenAssumption DEF Presentable, Encode, Handle
<1>3. /\ WellFormed(table')
      /\ table'.primary = table.primary /\ table'.size = table.size
      /\ h.slot \in table.primary .. table.size - 1
      /\ table.active[h.slot] /\ table.gen[h.slot] = h.gen
      /\ table'.gen = [table.gen EXCEPT ![h.slot] = NextGen(table.gen[h.slot])]
      /\ table'.active = [table.active EXCEPT ![h.slot] = FALSE]
  BY <1>1, <1>2, ReleaseWellFormed DEF TableInv
<1>4. /\ table.size \in Nat /\ table.primary \in 0 .. table.size
      /\ table.gen \in [0 .. table.size - 1 -> 0 .. MaxGen]
      /\ table.active \in [0 .. table.size - 1 -> BOOLEAN]
      /\ h.slot \in 0 .. table.size - 1
  BY <1>3, TableType DEF TableInv
<1>5. h.gen \in 1 .. MaxGen
  BY <1>3 DEF TableInv, WellFormed
<1>6. \A s \in 0 .. table.size - 1 :
          /\ s # h.slot => table'.gen[s] = table.gen[s] /\ table'.active[s] = table.active[s]
          /\ s = h.slot => table'.gen[s] = NextGen(h.gen) /\ ~table'.active[s]
  <2> TAKE s \in 0 .. table.size - 1
  <2>1. CASE s # h.slot
    BY <1>3, <1>4, <2>1
  <2>2. CASE s = h.slot
    <3>1. table'.gen[s] = NextGen(h.gen)
      BY <1>3, <1>4, <2>2
    <3>2. table'.active[s] = FALSE
      BY <1>3, <1>4, <2>2
    <3> QED
      BY <2>2, <3>1, <3>2
  <2> QED
    BY <2>1, <2>2
<1>7. LiveIsActive'
  <2> DEFINE owned == {s \in table.primary .. table.size - 1 : table.active[s]}
             owned2 == {s \in table'.primary .. table'.size - 1 : table'.active[s]}
  <2>1. owned2 = owned \ {h.slot}
    <3>1. \A s \in table.primary .. table.size - 1 : s \in 0 .. table.size - 1
      BY <1>4
    <3>2. \A s \in owned2 : s \in owned /\ s # h.slot
      BY <1>3, <1>6, <3>1
    <3>3. \A s \in owned : s # h.slot => s \in owned2
      BY <1>3, <1>6, <3>1
    <3> QED
      BY <3>2, <3>3
  <2>2. \A s \in owned2 : table'.gen[s] = table.gen[s]
    BY <1>4, <1>6, <2>1
  <2>3. live = {Encode(s, table.gen[s]) : s \in owned}
    BY DEF TableInv, LiveIsActive
  <2>4. \A s \in owned : (Encode(s, table.gen[s]) = h) <=> s = h.slot
    <3>1. \A s, g : Encode(s, g).slot = s
      BY DEF Encode
    <3>2. Encode(h.slot, table.gen[h.slot]) = h
      BY <1>2, <1>3
    <3> QED
      BY <3>1, <3>2
  <2>5. live' = {Encode(s, table'.gen[s]) : s \in owned2}
    <3> HIDE DEF owned, owned2
    <3> QED
      BY <1>1, <2>1, <2>2, <2>3, <2>4
  <2> QED
    BY <2>5 DEF LiveIsActive
<1>8. AgeIsDistance'
  <2> DEFINE age(k) == IF k = h THEN 0 ELSE recent[k] + (IF k.slot = h.slot THEN 1 ELSE 0)
  <2> SUFFICES ASSUME NEW k \in DOMAIN recent'
               PROVE /\ k \in [slot : table'.primary .. table'.size - 1, gen : 1 .. MaxGen]
                     /\ recent'[k] \in 0 .. MaxGen - 2
                     /\ \/ table'.gen[k.slot] = k.gen + 1 + recent'[k]
                        \/ table'.gen[k.slot] = k.gen + 1 + recent'[k] - MaxGen
    BY DEF AgeIsDistance
  <2>1. k \in (DOMAIN recent) \cup {h} /\ age(k) < MaxGen - 1 /\ recent'[k] = age(k)
    BY <1>1 DEF Aged
  <2>2. NextGen(h.gen) = h.gen + 1 \/ NextGen(h.gen) = h.gen + 1 - MaxGen
    BY <1>5, MaxGenAssumption DEF NextGen
  <2>3. CASE k = h
    <3>1. k \in [slot : table'.primary .. table'.size - 1, gen : 1 .. MaxGen]
      BY <1>2, <1>3, <1>5, <2>3 DEF Handle
    <3>2. recent'[k] = 0 /\ 0 \in 0 .. MaxGen - 2
      BY <2>1, <2>3, MaxGenAssumption
    <3>3. table'.gen[k.slot] = NextGen(k.gen)
      BY <1>4, <1>6, <2>3
    <3> QED
      BY <1>5, <2>2, <2>3, <3>1, <3>2, <3>3, MaxGenAssumption
  <2>4. CASE k # h
    <3>1. /\ k \in [slot : table.primary .. table.size - 1, gen : 1 .. MaxGen]
          /\ recent[k] \in 0 .. MaxGen - 2
          /\ \/ table.gen[k.slot] = k.gen + 1 + recent[k]
             \/ table.gen[k.slot] = k.gen + 1 + recent[k] - MaxGen
      BY <2>1, <2>4 DEF TableInv, AgeIsDistance
    <3>2. k \in [slot : table'.primary .. table'.size - 1, gen : 1 .. MaxGen]
      BY <1>3, <3>1
    <3>3. k.slot \in 0 .. table.size - 1 /\ k.gen \in 1 .. MaxGen
      BY <1>4, <3>1
    <3>4. CASE k.slot # h.slot
      <4>1. recent'[k] = recent[k]
        BY <2>1, <2>4, <3>1, <3>4
      <4> QED
        BY <1>6, <3>1, <3>2, <3>3, <3>4, <4>1
    <3>5. CASE k.slot = h.slot
      <4>1. recent'[k] = recent[k] + 1 /\ recent'[k] \in 0 .. MaxGen - 2
        BY <2>1, <2>4, <3>1, <3>5, MaxGenAssumption
      <4>2. table'.gen[k.slot] = NextGen(h.gen) /\ table.gen[k.slot] = h.gen
        BY <1>3, <1>6, <3>3, <3>5
      <4>3. \/ NextGen(h.gen) = k.gen + 1 + (recent[k] + 1)
            \/ NextGen(h.gen) = k.gen + 1 + (recent[k] + 1) - MaxGen
        BY <1>5, <3>1, <3>3, <4>2, MaxGenAssumption DEF NextGen
      <4> QED
        BY <3>2, <4>1, <4>2, <4>3
    <3> QED
      BY <3>4, <3>5
  <2> QED
    BY <2>3, <2>4
<1> QED
  BY <1>3, <1>7, <1>8 DEF TableInv

LEMMA TableInvInductive ==
    ASSUME TableInv, [TableNext]_tableVars
    PROVE  TableInv'
<1>1. ASSUME NEW n \in PrimaryCounts, ResetHandles(n) PROVE TableInv'
  <2>1. table' = ResetTable(n) /\ live' = {} /\ recent' = <<>>
    BY <1>1 DEF ResetHandles
  <2>2. n \in Nat
    BY PrimaryCountsAssumption
  <2>3. WellFormed(table')
    BY <2>1, <2>2, ResetWellFormed
  <2>4. table'.primary = n /\ table'.size = n
    BY <2>1 DEF ResetTable
  <2>5. LiveIsActive' /\ AgeIsDistance'
    BY <2>1, <2>2, <2>4 DEF LiveIsActive, AgeIsDistance
  <2> QED
    BY <2>3, <2>5 DEF TableInv
<1>2. CASE AllocateHandle
  BY <1>2, AllocatePreserves
<1>3. ASSUME NEW h \in Presentable, ReleaseHandle(h), CanRelease(table, h) PROVE TableInv'
  BY <1>3, ReleasePreserves
<1>4. ASSUME UNCHANGED tableVars PROVE TableInv'
  BY <1>4 DEF tableVars, TableInv, LiveIsActive, AgeIsDistance
<1>5. ASSUME NEW h \in Presentable, ReleaseHandle(h), ~CanRelease(table, h) PROVE TableInv'
  BY <1>4, <1>5 DEF ReleaseHandle
<1> QED
  BY <1>1, <1>2, <1>3, <1>4, <1>5 DEF TableNext

\* The table is always well formed, the live handles are its active slots and the
\* age of a released handle is the distance its slot's generation has moved.
THEOREM TableInductive == TableSpec => []TableInv
<1>1. TableInit => TableInv
  BY FreshInv DEF TableInit
<1> QED
  BY <1>1, TableInvInductive, PTL DEF TableSpec

-----------------------------------------------------------------------------
\* The type of the table survives every operation.
THEOREM TableTypeCorrect == TableSpec => []TableTypeOK
<1>1. TableInv => TableTypeOK
  <2> SUFFICES ASSUME TableInv PROVE TableTypeOK
    OBVIOUS
  <2>1. IsTable(table)
    BY DEF TableInv, WellFormed
  <2>2. /\ table.size \in Nat /\ table.primary \in 0 .. table.size
        /\ table.gen \in [0 .. table.size - 1 -> 0 .. MaxGen]
    BY TableType DEF TableInv
  <2>3. live \subseteq Handle
    <3>1. \A s \in table.primary .. table.size - 1 : s \in Nat /\ table.gen[s] \in Nat
      BY <2>2, MaxGenAssumption
    <3>2. \A s \in table.primary .. table.size - 1 : Encode(s, table.gen[s]) \in Handle
      BY <3>1 DEF Encode, Handle
    <3> QED
      BY <3>2 DEF TableInv, LiveIsActive
  <2>4. \A h \in DOMAIN recent : h \in Handle /\ recent[h] \in Nat
    <3>1. table.primary .. table.size - 1 \subseteq Nat /\ 1 .. MaxGen \subseteq Nat
      BY <2>2
    <3>2. \A h \in DOMAIN recent : /\ h \in [slot : Nat, gen : Nat]
                                   /\ recent[h] \in Nat
      BY <3>1, MaxGenAssumption DEF TableInv, AgeIsDistance
    <3> QED
      BY <3>2 DEF Handle
  <2> QED
    BY <2>1, <2>3, <2>4 DEF TableTypeOK
<1> QED
  BY <1>1, TableInductive, PTL

\* An external handle resolves exactly while its owner holds it.
THEOREM LiveResolve == TableSpec => []ResolvesExactlyLive
<1>1. TableInv => ResolvesExactlyLive
  <2> SUFFICES ASSUME TableInv, NEW s \in 0 .. MaxSlots - 1, NEW g \in 1 .. MaxGen
               PROVE  Resolves(table, Encode(s, g)) <=> Encode(s, g) \in live
    BY DEF ResolvesExactlyLive
  <2>1. /\ table.size \in Nat /\ table.primary \in 0 .. table.size /\ s \in Nat
        /\ g # 0 /\ Encode(s, g).slot = s /\ Encode(s, g).gen = g
    BY TableType, MaxSlotsAssumption, MaxGenAssumption DEF TableInv, Encode
  <2>2. Resolves(table, Encode(s, g)) <=>
            s \in table.primary .. table.size - 1 /\ table.active[s] /\ table.gen[s] = g
    BY <2>1 DEF Resolves, IsCurrent, StorageSlots
  <2>3. Encode(s, g) \in live <=>
            \E k \in table.primary .. table.size - 1 :
                table.active[k] /\ Encode(s, g) = Encode(k, table.gen[k])
    BY DEF TableInv, LiveIsActive
  <2>4. \A k : Encode(s, g) = Encode(k, table.gen[k]) <=> s = k /\ g = table.gen[k]
    BY DEF Encode
  <2> QED
    BY <2>2, <2>3, <2>4
<1> QED
  BY <1>1, TableInductive, PTL

\* Two owners never share a slot, and the free stack holds no owned slot and no
\* slot twice.
THEOREM SlotsHaveOneOwner == TableSpec => []OneOwnerPerSlot
<1>1. TableInv => OneOwnerPerSlot
  <2> SUFFICES ASSUME TableInv PROVE OneOwnerPerSlot
    OBVIOUS
  <2>1. table.free \in Seq(0 .. table.size - 1) /\ DOMAIN table.free = 1 .. Len(table.free)
    BY TableType, LenProperties DEF TableInv
  <2>2. \A h \in live : h = Encode(h.slot, table.gen[h.slot]) /\ table.active[h.slot]
    BY DEF TableInv, LiveIsActive, Encode
  <2>3. \A h, k \in live : h.slot = k.slot => h = k
    BY <2>2
  <2>4. ASSUME NEW i \in DOMAIN table.free, NEW h \in live PROVE h.slot # table.free[i]
    BY <2>1, <2>2 DEF TableInv, WellFormed
  <2>5. \A i, j \in DOMAIN table.free : table.free[i] = table.free[j] => i = j
    BY <2>1 DEF TableInv, WellFormed
  <2> QED
    BY <2>3, <2>4, <2>5 DEF OneOwnerPerSlot
<1> QED
  BY <1>1, TableInductive, PTL

\* A released handle stays dead through MaxGen - 2 further releases of its slot.
THEOREM ReleasedStaysDead == TableSpec => []RecentlyReleasedStaysDead
<1>1. TableInv => RecentlyReleasedStaysDead
  <2> SUFFICES ASSUME TableInv, NEW h \in DOMAIN recent
               PROVE  h \notin live /\ ~Resolves(table, h)
    BY DEF RecentlyReleasedStaysDead
  <2>1. /\ h \in [slot : table.primary .. table.size - 1, gen : 1 .. MaxGen]
        /\ recent[h] \in 0 .. MaxGen - 2
        /\ \/ table.gen[h.slot] = h.gen + 1 + recent[h]
           \/ table.gen[h.slot] = h.gen + 1 + recent[h] - MaxGen
    BY DEF TableInv, AgeIsDistance
  <2>2. h.gen \in 1 .. MaxGen /\ table.gen[h.slot] # h.gen
    BY <2>1, MaxGenAssumption
  <2>3. h \notin live
    BY <2>2 DEF TableInv, LiveIsActive, Encode
  <2>4. ~Resolves(table, h)
    BY <2>2 DEF Resolves, IsCurrent
  <2> QED
    BY <2>3, <2>4
<1> QED
  BY <1>1, TableInductive, PTL

-----------------------------------------------------------------------------
(* The invariant                                                           *)

\* The slots: while lights are collected every address is that of the published mesh,
\* the queue names the slots with a build, and a released slot has none.
SlotsOK ==
    /\ WellFormed(handles)
    /\ chunks \in [Slots -> ChunkState]
    /\ buildDatas \in [Slots -> Build \cup {NoBuild}]
    /\ packed \in [Slots -> Build \cup {NoBuild}]
    /\ PackedLightIsLive
    /\ queued = {s \in Slots : buildDatas[s] # NoBuild}
    /\ \A s \in Slots : s >= handles.primary /\ ~handles.active[s] => buildDatas[s] = NoBuild

Batch == [fence : Fences, before : SUBSET Fences, builds : SUBSET Build]

RenderState == [pc : {"idle", "building", "submitted", "collect"},
                fence : SUBSET Fences, builds : SUBSET Build]

\* What is on its way to the slots.
WorkOK ==
    /\ inFlight \subseteq Batch
    /\ render \in RenderState
    /\ producers \in [Producers -> ProducerState]

\* The fence pool, and that the render thread holds one fence exactly while it
\* builds and submits.
PoolOK ==
    /\ freeFences \subseteq Fences /\ lost \subseteq Fences
    /\ gpu \in [Fences -> {"idle", "pending", "signaled"}]
    /\ FencePool
    /\ \A f, g \in render.fence : f = g
    /\ render.pc \in {"idle", "collect"} => render.fence = {}
    /\ render.pc \notin {"building", "submitted"} => render.builds = {}
    /\ render.pc = "building" => \A f \in render.fence : gpu[f] = "idle"

FlagsOK == collect \in BOOLEAN /\ scheduler \in BOOLEAN /\ fatal \in BOOLEAN

HistoryOK ==
    /\ owner \in [SlotIds -> Nat] /\ nextOwner \in Nat
    /\ issued \in [SlotIds -> Versions] /\ accepted \in [SlotIds -> Versions]

IInv == SlotsOK /\ WorkOK /\ PoolOK /\ FlagsOK /\ HistoryOK

\* While light collection is off, and not about to be swept, nothing has lights.
BuildsUnderWay == render.builds \cup UNION {b.builds : b \in inFlight}

AllDark ==
    /\ \A s \in Slots : /\ LightOf(chunks[s].mesh) = NoBuild
                        /\ LightOf(buildDatas[s]) = NoBuild
                        /\ packed[s] = NoBuild
    /\ \A d \in BuildsUnderWay : ~d.lit

DarkOK == ~collect /\ ~fatal /\ render.pc # "collect" => AllDark

-----------------------------------------------------------------------------
(* Slots                                                                   *)

LEMMA SlotsType ==
    ASSUME SlotsOK
    PROVE  /\ handles.size \in Nat /\ handles.primary \in 0 .. handles.size
           /\ handles.gen \in [Slots -> 0 .. MaxGen]
           /\ handles.active \in [Slots -> BOOLEAN]
           /\ Slots = 0 .. handles.size - 1
BY TableFields DEF SlotsOK, IsTable, Slots, StorageSlots

LEMMA LightType ==
    ASSUME NEW m \in Build \cup {NoBuild}
    PROVE  LightOf(m) \in Build \cup {NoBuild} /\ LightOf(NoBuild) = NoBuild
BY DEF LightOf

LEMMA FreshChunkType == FreshChunk \in ChunkState /\ LightOf(FreshChunk.mesh) = NoBuild
BY DEF FreshChunk, ChunkState, LightOf

\* A state with the same slots is as good.
LEMMA SlotsKeep ==
    ASSUME SlotsOK, UNCHANGED <<handles, chunks, buildDatas, queued, packed, collect>>
    PROVE  SlotsOK'
BY DEF SlotsOK, Slots, PackedLightIsLive

\* Publishing a build writes its lights next to it.
LEMMA PublishedSlots ==
    ASSUME SlotsOK, NEW pick \in [Slots -> Build \cup {NoBuild}]
    PROVE  /\ ChunksWith(pick) \in [Slots -> ChunkState]
           /\ PackedWith(pick) \in [Slots -> Build \cup {NoBuild}]
           /\ collect => \A s \in Slots :
                 PackedWith(pick)[s] = LightOf(ChunksWith(pick)[s].mesh)
<1>1. \A s \in Slots : /\ chunks[s] \in ChunkState /\ pick[s] \in Build \cup {NoBuild}
                       /\ packed[s] \in Build \cup {NoBuild}
                       /\ collect => packed[s] = LightOf(chunks[s].mesh)
  BY DEF SlotsOK, PackedLightIsLive
<1>2. \A s \in Slots : pick[s] # NoBuild =>
          /\ Published(chunks[s], pick[s]) \in ChunkState
          /\ Published(chunks[s], pick[s]).mesh = pick[s]
  <2> SUFFICES ASSUME NEW s \in Slots, pick[s] # NoBuild
               PROVE /\ Published(chunks[s], pick[s]) \in ChunkState
                     /\ Published(chunks[s], pick[s]).mesh = pick[s]
    OBVIOUS
  <2>1. pick[s] \in Build /\ pick[s].version \in Int
    BY <1>1, BoundsAssumption DEF Build, Versions
  <2> QED
    BY <1>1, <2>1 DEF Published, ChunkState
<1>3. ChunksWith(pick) \in [Slots -> ChunkState]
  BY <1>1, <1>2 DEF ChunksWith
<1>4. collect => \A s \in Slots : PackedWith(pick)[s] = LightOf(ChunksWith(pick)[s].mesh)
  BY <1>1, <1>2 DEF ChunksWith, PackedWith, StoredPacked
<1>5. PackedWith(pick) \in [Slots -> Build \cup {NoBuild}]
  BY <1>1, LightType DEF PackedWith, StoredPacked
<1> QED
  BY <1>3, <1>4, <1>5

LEMMA PublishKeeps ==
    ASSUME SlotsOK, NEW pick \in [Slots -> Build \cup {NoBuild}],
           chunks' = ChunksWith(pick), packed' = PackedWith(pick),
           UNCHANGED <<handles, buildDatas, queued, collect>>
    PROVE  SlotsOK'
<1>1. Slots' = Slots
  BY DEF Slots
<1>2. /\ chunks' \in [Slots -> ChunkState]
      /\ packed' \in [Slots -> Build \cup {NoBuild}]
      /\ collect => \A s \in Slots : packed'[s] = LightOf(chunks'[s].mesh)
  BY PublishedSlots
<1> QED
  BY <1>1, <1>2 DEF SlotsOK, PackedLightIsLive

\* The builds a poll publishes are builds of the batches in flight.
LEMMA PickType ==
    ASSUME WorkOK, NEW done \in SUBSET inFlight
    PROVE  [s \in Slots |-> FirstPublishable(done, s)] \in [Slots -> Build \cup {NoBuild}]
<1> SUFFICES ASSUME NEW s \in Slots
             PROVE  FirstPublishable(done, s) \in Build \cup {NoBuild}
  OBVIOUS
<1> DEFINE fit(b) == {d \in b.builds : d.slot = s /\ Publishable(d)}
           first == {b \in done : \A c \in Earlier(b) \cap done : fit(c) = {}}
           builds == UNION {fit(b) : b \in first}
<1>1. FirstPublishable(done, s) = IF builds = {} THEN NoBuild ELSE CHOOSE d \in builds : TRUE
  BY DEF FirstPublishable
<1>2. builds \subseteq Build
  BY DEF WorkOK, Batch
<1> HIDE DEF builds
<1> QED
  BY <1>1, <1>2

LEMMA WorkKeep ==
    ASSUME WorkOK, UNCHANGED <<inFlight, render, producers>>
    PROVE  WorkOK'
BY DEF WorkOK

LEMMA PoolKeep ==
    ASSUME PoolOK, UNCHANGED <<freeFences, lost, gpu, inFlight, render>>
    PROVE  PoolOK'
BY DEF PoolOK, FencePool, InFlightFences

LEMMA HistoryKeep ==
    ASSUME HistoryOK, UNCHANGED <<owner, nextOwner, issued, accepted>>
    PROVE  HistoryOK'
BY DEF HistoryOK

-----------------------------------------------------------------------------
(* The render thread                                                       *)

\* Recycling signaled batches moves their fences from the flight to the pool.
LEMMA RecycleKeepsPool ==
    ASSUME PoolOK, WorkOK, NEW done \in SUBSET inFlight, NEW halfReset \in SUBSET InFlightFences,
           freeFences' = freeFences \cup {b.fence : b \in done},
           gpu' = [f \in Fences |-> IF f \in {b.fence : b \in done} \cup halfReset
                                    THEN "idle" ELSE gpu[f]],
           inFlight' = {[b EXCEPT !.before = @ \ {c.fence : c \in done}] : b \in inFlight \ done},
           UNCHANGED <<render, lost>>
    PROVE  PoolOK' /\ inFlight' \subseteq Batch
<1> DEFINE recycled == {b.fence : b \in done}
           shrunk(b) == [b EXCEPT !.before = @ \ recycled]
<1>1. \A b \in inFlight : shrunk(b) \in Batch /\ shrunk(b).fence = b.fence /\ b.fence \in Fences
  BY DEF WorkOK, Batch
<1>2. recycled \subseteq InFlightFences /\ InFlightFences \subseteq Fences
  BY DEF InFlightFences, WorkOK, Batch
<1>3. \A b, c \in inFlight : b.fence = c.fence => b = c
  BY DEF PoolOK, FencePool
<1>4. inFlight' = {shrunk(b) : b \in inFlight \ done}
  OBVIOUS
<1> HIDE DEF shrunk
<1>5. InFlightFences' = InFlightFences \ recycled
  <2>1. InFlightFences' = {b.fence : b \in inFlight \ done}
    BY <1>1, <1>4 DEF InFlightFences
  <2> QED
    BY <1>3, <2>1 DEF InFlightFences
<1>6. \A b, c \in inFlight' : b.fence = c.fence => b = c
  BY <1>1, <1>3, <1>4
<1> HIDE DEF recycled
<1>7. FencePool'
  <2>1. /\ Fences = freeFences \cup render.fence \cup InFlightFences \cup lost
        /\ freeFences \cap (render.fence \cup InFlightFences \cup lost) = {}
        /\ render.fence \cap (InFlightFences \cup lost) = {}
        /\ InFlightFences \cap lost = {}
        /\ \A f \in freeFences : gpu[f] = "idle"
    BY DEF PoolOK, FencePool
  <2>2. /\ freeFences' = freeFences \cup recycled /\ render' = render /\ lost' = lost
    BY DEF recycled
  <2>3. \A f \in freeFences' : gpu'[f] = "idle"
    BY <1>2, <2>1, <2>2 DEF recycled
  <2>4. /\ Fences = freeFences' \cup render'.fence \cup InFlightFences' \cup lost'
        /\ freeFences' \cap (render'.fence \cup InFlightFences' \cup lost') = {}
        /\ render'.fence \cap (InFlightFences' \cup lost') = {}
        /\ InFlightFences' \cap lost' = {}
    BY <1>2, <1>5, <2>1, <2>2
  <2> QED
    BY <1>6, <2>3, <2>4 DEF FencePool
<1>8. freeFences' \subseteq Fences /\ gpu' \in [Fences -> {"idle", "pending", "signaled"}]
  BY <1>2 DEF PoolOK, recycled
<1>9. inFlight' \subseteq Batch
  BY <1>1, <1>4
<1>10. \A f \in Fences : gpu[f] = "idle" => gpu'[f] = "idle"
  OBVIOUS
<1>11. render.pc = "building" => \A f \in render.fence : gpu'[f] = "idle"
  BY <1>10 DEF PoolOK, WorkOK, RenderState
<1> QED
  BY <1>7, <1>8, <1>9, <1>11 DEF PoolOK

LEMMA PollInv ==
    ASSUME IInv, NEW visited \in SUBSET inFlight, NEW halfReset \in SUBSET InFlightFences,
           PollBatches(visited, halfReset)
    PROVE  IInv'
<1> DEFINE done == {b \in visited : gpu[b.fence] = "signaled"}
           recycled == {b.fence : b \in done}
<1>1. /\ Publish(done)
      /\ freeFences' = freeFences \cup recycled
      /\ gpu' = [f \in Fences |-> IF f \in recycled \cup halfReset THEN "idle" ELSE gpu[f]]
      /\ inFlight' = {[b EXCEPT !.before = @ \ recycled] : b \in inFlight \ done}
      /\ fatal' = (visited # inFlight)
      /\ UNCHANGED <<handles, buildDatas, queued, collect, scheduler, render, producers, lost,
                     owner, nextOwner, issued, accepted>>
  BY DEF PollBatches, historyVars
<1>2. done \subseteq inFlight
  OBVIOUS
<1> HIDE DEF done
<1>3. SlotsOK'
  BY <1>1, <1>2, PickType, PublishKeeps DEF IInv, Publish
<1>4. PoolOK' /\ inFlight' \subseteq Batch
  BY <1>1, <1>2, RecycleKeepsPool DEF IInv
<1>5. WorkOK'
  BY <1>1, <1>4 DEF IInv, WorkOK
<1>6. FlagsOK' /\ HistoryOK'
  BY <1>1, HistoryKeep DEF IInv, FlagsOK
<1> QED
  BY <1>3, <1>4, <1>5, <1>6 DEF IInv

LEMMA SelectInv ==
    ASSUME IInv, NEW taken, Select(taken)
    PROVE  IInv'
<1> DEFINE kept == {s \in queued : ~Stale(s)}
<1>1. /\ render.pc = "idle" /\ taken \subseteq kept
      /\ queued' = kept \ taken
      /\ buildDatas' = [s \in Slots |-> IF s \in queued \ queued' THEN NoBuild ELSE buildDatas[s]]
      /\ UNCHANGED <<handles, chunks, packed, collect, scheduler, gpu, inFlight, producers,
                     fatal, lost, owner, nextOwner, issued, accepted>>
      /\ \/ UNCHANGED <<freeFences, render>>
         \/ \E f \in freeFences :
                /\ freeFences' = freeFences \ {f}
                /\ render' = [pc |-> "building", fence |-> {f},
                              builds |-> {buildDatas[s] : s \in taken}]
  BY DEF Select, RenderIdle, historyVars
<1>2. SlotsOK'
  <2>1. /\ buildDatas \in [Slots -> Build \cup {NoBuild}]
        /\ queued = {s \in Slots : buildDatas[s] # NoBuild} /\ queued' \subseteq queued
    BY <1>1 DEF IInv, SlotsOK
  <2>2. buildDatas' \in [Slots -> Build \cup {NoBuild}]
    BY <1>1, <2>1
  <2>3. queued' = {s \in Slots : buildDatas'[s] # NoBuild}
    BY <1>1, <2>1
  <2>4. \A s \in Slots : buildDatas[s] = NoBuild => buildDatas'[s] = NoBuild
    BY <1>1
  <2> QED
    BY <1>1, <2>2, <2>3, <2>4 DEF IInv, SlotsOK, Slots, PackedLightIsLive
<1>3. CASE UNCHANGED <<freeFences, render>>
  BY <1>1, <1>2, <1>3, WorkKeep, PoolKeep, HistoryKeep DEF IInv, FlagsOK
<1>4. CASE \E f \in freeFences :
               /\ freeFences' = freeFences \ {f}
               /\ render' = [pc |-> "building", fence |-> {f},
                             builds |-> {buildDatas[s] : s \in taken}]
  <2>1. PICK f \in freeFences :
            /\ freeFences' = freeFences \ {f}
            /\ render' = [pc |-> "building", fence |-> {f},
                          builds |-> {buildDatas[s] : s \in taken}]
    BY <1>4
  <2>2. f \in Fences /\ render.fence = {}
    BY <1>1 DEF IInv, PoolOK
  <2>3. {buildDatas[s] : s \in taken} \subseteq Build
    <3>1. \A s \in taken : s \in Slots /\ buildDatas[s] # NoBuild
      BY <1>1 DEF IInv, SlotsOK
    <3> QED
      BY <3>1 DEF IInv, SlotsOK
  <2>4. WorkOK'
    BY <1>1, <2>1, <2>2, <2>3 DEF IInv, WorkOK, RenderState
  <2>5. FencePool'
    BY <1>1, <2>1, <2>2 DEF IInv, PoolOK, FencePool, InFlightFences
  <2>6. PoolOK'
    <3>1. gpu[f] = "idle" /\ render'.fence = {f} /\ render'.pc = "building"
      BY <2>1 DEF IInv, PoolOK, FencePool
    <3> QED
      BY <1>1, <2>1, <2>5, <3>1 DEF IInv, PoolOK
  <2> QED
    BY <1>1, <1>2, <2>4, <2>6, HistoryKeep DEF IInv, FlagsOK
<1> QED
  BY <1>1, <1>3, <1>4

LEMMA PublishEmptyBatchInv ==
    ASSUME IInv, PublishEmptyBatch
    PROVE  IInv'
<1> DEFINE fit(s) == {d \in render.builds : d.slot = s /\ Publishable(d)}
           pick == [s \in Slots |-> LET ds == fit(s)
                                    IN  IF ds = {} THEN NoBuild ELSE CHOOSE d \in ds : TRUE]
<1>1. /\ render.pc = "building" /\ render' = NoBatch
      /\ chunks' = ChunksWith(pick) /\ packed' = PackedWith(pick)
      /\ freeFences' = freeFences \cup render.fence
      /\ UNCHANGED <<handles, buildDatas, queued, collect, scheduler, gpu, inFlight, producers,
                     fatal, lost, owner, nextOwner, issued, accepted>>
  BY DEF PublishEmptyBatch, historyVars
<1>2. pick \in [Slots -> Build \cup {NoBuild}]
  BY DEF IInv, WorkOK, RenderState
<1> HIDE DEF pick
<1>3. SlotsOK'
  BY <1>1, <1>2, PublishKeeps DEF IInv
<1>4. WorkOK'
  BY <1>1 DEF IInv, WorkOK, RenderState, NoBatch
<1>5. FencePool'
  BY <1>1 DEF IInv, PoolOK, FencePool, InFlightFences, NoBatch
<1>6. PoolOK'
  BY <1>1, <1>5 DEF IInv, PoolOK, NoBatch, WorkOK, RenderState
<1> QED
  BY <1>1, <1>3, <1>4, <1>6, HistoryKeep DEF IInv, FlagsOK

LEMMA SubmitInv ==
    ASSUME IInv, Submit
    PROVE  IInv'
<1>1. /\ render.pc = "building" /\ render' = [render EXCEPT !.pc = "submitted"]
      /\ gpu' = [f \in Fences |-> IF f \in render.fence THEN "pending" ELSE gpu[f]]
      /\ UNCHANGED <<handles, chunks, buildDatas, queued, packed, collect, scheduler, freeFences,
                     inFlight, producers, fatal, lost, owner, nextOwner, issued, accepted>>
  BY DEF Submit, slotVars, historyVars
<1>2. SlotsOK'
  BY <1>1, SlotsKeep DEF IInv
<1>3. render' = [pc |-> "submitted", fence |-> render.fence, builds |-> render.builds]
  BY <1>1 DEF IInv, WorkOK, RenderState
<1>4. WorkOK'
  BY <1>1, <1>3 DEF IInv, WorkOK, RenderState
<1>5. FencePool'
  <2>1. \A f \in freeFences : gpu'[f] = "idle"
    BY <1>1 DEF IInv, PoolOK, FencePool
  <2> QED
    BY <1>1, <1>3, <2>1 DEF IInv, PoolOK, FencePool, InFlightFences
<1>6. gpu' \in [Fences -> {"idle", "pending", "signaled"}]
  BY <1>1 DEF IInv, PoolOK
<1>7. PoolOK'
  BY <1>1, <1>3, <1>5, <1>6 DEF IInv, PoolOK
<1> QED
  BY <1>1, <1>2, <1>4, <1>7, HistoryKeep DEF IInv, FlagsOK

LEMMA WithdrawnType ==
    ASSUME HistoryOK, NEW dropped, Withdrawn(dropped), UNCHANGED <<owner, nextOwner, issued>>
    PROVE  HistoryOK'
<1>1. -1 \in Versions
  BY BoundsAssumption DEF Versions
<1> QED
  BY <1>1 DEF HistoryOK, Withdrawn

LEMMA SubmitFailsInv ==
    ASSUME IInv, SubmitFails
    PROVE  IInv'
<1>1. /\ render.pc = "building" /\ render' = NoBatch /\ fatal' = TRUE
      /\ freeFences' = freeFences \cup render.fence /\ Withdrawn(render.builds)
      /\ UNCHANGED <<handles, chunks, buildDatas, queued, packed, collect, scheduler, gpu,
                     inFlight, producers, lost, owner, nextOwner, issued>>
  BY DEF SubmitFails, slotVars
<1>2. SlotsOK' /\ HistoryOK'
  BY <1>1, SlotsKeep, WithdrawnType DEF IInv
<1>3. WorkOK'
  BY <1>1 DEF IInv, WorkOK, RenderState, NoBatch
<1>4. FencePool'
  BY <1>1 DEF IInv, PoolOK, FencePool, InFlightFences, NoBatch
<1>5. PoolOK'
  BY <1>1, <1>4 DEF IInv, PoolOK, NoBatch, WorkOK, RenderState
<1> QED
  BY <1>1, <1>2, <1>3, <1>5 DEF IInv, FlagsOK

LEMMA BuildThrowsInv ==
    ASSUME IInv, BuildThrows
    PROVE  IInv'
<1>1. /\ render.pc = "building" /\ render' = NoBatch /\ fatal' \in {fatal, TRUE}
      /\ lost' = lost \cup render.fence /\ Withdrawn(render.builds)
      /\ UNCHANGED <<handles, chunks, buildDatas, queued, packed, collect, scheduler, gpu,
                     freeFences, inFlight, producers, owner, nextOwner, issued>>
  BY DEF BuildThrows, slotVars
<1>2. SlotsOK' /\ HistoryOK'
  BY <1>1, SlotsKeep, WithdrawnType DEF IInv
<1>3. WorkOK'
  BY <1>1 DEF IInv, WorkOK, RenderState, NoBatch
<1>4. FencePool'
  BY <1>1 DEF IInv, PoolOK, FencePool, InFlightFences, NoBatch
<1>5. PoolOK'
  BY <1>1, <1>4 DEF IInv, PoolOK, NoBatch, WorkOK, RenderState
<1> QED
  BY <1>1, <1>2, <1>3, <1>5 DEF IInv, FlagsOK

LEMMA RecordInFlightInv ==
    ASSUME IInv, RecordInFlight
    PROVE  IInv'
<1>1. /\ render.pc = "submitted" /\ render' = NoBatch
      /\ UNCHANGED <<handles, chunks, buildDatas, queued, packed, collect, scheduler, freeFences,
                     gpu, producers, fatal, lost, owner, nextOwner, issued, accepted>>
  BY DEF RecordInFlight, slotVars, historyVars
<1>2. PICK f \in render.fence :
          inFlight' = inFlight \cup
                          {[fence |-> f, before |-> InFlightFences, builds |-> render.builds]}
  BY DEF RecordInFlight
<1> DEFINE new == [fence |-> f, before |-> InFlightFences, builds |-> render.builds]
<1>3. f \in Fences /\ InFlightFences \subseteq Fences /\ new \in Batch /\ new.fence = f
  BY DEF IInv, WorkOK, RenderState, Batch, InFlightFences
<1>4. render.fence = {f}
  BY DEF IInv, PoolOK
<1> HIDE DEF new
<1>5. InFlightFences' = InFlightFences \cup {f}
  BY <1>2, <1>3 DEF InFlightFences, new
<1>6. WorkOK'
  BY <1>1, <1>2, <1>3 DEF IInv, WorkOK, RenderState, NoBatch, new
<1>7. \A b, c \in inFlight' : b.fence = c.fence => b = c
  <2>1. \A b \in inFlight : b.fence \in InFlightFences
    BY DEF InFlightFences
  <2>2. f \notin InFlightFences
    BY <1>4 DEF IInv, PoolOK, FencePool
  <2> QED
    BY <1>2, <1>3, <2>1, <2>2 DEF IInv, PoolOK, FencePool, new
<1>8. FencePool'
  BY <1>1, <1>4, <1>5, <1>7 DEF IInv, PoolOK, FencePool, NoBatch
<1>9. PoolOK'
  BY <1>1, <1>8 DEF IInv, PoolOK, NoBatch
<1> QED
  BY <1>1, <1>6, <1>9, SlotsKeep, HistoryKeep DEF IInv, FlagsOK

LEMMA SignalInv ==
    ASSUME IInv, NEW f \in Fences, Signal(f)
    PROVE  IInv'
<1>1. /\ gpu[f] = "pending" /\ gpu' = [gpu EXCEPT ![f] = "signaled"]
      /\ UNCHANGED <<handles, chunks, buildDatas, queued, packed, collect, scheduler, freeFences,
                     inFlight, render, producers, fatal, lost, owner, nextOwner, issued, accepted>>
  BY DEF Signal, slotVars, historyVars
<1>2. \A g \in Fences : gpu[g] = "idle" => gpu'[g] = "idle"
  BY <1>1 DEF IInv, PoolOK
<1>3. FencePool'
  BY <1>1, <1>2 DEF IInv, PoolOK, FencePool, InFlightFences
<1>4. PoolOK'
  BY <1>1, <1>2, <1>3 DEF IInv, PoolOK, WorkOK, RenderState
<1> QED
  BY <1>1, <1>4, SlotsKeep, WorkKeep, HistoryKeep DEF IInv, FlagsOK

LEMMA RecycleAllKeepsPool ==
    ASSUME PoolOK, freeFences' = Fences, lost' = {}, inFlight' = {},
           gpu' = [f \in Fences |-> "idle"],
           render'.fence = {}, render'.builds = {}, render'.pc = "idle"
    PROVE  PoolOK'
BY DEF PoolOK, FencePool, InFlightFences

LEMMA ResetSchedulerInv ==
    ASSUME IInv, ResetScheduler
    PROVE  IInv'
<1>1. /\ render.pc = "idle" /\ Publish(inFlight)
      /\ freeFences' = Fences /\ gpu' = [f \in Fences |-> "idle"]
      /\ inFlight' = {} /\ lost' = {}
      /\ UNCHANGED <<handles, buildDatas, queued, collect, scheduler, render, producers, fatal,
                     owner, nextOwner, issued, accepted>>
  BY DEF ResetScheduler, RenderIdle, historyVars
<1>2. SlotsOK'
  BY <1>1, PickType, PublishKeeps DEF IInv, Publish
<1>3. WorkOK'
  BY <1>1 DEF IInv, WorkOK
<1>4. PoolOK'
  BY <1>1, RecycleAllKeepsPool DEF IInv, PoolOK
<1> QED
  BY <1>1, <1>2, <1>3, <1>4, HistoryKeep DEF IInv, FlagsOK

\* A switch to on finds no lights, hence no stale address.
LEMMA SetCollectOptionInv ==
    ASSUME IInv, DarkOK, SetCollectOption
    PROVE  IInv'
<1>1. /\ render.pc = "idle" /\ collect' \in EmissionSettings /\ render' = [NoBatch EXCEPT !.pc = "collect"]
      /\ UNCHANGED <<handles, chunks, buildDatas, queued, packed, scheduler, freeFences,
                     gpu, inFlight, lost, producers, fatal, owner, nextOwner, issued, accepted>>
  BY DEF SetCollectOption, RenderIdle, slotVars, poolVars, historyVars
<1>2. render' = [pc |-> "collect", fence |-> {}, builds |-> {}] /\ render.fence = {}
  BY <1>1 DEF NoBatch, IInv, PoolOK
<1>3. WorkOK'
  <2>1. render' \in RenderState
    BY <1>2 DEF RenderState
  <2> QED
    BY <1>1, <2>1 DEF IInv, WorkOK
<1>4. PoolOK'
  BY <1>1, <1>2 DEF IInv, PoolOK, FencePool, InFlightFences
<1>5. collect' \in BOOLEAN
  BY <1>1, EmissionAssumption
<1>6. collect' => ~collect /\ ~fatal
  BY <1>5 DEF SetCollectOption, IInv, FlagsOK
<1>7. SlotsOK'
  <2>1. collect' => \A s \in Slots : packed[s] = LightOf(chunks[s].mesh)
    BY <1>1, <1>6 DEF DarkOK, AllDark
  <2> QED
    BY <1>1, <2>1 DEF IInv, SlotsOK, Slots, PackedLightIsLive
<1> QED
  BY <1>1, <1>3, <1>4, <1>5, <1>7, HistoryKeep DEF IInv, FlagsOK

LEMMA AbandonCollectInv ==
    ASSUME IInv, AbandonCollect
    PROVE  IInv'
<1>1. /\ render.pc = "collect" /\ render' = NoBatch
      /\ UNCHANGED <<handles, chunks, buildDatas, queued, packed, collect, scheduler, freeFences,
                     gpu, inFlight, lost, producers, fatal, owner, nextOwner, issued, accepted>>
  BY DEF AbandonCollect, slotVars, poolVars, historyVars
<1>2. render.fence = {}
  BY <1>1 DEF IInv, PoolOK
<1>3. WorkOK'
  BY <1>1 DEF IInv, WorkOK, RenderState, NoBatch
<1>4. PoolOK'
  BY <1>1, <1>2 DEF IInv, PoolOK, FencePool, InFlightFences, NoBatch
<1> QED
  BY <1>1, <1>3, <1>4, SlotsKeep, HistoryKeep DEF IInv, FlagsOK

\* What setCollectChunkEmission does besides relighting: it waits for the batches in
\* flight, keeps what is queued queued, and gives every fence back.
LEMMA CollectKeepsRest ==
    ASSUME IInv, render.pc = "collect", render' = NoBatch,
           freeFences' = freeFences \cup InFlightFences,
           gpu' = [f \in Fences |-> IF f \in InFlightFences THEN "idle" ELSE gpu[f]],
           inFlight' = {},
           UNCHANGED <<handles, queued, collect, scheduler, producers, fatal, lost,
                       owner, nextOwner, issued, accepted>>,
           chunks' \in [Slots -> ChunkState],
           packed' \in [Slots -> Build \cup {NoBuild}],
           collect => \A s \in Slots : packed'[s] = LightOf(chunks'[s].mesh),
           buildDatas' \in [Slots -> Build \cup {NoBuild}],
           \A s \in Slots : buildDatas'[s] = NoBuild <=> buildDatas[s] = NoBuild
    PROVE  IInv'
<1>1. Slots' = Slots /\ render.fence = {} /\ InFlightFences \subseteq Fences
  BY DEF Slots, IInv, PoolOK, WorkOK, Batch, InFlightFences
<1>2. SlotsOK'
  <2>1. queued' = {s \in Slots : buildDatas'[s] # NoBuild}
    BY DEF IInv, SlotsOK
  <2> QED
    BY <1>1, <2>1 DEF IInv, SlotsOK, PackedLightIsLive
<1>3. WorkOK'
  BY DEF IInv, WorkOK, NoBatch, RenderState
<1>4. InFlightFences' = {}
  BY DEF InFlightFences
<1>5. FencePool'
  <2>1. \A f \in freeFences' : gpu'[f] = "idle"
    BY <1>1 DEF IInv, PoolOK, FencePool
  <2> QED
    BY <1>1, <1>4, <2>1 DEF IInv, PoolOK, FencePool, NoBatch
<1>6. PoolOK'
  BY <1>1, <1>5 DEF IInv, PoolOK, NoBatch
<1> QED
  BY <1>2, <1>3, <1>6, HistoryKeep DEF IInv, FlagsOK

\* Switching collection: the queue is relit or dimmed, and when it is switched off
\* every published mesh and every address is.
LEMMA SetCollectChunkEmissionInv ==
    ASSUME IInv, SetCollectChunkEmission
    PROVE  IInv'
<1> DEFINE published == [s \in Slots |-> FirstPublishable(inFlight, s)]
           relit(d) == IF d = NoBuild THEN d ELSE [d EXCEPT !.lit = collect /\ d.kind = "emissive"]
           shown == ChunksWith(published)
<1>1. /\ render.pc = "collect" /\ render' = NoBatch
      /\ buildDatas' = [s \in Slots |-> relit(buildDatas[s])]
      /\ freeFences' = freeFences \cup InFlightFences
      /\ gpu' = [f \in Fences |-> IF f \in InFlightFences THEN "idle" ELSE gpu[f]]
      /\ inFlight' = {}
      /\ UNCHANGED <<handles, queued, collect, scheduler, producers, fatal, lost,
                     owner, nextOwner, issued, accepted>>
      /\ \/ Publish(inFlight)
         \/ /\ chunks' = [s \in Slots |-> [shown[s] EXCEPT !.mesh = Dimmed(@)]]
            /\ packed' = [s \in Slots |-> NoBuild]
  BY DEF SetCollectChunkEmission, historyVars
<1>2. published \in [Slots -> Build \cup {NoBuild}]
  BY PickType DEF IInv
<1>3. SlotsOK /\ collect \in BOOLEAN /\ Slots' = Slots
  BY <1>1 DEF IInv, FlagsOK, Slots
<1>4. /\ buildDatas' \in [Slots -> Build \cup {NoBuild}]
      /\ \A s \in Slots : buildDatas'[s] = NoBuild <=> buildDatas[s] = NoBuild
  <2>1. ASSUME NEW d \in Build PROVE relit(d) \in Build /\ relit(d) # NoBuild
    BY <1>3, <2>1, NoBuildAssumption DEF Build
  <2>2. \A s \in Slots : buildDatas[s] \in Build \cup {NoBuild}
    BY <1>3 DEF SlotsOK
  <2>3. relit(NoBuild) = NoBuild
    OBVIOUS
  <2> HIDE DEF relit
  <2> QED
    BY <1>1, <2>1, <2>2, <2>3, NoBuildAssumption
<1> HIDE DEF published, relit
<1>5. CASE Publish(inFlight)
  <2>1. chunks' = ChunksWith(published) /\ packed' = PackedWith(published)
    BY <1>5 DEF Publish, published
  <2>2. /\ chunks' \in [Slots -> ChunkState]
        /\ packed' \in [Slots -> Build \cup {NoBuild}]
        /\ collect => \A s \in Slots : packed'[s] = LightOf(chunks'[s].mesh)
    BY <1>2, <1>3, <2>1, PublishedSlots
  <2> QED
    BY <1>1, <1>3, <1>4, <2>2, CollectKeepsRest DEF IInv
<1>6. CASE /\ chunks' = [s \in Slots |-> [shown[s] EXCEPT !.mesh = Dimmed(@)]]
           /\ packed' = [s \in Slots |-> NoBuild]
  <2>1. shown \in [Slots -> ChunkState]
    BY <1>2, <1>3, PublishedSlots
  <2> HIDE DEF shown
  <2>2. ASSUME NEW m \in Build \cup {NoBuild}
        PROVE  Dimmed(m) \in Build \cup {NoBuild} /\ LightOf(Dimmed(m)) = NoBuild
    BY DEF Dimmed, LightOf, Build
  <2>3. \A s \in Slots : /\ [shown[s] EXCEPT !.mesh = Dimmed(@)] \in ChunkState
                         /\ [shown[s] EXCEPT !.mesh = Dimmed(@)].mesh = Dimmed(shown[s].mesh)
                         /\ shown[s].mesh \in Build \cup {NoBuild}
    BY <2>1, <2>2 DEF ChunkState
  <2>4. chunks' \in [Slots -> ChunkState]
    BY <1>6, <2>3
  <2>5. \A s \in Slots : LightOf(chunks'[s].mesh) = NoBuild
    BY <1>6, <2>2, <2>3
  <2>6. /\ packed' \in [Slots -> Build \cup {NoBuild}]
        /\ \A s \in Slots : packed'[s] = LightOf(chunks'[s].mesh)
    BY <1>6, <2>5
  <2> QED
    BY <1>1, <1>3, <1>4, <2>4, <2>6, CollectKeepsRest DEF IInv
<1> QED
  BY <1>1, <1>5, <1>6

LEMMA EmptyStorageInv ==
    ASSUME IInv, NEW n \in Nat, render.pc = "idle", EmptyStorage(n), WorkersStopped,
           UNCHANGED <<collect, render, fatal>>,
           scheduler' \in BOOLEAN, owner' \in [SlotIds -> Nat], nextOwner' \in Nat
    PROVE  IInv'
<1>1. /\ handles' = ResetTable(n)
      /\ chunks' = [s \in 0 .. n - 1 |-> FreshChunk]
      /\ buildDatas' = [s \in 0 .. n - 1 |-> NoBuild]
      /\ packed' = [s \in 0 .. n - 1 |-> NoBuild]
      /\ queued' = {} /\ freeFences' = Fences /\ gpu' = [f \in Fences |-> "idle"]
      /\ inFlight' = {} /\ lost' = {}
      /\ issued' = [s \in SlotIds |-> -1] /\ accepted' = [s \in SlotIds |-> -1]
      /\ producers' = [p \in Producers |-> IdleProducer]
  BY DEF EmptyStorage, WorkersStopped
<1>2. WellFormed(handles') /\ Slots' = 0 .. n - 1
  BY <1>1, ResetWellFormed DEF Slots, StorageSlots, ResetTable
<1>3. /\ chunks' \in [Slots' -> ChunkState]
      /\ buildDatas' \in [Slots' -> Build \cup {NoBuild}]
      /\ \A s \in Slots' : buildDatas'[s] = NoBuild
  BY <1>1, <1>2, FreshChunkType
<1>4. /\ packed' \in [Slots' -> Build \cup {NoBuild}]
      /\ \A s \in Slots' : packed'[s] = LightOf(chunks'[s].mesh)
  BY <1>1, <1>2, FreshChunkType
<1>5. SlotsOK'
  BY <1>1, <1>2, <1>3, <1>4 DEF SlotsOK, PackedLightIsLive
<1>6. WorkOK'
  BY <1>1 DEF IInv, WorkOK, ProducerState, IdleProducer
<1>7. PoolOK'
  BY <1>1, RecycleAllKeepsPool DEF IInv, PoolOK
<1>8. HistoryOK'
  BY <1>1, BoundsAssumption DEF HistoryOK, Versions
<1> QED
  BY <1>5, <1>6, <1>7, <1>8 DEF IInv, FlagsOK

LEMMA ResetInv ==
    ASSUME IInv, NEW n \in PrimaryCounts, Reset(n)
    PROVE  IInv'
<1>1. n \in Nat /\ nextOwner \in Nat
  BY SlotsAssumption DEF IInv, HistoryOK
<1>2. /\ owner' = [s \in SlotIds |-> IF s < n THEN nextOwner + s ELSE 0]
      /\ nextOwner' = nextOwner + n /\ scheduler' = TRUE
  BY DEF Reset
<1>3. owner' \in [SlotIds -> Nat] /\ nextOwner' \in Nat
  BY <1>1, <1>2, SlotsAssumption DEF SlotIds
<1> QED
  BY <1>1, <1>2, <1>3, EmptyStorageInv DEF Reset, RenderIdle

LEMMA ReleaseSceneInv ==
    ASSUME IInv, ReleaseScene
    PROVE  IInv'
<1>1. owner' = [s \in SlotIds |-> 0] /\ nextOwner' = nextOwner /\ scheduler' = FALSE
  BY DEF ReleaseScene
<1>2. owner' \in [SlotIds -> Nat] /\ nextOwner' \in Nat
  BY <1>1 DEF IInv, HistoryOK
<1> QED
  BY <1>1, <1>2, EmptyStorageInv DEF ReleaseScene, RenderIdle

LEMMA FailInv ==
    ASSUME IInv, Fail
    PROVE  IInv'
<1>1. /\ fatal' = TRUE
      /\ UNCHANGED <<handles, chunks, buildDatas, queued, packed, collect, scheduler, freeFences,
                     gpu, inFlight, lost, render, producers, owner, nextOwner, issued, accepted>>
  BY DEF Fail, slotVars, poolVars, historyVars
<1> QED
  BY <1>1, SlotsKeep, WorkKeep, PoolKeep, HistoryKeep DEF IInv, FlagsOK

-----------------------------------------------------------------------------
(* The game                                                                *)

\* What a slot's chunk record becomes keeps its type and, dirty, its mesh.
LEMMA ChunkTypes ==
    ASSUME NEW c \in ChunkState, NEW g \in Int
    PROVE  /\ MarkedDirty(c, g) \in ChunkState /\ MarkedDirty(c, g).mesh = c.mesh
           /\ Invalidated(c, g) \in ChunkState /\ Invalidated(c, g).mesh = NoBuild
<1>1. c.latest \in Nat /\ c.desired \in Int
  BY DEF ChunkState
<1>2. \A a, b \in Int : MaxOf(a, b) \in Int
  BY DEF MaxOf
<1>3. g >= 0 => MaxOf(c.latest, g + 1) \in Nat
  BY <1>1 DEF MaxOf
<1>4. MarkedDirty(c, g) \in ChunkState /\ MarkedDirty(c, g).mesh = c.mesh
  BY <1>1, <1>2, <1>3 DEF MarkedDirty, ChunkState
<1>5. Invalidated(c, g) \in ChunkState /\ Invalidated(c, g).mesh = NoBuild
  BY <1>1, <1>4 DEF Invalidated, ChunkState
<1> QED
  BY <1>4, <1>5

LEMMA NewGenerationType ==
    ASSUME HistoryOK, NEW s \in SlotIds, NewGeneration(s) <= MaxVersion
    PROVE  NewGeneration(s) \in Versions /\ NewGeneration(s) \in Int
BY BoundsAssumption DEF HistoryOK, NewGeneration, Versions

\* One slot's entries change together: its chunk, its build and its address.
LEMMA OneSlotKeeps ==
    ASSUME SlotsOK, NEW s \in Slots, NEW c \in ChunkState, NEW d \in Build \cup {NoBuild},
           NEW light \in Build \cup {NoBuild}, collect => light = LightOf(c.mesh),
           chunks' = [chunks EXCEPT ![s] = c],
           buildDatas' = [buildDatas EXCEPT ![s] = d],
           packed' = [packed EXCEPT ![s] = light],
           queued' = IF d = NoBuild THEN queued \ {s} ELSE queued \cup {s},
           handles' = handles, collect' = collect,
           d = NoBuild \/ handles.active[s] \/ s < handles.primary
    PROVE  SlotsOK'
<1>1. Slots' = Slots
  BY DEF Slots
<1>2. chunks' \in [Slots -> ChunkState] /\ buildDatas' \in [Slots -> Build \cup {NoBuild}]
  BY DEF SlotsOK
<1>3. /\ \A k \in Slots : k # s => chunks'[k] = chunks[k] /\ buildDatas'[k] = buildDatas[k]
      /\ chunks'[s] = c /\ buildDatas'[s] = d
  BY DEF SlotsOK
<1>4. /\ packed' \in [Slots -> Build \cup {NoBuild}]
      /\ collect => \A k \in Slots : packed'[k] = LightOf(chunks'[k].mesh)
  BY <1>3 DEF SlotsOK, PackedLightIsLive
<1>5. queued' = {k \in Slots : buildDatas'[k] # NoBuild}
  BY <1>3 DEF SlotsOK
<1>6. handles.primary \in Nat /\ s \in Nat
  BY SlotsType
<1>7. \A k \in Slots : k >= handles.primary /\ ~handles.active[k] => buildDatas'[k] = NoBuild
  BY <1>3, <1>6 DEF SlotsOK
<1> QED
  BY <1>1, <1>2, <1>4, <1>5, <1>7 DEF SlotsOK, PackedLightIsLive

LEMMA MarkChunkDirtyInv ==
    ASSUME IInv, NEW s \in SlotIds, MarkChunkDirty(s)
    PROVE  IInv'
<1> DEFINE g == NewGeneration(s)
           stale == buildDatas[s] # NoBuild /\ buildDatas[s].version < g
           c == MarkedDirty(chunks[s], g)
           d == IF stale THEN NoBuild ELSE buildDatas[s]
<1>1. /\ s \in Slots /\ g <= MaxVersion /\ Resolves(handles, HandleOf(s))
      /\ chunks' = [chunks EXCEPT ![s] = c]
      /\ buildDatas' = [buildDatas EXCEPT ![s] = d]
      /\ queued' = IF stale THEN queued \ {s} ELSE queued
      /\ issued' = [issued EXCEPT ![s] = g] /\ accepted' = [accepted EXCEPT ![s] = -1]
      /\ UNCHANGED <<handles, packed, collect, scheduler, freeFences, gpu, inFlight, lost, render,
                     producers, fatal, owner, nextOwner>>
  BY DEF MarkChunkDirty, Callable, poolVars
<1>2. g \in Versions /\ g \in Int
  BY <1>1, NewGenerationType DEF IInv
<1>3. /\ chunks[s] \in ChunkState /\ buildDatas[s] \in Build \cup {NoBuild}
      /\ packed[s] \in Build \cup {NoBuild} /\ (collect => packed[s] = LightOf(chunks[s].mesh))
      /\ s \in queued <=> buildDatas[s] # NoBuild
  BY <1>1 DEF IInv, SlotsOK, PackedLightIsLive
<1>4. c \in ChunkState /\ c.mesh = chunks[s].mesh
  BY <1>2, <1>3, ChunkTypes
<1> HIDE DEF c, g
<1>5. SlotsOK'
  <2>1. packed' = [packed EXCEPT ![s] = packed[s]] /\ (collect => packed[s] = LightOf(c.mesh))
    <3>1. packed = [k \in Slots |-> packed[k]]
      BY DEF IInv, SlotsOK
    <3> QED
      BY <1>1, <1>3, <1>4, <3>1
  <2>2. queued' = IF d = NoBuild THEN queued \ {s} ELSE queued \cup {s}
    BY <1>1, <1>3
  <2>3. d \in Build \cup {NoBuild}
    BY <1>3
  <2>4. d = NoBuild \/ handles.active[s] \/ s < handles.primary
    <3>1. handles.primary \in Nat /\ s \in Nat
      BY <1>1, SlotsType DEF IInv
    <3> QED
      BY <1>1, <3>1 DEF IInv, SlotsOK
  <2> HIDE DEF d
  <2> QED
    BY <1>1, <1>3, <1>4, <2>1, <2>2, <2>3, <2>4, OneSlotKeeps DEF IInv
<1>6. HistoryOK'
  BY <1>1, <1>2, BoundsAssumption DEF IInv, HistoryOK, Versions
<1> QED
  BY <1>1, <1>5, <1>6, WorkKeep, PoolKeep DEF IInv, FlagsOK

LEMMA WithdrawKeeps ==
    ASSUME SlotsOK, NEW s \in Slots, NEW g \in Int, Withdraw(s, g),
           packed' = [packed EXCEPT ![s] = StoredPacked(s, NoBuild)],
           UNCHANGED <<handles, collect>>
    PROVE  SlotsOK'
<1> DEFINE c == Invalidated(chunks[s], g)
           light == StoredPacked(s, NoBuild)
<1>1. /\ chunks' = [chunks EXCEPT ![s] = c]
      /\ buildDatas' = [buildDatas EXCEPT ![s] = NoBuild]
      /\ queued' = queued \ {s} /\ packed' = [packed EXCEPT ![s] = light]
  BY DEF Withdraw
<1>2. c \in ChunkState /\ c.mesh = NoBuild
  BY ChunkTypes DEF SlotsOK
<1>3. light \in Build \cup {NoBuild} /\ (collect => light = LightOf(c.mesh))
  BY <1>2, LightType DEF StoredPacked, SlotsOK
<1> HIDE DEF c, light
<1> QED
  BY <1>1, <1>2, <1>3, OneSlotKeeps

LEMMA InvalidateChunkInv ==
    ASSUME IInv, NEW s \in SlotIds, InvalidateChunk(s)
    PROVE  IInv'
<1> DEFINE g == NewGeneration(s)
<1>1. /\ s \in Slots /\ g <= MaxVersion /\ Withdraw(s, g) /\ issued' = [issued EXCEPT ![s] = g]
      /\ packed' = [packed EXCEPT ![s] = StoredPacked(s, NoBuild)]
      /\ UNCHANGED <<handles, collect, scheduler, freeFences, gpu, inFlight, lost, render,
                     producers, fatal, owner, nextOwner>>
  BY DEF InvalidateChunk, Callable, poolVars
<1>2. g \in Versions /\ g \in Int
  BY <1>1, NewGenerationType DEF IInv
<1>3. HistoryOK'
  BY <1>1, <1>2, BoundsAssumption DEF IInv, HistoryOK, Versions, Withdraw
<1> QED
  BY <1>1, <1>2, <1>3, WithdrawKeeps, WorkKeep, PoolKeep DEF IInv, FlagsOK

LEMMA RelocateChunkInv ==
    ASSUME IInv, NEW s \in SlotIds, RelocateChunk(s)
    PROVE  IInv'
<1> DEFINE g == NewGeneration(s)
<1>1. /\ s \in Slots /\ g <= MaxVersion /\ Withdraw(s, g) /\ issued' = [issued EXCEPT ![s] = g]
      /\ packed' = [packed EXCEPT ![s] = StoredPacked(s, NoBuild)]
      /\ owner' = [owner EXCEPT ![s] = nextOwner] /\ nextOwner' = nextOwner + 1
      /\ UNCHANGED <<handles, collect, scheduler, freeFences, gpu, inFlight, lost, render,
                     producers, fatal>>
  BY DEF RelocateChunk, Callable, poolVars
<1>2. g \in Versions /\ g \in Int
  BY <1>1, NewGenerationType DEF IInv
<1>3. HistoryOK'
  BY <1>1, <1>2, BoundsAssumption DEF IInv, HistoryOK, Versions, Withdraw
<1> QED
  BY <1>1, <1>2, <1>3, WithdrawKeeps, WorkKeep, PoolKeep DEF IInv, FlagsOK

\* A slot taken into use starts empty; it was not queued, being released or new.
LEMMA AllocateExternalChunkInv ==
    ASSUME IInv, AllocateExternalChunk
    PROVE  IInv'
<1> DEFINE s == AllocatedSlot(handles, handles.size)
           put(f, v) == [k \in 0 .. handles'.size - 1 |-> IF k = s THEN v ELSE f[k]]
<1>1. /\ handles' = Allocate(handles, handles.size)
      /\ chunks' = put(chunks, FreshChunk) /\ buildDatas' = put(buildDatas, NoBuild)
      /\ packed' = put(packed, NoBuild)
      /\ owner' = [owner EXCEPT ![s] = nextOwner] /\ nextOwner' = nextOwner + 1
      /\ issued' = [issued EXCEPT ![s] = -1]
      /\ UNCHANGED <<queued, collect, scheduler, freeFences, gpu, inFlight, lost, render,
                     producers, fatal, accepted>>
  BY DEF AllocateExternalChunk, poolVars
<1>2. /\ WellFormed(handles')
      /\ handles'.primary = handles.primary /\ handles'.size >= handles.size
      /\ s \in handles.primary .. handles'.size - 1
      /\ s < handles.size => ~handles.active[s]
      /\ \A k \in 0 .. handles'.size - 1 : k # s => k < handles.size
      /\ handles'.active[s]
      /\ \A k \in 0 .. handles.size - 1 : k # s => handles'.active[k] = handles.active[k]
  BY <1>1, AllocateWellFormed DEF IInv, SlotsOK
<1>3. /\ handles.size \in Nat /\ handles.primary \in 0 .. handles.size /\ handles'.size \in Nat
      /\ Slots = 0 .. handles.size - 1 /\ Slots' = 0 .. handles'.size - 1
  BY <1>2, SlotsType, TableFields DEF IInv, IsTable, Slots, StorageSlots
<1> HIDE DEF s
<1>4. /\ Slots \subseteq Slots' /\ s \in Slots' /\ s \in Int
      /\ \A k \in Slots' : k # s => k \in Slots
      /\ s \in Slots => buildDatas[s] = NoBuild
  BY <1>2, <1>3 DEF IInv, SlotsOK
<1>5. /\ chunks \in [Slots -> ChunkState] /\ buildDatas \in [Slots -> Build \cup {NoBuild}]
      /\ packed \in [Slots -> Build \cup {NoBuild}]
      /\ collect => \A k \in Slots : packed[k] = LightOf(chunks[k].mesh)
      /\ queued = {k \in Slots : buildDatas[k] # NoBuild}
  BY DEF IInv, SlotsOK, PackedLightIsLive
<1>6. /\ chunks' \in [Slots' -> ChunkState] /\ buildDatas' \in [Slots' -> Build \cup {NoBuild}]
      /\ chunks'[s] = FreshChunk /\ buildDatas'[s] = NoBuild
      /\ \A k \in Slots' : k # s => chunks'[k] = chunks[k] /\ buildDatas'[k] = buildDatas[k]
                                  /\ packed'[k] = packed[k]
  BY <1>1, <1>3, <1>4, <1>5, FreshChunkType
<1>7. /\ packed' \in [Slots' -> Build \cup {NoBuild}]
      /\ collect => \A k \in Slots' : packed'[k] = LightOf(chunks'[k].mesh)
  <2>1. ASSUME collect, NEW k \in Slots' PROVE packed'[k] = LightOf(chunks'[k].mesh)
    <3>1. CASE k = s
      BY <1>1, <1>3, <1>6, <3>1, FreshChunkType
    <3>2. CASE k # s
      BY <1>4, <1>5, <1>6, <2>1, <3>2
    <3> QED
      BY <3>1, <3>2
  <2>2. packed' \in [Slots' -> Build \cup {NoBuild}]
    BY <1>1, <1>3, <1>4, <1>5
  <2> QED
    BY <2>1, <2>2
<1>8. queued' = {k \in Slots' : buildDatas'[k] # NoBuild}
  BY <1>1, <1>4, <1>5, <1>6
<1>9. ASSUME NEW k \in Slots', k >= handles'.primary, ~handles'.active[k]
      PROVE  buildDatas'[k] = NoBuild
  <2>1. k # s
    BY <1>2, <1>9
  <2>2. k \in Slots /\ ~handles.active[k] /\ k >= handles.primary
    BY <1>2, <1>3, <1>4, <1>9, <2>1
  <2>3. buildDatas[k] = NoBuild
    BY <2>2 DEF IInv, SlotsOK
  <2> QED
    BY <1>6, <1>9, <2>1, <2>3
<1>10. SlotsOK'
  BY <1>1, <1>2, <1>6, <1>7, <1>8, <1>9 DEF SlotsOK, PackedLightIsLive
<1>11. HistoryOK'
  <2>1. -1 \in Versions
    BY BoundsAssumption DEF Versions
  <2>2. /\ owner' = [owner EXCEPT ![s] = nextOwner] /\ nextOwner' = nextOwner + 1
        /\ issued' = [issued EXCEPT ![s] = -1] /\ accepted' = accepted
    BY <1>1
  <2>3. /\ owner \in [SlotIds -> Nat] /\ nextOwner \in Nat
        /\ issued \in [SlotIds -> Versions] /\ accepted \in [SlotIds -> Versions]
    BY DEF IInv, HistoryOK
  <2>4. owner' \in [SlotIds -> Nat]
    BY <2>2, <2>3
  <2>5. nextOwner' \in Nat
    BY <2>2, <2>3
  <2>6. issued' \in [SlotIds -> Versions]
    BY <2>1, <2>2, <2>3
  <2>7. accepted' \in [SlotIds -> Versions]
    BY <2>2, <2>3
  <2> QED
    BY <2>4, <2>5, <2>6, <2>7 DEF HistoryOK
<1> QED
  BY <1>1, <1>10, <1>11, WorkKeep, PoolKeep DEF IInv, FlagsOK

\* A handle of a slot is a handle, and one that resolves is released as such.
LEMMA HandleOfType ==
    ASSUME SlotsOK, NEW s \in Slots
    PROVE  HandleOf(s) \in Handle /\ HandleOf(s).slot = s
<1>1. s \in Nat /\ handles.gen[s] \in Nat
  BY SlotsType, MaxGenAssumption
<1> QED
  BY <1>1 DEF HandleOf, Encode, Handle

LEMMA ReleaseExternalChunkInv ==
    ASSUME IInv, NEW s \in SlotIds, ReleaseExternalChunk(s)
    PROVE  IInv'
<1>1. /\ s \in Slots /\ CanRelease(handles, HandleOf(s)) /\ Withdraw(s, -1)
      /\ packed' = [packed EXCEPT ![s] = NoBuild] /\ handles' = Release(handles, HandleOf(s))
      /\ owner' = [owner EXCEPT ![s] = 0]
      /\ UNCHANGED <<collect, scheduler, freeFences, gpu, inFlight, lost, render,
                     producers, fatal, nextOwner, issued>>
  BY DEF ReleaseExternalChunk, Callable, poolVars
<1>2. HandleOf(s) \in Handle /\ HandleOf(s).slot = s
  BY <1>1, HandleOfType DEF IInv
<1>3. /\ WellFormed(handles') /\ handles'.primary = handles.primary
      /\ handles'.size = handles.size
      /\ handles'.active = [handles.active EXCEPT ![s] = FALSE]
  <2>1. WellFormed(handles) /\ HandleOf(s) \in Handle /\ CanRelease(handles, HandleOf(s))
    BY <1>1, <1>2 DEF IInv, SlotsOK
  <2> DEFINE h == HandleOf(s)
             u == Release(handles, h)
  <2>2. /\ WellFormed(u) /\ u.primary = handles.primary /\ u.size = handles.size
        /\ u.active = [handles.active EXCEPT ![h.slot] = FALSE]
    BY <2>1, ReleaseWellFormed
  <2> QED
    BY <1>1, <1>2, <2>2
<1> DEFINE c == Invalidated(chunks[s], -1)
<1>4. /\ chunks' = [chunks EXCEPT ![s] = c]
      /\ buildDatas' = [buildDatas EXCEPT ![s] = NoBuild]
      /\ queued' = queued \ {s} /\ packed' = [packed EXCEPT ![s] = NoBuild]
      /\ accepted' = [accepted EXCEPT ![s] = -1]
  BY <1>1 DEF Withdraw
<1>5. c \in ChunkState /\ c.mesh = NoBuild /\ LightOf(c.mesh) = NoBuild
  BY <1>1, ChunkTypes, LightType DEF IInv, SlotsOK
<1>6. Slots' = Slots
  BY <1>3 DEF Slots, StorageSlots
<1> HIDE DEF c
<1>7. /\ chunks' \in [Slots -> ChunkState] /\ buildDatas' \in [Slots -> Build \cup {NoBuild}]
      /\ \A k \in Slots : k # s => chunks'[k] = chunks[k] /\ buildDatas'[k] = buildDatas[k]
      /\ chunks'[s] = c /\ buildDatas'[s] = NoBuild
  BY <1>1, <1>4, <1>5 DEF IInv, SlotsOK
<1>8. /\ packed' \in [Slots -> Build \cup {NoBuild}]
      /\ collect => \A k \in Slots : packed'[k] = LightOf(chunks'[k].mesh)
  BY <1>4, <1>5, <1>7 DEF IInv, SlotsOK, PackedLightIsLive
<1>9. queued' = {k \in Slots : buildDatas'[k] # NoBuild}
  BY <1>4, <1>7 DEF IInv, SlotsOK
<1>10. \A k \in Slots : k >= handles'.primary /\ ~handles'.active[k] => buildDatas'[k] = NoBuild
  <2> TAKE k \in Slots
  <2>1. k # s => handles'.active[k] = handles.active[k]
    BY <1>3, SlotsType DEF IInv
  <2>2. k # s /\ k >= handles.primary /\ ~handles.active[k] => buildDatas[k] = NoBuild
    BY DEF IInv, SlotsOK
  <2> QED
    BY <1>3, <1>7, <2>1, <2>2
<1>11. SlotsOK'
  BY <1>1, <1>3, <1>6, <1>7, <1>8, <1>9, <1>10 DEF SlotsOK, PackedLightIsLive
<1>12. HistoryOK'
  BY <1>1, <1>4, BoundsAssumption DEF IInv, HistoryOK, Versions
<1> QED
  BY <1>1, <1>11, <1>12, WorkKeep, PoolKeep DEF IInv, FlagsOK

-----------------------------------------------------------------------------
(* Workers                                                                 *)

\* Steps of a worker that touch nothing but its own state.
LEMMA ProducerStepKeeps ==
    ASSUME IInv, NEW p \in Producers, NEW new \in ProducerState,
           producers' = [producers EXCEPT ![p] = new],
           UNCHANGED <<inFlight, render>>
    PROVE  WorkOK'
BY DEF IInv, WorkOK

LEMMA StartCompileInv ==
    ASSUME IInv, NEW p \in Producers, NEW s \in SlotIds, StartCompile(p, s)
    PROVE  IInv'
<1>1. PICK g \in IF Explicit(s) THEN {issued[s], issued[s] + 1} \cap 0 .. MaxVersion ELSE {-1} :
          /\ producers' = [producers EXCEPT ![p] =
                 [pc |-> "compiled", handle |-> HandleOf(s), gen |-> g, owner |-> owner[s]]]
          /\ issued' = [issued EXCEPT ![s] = MaxOf(@, g)]
  BY DEF StartCompile
<1>2. /\ s \in Slots
      /\ UNCHANGED <<handles, chunks, buildDatas, queued, packed, collect, scheduler, freeFences,
                     gpu, inFlight, lost, render, fatal, owner, nextOwner, accepted>>
  BY DEF StartCompile, Callable, slotVars, poolVars
<1>3. g \in Versions /\ MaxOf(issued[s], g) \in Versions
  BY BoundsAssumption DEF IInv, HistoryOK, Versions, MaxOf
<1>4. HandleOf(s) \in Handle /\ owner[s] \in Nat
  BY <1>2, HandleOfType DEF IInv, HistoryOK
<1>5. WorkOK'
  <2>1. [pc |-> "compiled", handle |-> HandleOf(s), gen |-> g, owner |-> owner[s]] \in ProducerState
    BY <1>3, <1>4 DEF ProducerState
  <2> QED
    BY <1>1, <1>2, <2>1, ProducerStepKeeps
<1>6. HistoryOK'
  BY <1>1, <1>2, <1>3 DEF IInv, HistoryOK
<1> QED
  BY <1>2, <1>5, <1>6, SlotsKeep, PoolKeep DEF IInv, FlagsOK

LEMMA BeginQueueInv ==
    ASSUME IInv, NEW p \in Producers, BeginQueue(p)
    PROVE  IInv'
<1> DEFINE task == producers[p]
           s == task.handle.slot
           new == [pc |-> "copying", slot |-> s, sgen |-> handles.gen[s],
                   gen |-> task.gen, owner |-> task.owner]
<1>1. /\ task.pc = "compiled"
      /\ producers' = [producers EXCEPT ![p] =
             IF fatal \/ ~Resolves(handles, task.handle) \/ Outdated(s, task.gen)
             THEN IdleProducer ELSE new]
      /\ UNCHANGED <<handles, chunks, buildDatas, queued, packed, collect, scheduler, freeFences,
                     gpu, inFlight, lost, render, fatal, owner, nextOwner, issued, accepted>>
  BY DEF BeginQueue, slotVars, poolVars, historyVars
<1>2. task.handle \in Handle /\ task.gen \in Versions /\ task.owner \in Nat
  BY <1>1 DEF IInv, WorkOK, ProducerState
<1>3. Resolves(handles, task.handle) => new \in ProducerState
  <2> SUFFICES ASSUME Resolves(handles, task.handle) PROVE new \in ProducerState
    OBVIOUS
  <2>1. s \in 0 .. handles.size - 1
    <3>1. s \in Nat /\ handles.size \in Nat /\ handles.primary \in 0 .. handles.size
      BY <1>2, SlotsType DEF Handle, IInv
    <3> QED
      BY <3>1 DEF Resolves, IsCurrent, StorageSlots
  <2>2. handles.gen[s] \in Nat /\ s \in Nat
    BY <2>1, SlotsType, MaxGenAssumption DEF IInv
  <2> QED
    BY <1>2, <2>2 DEF ProducerState
<1>4. IdleProducer \in ProducerState
  BY DEF IdleProducer, ProducerState
<1> HIDE DEF new
<1>5. WorkOK'
  BY <1>1, <1>3, <1>4, ProducerStepKeeps
<1> QED
  BY <1>1, <1>5, SlotsKeep, PoolKeep, HistoryKeep DEF IInv, FlagsOK

LEMMA RefuseInv ==
    ASSUME IInv, NEW p \in Producers, Refuse(p)
    PROVE  IInv'
<1>1. /\ producers' = [producers EXCEPT ![p] = IdleProducer]
      /\ UNCHANGED <<handles, chunks, buildDatas, queued, packed, collect, scheduler, freeFences,
                     gpu, inFlight, lost, render, fatal, owner, nextOwner, issued, accepted>>
  BY DEF Refuse, slotVars, poolVars, historyVars
<1>2. IdleProducer \in ProducerState
  BY DEF IdleProducer, ProducerState
<1>3. WorkOK'
  BY <1>1, <1>2, ProducerStepKeeps
<1> QED
  BY <1>1, <1>3, SlotsKeep, PoolKeep, HistoryKeep DEF IInv, FlagsOK

\* An admitted task is of a slot in use, and its build is a build.
LEMMA AdmittedTask ==
    ASSUME IInv, NEW p \in Producers, producers[p].pc = "copying", Admitted(producers[p]),
           NEW kind \in Kinds, NEW lit \in BOOLEAN,
           NewBuild(producers[p], kind, lit).version <= MaxVersion
    PROVE  /\ producers[p].slot \in Slots
           /\ handles.active[producers[p].slot] \/ producers[p].slot < handles.primary
           /\ NewBuild(producers[p], kind, lit) \in Build
           /\ Wanting(producers[p]) \in ChunkState
           /\ Wanting(producers[p]).mesh = chunks[producers[p].slot].mesh
<1> DEFINE task == producers[p]
           s == task.slot
           d == NewBuild(task, kind, lit)
           version == NextVersion(task)
<1>1. s \in Nat /\ task.sgen \in Nat /\ task.gen \in Versions /\ task.owner \in Nat
  BY DEF IInv, WorkOK, ProducerState
<1>2. /\ s \in Slots
      /\ handles.active[s] \/ s < handles.primary
  <2>1. handles.size \in Nat /\ handles.primary \in 0 .. handles.size /\ Slots = 0 .. handles.size - 1
    BY SlotsType DEF IInv
  <2>2. IsCurrent(handles, s, task.sgen)
    BY DEF Admitted
  <2> QED
    BY <1>1, <2>1, <2>2 DEF IsCurrent, StorageSlots
<1>3. chunks[s] \in ChunkState
  BY <1>2 DEF IInv, SlotsOK
<1>4. version \in Versions
  <2>1. d.version = version
    BY DEF NewBuild
  <2>2. version \in Int /\ version >= -1
    BY <1>1, <1>3 DEF NextVersion, ChunkState, Versions
  <2> QED
    BY <2>1, <2>2, BoundsAssumption DEF Versions
<1>5. d \in Build
  BY <1>1, <1>4 DEF NewBuild, Build
<1>6. Wanting(task) \in ChunkState /\ Wanting(task).mesh = chunks[s].mesh
  <2> DEFINE latest == IF task.gen >= 0 THEN chunks[s].latest ELSE chunks[s].latest + 1
             desired == MaxOf(chunks[s].desired, version)
  <2>1. desired \in Int
    BY <1>3, <1>4 DEF ChunkState, Versions, MaxOf
  <2>2. latest \in Nat
    BY <1>3 DEF ChunkState
  <2>3. Wanting(task) = [chunks[s] EXCEPT !.latest = latest, !.desired = desired]
    BY DEF Wanting
  <2> HIDE DEF latest, desired
  <2> QED
    BY <1>3, <2>1, <2>2, <2>3 DEF ChunkState
<1> QED
  BY <1>2, <1>5, <1>6

LEMMA EnqueueInv ==
    ASSUME IInv, NEW p \in Producers, NEW kind \in Kinds, NEW lit \in BOOLEAN,
           Enqueue(p, kind, lit)
    PROVE  IInv'
<1> DEFINE task == producers[p]
           s == task.slot
           d == NewBuild(task, kind, lit)
           c == Wanting(task)
<1>1. /\ task.pc = "copying" /\ Admitted(task) /\ d.version <= MaxVersion
      /\ chunks' = [chunks EXCEPT ![s] = c] /\ queued' = queued \cup {s}
      /\ buildDatas' = [buildDatas EXCEPT ![s] = d]
      /\ producers' = [producers EXCEPT ![p] = IdleProducer]
      /\ accepted' = [accepted EXCEPT ![s] = d.version]
      /\ UNCHANGED <<handles, packed, collect, scheduler, freeFences, gpu, inFlight, lost, render,
                     fatal, owner, nextOwner, issued>>
  BY DEF Enqueue, poolVars
<1>2. /\ s \in Slots /\ (handles.active[s] \/ s < handles.primary)
      /\ d \in Build /\ c \in ChunkState /\ c.mesh = chunks[s].mesh
  BY <1>1, AdmittedTask
<1>3. d # NoBuild /\ d.version \in Versions
  BY <1>2, NoBuildAssumption DEF Build
<1> HIDE DEF c, d
<1>4. /\ packed' = [packed EXCEPT ![s] = packed[s]] /\ packed[s] \in Build \cup {NoBuild}
      /\ collect => packed[s] = LightOf(c.mesh)
  BY <1>1, <1>2 DEF IInv, SlotsOK, PackedLightIsLive
<1>5. SlotsOK'
  BY <1>1, <1>2, <1>3, <1>4, OneSlotKeeps DEF IInv
<1>6. WorkOK'
  BY <1>1, ProducerStepKeeps DEF IdleProducer, ProducerState
<1>7. HistoryOK'
  BY <1>1, <1>3 DEF IInv, HistoryOK
<1> QED
  BY <1>1, <1>5, <1>6, <1>7, PoolKeep DEF IInv, FlagsOK

LEMMA EnqueueImportantInv ==
    ASSUME IInv, NEW p \in Producers, NEW kind \in Kinds, NEW lit \in BOOLEAN,
           NEW throws \in BOOLEAN, EnqueueImportant(p, kind, lit, throws)
    PROVE  IInv'
<1> DEFINE task == producers[p]
           s == task.slot
           d == NewBuild(task, kind, lit)
           c == Wanting(task)
           shown == ~throws /\ Accepts(c, d)
           new == IF shown THEN Published(c, d) ELSE c
<1>1. /\ task.pc = "copying" /\ Admitted(task) /\ d.version <= MaxVersion
      /\ chunks' = [chunks EXCEPT ![s] = new] /\ queued' = queued \ {s}
      /\ packed' = [packed EXCEPT ![s] = IF shown THEN StoredPacked(s, LightOf(d)) ELSE @]
      /\ buildDatas' = [buildDatas EXCEPT ![s] = NoBuild]
      /\ producers' = [producers EXCEPT ![p] = IdleProducer]
      /\ accepted' = [accepted EXCEPT ![s] = IF throws THEN -1 ELSE d.version]
      /\ UNCHANGED <<handles, collect, scheduler, freeFences, gpu, inFlight, lost, render,
                     fatal, owner, nextOwner, issued>>
  BY DEF EnqueueImportant, poolVars
<1>2. s \in Slots /\ d \in Build /\ c \in ChunkState /\ c.mesh = chunks[s].mesh
  BY <1>1, AdmittedTask
<1>3. d.version \in Versions /\ d.version \in Int /\ -1 \in Versions
  BY <1>2, BoundsAssumption DEF Build, Versions
<1> HIDE DEF c, d
<1>4. /\ Published(c, d) \in ChunkState /\ Published(c, d).mesh = d
  BY <1>2, <1>3 DEF Published, ChunkState
<1> HIDE DEF shown
<1>5. new \in ChunkState /\ new.mesh = IF shown THEN d ELSE chunks[s].mesh
  BY <1>2, <1>4
<1> HIDE DEF new
<1> DEFINE light == IF shown THEN StoredPacked(s, LightOf(d)) ELSE packed[s]
<1>6. /\ packed' = [packed EXCEPT ![s] = light] /\ light \in Build \cup {NoBuild}
      /\ collect => light = LightOf(new.mesh)
  <2>1. packed[s] \in Build \cup {NoBuild} /\ (collect => packed[s] = LightOf(chunks[s].mesh))
    BY <1>2 DEF IInv, SlotsOK, PackedLightIsLive
  <2> QED
    BY <1>1, <1>2, <1>5, <2>1, LightType DEF StoredPacked
<1> HIDE DEF light
<1>7. SlotsOK'
  BY <1>1, <1>2, <1>5, <1>6, OneSlotKeeps DEF IInv
<1>8. WorkOK'
  BY <1>1, ProducerStepKeeps DEF IdleProducer, ProducerState
<1>9. HistoryOK'
  BY <1>1, <1>3 DEF IInv, HistoryOK
<1> QED
  BY <1>1, <1>7, <1>8, <1>9, PoolKeep DEF IInv, FlagsOK

-----------------------------------------------------------------------------
(* The invariant                                                           *)

LEMMA InitInv == Init => IInv
<1> SUFFICES ASSUME Init PROVE IInv
  OBVIOUS
<1>1. /\ handles = ResetTable(0)
      /\ chunks = <<>> /\ buildDatas = <<>> /\ packed = <<>> /\ queued = {}
  BY DEF Init
<1>2. WellFormed(handles) /\ handles.size = 0
  BY <1>1, ResetWellFormed DEF ResetTable
<1>3. Slots = {}
  BY <1>2 DEF Slots, StorageSlots
<1>4. SlotsOK
  <2>1. \A S : <<>> \in [{} -> S]
    OBVIOUS
  <2>2. PackedLightIsLive
    BY <1>3 DEF PackedLightIsLive
  <2> QED
    BY <1>1, <1>2, <1>3, <2>1, <2>2 DEF SlotsOK
<1>5. WorkOK
  BY DEF Init, WorkOK, RenderState, NoBatch, IdleProducer, ProducerState
<1>6. PoolOK
  BY DEF Init, PoolOK, FencePool, InFlightFences, NoBatch
<1>7. FlagsOK
  BY EmissionAssumption DEF Init, FlagsOK
<1>8. HistoryOK
  <2>1. -1 \in Versions
    BY BoundsAssumption DEF Versions
  <2> QED
    BY <2>1 DEF Init, HistoryOK
<1> QED
  BY <1>4, <1>5, <1>6, <1>7, <1>8 DEF IInv

LEMMA RenderThreadInv ==
    ASSUME IInv, DarkOK, RenderThread
    PROVE  IInv'
<1>1. CASE Poll
  <2>1. inFlight \in SUBSET inFlight /\ {} \in SUBSET InFlightFences
    OBVIOUS
  <2> QED
    BY <1>1, <2>1, PollInv DEF Poll
<1>2. CASE PollFails
  <2>1. PICK b \in inFlight : \E halfReset \in {{}, {b.fence}} : PollBatches(Earlier(b), halfReset)
    BY <1>2 DEF PollFails
  <2>2. PICK halfReset \in {{}, {b.fence}} : PollBatches(Earlier(b), halfReset)
    BY <2>1
  <2>3. Earlier(b) \in SUBSET inFlight /\ halfReset \in SUBSET InFlightFences
    BY DEF Earlier, InFlightFences
  <2> QED
    BY <2>2, <2>3, PollInv
<1>3. CASE \E taken \in SUBSET SlotIds : Select(taken)
  BY <1>3, SelectInv
<1>4. CASE PublishEmptyBatch
  BY <1>4, PublishEmptyBatchInv
<1>5. CASE Submit
  BY <1>5, SubmitInv
<1>6. CASE SubmitFails
  BY <1>6, SubmitFailsInv
<1>7. CASE BuildThrows
  BY <1>7, BuildThrowsInv
<1>8. CASE RecordInFlight
  BY <1>8, RecordInFlightInv
<1>9. CASE ResetScheduler
  BY <1>9, ResetSchedulerInv
<1>10. CASE SetCollectOption
  BY <1>10, SetCollectOptionInv
<1>11. CASE SetCollectChunkEmission
  BY <1>11, SetCollectChunkEmissionInv
<1>12. CASE AbandonCollect
  BY <1>12, AbandonCollectInv
<1>13. CASE \E n \in PrimaryCounts : Reset(n)
  BY <1>13, ResetInv
<1>14. CASE ReleaseScene
  BY <1>14, ReleaseSceneInv
<1> QED
  BY <1>1, <1>2, <1>3, <1>4, <1>5, <1>6, <1>7, <1>8, <1>9, <1>10, <1>11, <1>12, <1>13, <1>14
  DEF RenderThread

LEMMA GameInv ==
    ASSUME IInv, Game
    PROVE  IInv'
<1>1. CASE \E s \in SlotIds : MarkChunkDirty(s)
  BY <1>1, MarkChunkDirtyInv
<1>2. CASE \E s \in SlotIds : InvalidateChunk(s)
  BY <1>2, InvalidateChunkInv
<1>3. CASE \E s \in SlotIds : RelocateChunk(s)
  BY <1>3, RelocateChunkInv
<1>4. CASE \E s \in SlotIds : ReleaseExternalChunk(s)
  BY <1>4, ReleaseExternalChunkInv
<1>5. CASE AllocateExternalChunk
  BY <1>5, AllocateExternalChunkInv
<1>6. CASE Fail
  BY <1>6, FailInv
<1> QED
  BY <1>1, <1>2, <1>3, <1>4, <1>5, <1>6 DEF Game

LEMMA ProduceInv ==
    ASSUME IInv, NEW p \in Producers, Produce(p)
    PROVE  IInv'
<1>1. CASE \E s \in SlotIds : StartCompile(p, s)
  BY <1>1, StartCompileInv
<1>2. CASE BeginQueue(p)
  BY <1>2, BeginQueueInv
<1>3. CASE Refuse(p)
  BY <1>3, RefuseInv
<1>4. ASSUME NEW kind \in Kinds, NEW lit \in Lights(kind),
             \/ Enqueue(p, kind, lit)
             \/ \E throws \in BOOLEAN : EnqueueImportant(p, kind, lit, throws)
      PROVE  IInv'
  <2>1. lit \in BOOLEAN
    BY DEF Lights
  <2> QED
    BY <1>4, <2>1, EnqueueInv, EnqueueImportantInv
<1> QED
  BY <1>1, <1>2, <1>3, <1>4 DEF Produce

LEMMA NextInv ==
    ASSUME IInv, DarkOK, [Next]_vars
    PROVE  IInv'
<1>1. CASE UNCHANGED vars
  BY <1>1, SlotsKeep, WorkKeep, PoolKeep, HistoryKeep DEF vars, IInv, FlagsOK
<1>2. CASE RenderThread
  BY <1>2, RenderThreadInv
<1>3. CASE \E f \in Fences : Signal(f)
  BY <1>3, SignalInv
<1>4. CASE Game
  BY <1>4, GameInv
<1>5. CASE \E p \in Producers : Produce(p)
  BY <1>5, ProduceInv
<1> QED
  BY <1>1, <1>2, <1>3, <1>4, <1>5 DEF Next

-----------------------------------------------------------------------------
(* Darkness: nothing has lights while their collection is off              *)

LEMMA DarkKeep ==
    ASSUME AllDark, UNCHANGED <<handles, chunks, buildDatas, packed>>,
           BuildsUnderWay' \subseteq BuildsUnderWay
    PROVE  AllDark'
BY DEF AllDark, Slots

\* Publishing dark builds, with collection off.
LEMMA DarkPublish ==
    ASSUME SlotsOK, AllDark, ~collect, NEW pick \in [Slots -> Build \cup {NoBuild}],
           \A s \in Slots : LightOf(pick[s]) = NoBuild,
           chunks' = ChunksWith(pick), packed' = PackedWith(pick),
           UNCHANGED <<handles, buildDatas>>,
           BuildsUnderWay' \subseteq BuildsUnderWay
    PROVE  AllDark'
<1>1. Slots' = Slots
  BY DEF Slots
<1>2. ASSUME NEW s \in Slots
      PROVE  LightOf(chunks'[s].mesh) = NoBuild /\ packed'[s] = NoBuild
  <2>1. /\ chunks[s] \in ChunkState /\ LightOf(chunks[s].mesh) = NoBuild
        /\ packed[s] = NoBuild /\ LightOf(pick[s]) = NoBuild
    BY DEF SlotsOK, AllDark
  <2>2. packed'[s] = NoBuild
    BY <2>1 DEF PackedWith, StoredPacked
  <2>3. Published(chunks[s], pick[s]).mesh = pick[s]
    BY <2>1 DEF Published, ChunkState
  <2>4. chunks'[s].mesh \in {chunks[s].mesh, pick[s]}
    BY <2>3 DEF ChunksWith
  <2> QED
    BY <2>1, <2>2, <2>4
<1> QED
  BY <1>1, <1>2 DEF AllDark

\* One slot's entries become dark ones.
LEMMA DarkSlot ==
    ASSUME SlotsOK, AllDark, NEW s \in Slots, NEW c \in ChunkState,
           NEW d \in Build \cup {NoBuild},
           LightOf(c.mesh) = NoBuild, LightOf(d) = NoBuild,
           chunks' = [chunks EXCEPT ![s] = c], buildDatas' = [buildDatas EXCEPT ![s] = d],
           \E light \in {packed[s], NoBuild} : packed' = [packed EXCEPT ![s] = light],
           Slots' = Slots, UNCHANGED <<render, inFlight>>
    PROVE  AllDark'
<1>1. \A k \in Slots : /\ chunks'[k] = IF k = s THEN c ELSE chunks[k]
                       /\ buildDatas'[k] = IF k = s THEN d ELSE buildDatas[k]
                       /\ packed'[k] = NoBuild
  BY DEF SlotsOK, AllDark
<1> QED
  BY <1>1 DEF AllDark, BuildsUnderWay

LEMMA DarkLight ==
    ASSUME NEW m \in Build \cup {NoBuild}
    PROVE  LightOf(m) = NoBuild <=> (m = NoBuild \/ ~m.lit)
BY DEF LightOf

\* The builds in flight that a poll publishes are dark.
LEMMA DarkPick ==
    ASSUME WorkOK, AllDark, NEW done \in SUBSET inFlight
    PROVE  \A s \in Slots : LightOf(FirstPublishable(done, s)) = NoBuild
<1> SUFFICES ASSUME NEW s \in Slots PROVE LightOf(FirstPublishable(done, s)) = NoBuild
  OBVIOUS
<1> DEFINE fit(b) == {d \in b.builds : d.slot = s /\ Publishable(d)}
           first == {b \in done : \A c \in Earlier(b) \cap done : fit(c) = {}}
           builds == UNION {fit(b) : b \in first}
<1>1. FirstPublishable(done, s) = IF builds = {} THEN NoBuild ELSE CHOOSE d \in builds : TRUE
  BY DEF FirstPublishable
<1>2. builds \subseteq BuildsUnderWay
  BY DEF BuildsUnderWay
<1> HIDE DEF builds
<1>3. FirstPublishable(done, s) = NoBuild \/ FirstPublishable(done, s) \in BuildsUnderWay
  BY <1>1, <1>2
<1> QED
  BY <1>3 DEF LightOf, AllDark

LEMMA DarkPoll ==
    ASSUME IInv, AllDark, ~collect, NEW done \in SUBSET inFlight, Publish(done),
           UNCHANGED <<handles, buildDatas>>, BuildsUnderWay' \subseteq BuildsUnderWay
    PROVE  AllDark'
<1> DEFINE pick == [s \in Slots |-> FirstPublishable(done, s)]
<1>1. pick \in [Slots -> Build \cup {NoBuild}] /\ \A s \in Slots : LightOf(pick[s]) = NoBuild
  BY PickType, DarkPick DEF IInv
<1>2. chunks' = ChunksWith(pick) /\ packed' = PackedWith(pick)
  BY DEF Publish
<1> HIDE DEF pick
<1> QED
  BY <1>1, <1>2, DarkPublish DEF IInv

LEMMA DarkPollBatches ==
    ASSUME IInv, AllDark, ~collect, NEW visited \in SUBSET inFlight, NEW halfReset,
           PollBatches(visited, halfReset)
    PROVE  AllDark'
<1> DEFINE done == {b \in visited : gpu[b.fence] = "signaled"}
           recycled == {b.fence : b \in done}
<1>1. /\ Publish(done)
      /\ inFlight' = {[b EXCEPT !.before = @ \ recycled] : b \in inFlight \ done}
      /\ UNCHANGED <<handles, buildDatas, render>>
  BY DEF PollBatches
<1>2. done \subseteq inFlight
  OBVIOUS
<1> HIDE DEF done, recycled
<1> DEFINE shrunk(b) == [b EXCEPT !.before = @ \ recycled]
<1>3. /\ \A b \in inFlight : shrunk(b).builds = b.builds
      /\ inFlight' = {shrunk(b) : b \in inFlight \ done}
  BY <1>1 DEF IInv, WorkOK, Batch
<1> HIDE DEF shrunk
<1>4. BuildsUnderWay' \subseteq BuildsUnderWay
  <2>1. \A c \in inFlight' : \E b \in inFlight : c.builds = b.builds
    BY <1>3
  <2> QED
    BY <1>1, <2>1 DEF BuildsUnderWay
<1> QED
  BY <1>1, <1>2, <1>4, DarkPoll

LEMMA DarkSelect ==
    ASSUME IInv, AllDark, NEW taken, Select(taken)
    PROVE  AllDark'
<1>1. /\ taken \subseteq queued
      /\ buildDatas' = [s \in Slots |-> IF s \in queued \ queued' THEN NoBuild ELSE buildDatas[s]]
      /\ UNCHANGED <<handles, chunks, packed, inFlight>>
      /\ render'.builds = render.builds \/ render'.builds = {buildDatas[s] : s \in taken}
  BY DEF Select
<1>2. \A s \in taken : /\ s \in Slots /\ buildDatas[s] # NoBuild
                       /\ buildDatas[s] \in Build \cup {NoBuild}
  BY <1>1 DEF IInv, SlotsOK
<1>3. \A s \in taken : ~buildDatas[s].lit
  BY <1>2 DEF AllDark, LightOf
<1>4. \A d \in BuildsUnderWay' : ~d.lit
  BY <1>1, <1>3 DEF AllDark, BuildsUnderWay
<1>5. \A s \in Slots : LightOf(buildDatas'[s]) = NoBuild
  BY <1>1, LightType DEF AllDark
<1> QED
  BY <1>1, <1>4, <1>5 DEF AllDark, Slots

LEMMA DarkEmptyBatch ==
    ASSUME IInv, AllDark, ~collect, PublishEmptyBatch
    PROVE  AllDark'
<1> DEFINE fit(s) == {d \in render.builds : d.slot = s /\ Publishable(d)}
           pick == [s \in Slots |-> LET ds == fit(s)
                                    IN  IF ds = {} THEN NoBuild ELSE CHOOSE d \in ds : TRUE]
<1>1. /\ render' = NoBatch /\ chunks' = ChunksWith(pick) /\ packed' = PackedWith(pick)
      /\ UNCHANGED <<handles, buildDatas, inFlight>>
  BY DEF PublishEmptyBatch
<1>2. \A s \in Slots : pick[s] = NoBuild \/ pick[s] \in render.builds
  OBVIOUS
<1>3. pick \in [Slots -> Build \cup {NoBuild}]
  BY DEF IInv, WorkOK, RenderState
<1> HIDE DEF pick
<1>4. \A s \in Slots : LightOf(pick[s]) = NoBuild
  BY <1>2 DEF AllDark, BuildsUnderWay, LightOf
<1>5. BuildsUnderWay' \subseteq BuildsUnderWay
  BY <1>1 DEF BuildsUnderWay, NoBatch
<1> QED
  BY <1>1, <1>3, <1>4, <1>5, DarkPublish DEF IInv

\* The sweep of setCollectChunkEmission(false) leaves darkness.
LEMMA SweepDarkens ==
    ASSUME IInv, ~collect, SetCollectChunkEmission
    PROVE  AllDark'
<1> DEFINE published == [s \in Slots |-> FirstPublishable(inFlight, s)]
           shown == ChunksWith(published)
           relit(d) == IF d = NoBuild THEN d ELSE [d EXCEPT !.lit = collect /\ d.kind = "emissive"]
<1>1. /\ chunks' = [s \in Slots |-> [shown[s] EXCEPT !.mesh = Dimmed(@)]]
      /\ packed' = [s \in Slots |-> NoBuild]
      /\ buildDatas' = [s \in Slots |-> relit(buildDatas[s])]
      /\ render' = NoBatch /\ inFlight' = {} /\ handles' = handles
  BY DEF SetCollectChunkEmission
<1>2. shown \in [Slots -> ChunkState]
  <2>1. published \in [Slots -> Build \cup {NoBuild}]
    BY PickType DEF IInv
  <2> HIDE DEF published
  <2> QED
    BY <2>1, PublishedSlots DEF IInv
<1> HIDE DEF shown, published
<1>3. ASSUME NEW s \in Slots PROVE LightOf(chunks'[s].mesh) = NoBuild
  <2>1. chunks'[s].mesh = Dimmed(shown[s].mesh) /\ shown[s].mesh \in Build \cup {NoBuild}
    BY <1>1, <1>2 DEF ChunkState
  <2> QED
    BY <2>1 DEF Dimmed, LightOf, Build
<1>4. ASSUME NEW s \in Slots PROVE LightOf(buildDatas'[s]) = NoBuild
  <2>1. buildDatas[s] \in Build \cup {NoBuild} /\ buildDatas'[s] = relit(buildDatas[s])
    BY <1>1 DEF IInv, SlotsOK
  <2> QED
    BY <2>1 DEF LightOf, Build
<1>5. BuildsUnderWay' = {}
  BY <1>1 DEF BuildsUnderWay, NoBatch
<1> QED
  BY <1>1, <1>3, <1>4, <1>5 DEF AllDark, Slots

\* An emptied storage is dark.
LEMMA DarkStorage ==
    ASSUME IInv, render.pc = "idle", NEW n \in Nat, EmptyStorage(n), UNCHANGED render
    PROVE  AllDark'
<1>1. /\ handles' = ResetTable(n)
      /\ chunks' = [s \in 0 .. n - 1 |-> FreshChunk]
      /\ buildDatas' = [s \in 0 .. n - 1 |-> NoBuild]
      /\ packed' = [s \in 0 .. n - 1 |-> NoBuild] /\ inFlight' = {}
  BY DEF EmptyStorage
<1>2. Slots' = 0 .. n - 1
  BY <1>1 DEF Slots, StorageSlots, ResetTable
<1>3. BuildsUnderWay' = {}
  BY <1>1 DEF BuildsUnderWay, IInv, PoolOK
<1> QED
  BY <1>1, <1>2, <1>3, FreshChunkType, LightType DEF AllDark

LEMMA DarkRenderThread ==
    ASSUME IInv, DarkOK, RenderThread
    PROVE  DarkOK'
<1> SUFFICES ASSUME ~collect', ~fatal', render'.pc # "collect" PROVE AllDark'
  BY DEF DarkOK
<1>1. CASE Poll
  <2>1. AllDark /\ ~collect
    BY <1>1 DEF Poll, PollBatches, DarkOK, RenderIdle
  <2> QED
    BY <1>1, <2>1, DarkPollBatches DEF Poll
<1>2. CASE PollFails
  <2>1. PICK b \in inFlight : \E halfReset \in {{}, {b.fence}} : PollBatches(Earlier(b), halfReset)
    BY <1>2 DEF PollFails
  <2>2. PICK halfReset : PollBatches(Earlier(b), halfReset)
    BY <2>1
  <2>3. AllDark /\ ~collect /\ Earlier(b) \subseteq inFlight
    BY <2>2 DEF PollBatches, DarkOK, RenderIdle, Earlier
  <2> QED
    BY <2>2, <2>3, DarkPollBatches
<1>3. CASE \E taken \in SUBSET SlotIds : Select(taken)
  <2>1. PICK taken : Select(taken)
    BY <1>3
  <2>2. AllDark
    BY <2>1 DEF Select, DarkOK, RenderIdle
  <2> QED
    BY <2>1, <2>2, DarkSelect
<1>4. CASE PublishEmptyBatch
  <2>1. AllDark /\ ~collect
    BY <1>4 DEF PublishEmptyBatch, DarkOK
  <2> QED
    BY <1>4, <2>1, DarkEmptyBatch
<1>5. CASE Submit
  <2>1. /\ AllDark /\ render' = [render EXCEPT !.pc = "submitted"]
        /\ UNCHANGED <<handles, chunks, buildDatas, packed, inFlight>>
    BY <1>5 DEF Submit, DarkOK, slotVars
  <2>2. render'.builds = render.builds
    BY <2>1 DEF IInv, WorkOK, RenderState
  <2> QED
    BY <2>1, <2>2, DarkKeep DEF BuildsUnderWay
<1>6. CASE SubmitFails
  BY <1>6 DEF SubmitFails
<1>7. CASE BuildThrows
  <2>1. /\ AllDark /\ render' = NoBatch
        /\ UNCHANGED <<handles, chunks, buildDatas, packed, inFlight>>
    <3>1. ~fatal
      <4>1. fatal' = fatal \/ fatal' = TRUE
        BY <1>7 DEF BuildThrows
      <4> QED
        BY <4>1
    <3> QED
      BY <1>7, <3>1 DEF BuildThrows, DarkOK, slotVars
  <2>2. BuildsUnderWay' \subseteq BuildsUnderWay
    BY <2>1 DEF BuildsUnderWay, NoBatch
  <2> QED
    BY <2>1, <2>2, DarkKeep
<1>8. CASE RecordInFlight
  <2>1. PICK f \in render.fence :
            inFlight' = inFlight \cup
                            {[fence |-> f, before |-> InFlightFences, builds |-> render.builds]}
    BY <1>8 DEF RecordInFlight
  <2>2. /\ AllDark /\ render' = NoBatch
        /\ UNCHANGED <<handles, chunks, buildDatas, packed>>
    BY <1>8 DEF RecordInFlight, DarkOK, slotVars
  <2>3. BuildsUnderWay' \subseteq BuildsUnderWay
    BY <2>1, <2>2 DEF BuildsUnderWay, NoBatch
  <2> QED
    BY <2>2, <2>3, DarkKeep
<1>9. CASE ResetScheduler
  <2>1. /\ AllDark /\ ~collect /\ Publish(inFlight) /\ inFlight' = {}
        /\ UNCHANGED <<handles, buildDatas, render>>
    BY <1>9 DEF ResetScheduler, DarkOK, RenderIdle
  <2>2. BuildsUnderWay' \subseteq BuildsUnderWay
    BY <2>1 DEF BuildsUnderWay
  <2> QED
    BY <2>1, <2>2, DarkPoll
<1>10. CASE SetCollectOption
  BY <1>10 DEF SetCollectOption, NoBatch
<1>11. CASE SetCollectChunkEmission
  BY <1>11, SweepDarkens DEF SetCollectChunkEmission
<1>12. CASE AbandonCollect
  BY <1>12 DEF AbandonCollect
<1>13. CASE \E n \in PrimaryCounts : Reset(n)
  <2>1. PICK n \in Nat : Reset(n)
    BY <1>13, SlotsAssumption
  <2> QED
    BY <2>1, DarkStorage DEF Reset, RenderIdle
<1>14. CASE ReleaseScene
  BY <1>14, DarkStorage DEF ReleaseScene, RenderIdle
<1> QED
  BY <1>1, <1>2, <1>3, <1>4, <1>5, <1>6, <1>7, <1>8, <1>9, <1>10, <1>11, <1>12, <1>13, <1>14
  DEF RenderThread

\* The game's calls darken a slot or leave it as dark as it was.
LEMMA DarkWithdraw ==
    ASSUME IInv, AllDark, NEW s \in Slots, NEW g \in Int, Withdraw(s, g),
           packed' \in {[packed EXCEPT ![s] = StoredPacked(s, NoBuild)],
                        [packed EXCEPT ![s] = NoBuild]},
           Slots' = Slots, UNCHANGED <<render, inFlight>>
    PROVE  AllDark'
<1> DEFINE c == Invalidated(chunks[s], g)
<1>1. /\ chunks' = [chunks EXCEPT ![s] = c]
      /\ buildDatas' = [buildDatas EXCEPT ![s] = NoBuild]
  BY DEF Withdraw
<1>2. c \in ChunkState /\ LightOf(c.mesh) = NoBuild
  BY ChunkTypes, LightType DEF IInv, SlotsOK
<1>3. \E light \in {packed[s], NoBuild} : packed' = [packed EXCEPT ![s] = light]
  BY DEF StoredPacked
<1> HIDE DEF c
<1> QED
  BY <1>1, <1>2, <1>3, LightType, DarkSlot DEF IInv

LEMMA DarkGame ==
    ASSUME IInv, DarkOK, Game
    PROVE  DarkOK'
<1> SUFFICES ASSUME ~collect', ~fatal', render'.pc # "collect" PROVE AllDark'
  BY DEF DarkOK
<1>1. ASSUME NEW s \in SlotIds, MarkChunkDirty(s) PROVE AllDark'
  <2> DEFINE g == NewGeneration(s)
             stale == buildDatas[s] # NoBuild /\ buildDatas[s].version < g
             c == MarkedDirty(chunks[s], g)
             d == IF stale THEN NoBuild ELSE buildDatas[s]
  <2>1. /\ AllDark /\ s \in Slots /\ g <= MaxVersion
        /\ chunks' = [chunks EXCEPT ![s] = c] /\ buildDatas' = [buildDatas EXCEPT ![s] = d]
        /\ UNCHANGED <<handles, packed, render, inFlight>>
    BY <1>1 DEF MarkChunkDirty, Callable, DarkOK, poolVars
  <2>2. /\ chunks[s] \in ChunkState /\ buildDatas[s] \in Build \cup {NoBuild} /\ g \in Int
        /\ LightOf(chunks[s].mesh) = NoBuild /\ LightOf(buildDatas[s]) = NoBuild
    BY <2>1, NewGenerationType DEF IInv, SlotsOK, AllDark
  <2>3. c \in ChunkState /\ LightOf(c.mesh) = NoBuild
    BY <2>2, ChunkTypes
  <2>4. d \in Build \cup {NoBuild} /\ LightOf(d) = NoBuild
    BY <2>2, LightType
  <2>5. packed' = [packed EXCEPT ![s] = packed[s]]
    BY <2>1 DEF IInv, SlotsOK
  <2> HIDE DEF c, d
  <2> QED
    BY <2>1, <2>3, <2>4, <2>5, DarkSlot DEF IInv, Slots
<1>2. ASSUME NEW s \in SlotIds, InvalidateChunk(s) \/ RelocateChunk(s) PROVE AllDark'
  <2> DEFINE g == NewGeneration(s)
  <2>1. /\ AllDark /\ s \in Slots /\ g <= MaxVersion /\ Withdraw(s, g)
        /\ packed' = [packed EXCEPT ![s] = StoredPacked(s, NoBuild)]
        /\ UNCHANGED <<handles, render, inFlight>>
    BY <1>2 DEF InvalidateChunk, RelocateChunk, Callable, DarkOK, poolVars
  <2>2. g \in Int
    BY <2>1, NewGenerationType DEF IInv
  <2> HIDE DEF g
  <2> QED
    BY <2>1, <2>2, DarkWithdraw DEF Slots
<1>3. ASSUME NEW s \in SlotIds, ReleaseExternalChunk(s) PROVE AllDark'
  <2>1. /\ AllDark /\ s \in Slots /\ Withdraw(s, -1)
        /\ packed' = [packed EXCEPT ![s] = NoBuild]
        /\ UNCHANGED <<render, inFlight>>
    BY <1>3 DEF ReleaseExternalChunk, Callable, DarkOK, poolVars
  <2>2. Slots' = Slots
    BY <1>3 DEF ReleaseExternalChunk, Release, Slots, StorageSlots
  <2>3. -1 \in Int
    OBVIOUS
  <2> QED
    BY <2>1, <2>2, <2>3, DarkWithdraw
<1>4. CASE AllocateExternalChunk
  <2> DEFINE s == AllocatedSlot(handles, handles.size)
             put(f, v) == [k \in 0 .. handles'.size - 1 |-> IF k = s THEN v ELSE f[k]]
  <2>1. /\ AllDark /\ handles' = Allocate(handles, handles.size)
        /\ chunks' = put(chunks, FreshChunk) /\ buildDatas' = put(buildDatas, NoBuild)
        /\ packed' = put(packed, NoBuild)
        /\ UNCHANGED <<render, inFlight>>
    BY <1>4 DEF AllocateExternalChunk, poolVars, DarkOK
  <2>2. Slots' = 0 .. handles'.size - 1 /\ Slots = 0 .. handles.size - 1
    BY DEF Slots, StorageSlots
  <2>3. \A k \in Slots' : k # s => k \in Slots
    <3>1. /\ WellFormed(handles')
          /\ \A k \in 0 .. handles'.size - 1 : k # s => k < handles.size
      BY <2>1, AllocateWellFormed DEF IInv, SlotsOK
    <3>2. handles.size \in Nat /\ handles'.size \in Nat
      BY <3>1, SlotsType, TableFields DEF IInv, IsTable
    <3> HIDE DEF s
    <3> QED
      BY <2>2, <3>1, <3>2
  <2> HIDE DEF s
  <2> QED
    BY <2>1, <2>2, <2>3, FreshChunkType, LightType DEF AllDark, BuildsUnderWay
<1>5. CASE Fail
  BY <1>5 DEF Fail
<1> QED
  BY <1>1, <1>2, <1>3, <1>4, <1>5 DEF Game

\* With collection off a worker's build is dark, whatever its geometry holds.
LEMMA DarkProduce ==
    ASSUME IInv, DarkOK, NEW p \in Producers, Produce(p)
    PROVE  DarkOK'
<1> SUFFICES ASSUME ~collect', ~fatal', render'.pc # "collect" PROVE AllDark'
  BY DEF DarkOK
<1>1. ASSUME \/ \E s \in SlotIds : StartCompile(p, s)
             \/ BeginQueue(p) \/ Refuse(p)
      PROVE  AllDark'
  <2>1. UNCHANGED <<slotVars, collect, poolVars, render, fatal>>
    BY <1>1 DEF StartCompile, BeginQueue, Refuse
  <2> QED
    BY <2>1, DarkKeep DEF DarkOK, slotVars, poolVars, BuildsUnderWay
<1>2. ASSUME NEW kind \in Kinds, NEW lit \in Lights(kind),
             \/ Enqueue(p, kind, lit)
             \/ \E throws \in BOOLEAN : EnqueueImportant(p, kind, lit, throws)
      PROVE  AllDark'
  <2> DEFINE task == producers[p]
             s == task.slot
             d == NewBuild(task, kind, lit)
             c == Wanting(task)
  <2>1. /\ task.pc = "copying" /\ Admitted(task) /\ d.version <= MaxVersion
        /\ UNCHANGED <<handles, collect, render, fatal, inFlight>>
    BY <1>2 DEF Enqueue, EnqueueImportant, poolVars
  <2>2. ~lit /\ lit \in BOOLEAN /\ AllDark /\ ~collect
    BY <2>1 DEF Lights, DarkOK
  <2>3. s \in Slots /\ d \in Build /\ c \in ChunkState /\ c.mesh = chunks[s].mesh
    BY <2>1, <2>2, AdmittedTask
  <2>4. d.lit = FALSE
    BY <2>2 DEF NewBuild
  <2> HIDE DEF c, d
  <2>5. LightOf(d) = NoBuild /\ LightOf(c.mesh) = NoBuild /\ LightOf(NoBuild) = NoBuild
    BY <2>2, <2>3, <2>4, LightType DEF LightOf, AllDark
  <2>6. Published(c, d) \in ChunkState /\ Published(c, d).mesh = d
    <3>1. d.version \in Int
      BY <2>3, BoundsAssumption DEF Build, Versions
    <3> QED
      BY <2>3, <3>1 DEF Published, ChunkState
  <2>7. CASE Enqueue(p, kind, lit)
    <3>1. /\ chunks' = [chunks EXCEPT ![s] = c] /\ buildDatas' = [buildDatas EXCEPT ![s] = d]
          /\ packed' = packed
      BY <2>7 DEF Enqueue, c, d
    <3>2. packed' = [packed EXCEPT ![s] = packed[s]]
      BY <3>1 DEF IInv, SlotsOK
    <3> QED
      BY <2>1, <2>2, <2>3, <2>5, <3>1, <3>2, DarkSlot DEF IInv, Slots
  <2>8. ASSUME NEW throws \in BOOLEAN, EnqueueImportant(p, kind, lit, throws) PROVE AllDark'
    <3> DEFINE shown == ~throws /\ Accepts(c, d)
               new == IF shown THEN Published(c, d) ELSE c
    <3>1. /\ chunks' = [chunks EXCEPT ![s] = new]
          /\ buildDatas' = [buildDatas EXCEPT ![s] = NoBuild]
          /\ packed' = [packed EXCEPT ![s] = IF shown THEN StoredPacked(s, LightOf(d)) ELSE @]
      BY <2>8 DEF EnqueueImportant, c, d
    <3>2. packed' = [packed EXCEPT ![s] = packed[s]]
      BY <2>2, <3>1 DEF StoredPacked
    <3>3. new \in ChunkState /\ LightOf(new.mesh) = NoBuild
      BY <2>3, <2>5, <2>6
    <3> HIDE DEF new, shown
    <3> QED
      BY <2>1, <2>2, <2>3, <2>5, <3>1, <3>2, <3>3, DarkSlot DEF IInv, Slots
  <2> QED
    BY <1>2, <2>7, <2>8
<1> QED
  BY <1>1, <1>2 DEF Produce

LEMMA NextDark ==
    ASSUME IInv, DarkOK, [Next]_vars
    PROVE  DarkOK'
<1>1. CASE UNCHANGED vars
  BY <1>1 DEF vars, DarkOK, AllDark, Slots, BuildsUnderWay
<1>2. CASE RenderThread
  BY <1>2, DarkRenderThread
<1>3. CASE \E f \in Fences : Signal(f)
  BY <1>3 DEF Signal, slotVars, DarkOK, AllDark, Slots, BuildsUnderWay
<1>4. CASE Game
  BY <1>4, DarkGame
<1>5. CASE \E p \in Producers : Produce(p)
  BY <1>5, DarkProduce
<1> QED
  BY <1>1, <1>2, <1>3, <1>4, <1>5 DEF Next

LEMMA InitDark == Init => DarkOK
<1> SUFFICES ASSUME Init PROVE AllDark
  BY DEF DarkOK
<1>1. Slots = {}
  BY DEF Init, Slots, StorageSlots, ResetTable
<1> QED
  BY <1>1 DEF Init, AllDark, BuildsUnderWay, NoBatch

LEMMA Inductive == Spec => [](IInv /\ DarkOK)
<1>1. Init => IInv /\ DarkOK
  BY InitInv, InitDark
<1>2. IInv /\ DarkOK /\ [Next]_vars => (IInv /\ DarkOK)'
  BY NextInv, NextDark
<1> QED
  BY <1>1, <1>2, PTL DEF Spec

-----------------------------------------------------------------------------
(***************************************************************************)
(* Whatever the workers, the render thread, the game and the GPU do, the   *)
(* storage vectors of class Chunks have one entry per slot, and builds,    *)
(* batches, fences and queued calls are what they should be.               *)
(***************************************************************************)
THEOREM TypeCorrect == Spec => []TypeOK
<1>1. IInv => TypeOK
  <2> SUFFICES ASSUME IInv PROVE TypeOK
    OBVIOUS
  <2>1. IsTable(handles)
    BY TableFields DEF IInv, SlotsOK
  <2>2. /\ chunks \in [Slots -> ChunkState] /\ buildDatas \in [Slots -> Build \cup {NoBuild}]
        /\ queued \subseteq Slots
    BY DEF IInv, SlotsOK
  <2>3. packed \in [Slots -> Build \cup {NoBuild}]
    BY DEF IInv, SlotsOK
  <2> QED
    BY <2>1, <2>2, <2>3 DEF TypeOK, IInv, WorkOK, PoolOK, FlagsOK, HistoryOK, Batch, RenderState
<1> QED
  BY <1>1, Inductive, PTL

(***************************************************************************)
(* While lights are collected, the address a slot gives the GPU is that of *)
(* its published mesh: publication, withdrawal, release and the reset of   *)
(* the world change both or neither, and what is not maintained while      *)
(* collection is off has been cleared before it is on again.               *)
(***************************************************************************)
THEOREM LightsAreLive == Spec => []PackedLightIsLive
<1>1. IInv => PackedLightIsLive
  BY DEF IInv, SlotsOK
<1> QED
  BY <1>1, Inductive, PTL

(***************************************************************************)
(* The build queue and the stored builds name the same slots, so a slot    *)
(* that is selected has a build and a stored build is never forgotten.     *)
(***************************************************************************)
THEOREM QueueMatchesData == Spec => []QueuedHasData
<1>1. IInv => QueuedHasData
  BY DEF IInv, SlotsOK, QueuedHasData
<1> QED
  BY <1>1, Inductive, PTL

(***************************************************************************)
(* Every fence of the scheduler is in exactly one place, and a free one is *)
(* reset, for any number of fences and whatever fails or throws between    *)
(* taking a fence and returning it.                                        *)
(***************************************************************************)
THEOREM FencesAccountedFor == Spec => []FencePool
<1>1. IInv => FencePool
  BY DEF IInv, PoolOK
<1> QED
  BY <1>1, Inductive, PTL

(***************************************************************************)
(* With light collection off, no published mesh and no build under way has *)
(* lights: none queued by a worker that still read the option as on, none  *)
(* that was in flight when it was switched off.                            *)
(***************************************************************************)
THEOREM OffMeansDark == Spec => []EmissionOff
<1>1. IInv /\ DarkOK => EmissionOff
  <2> SUFFICES ASSUME IInv, AllDark
               PROVE  /\ \A s \in Slots : LightOf(chunks[s].mesh) = NoBuild
                      /\ \A d \in BuildsAlive : ~d.lit
    BY DEF DarkOK, EmissionOff
  <2>1. ASSUME NEW s \in queued PROVE ~buildDatas[s].lit
    <3>1. s \in Slots /\ buildDatas[s] # NoBuild
      BY DEF IInv, SlotsOK
    <3> QED
      BY <3>1 DEF AllDark, LightOf
  <2> QED
    BY <2>1 DEF AllDark, BuildsAlive, BuildsUnderWay
<1> QED
  BY <1>1, Inductive, PTL

-----------------------------------------------------------------------------
(* Who is on the way, and what waits                                       *)

\* A worker's task and a build are the same thing on their way to a slot: for whom they
\* were meshed, the version, and the generation of the slot they were meant for.
OfTask(t) ==
    IF t.pc = "compiled"
    THEN [slot |-> t.handle.slot, sgen |-> t.handle.gen, version |-> t.gen, owner |-> t.owner]
    ELSE [slot |-> t.slot, sgen |-> t.sgen, version |-> t.gen, owner |-> t.owner]

OfBuild(d) == [slot |-> d.slot, sgen |-> d.sgen, version |-> d.version, owner |-> d.owner]

Item == [slot : Nat, sgen : Nat, version : Versions, owner : Nat]

Busy == {p \in Producers : producers[p].pc # "idle"}

Waiters == {buildDatas[s] : s \in queued}

Coming == {OfTask(producers[p]) : p \in Busy} \cup {OfBuild(d) : d \in Waiters \cup BuildsUnderWay}

\* It was meant for a generation its slot has had; if that is the current one, it is for
\* the occupant or of a version the slot does not want any more.
Sound(i) ==
    /\ i.slot \in Slots
    /\ IF i.slot < handles.primary THEN i.sgen = 0
       ELSE i.sgen <= handles.gen[i.slot] /\ (i.sgen = handles.gen[i.slot] => handles.active[i.slot])
    /\ IsCurrent(handles, i.slot, i.sgen) =>
           IF Explicit(i.slot)
           THEN /\ i.version <= issued[i.slot]
                /\ i.owner = owner[i.slot] \/ i.version < chunks[i.slot].desired
           ELSE i.owner = owner[i.slot]

\* Generations do not come round: a slot had one for each of its owners at most.
GenerationsOK ==
    /\ nextOwner \in 1 .. MaxOwners + 1
    /\ \A s \in SlotIds : owner[s] < nextOwner
    /\ \A s \in Slots : s >= handles.primary =>
           IF handles.active[s] THEN handles.gen[s] < nextOwner ELSE handles.gen[s] <= nextOwner

OwnersOK == GenerationsOK /\ (\A i \in Coming : Sound(i)) /\ NoForeignBuild

\* A build waits at its own slot.  A slot shows no more than it wants, wants the newest
\* version it has accepted, and has numbered what it wants if it numbers builds itself.
VersionsOK ==
    /\ Slots \subseteq SlotIds
    /\ \A s \in Slots : /\ chunks[s].blasVersion <= chunks[s].desired
                        /\ ~Explicit(s) => chunks[s].desired < chunks[s].latest
                        /\ buildDatas[s] # NoBuild => buildDatas[s].slot = s
    /\ \A p \in Busy : producers[p].gen >= 0 <=> Explicit(OfTask(producers[p]).slot)
    /\ \A s \in SlotIds : accepted[s] >= 0 =>
           /\ s \in Slots /\ (s < handles.primary \/ handles.active[s])
           /\ accepted[s] = chunks[s].desired

\* The batches in flight are in the order of their submission.
OrderOK ==
    \A b \in inFlight :
        /\ b.before \subseteq InFlightFences \ {b.fence}
        /\ \A c \in Earlier(b) : c.before \subseteq b.before

-----------------------------------------------------------------------------
(* Steps that only move builds along                                       *)

\* Such a step leaves a slot's chunk as it was, but for lights,
Keeps(s) ==
    LET c == chunks[s]
        e == chunks'[s]
    IN  /\ e.latest = c.latest /\ e.desired = c.desired /\ e.blasVersion = c.blasVersion
        /\ c.mesh = NoBuild <=> e.mesh = NoBuild
        /\ c.mesh # NoBuild => OfBuild(e.mesh) = OfBuild(c.mesh)

\* or shows it a build that was on its way and that the slot accepts.
Shows(s) ==
    \E d \in BuildsUnderWay :
        /\ d.slot = s /\ Publishable(d)
        /\ chunks'[s].latest = chunks[s].latest /\ chunks'[s].desired = chunks[s].desired
        /\ chunks'[s].blasVersion = d.version
        /\ chunks'[s].mesh # NoBuild /\ OfBuild(chunks'[s].mesh) = OfBuild(d)

\* What its slot would accept is shown, withdrawn or still alive.
Delivers ==
    \A d \in BuildsAlive : d.version >= 0 /\ Publishable(d) =>
        \/ Shows(d.slot)
        \/ accepted'[d.slot] # d.version
        \/ \E e \in BuildsAlive' : OfBuild(e) = OfBuild(d)

MovesAlong ==
    /\ UNCHANGED <<handles, owner, nextOwner, issued, producers>>
    /\ \A s \in Slots : Keeps(s) \/ Shows(s)
    /\ Coming' \subseteq Coming
    /\ \A s \in SlotIds : accepted'[s] \in {accepted[s], -1}
    /\ \A s \in Slots : buildDatas'[s] # NoBuild =>
           buildDatas[s] # NoBuild /\ OfBuild(buildDatas'[s]) = OfBuild(buildDatas[s])
    /\ fatal => fatal'
    /\ ~fatal' => Delivers

\* The same slots, the same handles: what could be published still can, if its slot wants
\* what it wanted and shows no more.
LEMMA BuildFields ==
    ASSUME NEW d \in Build \cup {NoBuild}, d # NoBuild
    PROVE  /\ d \in Build /\ d.slot \in Nat /\ d.sgen \in Nat /\ d.version \in Versions
           /\ d.version \in Int /\ d.owner \in Nat
           /\ OfBuild(d) \in Item
           /\ OfBuild(d).slot = d.slot /\ OfBuild(d).sgen = d.sgen
           /\ OfBuild(d).version = d.version /\ OfBuild(d).owner = d.owner
BY BoundsAssumption DEF Build, OfBuild, Versions, Item

LEMMA SameBuild ==
    ASSUME NEW d, NEW e, OfBuild(d) = OfBuild(e)
    PROVE  d.slot = e.slot /\ d.sgen = e.sgen /\ d.version = e.version /\ d.owner = e.owner
BY DEF OfBuild

LEMMA AliveTypes ==
    ASSUME IInv
    PROVE  /\ Waiters \subseteq Build /\ BuildsUnderWay \subseteq Build
           /\ BuildsAlive = Waiters \cup BuildsUnderWay
           /\ \A s \in queued : s \in Slots /\ buildDatas[s] # NoBuild
           /\ \A s \in Slots : buildDatas[s] # NoBuild => buildDatas[s] \in Waiters
<1>1. \A s \in queued : s \in Slots /\ buildDatas[s] # NoBuild
  BY DEF IInv, SlotsOK
<1>2. \A s \in Slots : buildDatas[s] \in Build \cup {NoBuild} /\ (buildDatas[s] # NoBuild => s \in queued)
  BY DEF IInv, SlotsOK
<1>3. Waiters \subseteq Build
  BY <1>1, <1>2 DEF Waiters
<1>4. BuildsUnderWay \subseteq Build
  BY DEF IInv, WorkOK, RenderState, Batch, BuildsUnderWay
<1>5. BuildsAlive = Waiters \cup BuildsUnderWay
  BY DEF BuildsAlive, Waiters, BuildsUnderWay
<1> QED
  BY <1>1, <1>2, <1>3, <1>4, <1>5 DEF Waiters

\* A publishable build is of a slot of the storage.
LEMMA PublishableSlot ==
    ASSUME IInv, NEW d \in Build, Publishable(d)
    PROVE  d.slot \in Slots /\ (d.slot < handles.primary \/ handles.active[d.slot])
<1>1. handles.size \in Nat /\ handles.primary \in 0 .. handles.size /\ Slots = 0 .. handles.size - 1
  BY SlotsType DEF IInv
<1>2. d.slot \in Nat
  BY DEF Build
<1>3. IsCurrent(handles, d.slot, d.sgen)
  BY DEF Publishable
<1> QED
  BY <1>1, <1>2, <1>3 DEF IsCurrent, StorageSlots

\* Of the batches of a set, the first one with a fitting build: they are in the order of
\* their submission and there are finitely many.
LEMMA FirstBatch ==
    ASSUME IInv, OrderOK, NEW T \in SUBSET inFlight, T # {}
    PROVE  \E b \in T : Earlier(b) \cap T = {}
<1> DEFINE befores == {b.before : b \in T}
           R == StrictSubsetOrdering(Fences)
<1>1. befores \subseteq FiniteSubsetsOf(Fences)
  <2> SUFFICES ASSUME NEW b \in T PROVE b.before \in FiniteSubsetsOf(Fences)
    OBVIOUS
  <2>1. b.before \in SUBSET Fences
    BY DEF IInv, WorkOK, Batch
  <2> QED
    BY <2>1, FS_Subset, FencesAssumption DEF FiniteSubsetsOf
<1>2. IsWellFoundedOn(R, FiniteSubsetsOf(Fences))
  BY FS_StrictSubsetOrderingWellFounded
<1>3. befores # {}
  OBVIOUS
<1> HIDE DEF befores, R
<1>4. PICK x \in befores : \A y \in befores : <<y, x>> \notin R
  BY <1>1, <1>2, <1>3, WFMin
<1>5. PICK b \in T : x = b.before
  BY <1>4 DEF befores
<1>6. ASSUME NEW c \in Earlier(b) \cap T PROVE FALSE
  <2>1. c \in inFlight /\ c.fence \in b.before /\ b \in inFlight
    BY <1>6 DEF Earlier
  <2>2. c.before \subseteq b.before /\ c.fence \notin c.before
    BY <1>6, <2>1 DEF OrderOK
  <2>3. c.before \in SUBSET Fences /\ b.before \in SUBSET Fences
    BY <2>1 DEF IInv, WorkOK, Batch
  <2>4. <<c.before, b.before>> \in R
    BY <2>1, <2>2, <2>3 DEF R, StrictSubsetOrdering
  <2>5. c.before \in befores
    BY <1>6 DEF befores
  <2> QED
    BY <1>4, <1>5, <2>4, <2>5
<1> QED
  BY <1>6

\* What a poll picks for a slot is acceptable, and it picks something if it can.
LEMMA PicksFitting ==
    ASSUME IInv, OrderOK, NEW done \in SUBSET inFlight, NEW s
    PROVE  LET pick == FirstPublishable(done, s)
           IN  /\ pick # NoBuild =>
                      pick \in BuildsUnderWay /\ pick.slot = s /\ Publishable(pick)
               /\ \A b \in done : \A d \in b.builds :
                      d.slot = s /\ Publishable(d) => pick # NoBuild
<1> DEFINE fit(b) == {d \in b.builds : d.slot = s /\ Publishable(d)}
           first == {b \in done : \A c \in Earlier(b) \cap done : fit(c) = {}}
           builds == UNION {fit(b) : b \in first}
           pick == FirstPublishable(done, s)
<1>1. pick = IF builds = {} THEN NoBuild ELSE CHOOSE d \in builds : TRUE
  BY DEF FirstPublishable
<1>2. \A d \in builds : d \in BuildsUnderWay /\ d.slot = s /\ Publishable(d)
  BY DEF BuildsUnderWay
<1>3. \A d \in builds : d # NoBuild
  BY <1>2, AliveTypes, NoBuildAssumption
<1>4. ASSUME NEW b \in done, fit(b) # {} PROVE builds # {}
  <2> DEFINE T == {c \in done : fit(c) # {}}
  <2>1. T \in SUBSET inFlight /\ T # {}
    BY <1>4
  <2> HIDE DEF T
  <2>2. PICK c \in T : Earlier(c) \cap T = {}
    BY <2>1, FirstBatch
  <2>3. c \in first /\ fit(c) # {}
    BY <2>2 DEF T
  <2> HIDE DEF fit, first
  <2> QED
    BY <2>3
<1> HIDE DEF builds
<1>5. pick # NoBuild => pick \in builds
  BY <1>1
<1>6. builds # {} => pick # NoBuild
  BY <1>1, <1>3
<1> HIDE DEF pick
<1>7. ASSUME NEW b \in done, NEW d \in b.builds, d.slot = s, Publishable(d)
      PROVE  pick # NoBuild
  <2>1. d \in fit(b)
    BY <1>7
  <2> HIDE DEF fit
  <2> QED
    BY <1>4, <1>6, <2>1
<1> QED
  BY <1>2, <1>5, <1>7 DEF pick

\* What is needed of a step to move builds along.
LEMMA MovesBy ==
    ASSUME IInv, IInv',
           UNCHANGED <<handles, owner, nextOwner, issued, producers>>,
           \A s \in Slots : Keeps(s) \/ Shows(s),
           \A s \in SlotIds : accepted'[s] \in {accepted[s], -1},
           \A s \in Slots : buildDatas'[s] # NoBuild =>
               buildDatas[s] # NoBuild /\ OfBuild(buildDatas'[s]) = OfBuild(buildDatas[s]),
           \A d \in BuildsUnderWay' : \E e \in BuildsAlive : OfBuild(d) = OfBuild(e),
           fatal => fatal',
           ~fatal' => Delivers
    PROVE  MovesAlong
<1>1. Slots' = Slots
  BY DEF Slots
<1>2. ASSUME NEW d \in Waiters' PROVE \E e \in Waiters : OfBuild(d) = OfBuild(e)
  <2>1. PICK s \in queued' : d = buildDatas'[s]
    BY <1>2 DEF Waiters
  <2>2. s \in Slots /\ buildDatas'[s] # NoBuild
    BY <1>1 DEF IInv, SlotsOK
  <2>3. buildDatas[s] \in Waiters
    BY <2>2, AliveTypes
  <2> QED
    BY <2>1, <2>2, <2>3
<1>3. \A d \in Waiters' \cup BuildsUnderWay' : \E e \in Waiters \cup BuildsUnderWay :
          OfBuild(d) = OfBuild(e)
  BY <1>2, AliveTypes
<1>4. Coming' = {OfTask(producers[p]) : p \in Busy}
                    \cup {OfBuild(d) : d \in Waiters' \cup BuildsUnderWay'}
  BY DEF Coming, Busy
<1>5. Coming' \subseteq Coming
  BY <1>3, <1>4 DEF Coming
<1> QED
  BY <1>5 DEF MovesAlong

LEMMA UnmovedKeeps ==
    ASSUME NEW s, chunks' = chunks
    PROVE  Keeps(s)
BY DEF Keeps

\* Builds that stay where they are.
LEMMA SameAlive ==
    ASSUME BuildsAlive \subseteq BuildsAlive'
    PROVE  Delivers
BY DEF Delivers

LEMMA PublishMoves ==
    ASSUME IInv, NEW pick \in [Slots -> Build \cup {NoBuild}], NEW s \in Slots,
           pick[s] # NoBuild =>
               pick[s] \in BuildsUnderWay /\ pick[s].slot = s /\ Publishable(pick[s]),
           \/ chunks'[s] = ChunksWith(pick)[s]
           \/ chunks'[s] = [ChunksWith(pick)[s] EXCEPT !.mesh = Dimmed(@)]
    PROVE  IF pick[s] # NoBuild THEN Shows(s) ELSE Keeps(s)
<1> DEFINE c == ChunksWith(pick)[s]
           d == pick[s]
<1>1. /\ chunks[s] \in ChunkState /\ d \in Build \cup {NoBuild}
      /\ c = IF d # NoBuild THEN Published(chunks[s], d) ELSE chunks[s]
  BY DEF IInv, SlotsOK, ChunksWith
<1>2. ASSUME NEW m \in Build \cup {NoBuild}
      PROVE  /\ m = NoBuild <=> Dimmed(m) = NoBuild
             /\ m # NoBuild => OfBuild(Dimmed(m)) = OfBuild(m)
  <2>1. m # NoBuild => /\ m \in Build /\ [m EXCEPT !.lit = FALSE] \in Build
    BY DEF Build
  <2>2. m # NoBuild => Dimmed(m) # NoBuild
    BY <2>1, NoBuildAssumption DEF Dimmed
  <2> QED
    BY <2>1, <2>2 DEF Dimmed, OfBuild, Build
<1>3. /\ d # NoBuild => c = [chunks[s] EXCEPT !.blasVersion = d.version, !.mesh = d]
      /\ d = NoBuild => c = chunks[s]
  BY <1>1 DEF Published
<1>4. c \in ChunkState
  BY PublishedSlots DEF IInv
<1>5. /\ c.latest = chunks[s].latest /\ c.desired = chunks[s].desired
      /\ c.blasVersion = IF d # NoBuild THEN d.version ELSE chunks[s].blasVersion
      /\ c.mesh = IF d # NoBuild THEN d ELSE chunks[s].mesh
      /\ c.mesh \in Build \cup {NoBuild}
  BY <1>1, <1>3, <1>4 DEF ChunkState
<1> HIDE DEF c
<1>6. /\ chunks'[s].latest = c.latest /\ chunks'[s].desired = c.desired
      /\ chunks'[s].blasVersion = c.blasVersion
      /\ c.mesh = NoBuild <=> chunks'[s].mesh = NoBuild
      /\ c.mesh # NoBuild => OfBuild(chunks'[s].mesh) = OfBuild(c.mesh)
  <2>1. CASE chunks'[s] = c
    BY <2>1
  <2>2. CASE chunks'[s] = [c EXCEPT !.mesh = Dimmed(@)]
    <3>1. /\ chunks'[s].latest = c.latest /\ chunks'[s].desired = c.desired
          /\ chunks'[s].blasVersion = c.blasVersion /\ chunks'[s].mesh = Dimmed(c.mesh)
      BY <1>4, <2>2 DEF ChunkState
    <3> QED
      BY <1>2, <1>5, <3>1
  <2> QED
    BY <2>1, <2>2 DEF c
<1> QED
  BY <1>5, <1>6 DEF Shows, Keeps

\* The steps that publish the batches done of those in flight.
LEMMA PollShows ==
    ASSUME IInv, OrderOK, NEW done \in SUBSET inFlight,
           LET pick == [s \in Slots |-> FirstPublishable(done, s)]
           IN  \A s \in Slots :
                  \/ chunks'[s] = ChunksWith(pick)[s]
                  \/ chunks'[s] = [ChunksWith(pick)[s] EXCEPT !.mesh = Dimmed(@)]
    PROVE  /\ \A s \in Slots : Keeps(s) \/ Shows(s)
           /\ \A b \in done : \A d \in b.builds : Publishable(d) => Shows(d.slot)
<1> DEFINE pick == [s \in Slots |-> FirstPublishable(done, s)]
<1>1. pick \in [Slots -> Build \cup {NoBuild}]
  BY PickType DEF IInv
<1>2. ASSUME NEW s \in Slots PROVE IF pick[s] # NoBuild THEN Shows(s) ELSE Keeps(s)
  <2>1. pick[s] = FirstPublishable(done, s)
    OBVIOUS
  <2>2. pick[s] # NoBuild =>
            pick[s] \in BuildsUnderWay /\ pick[s].slot = s /\ Publishable(pick[s])
    BY <2>1, PicksFitting
  <2>3. \/ chunks'[s] = ChunksWith(pick)[s]
        \/ chunks'[s] = [ChunksWith(pick)[s] EXCEPT !.mesh = Dimmed(@)]
    OBVIOUS
  <2> HIDE DEF pick
  <2> QED
    BY <1>1, <2>2, <2>3, PublishMoves
<1>3. ASSUME NEW b \in done, NEW d \in b.builds, Publishable(d) PROVE Shows(d.slot)
  <2>1. d \in Build
    BY AliveTypes DEF BuildsUnderWay
  <2>2. d.slot \in Slots
    BY <1>3, <2>1, PublishableSlot
  <2>3. FirstPublishable(done, d.slot) # NoBuild
    BY <1>3, PicksFitting
  <2>4. pick[d.slot] # NoBuild
    BY <2>2, <2>3
  <2> HIDE DEF pick
  <2> QED
    BY <1>2, <2>2, <2>4
<1> HIDE DEF pick
<1> QED
  BY <1>2, <1>3

LEMMA PollMoves ==
    ASSUME IInv, IInv', OrderOK, NEW visited \in SUBSET inFlight, NEW halfReset,
           PollBatches(visited, halfReset)
    PROVE  MovesAlong
<1> DEFINE done == {b \in visited : gpu[b.fence] = "signaled"}
           recycled == {b.fence : b \in done}
           shrunk(b) == [b EXCEPT !.before = @ \ recycled]
<1>1. /\ Publish(done) /\ done \in SUBSET inFlight /\ (fatal => fatal')
      /\ inFlight' = {shrunk(b) : b \in inFlight \ done}
      /\ UNCHANGED <<handles, buildDatas, queued, render, producers, owner, nextOwner, issued,
                     accepted>>
  BY DEF PollBatches, historyVars
<1>2. \A b \in inFlight : shrunk(b).builds = b.builds
  BY DEF IInv, WorkOK, Batch
<1> HIDE DEF done, shrunk
<1>3. /\ \A s \in Slots : Keeps(s) \/ Shows(s)
      /\ \A b \in done : \A d \in b.builds : Publishable(d) => Shows(d.slot)
  <2> DEFINE pick == [s \in Slots |-> FirstPublishable(done, s)]
  <2>1. \A s \in Slots : chunks'[s] = ChunksWith(pick)[s]
    BY <1>1 DEF Publish
  <2> QED
    BY <1>1, <2>1, PollShows
<1>4. \A d \in BuildsUnderWay' : \E e \in BuildsAlive : OfBuild(d) = OfBuild(e)
  BY <1>1, <1>2 DEF BuildsUnderWay, BuildsAlive
<1>5. Delivers
  <2> SUFFICES ASSUME NEW d \in BuildsAlive, Publishable(d), ~Shows(d.slot)
               PROVE  d \in BuildsAlive'
    BY DEF Delivers
  <2>1. CASE d \in {buildDatas[s] : s \in queued} \cup render.builds
    BY <1>1, <2>1 DEF BuildsAlive
  <2>2. ASSUME NEW b \in inFlight, d \in b.builds PROVE d \in BuildsAlive'
    <3>1. b \in inFlight \ done
      BY <1>3, <2>2
    <3>2. shrunk(b) \in inFlight' /\ d \in shrunk(b).builds
      BY <1>1, <1>2, <2>2, <3>1
    <3> QED
      BY <3>2 DEF BuildsAlive
  <2> QED
    BY <2>1, <2>2 DEF BuildsAlive
<1> QED
  BY <1>1, <1>3, <1>4, <1>5, MovesBy

\* Selection drops what is stale, which its slot would not accept.
LEMMA SelectMoves ==
    ASSUME IInv, IInv', VersionsOK, NEW taken, Select(taken)
    PROVE  MovesAlong
<1> DEFINE kept == {s \in queued : ~Stale(s)}
<1>1. /\ render.pc = "idle" /\ taken \subseteq kept /\ (fatal => fatal')
      /\ queued' = kept \ taken
      /\ buildDatas' = [s \in Slots |-> IF s \in queued \ queued' THEN NoBuild ELSE buildDatas[s]]
      /\ UNCHANGED <<handles, chunks, inFlight, producers, owner, nextOwner, issued, accepted>>
      /\ \/ taken = {} /\ render' = render
         \/ render'.builds = {buildDatas[s] : s \in taken}
  BY DEF Select, RenderIdle, historyVars
<1>2. render.builds = {} /\ taken \subseteq queued /\ queued \subseteq Slots
  BY <1>1 DEF IInv, PoolOK, SlotsOK
<1>3. render'.builds = {buildDatas[s] : s \in taken}
  BY <1>1, <1>2
<1>4. \A s \in Slots : buildDatas'[s] # NoBuild => buildDatas'[s] = buildDatas[s]
  BY <1>1
<1>5. \A d \in BuildsUnderWay' : \E e \in BuildsAlive : OfBuild(d) = OfBuild(e)
  <2>1. \A d \in render'.builds : d \in BuildsAlive
    BY <1>2, <1>3 DEF BuildsAlive
  <2> QED
    BY <1>1, <2>1 DEF BuildsUnderWay, BuildsAlive
<1>6. Delivers
  <2> SUFFICES ASSUME NEW d \in BuildsAlive, Publishable(d) PROVE d \in BuildsAlive'
    BY DEF Delivers
  <2>1. ASSUME NEW s \in queued, d = buildDatas[s] PROVE d \in BuildsAlive'
    <3>1. s \in Slots /\ d # NoBuild /\ d.slot = s
      BY <2>1, AliveTypes DEF VersionsOK
    <3>2. s \in kept
      BY <2>1, <3>1 DEF Stale, Publishable, Accepts
    <3>3. CASE s \in taken
      BY <1>3, <2>1, <3>3 DEF BuildsAlive
    <3>4. CASE s \notin taken
      <4>1. s \in queued' /\ buildDatas'[s] = d
        BY <1>1, <2>1, <3>1, <3>2, <3>4
      <4> QED
        BY <4>1 DEF BuildsAlive
    <3> QED
      BY <3>3, <3>4
  <2>2. d \in UNION {b.builds : b \in inFlight} => d \in BuildsAlive'
    BY <1>1 DEF BuildsAlive
  <2> QED
    BY <1>2, <2>1, <2>2 DEF BuildsAlive
<1> QED
  BY <1>1, <1>4, <1>5, <1>6, UnmovedKeeps, MovesBy

LEMMA PublishEmptyBatchMoves ==
    ASSUME IInv, IInv', PublishEmptyBatch
    PROVE  MovesAlong
<1> DEFINE fit(s) == {d \in render.builds : d.slot = s /\ Publishable(d)}
           pick == [s \in Slots |-> LET ds == fit(s)
                                    IN  IF ds = {} THEN NoBuild ELSE CHOOSE d \in ds : TRUE]
<1>1. /\ chunks' = ChunksWith(pick) /\ render' = NoBatch /\ (fatal => fatal')
      /\ UNCHANGED <<handles, buildDatas, queued, inFlight, producers, owner, nextOwner, issued,
                     accepted>>
  BY DEF PublishEmptyBatch, historyVars
<1>2. render.builds \subseteq BuildsUnderWay /\ BuildsUnderWay \subseteq Build
  BY AliveTypes DEF BuildsUnderWay
<1>3. ASSUME NEW s \in Slots
      PROVE  /\ pick[s] # NoBuild => pick[s] \in fit(s)
             /\ fit(s) # {} => pick[s] # NoBuild
             /\ pick[s] \in Build \cup {NoBuild}
  <2>1. pick[s] = IF fit(s) = {} THEN NoBuild ELSE CHOOSE d \in fit(s) : TRUE
    OBVIOUS
  <2>2. fit(s) \subseteq Build
    BY <1>2
  <2> HIDE DEF fit, pick
  <2> QED
    BY <2>1, <2>2, NoBuildAssumption
<1>4. pick \in [Slots -> Build \cup {NoBuild}]
  <2>1. pick = [s \in Slots |-> pick[s]]
    OBVIOUS
  <2> HIDE DEF pick
  <2> QED
    BY <1>3, <2>1
<1> HIDE DEF pick
<1>5. ASSUME NEW s \in Slots PROVE IF pick[s] # NoBuild THEN Shows(s) ELSE Keeps(s)
  <2>1. pick[s] # NoBuild =>
            pick[s] \in BuildsUnderWay /\ pick[s].slot = s /\ Publishable(pick[s])
    BY <1>2, <1>3
  <2> QED
    BY <1>1, <1>4, <2>1, PublishMoves
<1>6. \A d \in BuildsUnderWay' : \E e \in BuildsAlive : OfBuild(d) = OfBuild(e)
  BY <1>1 DEF BuildsUnderWay, BuildsAlive, NoBatch
<1>7. Delivers
  <2> SUFFICES ASSUME NEW d \in BuildsAlive, Publishable(d), ~Shows(d.slot)
               PROVE  d \in BuildsAlive'
    BY DEF Delivers
  <2>1. d \notin render.builds
    <3> SUFFICES ASSUME d \in render.builds PROVE FALSE
      OBVIOUS
    <3>1. d.slot \in Slots
      BY <1>2, PublishableSlot
    <3>2. d \in fit(d.slot)
      OBVIOUS
    <3> QED
      BY <1>3, <1>5, <3>1, <3>2
  <2> QED
    BY <1>1, <2>1 DEF BuildsAlive
<1> QED
  BY <1>1, <1>5, <1>6, <1>7, MovesBy

\* Submission moves the batch, failing to submit it withdraws its builds.
LEMMA SubmissionMoves ==
    ASSUME IInv, IInv', VersionsOK, Submit \/ SubmitFails \/ BuildThrows \/ RecordInFlight
    PROVE  MovesAlong
<1>1. /\ UNCHANGED <<handles, chunks, buildDatas, queued, producers, owner, nextOwner, issued>>
      /\ fatal => fatal'
  <2>1. fatal' = fatal \/ fatal' = TRUE
    BY DEF Submit, SubmitFails, BuildThrows, RecordInFlight
  <2>2. fatal => fatal'
    BY <2>1
  <2>3. UNCHANGED <<handles, chunks, buildDatas, queued, producers, owner, nextOwner, issued>>
    BY DEF Submit, SubmitFails, BuildThrows, RecordInFlight, slotVars, historyVars
  <2> QED
    BY <2>2, <2>3
<1>2. CASE Submit
  <2>1. /\ render' = [render EXCEPT !.pc = "submitted"] /\ UNCHANGED <<inFlight, accepted>>
    BY <1>2 DEF Submit, historyVars
  <2>2. render'.builds = render.builds
    BY <2>1 DEF IInv, WorkOK, RenderState
  <2>3. BuildsAlive' = BuildsAlive /\ BuildsUnderWay' \subseteq BuildsAlive
    BY <1>1, <2>1, <2>2 DEF BuildsAlive, BuildsUnderWay
  <2> QED
    BY <1>1, <2>1, <2>3, SameAlive, UnmovedKeeps, MovesBy
<1>3. CASE SubmitFails \/ BuildThrows
  <2>1. /\ render' = NoBatch /\ inFlight' = inFlight
        /\ accepted' = [s \in DOMAIN accepted |->
               IF \E d \in render.builds : d.slot = s /\ d.version = accepted[s]
               THEN -1 ELSE accepted[s]]
    BY <1>3 DEF SubmitFails, BuildThrows, Withdrawn
  <2>2. accepted \in [SlotIds -> Versions]
    BY DEF IInv, HistoryOK
  <2>3. BuildsUnderWay' \subseteq BuildsAlive
    BY <2>1 DEF BuildsAlive, BuildsUnderWay, NoBatch
  <2>4. ~fatal' => Delivers
    <3> SUFFICES ASSUME NEW d \in BuildsAlive, d.version >= 0, Publishable(d),
                        accepted'[d.slot] = d.version
                 PROVE  d \in BuildsAlive'
      BY DEF Delivers
    <3>1. ASSUME d \in render.builds PROVE FALSE
      <4>1. d \in Build
        BY <3>1, AliveTypes DEF BuildsUnderWay
      <4>2. d.slot \in SlotIds
        BY <4>1, PublishableSlot DEF VersionsOK
      <4> QED
        BY <2>1, <2>2, <3>1, <4>2
    <3> QED
      BY <1>1, <2>1, <3>1 DEF BuildsAlive
  <2> QED
    BY <1>1, <2>1, <2>2, <2>3, <2>4, UnmovedKeeps, MovesBy
<1>4. CASE RecordInFlight
  <2>1. render' = NoBatch /\ UNCHANGED accepted
    BY <1>4 DEF RecordInFlight, historyVars
  <2>2. PICK f \in render.fence :
          inFlight' = inFlight \cup
                          {[fence |-> f, before |-> InFlightFences, builds |-> render.builds]}
    BY <1>4 DEF RecordInFlight
  <2> DEFINE new == [fence |-> f, before |-> InFlightFences, builds |-> render.builds]
             flying == UNION {b.builds : b \in inFlight}
  <2>3. new.builds = render.builds /\ inFlight' = inFlight \cup {new}
    BY <2>2
  <2> HIDE DEF new
  <2>4. flying' = flying \cup render.builds
    BY <2>3
  <2>5. /\ BuildsAlive' = {buildDatas[s] : s \in queued} \cup flying'
        /\ BuildsAlive = {buildDatas[s] : s \in queued} \cup render.builds \cup flying
        /\ BuildsUnderWay' = flying'
    BY <1>1, <2>1 DEF BuildsAlive, BuildsUnderWay, NoBatch
  <2> HIDE DEF flying
  <2>6. BuildsAlive' = BuildsAlive /\ BuildsUnderWay' \subseteq BuildsAlive
    BY <2>4, <2>5
  <2> QED
    BY <1>1, <2>1, <2>6, SameAlive, UnmovedKeeps, MovesBy
<1> QED
  BY <1>2, <1>3, <1>4

\* Every batch in flight is published.
LEMMA ResetSchedulerMoves ==
    ASSUME IInv, IInv', OrderOK, ResetScheduler
    PROVE  MovesAlong
<1>1. /\ Publish(inFlight) /\ inFlight' = {} /\ (fatal => fatal')
      /\ UNCHANGED <<handles, buildDatas, queued, render, producers, owner, nextOwner, issued,
                     accepted>>
  BY DEF ResetScheduler, historyVars
<1>2. /\ \A s \in Slots : Keeps(s) \/ Shows(s)
      /\ \A b \in inFlight : \A d \in b.builds : Publishable(d) => Shows(d.slot)
  <2>1. inFlight \in SUBSET inFlight
    OBVIOUS
  <2> QED
    BY <1>1, <2>1, PollShows DEF Publish
<1>3. BuildsUnderWay' \subseteq BuildsAlive
  BY <1>1 DEF BuildsAlive, BuildsUnderWay
<1>4. Delivers
  BY <1>1, <1>2 DEF Delivers, BuildsAlive
<1> QED
  BY <1>1, <1>2, <1>3, <1>4, MovesBy

LEMMA SetCollectChunkEmissionMoves ==
    ASSUME IInv, IInv', OrderOK, SetCollectChunkEmission
    PROVE  MovesAlong
<1> DEFINE published == [s \in Slots |-> FirstPublishable(inFlight, s)]
           relit(d) == IF d = NoBuild THEN d ELSE [d EXCEPT !.lit = collect /\ d.kind = "emissive"]
<1>1. /\ render.pc = "collect" /\ render' = NoBatch
      /\ buildDatas' = [s \in Slots |-> relit(buildDatas[s])]
      /\ inFlight' = {} /\ (fatal => fatal')
      /\ UNCHANGED <<handles, queued, producers, owner, nextOwner, issued, accepted>>
      /\ \/ Publish(inFlight)
         \/ chunks' = [s \in Slots |-> [ChunksWith(published)[s] EXCEPT !.mesh = Dimmed(@)]]
  BY DEF SetCollectChunkEmission, historyVars
<1>2. /\ \A s \in Slots : Keeps(s) \/ Shows(s)
      /\ \A b \in inFlight : \A d \in b.builds : Publishable(d) => Shows(d.slot)
  <2>1. inFlight \in SUBSET inFlight
    OBVIOUS
  <2>2. \A s \in Slots : \/ chunks'[s] = ChunksWith(published)[s]
                         \/ chunks'[s] = [ChunksWith(published)[s] EXCEPT !.mesh = Dimmed(@)]
    BY <1>1 DEF Publish
  <2> QED
    BY <2>1, <2>2, PollShows
<1>3. ASSUME NEW s \in Slots
      PROVE  /\ buildDatas'[s] = NoBuild <=> buildDatas[s] = NoBuild
             /\ buildDatas[s] # NoBuild => OfBuild(buildDatas'[s]) = OfBuild(buildDatas[s])
  <2>1. ASSUME NEW d \in Build
        PROVE  relit(d) # NoBuild /\ OfBuild(relit(d)) = OfBuild(d)
    <3>1. collect \in BOOLEAN
      BY DEF IInv, FlagsOK
    <3> QED
      BY <2>1, <3>1, NoBuildAssumption DEF Build, OfBuild
  <2>2. buildDatas[s] \in Build \cup {NoBuild} /\ buildDatas'[s] = relit(buildDatas[s])
    BY <1>1 DEF IInv, SlotsOK
  <2>3. relit(NoBuild) = NoBuild
    OBVIOUS
  <2> HIDE DEF relit
  <2> QED
    BY <2>1, <2>2, <2>3, NoBuildAssumption
<1>4. BuildsUnderWay' \subseteq BuildsAlive
  BY <1>1 DEF BuildsAlive, BuildsUnderWay, NoBatch
<1>5. Delivers
  <2> SUFFICES ASSUME NEW d \in BuildsAlive, Publishable(d), ~Shows(d.slot)
               PROVE  \E e \in BuildsAlive' : OfBuild(e) = OfBuild(d)
    BY DEF Delivers
  <2>1. render.builds = {}
    BY <1>1 DEF IInv, PoolOK
  <2>2. PICK s \in queued : d = buildDatas[s]
    BY <1>2, <2>1 DEF BuildsAlive
  <2>3. s \in Slots /\ buildDatas[s] # NoBuild
    BY AliveTypes
  <2>4. s \in queued' /\ OfBuild(buildDatas'[s]) = OfBuild(d)
    BY <1>1, <1>3, <2>2, <2>3
  <2>5. buildDatas'[s] \in BuildsAlive'
    BY <2>4 DEF BuildsAlive
  <2> QED
    BY <2>4, <2>5
<1> QED
  BY <1>1, <1>2, <1>3, <1>4, <1>5, MovesBy

\* The rest touches no build.
LEMMA OtherMoves ==
    ASSUME IInv, IInv', \/ SetCollectOption \/ AbandonCollect \/ Fail
                        \/ \E f \in Fences : Signal(f)
                        \/ UNCHANGED vars
    PROVE  MovesAlong
<1>1. /\ UNCHANGED <<handles, chunks, buildDatas, queued, inFlight, producers, owner, nextOwner,
                     issued, accepted>>
      /\ fatal => fatal'
      /\ \/ render' = render
         \/ render.pc \in {"idle", "collect"} /\ render'.builds = {}
  BY DEF SetCollectOption, AbandonCollect, Fail, Signal, vars, slotVars, poolVars, historyVars,
         NoBatch, RenderIdle
<1>2. render'.builds = render.builds
  BY <1>1 DEF IInv, PoolOK
<1>3. BuildsAlive' = BuildsAlive
  BY <1>1, <1>2 DEF BuildsAlive
<1>4. BuildsUnderWay' = BuildsUnderWay /\ BuildsUnderWay \subseteq BuildsAlive
  BY <1>1, <1>2 DEF BuildsAlive, BuildsUnderWay
<1> QED
  BY <1>1, <1>3, <1>4, SameAlive, UnmovedKeeps, MovesBy

\* The order of the batches in flight: a new one is last, and recycled ones leave it.
LEMMA PollOrder ==
    ASSUME IInv, OrderOK, NEW done \in SUBSET inFlight,
           inFlight' = {[b EXCEPT !.before = @ \ {c.fence : c \in done}] : b \in inFlight \ done}
    PROVE  OrderOK'
<1> DEFINE recycled == {b.fence : b \in done}
           shrunk(b) == [b EXCEPT !.before = @ \ recycled]
<1>1. \A b \in inFlight : /\ shrunk(b).before = b.before \ recycled
                          /\ shrunk(b).fence = b.fence
  BY DEF IInv, WorkOK, Batch
<1>2. inFlight' = {shrunk(b) : b \in inFlight \ done}
  OBVIOUS
<1> HIDE DEF shrunk
<1>3. InFlightFences' = {b.fence : b \in inFlight \ done}
  BY <1>1, <1>2 DEF InFlightFences
<1>4. ASSUME NEW b \in inFlight' PROVE b.before \subseteq InFlightFences' \ {b.fence}
  <2>1. PICK a \in inFlight \ done : b = shrunk(a)
    BY <1>2
  <2>2. a.before \subseteq InFlightFences \ {a.fence}
    BY <2>1 DEF OrderOK
  <2>3. InFlightFences \subseteq InFlightFences' \cup recycled
    BY <1>3 DEF InFlightFences
  <2> HIDE DEF recycled
  <2> QED
    BY <1>1, <2>1, <2>2, <2>3
<1>5. ASSUME NEW b \in inFlight', NEW c \in inFlight', c.fence \in b.before
      PROVE  c.before \subseteq b.before
  <2>1. PICK a \in inFlight, e \in inFlight : b = shrunk(a) /\ c = shrunk(e)
    BY <1>2
  <2>2. e \in Earlier(a)
    BY <1>1, <1>5, <2>1 DEF Earlier
  <2>3. e.before \subseteq a.before
    BY <2>1, <2>2 DEF OrderOK
  <2> HIDE DEF recycled
  <2> QED
    BY <1>1, <2>1, <2>3
<1> QED
  BY <1>4, <1>5 DEF OrderOK, Earlier

LEMMA RecordOrder ==
    ASSUME IInv, OrderOK, RecordInFlight
    PROVE  OrderOK'
<1>1. PICK f \in render.fence :
          inFlight' = inFlight \cup
                          {[fence |-> f, before |-> InFlightFences, builds |-> render.builds]}
  BY DEF RecordInFlight
<1> DEFINE new == [fence |-> f, before |-> InFlightFences, builds |-> render.builds]
<1>2. /\ inFlight' = inFlight \cup {new} /\ new.fence = f /\ new.before = InFlightFences
      /\ f \notin InFlightFences
  BY <1>1 DEF IInv, PoolOK, FencePool
<1> HIDE DEF new
<1>3. InFlightFences' = InFlightFences \cup {f}
  BY <1>2 DEF InFlightFences
<1>4. \A b \in inFlight : b.fence \in InFlightFences /\ b.before \subseteq InFlightFences \ {b.fence}
  BY DEF OrderOK, InFlightFences
<1>5. \A b \in inFlight' : b.before \subseteq InFlightFences' \ {b.fence}
  BY <1>2, <1>3, <1>4
<1>6. ASSUME NEW b \in inFlight', NEW c \in inFlight', c.fence \in b.before
      PROVE  c.before \subseteq b.before
  <2>1. c # new
    BY <1>2, <1>4, <1>6
  <2>2. CASE b = new
    BY <1>2, <1>4, <2>1, <2>2
  <2>3. CASE b # new
    BY <1>2, <1>6, <2>1, <2>3 DEF OrderOK, Earlier
  <2> QED
    BY <2>2, <2>3
<1> QED
  BY <1>5, <1>6 DEF OrderOK, Earlier

LEMMA NextOrder ==
    ASSUME IInv, OrderOK, [Next]_vars
    PROVE  OrderOK'
<1>1. ASSUME NEW visited \in SUBSET inFlight, NEW halfReset, PollBatches(visited, halfReset)
      PROVE  OrderOK'
  <2> DEFINE done == {b \in visited : gpu[b.fence] = "signaled"}
  <2>1. inFlight' = {[b EXCEPT !.before = @ \ {c.fence : c \in done}] : b \in inFlight \ done}
    BY <1>1 DEF PollBatches
  <2>2. done \in SUBSET inFlight
    OBVIOUS
  <2> HIDE DEF done
  <2> QED
    BY <2>1, <2>2, PollOrder
<1>2. CASE inFlight' = inFlight
  BY <1>2 DEF OrderOK, Earlier, InFlightFences
<1>3. CASE inFlight' = {}
  BY <1>3 DEF OrderOK
<1>4. CASE RenderThread
  <2>1. CASE Poll
    BY <1>1, <2>1 DEF Poll
  <2>2. CASE PollFails
    BY <1>1, <2>2 DEF PollFails, Earlier
  <2>3. CASE RecordInFlight
    BY <2>3, RecordOrder
  <2>4. CASE \/ \E taken \in SUBSET SlotIds : Select(taken)
             \/ PublishEmptyBatch \/ Submit \/ SubmitFails \/ BuildThrows
             \/ SetCollectOption \/ AbandonCollect
    <3>1. inFlight' = inFlight
      BY <2>4 DEF Select, PublishEmptyBatch, Submit, SubmitFails, BuildThrows, SetCollectOption,
                  AbandonCollect, poolVars
    <3> QED
      BY <1>2, <3>1
  <2>5. CASE ResetScheduler \/ SetCollectChunkEmission \/ (\E n \in PrimaryCounts : Reset(n))
             \/ ReleaseScene
    <3>1. inFlight' = {}
      BY <2>5 DEF ResetScheduler, SetCollectChunkEmission, Reset, ReleaseScene, EmptyStorage
    <3> QED
      BY <1>3, <3>1
  <2> QED
    BY <1>4, <2>1, <2>2, <2>3, <2>4, <2>5 DEF RenderThread
<1>5. CASE Game
  <2>1. inFlight' = inFlight
    BY <1>5 DEF Game, MarkChunkDirty, InvalidateChunk, RelocateChunk, ReleaseExternalChunk,
                AllocateExternalChunk, Fail, poolVars
  <2> QED
    BY <1>2, <2>1
<1>6. CASE \E p \in Producers : Produce(p)
  <2>1. inFlight' = inFlight
    BY <1>6 DEF Produce, StartCompile, BeginQueue, Refuse, Enqueue, EnqueueImportant, poolVars
  <2> QED
    BY <1>2, <2>1
<1>7. CASE (\E f \in Fences : Signal(f)) \/ UNCHANGED vars
  BY <1>2, <1>7 DEF Signal, vars
<1> QED
  BY <1>4, <1>5, <1>6, <1>7 DEF Next

\* Every step but those of the game and the workers moves builds along, or leaves the world.
LEMMA BackgroundMoves ==
    ASSUME IInv, IInv', VersionsOK, OrderOK,
           \/ RenderThread
           \/ \E f \in Fences : Signal(f)
           \/ Fail
           \/ UNCHANGED vars
    PROVE  MovesAlong \/ (\E n \in PrimaryCounts : Reset(n)) \/ ReleaseScene
<1>1. CASE Poll
  BY <1>1, PollMoves DEF Poll
<1>2. CASE PollFails
  BY <1>2, PollMoves DEF PollFails, Earlier
<1>3. CASE \E taken \in SUBSET SlotIds : Select(taken)
  BY <1>3, SelectMoves
<1>4. CASE PublishEmptyBatch
  BY <1>4, PublishEmptyBatchMoves
<1>5. CASE Submit \/ SubmitFails \/ BuildThrows \/ RecordInFlight
  BY <1>5, SubmissionMoves
<1>6. CASE ResetScheduler
  BY <1>6, ResetSchedulerMoves
<1>7. CASE SetCollectChunkEmission
  BY <1>7, SetCollectChunkEmissionMoves
<1>8. CASE SetCollectOption \/ AbandonCollect \/ Fail \/ (\E f \in Fences : Signal(f))
           \/ UNCHANGED vars
  BY <1>8, OtherMoves
<1> QED
  BY <1>1, <1>2, <1>3, <1>4, <1>5, <1>6, <1>7, <1>8 DEF RenderThread

\* A build is acceptable again when it is so before a step that keeps its slot.
LEMMA StaysPublishable ==
    ASSUME NEW d, NEW e, OfBuild(d) = OfBuild(e), Publishable(d), Keeps(d.slot),
           handles' = handles
    PROVE  Publishable(e)'
BY SameBuild DEF Publishable, Accepts, Keeps, IsCurrent, StorageSlots

LEMMA MovesVersions ==
    ASSUME IInv, IInv', VersionsOK, MovesAlong
    PROVE  VersionsOK'
<1>1. Slots' = Slots /\ UNCHANGED <<handles, producers>>
  BY DEF MovesAlong, Slots
<1>2. ASSUME NEW s \in Slots
      PROVE  /\ chunks'[s].blasVersion <= chunks'[s].desired
             /\ chunks'[s].desired = chunks[s].desired /\ chunks'[s].latest = chunks[s].latest
  <2>1. chunks[s].blasVersion <= chunks[s].desired /\ chunks[s].desired \in Int
    BY DEF VersionsOK, IInv, SlotsOK, ChunkState
  <2>2. CASE Keeps(s)
    BY <2>1, <2>2 DEF Keeps
  <2>3. CASE Shows(s)
    BY <2>1, <2>3 DEF Shows, Publishable, Accepts
  <2> QED
    BY <2>2, <2>3 DEF MovesAlong
<1>3. ASSUME NEW s \in Slots, buildDatas'[s] # NoBuild PROVE buildDatas'[s].slot = s
  BY <1>3, SameBuild DEF MovesAlong, VersionsOK
<1>4. ASSUME NEW s \in SlotIds, accepted'[s] >= 0 PROVE accepted'[s] = accepted[s]
  BY <1>4 DEF MovesAlong
<1>5. Busy' = Busy
  BY <1>1 DEF Busy
<1> QED
  BY <1>1, <1>2, <1>3, <1>4, <1>5 DEF VersionsOK, Explicit

LEMMA MovesDeliver ==
    ASSUME IInv, IInv', VersionsOK, NoLostBuild, MovesAlong
    PROVE  NoLostBuild'
<1>1. Slots' = Slots /\ Slots \subseteq SlotIds
  BY DEF MovesAlong, Slots, VersionsOK
<1> SUFFICES ASSUME NEW s \in Slots, accepted'[s] >= 0, ~fatal',
                    chunks'[s].blasVersion # accepted'[s]
             PROVE  \E e \in BuildsAlive' : e.slot = s /\ e.version = accepted'[s]
                                            /\ Publishable(e)'
  BY <1>1 DEF NoLostBuild
<1>2. /\ accepted'[s] = accepted[s] /\ accepted[s] = chunks[s].desired
      /\ ~fatal /\ (Keeps(s) \/ Shows(s)) /\ Delivers
  BY <1>1 DEF MovesAlong, VersionsOK
<1>3. ~Shows(s)
  <2> SUFFICES ASSUME Shows(s) PROVE FALSE
    OBVIOUS
  <2>1. chunks'[s].blasVersion = chunks[s].desired
    BY DEF Shows, Publishable, Accepts
  <2> QED
    BY <1>2, <2>1
<1>4. Keeps(s)
  BY <1>2, <1>3
<1>5. PICK d \in BuildsAlive : d.slot = s /\ d.version = accepted[s] /\ Publishable(d)
  BY <1>2, <1>4 DEF NoLostBuild, Keeps
<1>6. PICK e \in BuildsAlive' : OfBuild(e) = OfBuild(d)
  BY <1>2, <1>3, <1>5 DEF Delivers
<1>7. e.slot = s /\ e.version = accepted'[s]
  BY <1>2, <1>5, <1>6, SameBuild
<1>8. Publishable(e)'
  BY <1>4, <1>5, <1>6, StaysPublishable DEF MovesAlong
<1> QED
  BY <1>7, <1>8

\* Who is on the way stays sound while neither handles nor owners change, and versions
\* wanted and issued only grow.
LEMMA StaysSound ==
    ASSUME IInv, IInv', NEW i \in Item, Sound(i), UNCHANGED <<handles, owner>>,
           \A s \in Slots : /\ Explicit(s) => issued'[s] >= issued[s]
                            /\ chunks'[s].desired >= chunks[s].desired,
           VersionsOK
    PROVE  Sound(i)'
<1>1. Slots' = Slots
  BY DEF Slots
<1>2. /\ i.slot \in Slots /\ i.version \in Int
      /\ i.slot \in SlotIds
  BY BoundsAssumption DEF Sound, Item, Versions, VersionsOK
<1>3. /\ chunks[i.slot].desired \in Int /\ chunks'[i.slot].desired \in Int
      /\ issued[i.slot] \in Int /\ issued'[i.slot] \in Int
  BY <1>1, <1>2, BoundsAssumption DEF IInv, SlotsOK, ChunkState, HistoryOK, Versions
<1>4. /\ Explicit(i.slot) => issued'[i.slot] >= issued[i.slot]
      /\ chunks'[i.slot].desired >= chunks[i.slot].desired
  BY <1>2
<1>5. IsCurrent(handles, i.slot, i.sgen)' = IsCurrent(handles, i.slot, i.sgen)
  BY DEF IsCurrent, StorageSlots
<1> QED
  BY <1>1, <1>2, <1>3, <1>4, <1>5 DEF Sound, Explicit

LEMMA TaskItem ==
    ASSUME NEW t \in ProducerState, t.pc # "idle"
    PROVE  /\ t.pc = "compiled" => /\ t.handle \in Handle
                                   /\ OfTask(t) = [slot |-> t.handle.slot, sgen |-> t.handle.gen,
                                                   version |-> t.gen, owner |-> t.owner]
           /\ t.pc = "copying" => OfTask(t) = [slot |-> t.slot, sgen |-> t.sgen,
                                               version |-> t.gen, owner |-> t.owner]
           /\ t.pc \in {"compiled", "copying"}
           /\ OfTask(t) \in Item
<1>1. CASE t \in [pc : {"compiled"}, handle : Handle, gen : Versions, owner : Nat]
  BY <1>1 DEF OfTask, Item, Handle
<1>2. CASE t \in [pc : {"copying"}, slot : Nat, sgen : Nat, gen : Versions, owner : Nat]
  BY <1>2 DEF OfTask, Item
<1> QED
  BY <1>1, <1>2 DEF ProducerState

LEMMA ComingItems ==
    ASSUME IInv
    PROVE  Coming \subseteq Item
<1>1. \A p \in Busy : OfTask(producers[p]) \in Item
  BY TaskItem DEF IInv, WorkOK, Busy
<1>2. \A d \in Build : OfBuild(d) \in Item
  BY BuildFields, NoBuildAssumption
<1> QED
  BY <1>1, <1>2, AliveTypes DEF Coming

LEMMA MovesOwners ==
    ASSUME IInv, IInv', VersionsOK, OwnersOK, MovesAlong
    PROVE  OwnersOK'
<1>1. Slots' = Slots /\ UNCHANGED <<handles, owner, nextOwner, issued>>
  BY DEF MovesAlong, Slots
<1>2. ASSUME NEW s \in Slots
      PROVE  /\ issued'[s] >= issued[s] /\ chunks'[s].desired >= chunks[s].desired
             /\ chunks'[s].mesh # NoBuild => chunks'[s].mesh.owner = owner[s]
  <2>1. /\ chunks[s].desired \in Int /\ issued[s] \in Int
        /\ chunks[s].mesh # NoBuild => chunks[s].mesh.owner = owner[s]
    BY BoundsAssumption DEF VersionsOK, IInv, SlotsOK, ChunkState, HistoryOK, Versions, OwnersOK,
                            NoForeignBuild
  <2>2. CASE Keeps(s)
    BY <1>1, <2>1, <2>2, SameBuild DEF Keeps
  <2>3. CASE Shows(s)
    <3>1. PICK d \in BuildsUnderWay :
              /\ d.slot = s /\ Publishable(d) /\ chunks'[s].desired = chunks[s].desired
              /\ chunks'[s].mesh # NoBuild /\ OfBuild(chunks'[s].mesh) = OfBuild(d)
      BY <2>3 DEF Shows
    <3>2. OfBuild(d) \in Coming
      BY DEF Coming
    <3>3. Sound(OfBuild(d)) /\ d \in Build
      BY <3>2, AliveTypes DEF OwnersOK
    <3>4. d.version = chunks[s].desired /\ IsCurrent(handles, d.slot, d.sgen)
      BY <3>1 DEF Publishable, Accepts
    <3>5. d.owner = owner[s]
      <4> DEFINE i == OfBuild(d)
      <4>1. /\ i.slot = s /\ i.sgen = d.sgen /\ i.version = chunks[s].desired
            /\ i.owner = d.owner
        BY <3>1, <3>4 DEF OfBuild
      <4> HIDE DEF i
      <4> QED
        BY <2>1, <3>1, <3>3, <3>4, <4>1 DEF Sound, i
    <3> QED
      BY <1>1, <2>1, <3>1, <3>5, SameBuild
  <2> QED
    BY <2>2, <2>3 DEF MovesAlong
<1>3. ASSUME NEW i \in Coming' PROVE Sound(i)'
  <2>1. i \in Item /\ Sound(i)
    BY <1>3, ComingItems DEF MovesAlong, OwnersOK
  <2> QED
    BY <1>1, <1>2, <2>1, StaysSound
<1>4. GenerationsOK'
  BY <1>1 DEF OwnersOK, GenerationsOK
<1> QED
  BY <1>1, <1>2, <1>3, <1>4 DEF OwnersOK, NoForeignBuild

\* In the eyes of a slot, a build moving along is shown or nothing happens.
LEMMA MovesImplement ==
    ASSUME IInv, IInv', VersionsOK, OwnersOK, OwnersOK', MovesAlong, NEW s \in SlotIds
    PROVE  [Slot(s)!Next]_(Slot(s)!slot)
<1>1. Slots' = Slots /\ UNCHANGED <<handles, owner>>
  BY DEF MovesAlong, Slots
<1>2. CASE ~Occupied(s)
  BY <1>1, <1>2 DEF Slot!slot, Occupied, Shown
<1>3. CASE Occupied(s)
  <2>1. s \in Slots /\ Occupied(s)'
    BY <1>1, <1>3 DEF Occupied
  <2>2. CASE Keeps(s)
    BY <1>1, <1>3, <2>1, <2>2, SameBuild DEF Slot!slot, Occupied, Shown, Keeps
  <2>3. CASE Shows(s)
    <3>1. PICK d \in BuildsUnderWay :
              /\ d.slot = s /\ Publishable(d) /\ chunks'[s].desired = chunks[s].desired
              /\ chunks'[s].blasVersion = d.version
              /\ chunks'[s].mesh # NoBuild /\ OfBuild(chunks'[s].mesh) = OfBuild(d)
      BY <2>3 DEF Shows
    <3>2. d.version = chunks[s].desired /\ d.version > chunks[s].blasVersion
      BY <3>1 DEF Publishable, Accepts
    <3>3. chunks'[s].mesh.owner = owner[s] /\ chunks'[s].mesh.version = chunks[s].desired
      BY <1>1, <2>1, <3>1, <3>2, SameBuild DEF OwnersOK, NoForeignBuild
    <3>4. chunks[s].desired \in Int
      BY <2>1 DEF IInv, SlotsOK, ChunkState
    <3>5. Slot(s)!Show
      BY <1>1, <1>3, <2>1, <3>1, <3>2, <3>3, <3>4 DEF Slot!Show, Occupied, Shown
    <3> QED
      BY <3>5 DEF Slot!Next
  <2> QED
    BY <2>1, <2>2, <2>3 DEF MovesAlong
<1> QED
  BY <1>2, <1>3

-----------------------------------------------------------------------------
(* Steps of workers that touch only their own task                         *)

WorkerStep(p) == (\E s \in SlotIds : StartCompile(p, s)) \/ BeginQueue(p) \/ Refuse(p)

LEMMA SoundTask ==
    ASSUME IInv, NEW s \in Slots, Resolves(handles, HandleOf(s))
    PROVE  /\ HandleOf(s) \in Handle /\ HandleOf(s).slot = s
           /\ IF s < handles.primary THEN HandleOf(s).gen = 0
              ELSE HandleOf(s).gen = handles.gen[s] /\ handles.active[s]
<1>1. HandleOf(s) \in Handle /\ HandleOf(s).slot = s
  BY HandleOfType DEF IInv
<1>2. HandleOf(s).gen = IF s < handles.primary THEN 0 ELSE handles.gen[s]
  BY DEF HandleOf, Encode
<1>3. /\ handles.size \in Nat /\ handles.primary \in 0 .. handles.size
      /\ Slots = 0 .. handles.size - 1
  BY SlotsType DEF IInv
<1>4. s >= handles.primary => handles.gen[s] \in 1 .. MaxGen
  BY <1>3, TableFields DEF IInv, SlotsOK
<1>5. IsCurrent(handles, s, HandleOf(s).gen)
  BY <1>1 DEF Resolves
<1> QED
  BY <1>1, <1>2, <1>3, <1>4, <1>5, MaxGenAssumption DEF IsCurrent

\* What a worker's step leaves alone, and its new task: a new one for the occupant, the one
\* it had, or none.
LEMMA WorkerStepEffect ==
    ASSUME IInv, IInv', NEW p \in Producers, WorkerStep(p)
    PROVE  /\ UNCHANGED <<handles, chunks, buildDatas, queued, render, inFlight, fatal, owner,
                          nextOwner, accepted>>
           /\ \A s \in SlotIds : issued'[s] >= issued[s]
           /\ \A q \in Producers : q # p => producers'[q] = producers[q]
           /\ \/ producers'[p].pc = "idle"
              \/ /\ producers[p].pc # "idle" /\ OfTask(producers'[p]) = OfTask(producers[p])
                 /\ producers'[p].gen = producers[p].gen
              \/ \E s \in Slots : \E g \in Versions :
                    /\ s \in SlotIds /\ Resolves(handles, HandleOf(s)) /\ (g >= 0 <=> Explicit(s))
                    /\ issued'[s] >= g /\ producers'[p].gen = g
                    /\ OfTask(producers'[p]) = [slot |-> s, sgen |-> HandleOf(s).gen,
                                                version |-> g, owner |-> owner[s]]
<1>1. UNCHANGED <<handles, chunks, buildDatas, queued, render, inFlight, fatal, owner, nextOwner,
                  accepted>>
  BY DEF WorkerStep, StartCompile, BeginQueue, Refuse, slotVars, poolVars, historyVars
<1>2. producers \in [Producers -> ProducerState] /\ issued \in [SlotIds -> Versions]
  BY DEF IInv, WorkOK, HistoryOK
<1>3. ASSUME NEW s \in SlotIds, StartCompile(p, s)
      PROVE  /\ \A k \in SlotIds : issued'[k] >= issued[k]
             /\ \A q \in Producers : q # p => producers'[q] = producers[q]
             /\ s \in Slots
             /\ \E g \in Versions :
                    /\ Resolves(handles, HandleOf(s)) /\ (g >= 0 <=> Explicit(s))
                    /\ issued'[s] >= g /\ producers'[p].gen = g
                    /\ OfTask(producers'[p]) = [slot |-> s, sgen |-> HandleOf(s).gen,
                                                version |-> g, owner |-> owner[s]]
  <2>1. PICK g \in IF Explicit(s) THEN {issued[s], issued[s] + 1} \cap 0 .. MaxVersion ELSE {-1} :
            /\ producers' = [producers EXCEPT ![p] =
                   [pc |-> "compiled", handle |-> HandleOf(s), gen |-> g, owner |-> owner[s]]]
            /\ issued' = [issued EXCEPT ![s] = MaxOf(@, g)]
    BY <1>3 DEF StartCompile
  <2>2. s \in Slots /\ Resolves(handles, HandleOf(s))
    BY <1>3 DEF StartCompile, Callable
  <2>3. g \in Versions /\ (g >= 0 <=> Explicit(s))
    BY <1>2, <2>1, BoundsAssumption DEF Versions
  <2>4. /\ \A k \in SlotIds : issued[k] \in Int /\ g \in Int
        /\ issued'[s] = MaxOf(issued[s], g) /\ \A k \in SlotIds : k # s => issued'[k] = issued[k]
    BY <1>2, <2>1, <2>3, BoundsAssumption DEF Versions
  <2>5. issued'[s] >= g /\ \A k \in SlotIds : issued'[k] >= issued[k]
    BY <2>4 DEF MaxOf
  <2>6. /\ producers'[p] = [pc |-> "compiled", handle |-> HandleOf(s), gen |-> g,
                            owner |-> owner[s]]
        /\ \A q \in Producers : q # p => producers'[q] = producers[q]
    BY <1>2, <2>1
  <2>7. HandleOf(s).slot = s
    BY <2>2, SoundTask
  <2>8. OfTask(producers'[p]) = [slot |-> s, sgen |-> HandleOf(s).gen,
                                 version |-> g, owner |-> owner[s]]
    BY <2>6, <2>7 DEF OfTask
  <2> QED
    BY <2>2, <2>3, <2>5, <2>6, <2>8
<1>4. ASSUME BeginQueue(p)
      PROVE  /\ issued' = issued /\ \A q \in Producers : q # p => producers'[q] = producers[q]
             /\ \/ producers'[p].pc = "idle"
                \/ /\ producers[p].pc # "idle" /\ OfTask(producers'[p]) = OfTask(producers[p])
                   /\ producers'[p].gen = producers[p].gen
  <2> DEFINE task == producers[p]
             s == task.handle.slot
             new == [pc |-> "copying", slot |-> s, sgen |-> handles.gen[s],
                     gen |-> task.gen, owner |-> task.owner]
  <2>1. /\ task.pc = "compiled" /\ issued' = issued
        /\ producers' = [producers EXCEPT ![p] =
               IF fatal \/ ~Resolves(handles, task.handle) \/ Outdated(s, task.gen)
               THEN IdleProducer ELSE new]
    BY <1>4 DEF BeginQueue, historyVars
  <2>2. /\ task.handle \in Handle
        /\ OfTask(task) = [slot |-> s, sgen |-> task.handle.gen, version |-> task.gen,
                           owner |-> task.owner]
    BY <1>2, <2>1, TaskItem
  <2>3. ASSUME Resolves(handles, task.handle) PROVE task.handle.gen = handles.gen[s]
    <3>1. /\ handles.size \in Nat /\ handles.primary \in 0 .. handles.size /\ s \in Nat
          /\ Slots = 0 .. handles.size - 1
      BY <2>2, SlotsType DEF IInv, Handle
    <3>2. \A k \in 0 .. handles.primary - 1 : handles.gen[k] = 0
      BY TableFields DEF IInv, SlotsOK
    <3>3. IsCurrent(handles, s, task.handle.gen)
      BY <2>3 DEF Resolves
    <3> QED
      BY <3>1, <3>2, <3>3 DEF IsCurrent
  <2>4. OfTask(new) = [slot |-> s, sgen |-> handles.gen[s], version |-> task.gen,
                       owner |-> task.owner]
    BY DEF OfTask
  <2>5. producers'[p] = IF fatal \/ ~Resolves(handles, task.handle) \/ Outdated(s, task.gen)
                        THEN IdleProducer ELSE new
    BY <1>2, <2>1
  <2>6. new.gen = task.gen
    OBVIOUS
  <2>7. \A q \in Producers : q # p => producers'[q] = producers[q]
    BY <1>2, <2>1
  <2> HIDE DEF new
  <2>8. CASE producers'[p] = new
    <3>1. Resolves(handles, task.handle) \/ producers'[p] = IdleProducer
      BY <2>5
    <3>2. IdleProducer.pc = "idle"
      BY DEF IdleProducer
    <3> QED
      BY <2>1, <2>2, <2>3, <2>4, <2>6, <2>7, <2>8, <3>1, <3>2
  <2> QED
    BY <2>1, <2>5, <2>7, <2>8 DEF IdleProducer
<1>5. ASSUME Refuse(p)
      PROVE  /\ issued' = issued /\ \A q \in Producers : q # p => producers'[q] = producers[q]
             /\ producers'[p].pc = "idle"
  BY <1>2, <1>5 DEF Refuse, historyVars, IdleProducer
<1>6. \A k \in SlotIds : issued[k] >= issued[k]
  BY <1>2, BoundsAssumption DEF Versions
<1>7. CASE \E s \in SlotIds : StartCompile(p, s)
  BY <1>1, <1>3, <1>7
<1>8. CASE BeginQueue(p)
  BY <1>1, <1>4, <1>6, <1>8
<1>9. CASE Refuse(p)
  BY <1>1, <1>5, <1>6, <1>9
<1> QED
  BY <1>7, <1>8, <1>9 DEF WorkerStep

LEMMA WorkerVersions ==
    ASSUME IInv, IInv', VersionsOK, NEW p \in Producers, WorkerStep(p)
    PROVE  VersionsOK'
<1>1. /\ UNCHANGED <<handles, chunks, buildDatas, accepted>> /\ Slots' = Slots
      /\ \A q \in Producers : q # p => producers'[q] = producers[q]
  BY WorkerStepEffect DEF Slots
<1>2. ASSUME NEW q \in Busy' PROVE producers'[q].gen >= 0 <=> Explicit(OfTask(producers'[q]).slot)
  <2>1. CASE q # p
    BY <1>1, <1>2, <2>1 DEF Busy, VersionsOK
  <2>2. CASE q = p
    <3>1. producers'[p].pc # "idle"
      BY <1>2, <2>2 DEF Busy
    <3>2. CASE /\ producers[p].pc # "idle" /\ OfTask(producers'[p]) = OfTask(producers[p])
               /\ producers'[p].gen = producers[p].gen
      BY <2>2, <3>2 DEF Busy, VersionsOK
    <3>3. ASSUME NEW s, NEW g, g >= 0 <=> Explicit(s), producers'[p].gen = g,
                 OfTask(producers'[p]) = [slot |-> s, sgen |-> HandleOf(s).gen,
                                          version |-> g, owner |-> owner[s]]
          PROVE  producers'[p].gen >= 0 <=> Explicit(OfTask(producers'[p]).slot)
      BY <3>3
    <3> QED
      BY <2>2, <3>1, <3>2, <3>3, WorkerStepEffect
  <2> QED
    BY <2>1, <2>2
<1>3. \A q \in Busy' : (producers[q].gen >= 0)' <=> Explicit(OfTask(producers[q]).slot)'
  BY <1>2 DEF Explicit
<1> QED
  BY <1>1, <1>3 DEF VersionsOK, Explicit

LEMMA WorkerDelivers ==
    ASSUME IInv, IInv', NoLostBuild, NEW p \in Producers, WorkerStep(p)
    PROVE  NoLostBuild'
<1>1. UNCHANGED <<handles, chunks, buildDatas, queued, render, inFlight, fatal, accepted>>
  BY WorkerStepEffect
<1>2. Slots' = Slots /\ BuildsAlive' = BuildsAlive
  BY <1>1 DEF Slots, BuildsAlive
<1>3. \A d : Publishable(d)' <=> Publishable(d)
  BY <1>1 DEF Publishable, Accepts, IsCurrent, StorageSlots
<1> QED
  BY <1>1, <1>2, <1>3 DEF NoLostBuild

LEMMA WorkerOwners ==
    ASSUME IInv, IInv', VersionsOK, OwnersOK, NEW p \in Producers, WorkerStep(p)
    PROVE  OwnersOK'
<1>1. /\ UNCHANGED <<handles, chunks, buildDatas, queued, render, inFlight, owner, nextOwner>>
      /\ \A s \in SlotIds : issued'[s] >= issued[s]
      /\ \A q \in Producers : q # p => producers'[q] = producers[q]
      /\ Slots' = Slots /\ Slots \subseteq SlotIds
  BY WorkerStepEffect DEF Slots, VersionsOK
<1>2. Waiters' = Waiters /\ BuildsUnderWay' = BuildsUnderWay
  BY <1>1 DEF Waiters, BuildsUnderWay
<1>3. \A s \in Slots : chunks'[s].desired >= chunks[s].desired
  BY <1>1 DEF IInv, SlotsOK, ChunkState
<1>4. ASSUME NEW i \in Coming PROVE Sound(i)'
  BY <1>1, <1>3, <1>4, ComingItems, StaysSound DEF OwnersOK
<1>5. ASSUME NEW s \in Slots, NEW g \in Versions, Resolves(handles, HandleOf(s)),
             issued'[s] >= g, NEW i,
             i = [slot |-> s, sgen |-> HandleOf(s).gen, version |-> g, owner |-> owner[s]]
      PROVE  Sound(i)'
  <2>1. IF s < handles.primary THEN HandleOf(s).gen = 0
        ELSE HandleOf(s).gen = handles.gen[s] /\ handles.active[s]
    BY <1>5, SoundTask
  <2>2. handles.gen[s] \in Nat /\ g \in Int /\ issued'[s] \in Int
    BY <1>1, <1>5, SlotsType, BoundsAssumption, MaxGenAssumption DEF IInv, HistoryOK, Versions
  <2>3. i.slot = s /\ i.sgen = HandleOf(s).gen /\ i.version = g /\ i.owner = owner[s]
    BY <1>5
  <2> QED
    BY <1>1, <1>5, <2>1, <2>2, <2>3 DEF Sound
<1>6. ASSUME NEW i \in Coming' PROVE Sound(i)'
  <2>1. CASE i \in {OfBuild(d) : d \in Waiters' \cup BuildsUnderWay'}
    BY <1>2, <1>4, <2>1 DEF Coming
  <2>2. ASSUME NEW q \in Busy', i = OfTask(producers'[q]) PROVE Sound(i)'
    <3>1. CASE q # p
      <4>1. q \in Busy /\ i = OfTask(producers[q])
        BY <1>1, <2>2, <3>1 DEF Busy
      <4> QED
        BY <1>4, <4>1 DEF Coming
    <3>2. CASE q = p
      <4>1. producers'[p].pc # "idle"
        BY <2>2, <3>2 DEF Busy
      <4>2. CASE producers[p].pc # "idle" /\ OfTask(producers'[p]) = OfTask(producers[p])
        <5>1. i \in Coming
          BY <2>2, <3>2, <4>2 DEF Coming, Busy
        <5> QED
          BY <1>4, <5>1
      <4>3. CASE \E s \in Slots : \E g \in Versions :
                    /\ s \in SlotIds /\ Resolves(handles, HandleOf(s)) /\ issued'[s] >= g
                    /\ OfTask(producers'[p]) = [slot |-> s, sgen |-> HandleOf(s).gen,
                                                version |-> g, owner |-> owner[s]]
        BY <1>5, <2>2, <3>2, <4>3
      <4> QED
        BY <4>1, <4>2, <4>3, WorkerStepEffect
    <3> QED
      BY <3>1, <3>2
  <2> QED
    BY <2>1, <2>2 DEF Coming
<1>7. GenerationsOK' /\ NoForeignBuild'
  BY <1>1 DEF OwnersOK, GenerationsOK, NoForeignBuild
<1> QED
  BY <1>6, <1>7 DEF OwnersOK

LEMMA WorkerImplements ==
    ASSUME IInv, IInv', NEW p \in Producers, WorkerStep(p), NEW s \in SlotIds
    PROVE  UNCHANGED Slot(s)!slot
<1>1. UNCHANGED <<handles, chunks, owner>> /\ Slots' = Slots
  BY WorkerStepEffect DEF Slots
<1> QED
  BY <1>1 DEF Slot!slot, Occupied, Shown

-----------------------------------------------------------------------------
(* Steps that take something back from one slot                            *)

LEMMA ChunkGrows ==
    ASSUME NEW c \in ChunkState, c.blasVersion <= c.desired, NEW g \in Int
    PROVE  /\ g >= 0 => LET e == MarkedDirty(c, g)
                        IN  /\ e.desired >= c.desired /\ e.desired >= g
                            /\ e.blasVersion = c.blasVersion /\ e.mesh = c.mesh
                            /\ e.blasVersion <= e.desired
                            /\ c.desired < c.latest => e.desired < e.latest
           /\ g >= 0 => LET e == Invalidated(c, g)
                        IN  /\ e.desired >= c.desired /\ e.desired >= g
                            /\ e.blasVersion = c.blasVersion /\ e.mesh = NoBuild
                            /\ e.blasVersion <= e.desired
                            /\ c.desired < c.latest => e.desired < e.latest
           /\ g < 0 => LET e == Invalidated(c, g)
                       IN  /\ e.mesh = NoBuild /\ e.blasVersion = e.desired
                           /\ e.desired < e.latest
                           /\ c.desired < c.latest => /\ e.desired >= c.desired
                                                      /\ e.blasVersion >= c.blasVersion
<1> DEFINE a == MarkedDirty(c, g)
           b == Invalidated(c, g)
<1>1. /\ c.latest \in Nat /\ c.desired \in Int /\ c.blasVersion \in Int
  BY DEF ChunkState
<1>2. a \in ChunkState /\ a.mesh = c.mesh
  BY ChunkTypes
<1>3. g >= 0 => /\ a.desired = MaxOf(c.desired, g) /\ a.latest = MaxOf(c.latest, g + 1)
                /\ a.blasVersion = c.blasVersion
  BY DEF MarkedDirty, ChunkState
<1>4. g >= 0 => /\ a.desired >= c.desired /\ a.desired >= g
                /\ a.blasVersion = c.blasVersion /\ a.mesh = c.mesh
                /\ a.blasVersion <= a.desired
                /\ c.desired < c.latest => a.desired < a.latest
  BY <1>1, <1>2, <1>3 DEF MaxOf
<1>5. g >= 0 => b = [a EXCEPT !.mesh = NoBuild]
  BY DEF Invalidated
<1>6. g >= 0 => /\ b.desired = a.desired /\ b.latest = a.latest
                /\ b.blasVersion = a.blasVersion /\ b.mesh = NoBuild
  BY <1>2, <1>5 DEF ChunkState
<1>7. g < 0 => b = [latest |-> c.latest + 1, desired |-> c.latest, blasVersion |-> c.latest,
                    mesh |-> NoBuild]
  BY DEF Invalidated
<1> HIDE DEF a, b
<1>8. g < 0 => /\ b.mesh = NoBuild /\ b.blasVersion = b.desired /\ b.desired < b.latest
               /\ c.desired < c.latest => b.desired >= c.desired /\ b.blasVersion >= c.blasVersion
  BY <1>1, <1>7
<1> QED
  BY <1>4, <1>6, <1>8 DEF a, b

TakesBack(s) ==
    MarkChunkDirty(s) \/ InvalidateChunk(s) \/ RelocateChunk(s) \/ ReleaseExternalChunk(s)

LEMMA TakesBackEffect ==
    ASSUME IInv, IInv', VersionsOK, NEW s \in SlotIds, TakesBack(s)
    PROVE  /\ s \in Slots /\ owner[s] # 0 /\ Slots' = Slots
           /\ UNCHANGED <<render, inFlight, producers, fatal>>
           /\ \A k \in Slots : k # s => chunks'[k] = chunks[k] /\ buildDatas'[k] = buildDatas[k]
           /\ buildDatas'[s] \in {NoBuild, buildDatas[s]}
           /\ \A k \in SlotIds : accepted'[k] = IF k = s THEN -1 ELSE accepted[k]
           /\ \A k \in SlotIds : Explicit(k) => issued'[k] >= issued[k]
           /\ chunks'[s].blasVersion <= chunks'[s].desired
           /\ ~Explicit(s) => chunks'[s].desired < chunks'[s].latest
           /\ MarkChunkDirty(s) =>
                  /\ chunks'[s].mesh = chunks[s].mesh
                  /\ chunks'[s].blasVersion = chunks[s].blasVersion
           /\ ~MarkChunkDirty(s) => chunks'[s].mesh = NoBuild
           /\ ~ReleaseExternalChunk(s) =>
                  /\ handles' = handles
                  /\ chunks'[s].desired >= chunks[s].desired
                  /\ chunks'[s].blasVersion >= chunks[s].blasVersion
           /\ RelocateChunk(s) /\ ~ReleaseExternalChunk(s) =>
                  Explicit(s) /\ chunks'[s].desired > issued[s]
<1> DEFINE g == NewGeneration(s)
           c == chunks[s]
           e == chunks'[s]
<1>1. s \in Slots /\ owner[s] # 0
  BY DEF TakesBack, MarkChunkDirty, InvalidateChunk, RelocateChunk, ReleaseExternalChunk, Callable
<1>2. /\ c \in ChunkState /\ chunks \in [Slots -> ChunkState]
      /\ buildDatas \in [Slots -> Build \cup {NoBuild}]
      /\ issued \in [SlotIds -> Versions] /\ accepted \in [SlotIds -> Versions]
  BY <1>1 DEF IInv, SlotsOK, HistoryOK
<1>3. /\ c.blasVersion <= c.desired /\ (~Explicit(s) => c.desired < c.latest)
      /\ c.blasVersion \in Int /\ c.desired \in Int
  BY <1>1, <1>2 DEF VersionsOK, ChunkState
<1>4. /\ UNCHANGED <<render, inFlight, producers, fatal>>
      /\ accepted' = [accepted EXCEPT ![s] = -1]
      /\ issued' = issued \/ issued' = [issued EXCEPT ![s] = g]
  BY DEF TakesBack, MarkChunkDirty, InvalidateChunk, RelocateChunk, ReleaseExternalChunk,
         Withdraw, poolVars
<1>5. /\ issued[s] \in Int /\ issued[s] >= -1 /\ g \in Int
      /\ Explicit(s) => g = issued[s] + 1
      /\ ~Explicit(s) => g = -1
  BY <1>2, BoundsAssumption DEF NewGeneration, Versions
<1>6. \A k \in SlotIds : accepted'[k] = IF k = s THEN -1 ELSE accepted[k]
  BY <1>2, <1>4
<1>7. CASE MarkChunkDirty(s)
  <2>1. /\ handles' = handles /\ e = MarkedDirty(c, g) /\ Explicit(s)
        /\ \A k \in Slots : k # s => chunks'[k] = chunks[k] /\ buildDatas'[k] = buildDatas[k]
        /\ buildDatas'[s] \in {NoBuild, buildDatas[s]} /\ issued' = [issued EXCEPT ![s] = g]
    BY <1>1, <1>2, <1>7 DEF MarkChunkDirty
  <2>2. \A k \in SlotIds : Explicit(k) => issued'[k] >= issued[k]
    BY <1>2, <1>5, <2>1, BoundsAssumption DEF Versions
  <2>3. ~RelocateChunk(s) \/ e.desired >= g
    BY <1>2, <1>3, <1>5, <2>1, ChunkGrows
  <2>4. e.desired >= c.desired /\ e.blasVersion = c.blasVersion /\ e.mesh = c.mesh
        /\ e.blasVersion <= e.desired
    BY <1>2, <1>3, <1>5, <2>1, ChunkGrows
  <2>5. Slots' = Slots
    BY <2>1 DEF Slots
  <2>6. e.desired \in Int
    BY <1>1, <2>5 DEF IInv, SlotsOK, ChunkState
  <2> HIDE DEF e, c, g
  <2>7. RelocateChunk(s) => e.desired > issued[s]
    BY <1>5, <2>1, <2>3, <2>6
  <2> QED
    BY <1>1, <1>3, <1>4, <1>6, <1>7, <2>1, <2>2, <2>4, <2>5, <2>7 DEF e, c
<1>8. ASSUME ~MarkChunkDirty(s), ~ReleaseExternalChunk(s)
      PROVE  /\ handles' = handles /\ e = Invalidated(c, g)
             /\ \A k \in Slots : k # s => chunks'[k] = chunks[k] /\ buildDatas'[k] = buildDatas[k]
             /\ buildDatas'[s] = NoBuild /\ issued' = [issued EXCEPT ![s] = g]
             /\ RelocateChunk(s) => Explicit(s)
  BY <1>1, <1>2, <1>8 DEF TakesBack, InvalidateChunk, RelocateChunk, Withdraw
<1>9. CASE ~MarkChunkDirty(s) /\ ~ReleaseExternalChunk(s)
  <2>1. \A k \in SlotIds : Explicit(k) => issued'[k] >= issued[k]
    BY <1>2, <1>5, <1>8, <1>9, BoundsAssumption DEF Versions
  <2>2. Slots' = Slots
    BY <1>8, <1>9 DEF Slots
  <2>3. /\ e.blasVersion <= e.desired /\ e.mesh = NoBuild
        /\ e.desired >= c.desired /\ e.blasVersion >= c.blasVersion
        /\ ~Explicit(s) => e.desired < e.latest
        /\ Explicit(s) => e.desired >= g
    <3>1. e \in ChunkState
      BY <1>1, <2>2 DEF IInv, SlotsOK
    <3>2. e.desired \in Int /\ e.blasVersion \in Int
      BY <3>1 DEF ChunkState
    <3>3. CASE Explicit(s)
      BY <1>2, <1>3, <1>5, <1>8, <1>9, <3>2, <3>3, ChunkGrows
    <3>4. CASE ~Explicit(s)
      BY <1>2, <1>3, <1>5, <1>8, <1>9, <3>2, <3>4, ChunkGrows
    <3> QED
      BY <3>3, <3>4
  <2>4. e.desired \in Int
    BY <1>1, <2>2 DEF IInv, SlotsOK, ChunkState
  <2> HIDE DEF e, c, g
  <2>5. RelocateChunk(s) => Explicit(s) /\ e.desired > issued[s]
    BY <1>5, <1>8, <1>9, <2>3, <2>4
  <2> QED
    BY <1>1, <1>4, <1>6, <1>8, <1>9, <2>1, <2>2, <2>3, <2>5 DEF e, c
<1>10. CASE ReleaseExternalChunk(s) /\ ~MarkChunkDirty(s)
  <2>1. /\ handles' = Release(handles, HandleOf(s)) /\ e = Invalidated(c, -1)
        /\ \A k \in Slots : k # s => chunks'[k] = chunks[k] /\ buildDatas'[k] = buildDatas[k]
        /\ buildDatas'[s] = NoBuild /\ issued' = issued
    BY <1>1, <1>2, <1>10 DEF ReleaseExternalChunk, Withdraw
  <2>2. Slots' = Slots
    BY <2>1 DEF Slots, StorageSlots, Release
  <2>3. \A k \in SlotIds : Explicit(k) => issued'[k] >= issued[k]
    BY <1>2, <2>1, BoundsAssumption DEF Versions
  <2>4. e.mesh = NoBuild /\ e.blasVersion = e.desired /\ e.desired < e.latest
    BY <1>2, <1>3, <2>1, ChunkGrows
  <2>5. e.desired \in Int
    BY <1>1, <2>2 DEF IInv, SlotsOK, ChunkState
  <2> QED
    BY <1>1, <1>4, <1>6, <1>10, <2>1, <2>2, <2>3, <2>4, <2>5
<1> QED
  BY <1>7, <1>9, <1>10

LEMMA ReleaseEffect ==
    ASSUME IInv, NEW s \in SlotIds, ReleaseExternalChunk(s)
    PROVE  /\ s \in Slots /\ s >= handles.primary /\ handles.active[s]
           /\ handles'.primary = handles.primary /\ handles'.size = handles.size
           /\ handles'.active = [handles.active EXCEPT ![s] = FALSE]
           /\ handles'.gen = [handles.gen EXCEPT ![s] = NextGen(handles.gen[s])]
           /\ owner' = [owner EXCEPT ![s] = 0] /\ nextOwner' = nextOwner
<1>1. /\ s \in Slots /\ CanRelease(handles, HandleOf(s))
      /\ handles' = Release(handles, HandleOf(s))
      /\ owner' = [owner EXCEPT ![s] = 0] /\ nextOwner' = nextOwner
  BY DEF ReleaseExternalChunk, Callable
<1>2. HandleOf(s) \in Handle /\ HandleOf(s).slot = s
  BY <1>1, HandleOfType DEF IInv
<1> DEFINE h == HandleOf(s)
           u == Release(handles, h)
<1>3. WellFormed(handles) /\ h \in Handle /\ CanRelease(handles, h)
  BY <1>1, <1>2 DEF IInv, SlotsOK
<1>4. /\ u.primary = handles.primary /\ u.size = handles.size
      /\ h.slot \in handles.primary .. handles.size - 1 /\ handles.active[h.slot]
      /\ u.gen = [handles.gen EXCEPT ![h.slot] = NextGen(handles.gen[h.slot])]
      /\ u.active = [handles.active EXCEPT ![h.slot] = FALSE]
  BY <1>3, ReleaseWellFormed
<1>5. s >= handles.primary
  BY <1>2, <1>4, SlotsType DEF IInv
<1> QED
  BY <1>1, <1>2, <1>4, <1>5

\* The other slots do not notice.
LEMMA OthersCurrent ==
    ASSUME IInv, IInv', VersionsOK, NEW s \in SlotIds, TakesBack(s)
    PROVE  /\ handles'.primary = handles.primary
           /\ \A k \in Slots : k # s =>
                 /\ handles'.active[k] = handles.active[k] /\ handles'.gen[k] = handles.gen[k]
                 /\ \A g : IsCurrent(handles, k, g)' <=> IsCurrent(handles, k, g)
<1>1. Slots' = Slots
  BY TakesBackEffect
<1>2. /\ handles'.primary = handles.primary
      /\ \A k \in Slots : k # s =>
            handles'.active[k] = handles.active[k] /\ handles'.gen[k] = handles.gen[k]
  <2>1. CASE ReleaseExternalChunk(s)
    <3>1. handles.active \in [Slots -> BOOLEAN] /\ handles.gen \in [Slots -> 0 .. MaxGen]
      BY SlotsType DEF IInv
    <3>2. /\ handles'.primary = handles.primary
          /\ handles'.active = [handles.active EXCEPT ![s] = FALSE]
          /\ handles'.gen = [handles.gen EXCEPT ![s] = NextGen(handles.gen[s])]
      BY <2>1, ReleaseEffect
    <3>3. \A k \in Slots : k # s => handles'.active[k] = handles.active[k]
      BY <3>1, <3>2
    <3>4. \A k \in Slots : k # s => handles'.gen[k] = handles.gen[k]
      BY <3>1, <3>2
    <3> QED
      BY <3>2, <3>3, <3>4
  <2>2. CASE ~ReleaseExternalChunk(s)
    <3>1. handles' = handles
      BY <2>2, TakesBackEffect
    <3> QED
      BY <3>1
  <2> QED
    BY <2>1, <2>2
<1>3. Slots = StorageSlots(handles)
  BY DEF Slots
<1> QED
  BY <1>1, <1>2, <1>3 DEF IsCurrent, Slots

LEMMA TakesBackBuilds ==
    ASSUME IInv, IInv', VersionsOK, NEW s \in SlotIds, TakesBack(s)
    PROVE  /\ Coming' \subseteq Coming
           /\ \A d \in BuildsAlive : d.slot # s => d \in BuildsAlive'
<1>1. /\ s \in Slots /\ Slots' = Slots
      /\ UNCHANGED <<render, inFlight, producers>>
      /\ \A k \in Slots : k # s => buildDatas'[k] = buildDatas[k]
      /\ buildDatas'[s] \in {NoBuild, buildDatas[s]}
  BY TakesBackEffect
<1>2. /\ queued = {k \in Slots : buildDatas[k] # NoBuild}
      /\ queued' = {k \in Slots : buildDatas'[k] # NoBuild}
  BY <1>1 DEF IInv, SlotsOK
<1>3. Waiters' \subseteq Waiters
  BY <1>1, <1>2 DEF Waiters
<1>4. ASSUME NEW d \in Waiters, d.slot # s PROVE d \in Waiters'
  <2>1. PICK k \in queued : d = buildDatas[k]
    BY DEF Waiters
  <2>2. k \in Slots /\ buildDatas[k] # NoBuild
    BY <1>2
  <2>3. d.slot = k
    BY <2>1, <2>2 DEF VersionsOK
  <2>4. buildDatas'[k] = d /\ k \in queued'
    BY <1>1, <1>2, <1>4, <2>1, <2>2, <2>3
  <2> QED
    BY <2>4 DEF Waiters
<1>5. BuildsUnderWay' = BuildsUnderWay
  BY <1>1 DEF BuildsUnderWay
<1>6. Coming' \subseteq Coming
  BY <1>1, <1>3, <1>5 DEF Coming, Busy
<1>7. BuildsAlive = Waiters \cup BuildsUnderWay /\ BuildsAlive' = Waiters' \cup BuildsUnderWay'
  BY DEF BuildsAlive, Waiters, BuildsUnderWay
<1> QED
  BY <1>4, <1>5, <1>6, <1>7

LEMMA TakesBackVersions ==
    ASSUME IInv, IInv', VersionsOK, NEW s \in SlotIds, TakesBack(s)
    PROVE  VersionsOK'
<1>1. /\ s \in Slots /\ Slots' = Slots /\ producers' = producers
      /\ \A k \in Slots : k # s => chunks'[k] = chunks[k] /\ buildDatas'[k] = buildDatas[k]
      /\ buildDatas'[s] \in {NoBuild, buildDatas[s]}
      /\ \A k \in SlotIds : accepted'[k] = IF k = s THEN -1 ELSE accepted[k]
      /\ chunks'[s].blasVersion <= chunks'[s].desired
      /\ ~Explicit(s) => chunks'[s].desired < chunks'[s].latest
  BY TakesBackEffect
<1>2. /\ handles'.primary = handles.primary
      /\ \A k \in Slots : k # s => handles'.active[k] = handles.active[k]
  BY OthersCurrent
<1>3. Busy' = Busy
  BY <1>1 DEF Busy
<1>4. \A k \in Slots : /\ chunks'[k].blasVersion <= chunks'[k].desired
                       /\ ~Explicit(k) => chunks'[k].desired < chunks'[k].latest
                       /\ buildDatas'[k] # NoBuild => buildDatas'[k].slot = k
  BY <1>1 DEF VersionsOK
<1>5. \A k \in SlotIds : accepted'[k] >= 0 =>
          /\ k \in Slots /\ (k < handles'.primary \/ handles'.active[k])
          /\ accepted'[k] = chunks'[k].desired
  BY <1>1, <1>2 DEF VersionsOK
<1> QED
  BY <1>1, <1>3, <1>4, <1>5 DEF VersionsOK, Explicit

LEMMA TakesBackDelivers ==
    ASSUME IInv, IInv', VersionsOK, NoLostBuild, NEW s \in SlotIds, TakesBack(s)
    PROVE  NoLostBuild'
<1>1. /\ Slots' = Slots /\ fatal' = fatal /\ Slots \subseteq SlotIds
      /\ \A k \in Slots : k # s => chunks'[k] = chunks[k]
      /\ \A k \in SlotIds : accepted'[k] = IF k = s THEN -1 ELSE accepted[k]
  BY TakesBackEffect DEF VersionsOK
<1> SUFFICES ASSUME NEW k \in Slots, accepted'[k] >= 0, ~fatal',
                    chunks'[k].blasVersion # accepted'[k]
             PROVE  \E d \in BuildsAlive' : d.slot = k /\ d.version = accepted'[k]
                                            /\ Publishable(d)'
  BY <1>1 DEF NoLostBuild
<1>2. k # s /\ accepted'[k] = accepted[k] /\ chunks'[k] = chunks[k]
  BY <1>1
<1>3. PICK d \in BuildsAlive : d.slot = k /\ d.version = accepted[k] /\ Publishable(d)
  BY <1>1, <1>2 DEF NoLostBuild
<1>4. d \in BuildsAlive'
  BY <1>2, <1>3, TakesBackBuilds
<1>5. Publishable(d)'
  BY <1>2, <1>3, OthersCurrent DEF Publishable, Accepts
<1> QED
  BY <1>2, <1>3, <1>4, <1>5

LEMMA WithdrawEmpties ==
    ASSUME IInv, NEW s \in Slots, NEW g \in Int, Withdraw(s, g)
    PROVE  chunks'[s].mesh = NoBuild
<1>1. chunks \in [Slots -> ChunkState] /\ chunks' = [chunks EXCEPT ![s] = Invalidated(@, g)]
  BY DEF IInv, SlotsOK, Withdraw
<1>2. Invalidated(chunks[s], g).mesh = NoBuild
  BY <1>1, ChunkTypes
<1> QED
  BY <1>1, <1>2

LEMMA TakesBackOwners ==
    ASSUME MaxOwners < MaxGen, IInv, IInv', VersionsOK, OwnersOK, NEW s \in SlotIds, TakesBack(s)
    PROVE  OwnersOK'
<1>1. /\ s \in Slots /\ Slots' = Slots /\ Slots \subseteq SlotIds
      /\ \A k \in Slots : k # s => chunks'[k] = chunks[k]
      /\ \A k \in SlotIds : Explicit(k) => issued'[k] >= issued[k]
      /\ chunks'[s].mesh # NoBuild => MarkChunkDirty(s) /\ chunks'[s].mesh = chunks[s].mesh
  BY TakesBackEffect DEF VersionsOK
<1>2. /\ owner \in [SlotIds -> Nat] /\ nextOwner \in Nat
      /\ handles.size \in Nat /\ handles.primary \in Nat /\ Slots = 0 .. handles.size - 1
      /\ handles.gen \in [Slots -> 0 .. MaxGen] /\ handles.active \in [Slots -> BOOLEAN]
  BY SlotsType DEF IInv, HistoryOK
<1>3. \A k \in Slots : chunks[k].desired \in Int /\ chunks'[k].desired \in Int
  BY <1>1 DEF IInv, SlotsOK, ChunkState
<1>4. \A i \in Coming' : i \in Item /\ Sound(i)
  BY TakesBackBuilds, ComingItems DEF OwnersOK
<1>5. CASE ReleaseExternalChunk(s)
  <2>1. /\ s >= handles.primary /\ handles.active[s] /\ handles'.primary = handles.primary
        /\ handles'.active = [handles.active EXCEPT ![s] = FALSE]
        /\ handles'.gen = [handles.gen EXCEPT ![s] = NextGen(handles.gen[s])]
        /\ owner' = [owner EXCEPT ![s] = 0] /\ nextOwner' = nextOwner
    BY <1>5, ReleaseEffect
  <2>2. handles.gen[s] < nextOwner /\ nextOwner \in 1 .. MaxOwners + 1
    BY <1>1, <2>1 DEF OwnersOK, GenerationsOK
  <2>3. handles'.gen[s] = handles.gen[s] + 1
    BY <1>1, <1>2, <2>1, <2>2, BoundsAssumption, MaxGenAssumption DEF NextGen
  <2>4. handles'.active[s] = FALSE
    BY <1>1, <1>2, <2>1
  <2>5. /\ \A k \in SlotIds : owner[k] < nextOwner
        /\ \A k \in Slots : k >= handles.primary =>
             IF handles.active[k] THEN handles.gen[k] < nextOwner ELSE handles.gen[k] <= nextOwner
    BY DEF OwnersOK, GenerationsOK
  <2>6. /\ \A k \in SlotIds : owner'[k] < nextOwner'
        /\ \A k \in Slots : k >= handles'.primary =>
             IF handles'.active[k] THEN handles'.gen[k] < nextOwner'
             ELSE handles'.gen[k] <= nextOwner'
    BY <1>1, <1>2, <2>1, <2>2, <2>3, <2>4, <2>5, OthersCurrent
  <2>7. GenerationsOK'
    BY <1>1, <2>1, <2>2, <2>6 DEF GenerationsOK
  <2>8. ASSUME NEW i \in Coming' PROVE Sound(i)'
    <3>1. i \in Item /\ Sound(i) /\ i.slot \in Slots /\ i.slot \in SlotIds /\ i.version \in Int
          /\ i.sgen \in Nat
      BY <1>1, <1>4, BoundsAssumption DEF Sound, Item, Versions
    <3>2. CASE i.slot = s
      <4>1. i.sgen <= handles.gen[s] /\ handles.gen[s] \in Nat /\ s \in Nat
        BY <1>1, <1>2, <2>1, <3>1, <3>2, MaxGenAssumption DEF Sound
      <4>2. ~IsCurrent(handles, i.slot, i.sgen)'
        BY <1>1, <1>2, <2>1, <2>4, <3>2 DEF IsCurrent
      <4>3. /\ i.sgen <= handles'.gen[i.slot] /\ i.sgen # handles'.gen[i.slot]
            /\ ~(i.slot < handles'.primary) /\ i.slot \in Slots'
        BY <1>1, <1>2, <2>1, <2>3, <3>1, <3>2, <4>1
      <4> QED
        BY <4>2, <4>3 DEF Sound
    <3>3. CASE i.slot # s
      <4>1. /\ handles'.active[i.slot] = handles.active[i.slot]
            /\ handles'.gen[i.slot] = handles.gen[i.slot]
            /\ IsCurrent(handles, i.slot, i.sgen)' <=> IsCurrent(handles, i.slot, i.sgen)
        BY <3>1, <3>3, OthersCurrent
      <4>2. /\ owner'[i.slot] = owner[i.slot] /\ chunks'[i.slot] = chunks[i.slot]
            /\ Explicit(i.slot) => issued'[i.slot] >= issued[i.slot]
            /\ issued[i.slot] \in Int /\ issued'[i.slot] \in Int
        <5>1. owner'[i.slot] = owner[i.slot]
          BY <1>2, <2>1, <3>1, <3>3
        <5>2. issued[i.slot] \in Int /\ issued'[i.slot] \in Int
          BY <3>1, BoundsAssumption DEF IInv, HistoryOK, Versions
        <5> QED
          BY <1>1, <3>1, <3>3, <5>1, <5>2
      <4>3. i.slot \in Slots' /\ handles'.primary = handles.primary
        BY <1>1, <2>1, <3>1
      <4>4. IF i.slot < handles'.primary THEN i.sgen = 0
            ELSE i.sgen <= handles'.gen[i.slot]
                 /\ (i.sgen = handles'.gen[i.slot] => handles'.active[i.slot])
        BY <3>1, <4>1, <4>3 DEF Sound
      <4>5. IsCurrent(handles, i.slot, i.sgen)' =>
               IF Explicit(i.slot)
               THEN /\ i.version <= issued'[i.slot]
                    /\ i.owner = owner'[i.slot] \/ i.version < chunks'[i.slot].desired
               ELSE i.owner = owner'[i.slot]
        BY <3>1, <4>1, <4>2 DEF Sound
      <4> QED
        BY <4>3, <4>4, <4>5 DEF Sound, Explicit
    <3> QED
      BY <3>2, <3>3
  <2>9. NoForeignBuild'
    <3>1. chunks'[s].mesh = NoBuild
      <4>1. Withdraw(s, -1)
        BY <1>5 DEF ReleaseExternalChunk
      <4> QED
        BY <1>1, <4>1, WithdrawEmpties
    <3> QED
      BY <1>1, <1>2, <2>1, <3>1 DEF NoForeignBuild, OwnersOK
  <2> QED
    BY <2>7, <2>8, <2>9 DEF OwnersOK
<1>6. CASE RelocateChunk(s) /\ ~ReleaseExternalChunk(s)
  <2>1. /\ owner' = [owner EXCEPT ![s] = nextOwner] /\ nextOwner' = nextOwner + 1
        /\ nextOwner <= MaxOwners
    BY <1>6 DEF RelocateChunk
  <2>2. Explicit(s) /\ chunks'[s].desired > issued[s] /\ handles' = handles
    BY <1>6, TakesBackEffect
  <2>3. GenerationsOK'
    <3>1. nextOwner' \in 1 .. MaxOwners + 1
      BY <1>2, <2>1, BoundsAssumption DEF OwnersOK, GenerationsOK
    <3>2. \A k \in SlotIds : owner'[k] < nextOwner'
      BY <1>2, <2>1 DEF OwnersOK, GenerationsOK
    <3>3. ASSUME NEW k \in Slots, k >= handles.primary
          PROVE  IF handles.active[k] THEN handles.gen[k] < nextOwner'
                 ELSE handles.gen[k] <= nextOwner'
      <4>1. handles.gen[k] \in Int
        <5>1. handles.gen[k] \in 0 .. MaxGen
          BY <1>2
        <5> QED
          BY <5>1, MaxGenAssumption
      <4>2. nextOwner \in Int /\ nextOwner' = nextOwner + 1
        BY <1>2, <2>1
      <4>3. IF handles.active[k] THEN handles.gen[k] < nextOwner ELSE handles.gen[k] <= nextOwner
        BY <3>3 DEF OwnersOK, GenerationsOK
      <4> QED
        BY <4>1, <4>2, <4>3
    <3> QED
      BY <1>1, <2>2, <3>1, <3>2, <3>3 DEF GenerationsOK
  <2>4. ASSUME NEW i \in Coming' PROVE Sound(i)'
    <3>1. i \in Item /\ Sound(i) /\ i.slot \in Slots /\ i.slot \in SlotIds /\ i.version \in Int
      BY <1>1, <1>4, BoundsAssumption DEF Sound, Item, Versions
    <3>2. /\ Explicit(i.slot) => issued'[i.slot] >= issued[i.slot]
          /\ issued[i.slot] \in Int /\ issued'[i.slot] \in Int
      BY <1>1, <3>1, BoundsAssumption DEF IInv, HistoryOK, Versions
    <3>3. IsCurrent(handles, i.slot, i.sgen)' <=> IsCurrent(handles, i.slot, i.sgen)
      BY <2>2 DEF IsCurrent, StorageSlots
    <3>4. i.slot # s => owner'[i.slot] = owner[i.slot] /\ chunks'[i.slot] = chunks[i.slot]
      BY <1>1, <1>2, <2>1, <3>1
    <3>5. CASE i.slot = s
      BY <1>1, <1>3, <2>2, <3>1, <3>2, <3>3, <3>5 DEF Sound, Explicit
    <3>6. CASE i.slot # s
      BY <1>1, <2>2, <3>1, <3>2, <3>3, <3>4, <3>6 DEF Sound, Explicit
    <3> QED
      BY <3>5, <3>6
  <2>5. NoForeignBuild'
    <3>1. chunks'[s].mesh = NoBuild
      <4>1. NewGeneration(s) \in Int
        BY BoundsAssumption DEF NewGeneration, IInv, HistoryOK, Versions
      <4> QED
        BY <1>1, <1>6, <4>1, WithdrawEmpties DEF RelocateChunk
    <3> QED
      BY <1>1, <1>2, <2>1, <3>1 DEF NoForeignBuild, OwnersOK
  <2> QED
    BY <2>3, <2>4, <2>5 DEF OwnersOK
<1>7. CASE ~ReleaseExternalChunk(s) /\ ~RelocateChunk(s)
  <2>1. UNCHANGED <<owner, nextOwner, handles>>
    BY <1>7 DEF TakesBack, MarkChunkDirty, InvalidateChunk
  <2>2. \A k \in Slots : chunks'[k].desired >= chunks[k].desired
    <3>1. chunks'[s].desired >= chunks[s].desired
      BY <1>7, TakesBackEffect
    <3> QED
      BY <1>1, <1>3, <3>1
  <2>3. \A i \in Coming' : Sound(i)'
    BY <1>1, <1>4, <2>1, <2>2, StaysSound
  <2>4. GenerationsOK' /\ NoForeignBuild'
    BY <1>1, <2>1 DEF OwnersOK, GenerationsOK, NoForeignBuild
  <2> QED
    BY <2>3, <2>4 DEF OwnersOK
<1> QED
  BY <1>5, <1>6, <1>7

LEMMA TakesBackImplements ==
    ASSUME IInv, IInv', VersionsOK, OwnersOK, NEW s \in SlotIds, TakesBack(s), NEW k \in SlotIds
    PROVE  [Slot(k)!Next]_(Slot(k)!slot)
<1>1. /\ s \in Slots /\ owner[s] # 0 /\ Slots' = Slots
      /\ \A j \in Slots : j # s => chunks'[j] = chunks[j]
  BY TakesBackEffect
<1>2. owner \in [SlotIds -> Nat] /\ nextOwner \in 1 .. MaxOwners + 1 /\ owner[s] < nextOwner
  BY DEF IInv, HistoryOK, OwnersOK, GenerationsOK
<1>3. owner' \in {owner, [owner EXCEPT ![s] = nextOwner], [owner EXCEPT ![s] = 0]}
  BY DEF TakesBack, MarkChunkDirty, InvalidateChunk, RelocateChunk, ReleaseExternalChunk
<1>4. CASE k # s
  <2>1. owner'[k] = owner[k] /\ (k \in Slots => chunks'[k] = chunks[k])
    BY <1>1, <1>2, <1>3, <1>4
  <2> QED
    BY <1>1, <2>1 DEF Slot!slot, Occupied, Shown
<1>5. /\ chunks'[s].desired \in Int /\ chunks'[s].blasVersion \in Int
      /\ chunks[s].desired \in Int /\ chunks[s].blasVersion \in Int
  BY <1>1 DEF IInv, SlotsOK, ChunkState
<1>6. Occupied(s)
  BY <1>1 DEF Occupied
<1>7. CASE k = s /\ MarkChunkDirty(s)
  <2>1. /\ owner' = owner /\ chunks'[s].mesh = chunks[s].mesh
        /\ chunks'[s].blasVersion = chunks[s].blasVersion
        /\ ReleaseExternalChunk(s) \/ chunks'[s].desired >= chunks[s].desired
    BY <1>7, TakesBackEffect DEF MarkChunkDirty
  <2>2. ~ReleaseExternalChunk(s)
    BY <1>1, <1>2, <2>1 DEF ReleaseExternalChunk
  <2>3. Occupied(s)' /\ Shown(s)' = Shown(s)
    BY <1>1, <1>6, <2>1 DEF Occupied, Shown
  <2>4. CASE chunks'[s].desired = chunks[s].desired
    BY <1>1, <1>6, <1>7, <2>1, <2>3, <2>4 DEF Slot!slot
  <2>5. CASE chunks'[s].desired # chunks[s].desired
    <3>1. Slot(s)!Want
      BY <1>1, <1>5, <1>6, <2>1, <2>2, <2>3, <2>5 DEF Slot!Want
    <3> QED
      BY <1>7, <3>1 DEF Slot!Next
  <2> QED
    BY <2>4, <2>5
<1>8. CASE k = s /\ InvalidateChunk(s) /\ ~MarkChunkDirty(s)
  <2>1. owner' = owner
    BY <1>8 DEF InvalidateChunk
  <2>2. ~ReleaseExternalChunk(s)
    BY <1>1, <1>2, <2>1 DEF ReleaseExternalChunk
  <2>3. /\ chunks'[s].mesh = NoBuild /\ chunks'[s].desired >= chunks[s].desired
        /\ chunks'[s].blasVersion >= chunks[s].blasVersion
    BY <1>8, <2>2, TakesBackEffect
  <2>4. Occupied(s)' /\ Shown(s)' = NoBuild
    BY <1>1, <1>6, <2>1, <2>3 DEF Occupied, Shown
  <2>5. Slot(s)!Hide
    BY <1>1, <1>6, <2>1, <2>3, <2>4 DEF Slot!Hide
  <2> QED
    BY <1>8, <2>5 DEF Slot!Next
<1>9. CASE k = s /\ ~MarkChunkDirty(s) /\ (RelocateChunk(s) \/ ReleaseExternalChunk(s))
  <2>1. chunks'[s].mesh = NoBuild /\ Shown(s)' = NoBuild
    BY <1>9, TakesBackEffect DEF Shown
  <2>2. owner'[s] # owner[s]
    BY <1>1, <1>2, <1>9 DEF RelocateChunk, ReleaseExternalChunk
  <2>3. Slot(s)!Pass
    BY <1>1, <1>5, <2>1, <2>2 DEF Slot!Pass
  <2> QED
    BY <1>9, <2>3 DEF Slot!Next
<1> QED
  BY <1>4, <1>7, <1>8, <1>9 DEF TakesBack

-----------------------------------------------------------------------------
(* A new external chunk                                                    *)

LEMMA AllocateEffect ==
    ASSUME IInv, AllocateExternalChunk, NEW s, s = AllocatedSlot(handles, handles.size)
    PROVE  /\ s \in SlotIds /\ s \in Slots' /\ s >= handles.primary
           /\ s \in Slots => ~handles.active[s] /\ buildDatas[s] = NoBuild
           /\ handles'.primary = handles.primary /\ handles'.active[s]
           /\ handles'.gen[s] = IF s \in Slots THEN handles.gen[s] ELSE 1
           /\ chunks'[s] = FreshChunk /\ buildDatas'[s] = NoBuild
           /\ Slots' = Slots \cup {s}
           /\ \A k \in Slots : k # s =>
                 /\ handles'.active[k] = handles.active[k] /\ handles'.gen[k] = handles.gen[k]
                 /\ \A g : IsCurrent(handles, k, g)' <=> IsCurrent(handles, k, g)
                 /\ chunks'[k] = chunks[k] /\ buildDatas'[k] = buildDatas[k]
           /\ UNCHANGED <<queued, render, inFlight, producers, fatal, accepted>>
           /\ owner' = [owner EXCEPT ![s] = nextOwner] /\ nextOwner' = nextOwner + 1
           /\ issued' = [issued EXCEPT ![s] = -1] /\ nextOwner <= MaxOwners
<1> DEFINE u == Allocate(handles, handles.size)
<1>1. /\ handles' = u /\ s < MaxSlots /\ nextOwner <= MaxOwners
      /\ chunks' = [k \in 0 .. handles'.size - 1 |-> IF k = s THEN FreshChunk ELSE chunks[k]]
      /\ buildDatas' = [k \in 0 .. handles'.size - 1 |-> IF k = s THEN NoBuild ELSE buildDatas[k]]
      /\ UNCHANGED <<queued, render, inFlight, producers, fatal, accepted>>
      /\ owner' = [owner EXCEPT ![s] = nextOwner] /\ nextOwner' = nextOwner + 1
      /\ issued' = [issued EXCEPT ![s] = -1]
  BY DEF AllocateExternalChunk, poolVars
<1>2. WellFormed(handles) /\ handles.size \in Nat /\ handles.primary \in 0 .. handles.size
      /\ Slots = 0 .. handles.size - 1
  BY SlotsType DEF IInv, SlotsOK
<1>3. /\ WellFormed(u) /\ u.primary = handles.primary /\ u.size >= handles.size
      /\ s \in handles.primary .. u.size - 1
      /\ s < handles.size => ~handles.active[s]
      /\ \A k \in 0 .. u.size - 1 : k # s => k < handles.size
      /\ \A k \in 0 .. handles.size - 1 : u.gen[k] = handles.gen[k]
      /\ u.active[s]
      /\ \A k \in 0 .. handles.size - 1 : k # s => u.active[k] = handles.active[k]
  BY <1>2, AllocateWellFormed
<1>4. u.gen = [k \in 0 .. u.size - 1 |-> IF k \in StorageSlots(handles) THEN handles.gen[k] ELSE 1]
  BY DEF Allocate
<1> HIDE DEF u
<1>5. u.size \in Nat /\ Slots' = 0 .. u.size - 1 /\ s \in 0 .. u.size - 1
  BY <1>1, <1>2, <1>3, TableFields DEF IsTable, Slots, StorageSlots
<1>6. Slots' = Slots \cup {s} /\ s \in Slots'
  BY <1>2, <1>3, <1>5
<1>7. s \in SlotIds /\ s >= handles.primary
  BY <1>1, <1>2, <1>3, <1>5, SlotsAssumption DEF SlotIds
<1>8. s \in Slots => ~handles.active[s] /\ buildDatas[s] = NoBuild
  BY <1>2, <1>3, <1>7 DEF IInv, SlotsOK
<1>9. handles'.gen[s] = IF s \in Slots THEN handles.gen[s] ELSE 1
  BY <1>1, <1>4, <1>5 DEF Slots
<1>10. ASSUME NEW k \in Slots, k # s
       PROVE  /\ handles'.active[k] = handles.active[k] /\ handles'.gen[k] = handles.gen[k]
              /\ \A g : IsCurrent(handles, k, g)' <=> IsCurrent(handles, k, g)
              /\ chunks'[k] = chunks[k] /\ buildDatas'[k] = buildDatas[k]
  <2>1. k \in 0 .. handles.size - 1 /\ k \in Slots' /\ k \in 0 .. handles'.size - 1
    BY <1>1, <1>2, <1>5, <1>6, <1>10
  <2>2. handles'.active[k] = handles.active[k] /\ handles'.gen[k] = handles.gen[k]
        /\ handles'.primary = handles.primary
    BY <1>1, <1>3, <1>10, <2>1
  <2>3. k \in StorageSlots(handles) /\ k \in StorageSlots(handles')
    BY <2>1 DEF StorageSlots
  <2>4. \A g : IsCurrent(handles, k, g)' <=> IsCurrent(handles, k, g)
    BY <2>2, <2>3 DEF IsCurrent
  <2>5. chunks'[k] = chunks[k] /\ buildDatas'[k] = buildDatas[k]
    BY <1>1, <1>10, <2>1
  <2> QED
    BY <2>2, <2>4, <2>5
<1>11. chunks'[s] = FreshChunk /\ buildDatas'[s] = NoBuild
  BY <1>1, <1>5
<1> QED
  BY <1>1, <1>3, <1>6, <1>7, <1>8, <1>9, <1>10, <1>11

LEMMA AllocateBuilds ==
    ASSUME IInv, AllocateExternalChunk
    PROVE  Coming' = Coming /\ BuildsAlive' = BuildsAlive
<1> DEFINE s == AllocatedSlot(handles, handles.size)
<1>1. /\ s \in Slots => buildDatas[s] = NoBuild
      /\ \A k \in Slots : k # s => buildDatas'[k] = buildDatas[k]
      /\ UNCHANGED <<queued, render, inFlight, producers>>
  BY AllocateEffect
<1> HIDE DEF s
<1>2. queued = {k \in Slots : buildDatas[k] # NoBuild}
  BY DEF IInv, SlotsOK
<1>3. Waiters' = Waiters
  BY <1>1, <1>2 DEF Waiters
<1>4. BuildsUnderWay' = BuildsUnderWay /\ Busy' = Busy
  BY <1>1 DEF BuildsUnderWay, Busy
<1>5. BuildsAlive = Waiters \cup BuildsUnderWay /\ BuildsAlive' = Waiters' \cup BuildsUnderWay'
  BY DEF BuildsAlive, Waiters, BuildsUnderWay
<1> QED
  BY <1>1, <1>3, <1>4, <1>5 DEF Coming

LEMMA AllocateVersions ==
    ASSUME IInv, IInv', VersionsOK, AllocateExternalChunk
    PROVE  VersionsOK'
<1> DEFINE s == AllocatedSlot(handles, handles.size)
<1>1. /\ s \in SlotIds /\ (s \in Slots => ~handles.active[s]) /\ s >= handles.primary
      /\ handles'.primary = handles.primary /\ handles'.active[s]
      /\ chunks'[s] = FreshChunk /\ buildDatas'[s] = NoBuild /\ Slots' = Slots \cup {s}
      /\ \A k \in Slots : k # s =>
            /\ handles'.active[k] = handles.active[k]
            /\ chunks'[k] = chunks[k] /\ buildDatas'[k] = buildDatas[k]
      /\ producers' = producers /\ accepted' = accepted
  BY AllocateEffect
<1> HIDE DEF s
<1>2. Busy' = Busy
  BY <1>1 DEF Busy
<1>3. Slots' \subseteq SlotIds
  BY <1>1 DEF VersionsOK
<1>4. ASSUME NEW k \in Slots'
      PROVE  /\ chunks'[k].blasVersion <= chunks'[k].desired
             /\ ~Explicit(k) => chunks'[k].desired < chunks'[k].latest
             /\ buildDatas'[k] # NoBuild => buildDatas'[k].slot = k
  <2>1. CASE k = s
    BY <1>1, <2>1 DEF FreshChunk
  <2>2. CASE k # s
    BY <1>1, <1>4, <2>2 DEF VersionsOK
  <2> QED
    BY <2>1, <2>2
<1>5. ASSUME NEW k \in SlotIds, accepted'[k] >= 0
      PROVE  /\ k \in Slots' /\ (k < handles'.primary \/ handles'.active[k])
             /\ accepted'[k] = chunks'[k].desired
  <2>1. /\ k \in Slots /\ (k < handles.primary \/ handles.active[k])
        /\ accepted[k] = chunks[k].desired
    BY <1>1, <1>5 DEF VersionsOK
  <2>2. k # s
    <3>1. handles.primary \in Int /\ k \in Int
      BY <2>1, SlotsType DEF IInv
    <3> QED
      BY <1>1, <2>1, <3>1
  <2>3. /\ k \in Slots' /\ handles'.primary = handles.primary
        /\ handles'.active[k] = handles.active[k] /\ chunks'[k] = chunks[k]
        /\ accepted'[k] = accepted[k]
    BY <1>1, <2>1, <2>2
  <2> QED
    BY <2>1, <2>3
<1> QED
  BY <1>1, <1>2, <1>3, <1>4, <1>5 DEF VersionsOK, Explicit

LEMMA AllocateDelivers ==
    ASSUME IInv, IInv', VersionsOK, NoLostBuild, AllocateExternalChunk
    PROVE  NoLostBuild'
<1> DEFINE s == AllocatedSlot(handles, handles.size)
<1>1. /\ s \in SlotIds /\ (s \in Slots => ~handles.active[s]) /\ s >= handles.primary
      /\ Slots' = Slots \cup {s}
      /\ \A k \in Slots : k # s =>
            /\ \A g : IsCurrent(handles, k, g)' <=> IsCurrent(handles, k, g)
            /\ chunks'[k] = chunks[k]
      /\ fatal' = fatal /\ accepted' = accepted
  BY AllocateEffect
<1> HIDE DEF s
<1>2. BuildsAlive' = BuildsAlive
  BY AllocateBuilds
<1> SUFFICES ASSUME NEW k \in Slots', accepted'[k] >= 0, ~fatal',
                    chunks'[k].blasVersion # accepted'[k]
             PROVE  \E d \in BuildsAlive' : d.slot = k /\ d.version = accepted'[k]
                                            /\ Publishable(d)'
  BY DEF NoLostBuild
<1>3. k \in SlotIds
  BY <1>1 DEF VersionsOK
<1>4. k \in Slots /\ k # s
  <2>1. k \in Slots /\ (k < handles.primary \/ handles.active[k])
    BY <1>1, <1>3 DEF VersionsOK
  <2>2. CASE k = s
    <3>1. handles.primary \in Int /\ k \in Int
      BY <2>1, SlotsType DEF IInv
    <3> QED
      BY <1>1, <2>1, <2>2, <3>1
  <2> QED
    BY <2>1, <2>2
<1>5. PICK d \in BuildsAlive : d.slot = k /\ d.version = accepted[k] /\ Publishable(d)
  BY <1>1, <1>4 DEF NoLostBuild
<1>6. Publishable(d)'
  BY <1>1, <1>4, <1>5 DEF Publishable, Accepts
<1> QED
  BY <1>1, <1>2, <1>5, <1>6

LEMMA AllocateOwners ==
    ASSUME IInv, IInv', VersionsOK, OwnersOK, AllocateExternalChunk
    PROVE  OwnersOK'
<1> DEFINE s == AllocatedSlot(handles, handles.size)
<1>1. /\ s \in SlotIds /\ (s \in Slots => ~handles.active[s]) /\ s >= handles.primary
      /\ handles'.primary = handles.primary /\ handles'.active[s]
      /\ handles'.gen[s] = IF s \in Slots THEN handles.gen[s] ELSE 1
      /\ chunks'[s] = FreshChunk /\ Slots' = Slots \cup {s}
      /\ \A k \in Slots : k # s =>
            /\ handles'.active[k] = handles.active[k] /\ handles'.gen[k] = handles.gen[k]
            /\ \A g : IsCurrent(handles, k, g)' <=> IsCurrent(handles, k, g)
            /\ chunks'[k] = chunks[k]
      /\ owner' = [owner EXCEPT ![s] = nextOwner] /\ nextOwner' = nextOwner + 1
      /\ issued' = [issued EXCEPT ![s] = -1] /\ nextOwner <= MaxOwners
  BY AllocateEffect
<1> HIDE DEF s
<1>2. /\ owner \in [SlotIds -> Nat] /\ issued \in [SlotIds -> Versions] /\ Slots \subseteq SlotIds
      /\ handles.primary \in Nat /\ \A k \in Slots : handles.gen[k] \in Nat /\ k \in Nat
  BY SlotsType, MaxGenAssumption DEF IInv, HistoryOK, VersionsOK
<1>3. nextOwner \in 1 .. MaxOwners + 1 /\ nextOwner' \in 1 .. MaxOwners + 1
  BY <1>1, BoundsAssumption DEF OwnersOK, GenerationsOK
<1>4. \A k \in SlotIds : owner'[k] < nextOwner'
  BY <1>1, <1>2, <1>3 DEF OwnersOK, GenerationsOK
<1>5. ASSUME NEW k \in Slots', k >= handles'.primary
      PROVE  IF handles'.active[k] THEN handles'.gen[k] < nextOwner'
             ELSE handles'.gen[k] <= nextOwner'
  <2>1. CASE k = s
    <3>1. s \in Slots => handles.gen[s] <= nextOwner /\ handles.gen[s] \in Nat
      BY <1>1, <1>2 DEF OwnersOK, GenerationsOK
    <3>2. handles'.gen[s] <= nextOwner /\ handles'.gen[s] \in Int
      BY <1>1, <1>3, <3>1
    <3> QED
      BY <1>1, <1>3, <2>1, <3>2
  <2>2. CASE k # s
    <3>1. k \in Slots /\ k >= handles.primary
      BY <1>1, <1>5, <2>2
    <3>2. /\ IF handles.active[k] THEN handles.gen[k] < nextOwner ELSE handles.gen[k] <= nextOwner
          /\ handles.gen[k] \in Int
      BY <1>2, <3>1 DEF OwnersOK, GenerationsOK
    <3>3. handles'.gen[k] = handles.gen[k] /\ handles'.active[k] = handles.active[k]
      BY <1>1, <2>2, <3>1
    <3> QED
      BY <1>1, <1>3, <3>2, <3>3
  <2> QED
    BY <2>1, <2>2
<1>6. GenerationsOK'
  BY <1>3, <1>4, <1>5 DEF GenerationsOK
<1>7. ASSUME NEW i \in Coming' PROVE Sound(i)'
  <2>1. i \in Item /\ Sound(i) /\ i.slot \in Slots /\ i.sgen \in Nat
    BY AllocateBuilds, ComingItems DEF OwnersOK, Sound, Item
  <2>2. CASE i.slot = s
    <3>1. handles'.gen[s] = handles.gen[s] /\ ~handles.active[s] /\ handles.gen[s] \in Nat
          /\ ~(s < handles.primary) /\ s \in Slots
      BY <1>1, <1>2, <2>1, <2>2
    <3>2. i.sgen <= handles.gen[s] /\ i.sgen # handles.gen[s]
      BY <2>1, <2>2, <3>1 DEF Sound
    <3>3. ~IsCurrent(handles, i.slot, i.sgen)'
      BY <1>1, <2>2, <3>1, <3>2 DEF IsCurrent
    <3> QED
      BY <1>1, <2>2, <3>1, <3>2, <3>3 DEF Sound
  <2>3. CASE i.slot # s
    <3>1. /\ handles'.active[i.slot] = handles.active[i.slot]
          /\ handles'.gen[i.slot] = handles.gen[i.slot]
          /\ IsCurrent(handles, i.slot, i.sgen)' <=> IsCurrent(handles, i.slot, i.sgen)
          /\ chunks'[i.slot] = chunks[i.slot]
      BY <1>1, <2>1, <2>3
    <3>2. owner'[i.slot] = owner[i.slot] /\ issued'[i.slot] = issued[i.slot]
      BY <1>1, <1>2, <2>1, <2>3
    <3>3. i.slot \in Slots' /\ handles'.primary = handles.primary
      BY <1>1, <2>1
    <3> QED
      BY <2>1, <3>1, <3>2, <3>3 DEF Sound, Explicit
  <2> QED
    BY <2>2, <2>3
<1>8. NoForeignBuild'
  <2>1. ASSUME NEW k \in Slots', chunks'[k].mesh # NoBuild PROVE chunks'[k].mesh.owner = owner'[k]
    <3>1. k # s
      BY <1>1, <2>1 DEF FreshChunk
    <3>2. k \in Slots /\ chunks'[k] = chunks[k] /\ owner'[k] = owner[k]
      BY <1>1, <1>2, <2>1, <3>1
    <3> QED
      BY <2>1, <3>2 DEF OwnersOK, NoForeignBuild
  <2> QED
    BY <2>1 DEF NoForeignBuild
<1> QED
  BY <1>6, <1>7, <1>8 DEF OwnersOK

LEMMA AllocateImplements ==
    ASSUME IInv, IInv', VersionsOK, OwnersOK, AllocateExternalChunk, NEW k \in SlotIds
    PROVE  [Slot(k)!Next]_(Slot(k)!slot)
<1> DEFINE s == AllocatedSlot(handles, handles.size)
<1>1. /\ s \in SlotIds /\ chunks'[s] = FreshChunk /\ Slots' = Slots \cup {s}
      /\ \A j \in Slots : j # s => chunks'[j] = chunks[j]
      /\ owner' = [owner EXCEPT ![s] = nextOwner]
  BY AllocateEffect
<1> HIDE DEF s
<1>2. owner \in [SlotIds -> Nat] /\ nextOwner \in 1 .. MaxOwners + 1 /\ owner[s] < nextOwner
  BY <1>1 DEF IInv, HistoryOK, OwnersOK, GenerationsOK
<1>3. CASE k # s
  <2>1. owner'[k] = owner[k] /\ (k \in Slots => chunks'[k] = chunks[k]) /\ (k \in Slots' <=> k \in Slots)
    BY <1>1, <1>2, <1>3
  <2> QED
    BY <2>1 DEF Slot!slot, Occupied, Shown
<1>4. CASE k = s
  <2>1. /\ chunks'[k].mesh = NoBuild
        /\ chunks'[k].desired = -1 /\ chunks'[k].blasVersion = -1
    BY <1>1, <1>4 DEF FreshChunk
  <2>2. Shown(k)' = NoBuild
    BY <2>1 DEF Shown
  <2>3. k \in Slots' /\ owner'[k] = nextOwner
    BY <1>1, <1>2, <1>4
  <2>4. nextOwner # owner[k] /\ nextOwner # 0
    BY <1>1, <1>2, <1>4
  <2>5. Slot(k)!Pass
    BY <2>1, <2>2, <2>3, <2>4 DEF Slot!Pass
  <2> QED
    BY <2>5 DEF Slot!Next
<1> QED
  BY <1>3, <1>4

-----------------------------------------------------------------------------
(* A worker's build is admitted                                            *)

LEMMA AdmittedOwner ==
    ASSUME IInv, VersionsOK, NEW p \in Producers, producers[p].pc = "copying",
           Admitted(producers[p]), NEW kind \in Kinds, NEW lit \in BOOLEAN,
           NEW task, task = producers[p], NEW s, s = task.slot,
           NEW d, d = NewBuild(task, kind, lit), NEW c, c = Wanting(task),
           d.version <= MaxVersion
    PROVE  /\ s \in Slots /\ s \in SlotIds /\ (s < handles.primary \/ handles.active[s])
           /\ d \in Build /\ c \in ChunkState
           /\ OfTask(task) \in Coming
           /\ d.slot = s /\ d.sgen = OfTask(task).sgen /\ d.version >= 0
           /\ OwnersOK => d.owner = owner[s] /\ (Explicit(s) => d.version <= issued[s])
           /\ IsCurrent(handles, s, d.sgen)
           /\ c.desired = d.version /\ c.desired >= chunks[s].desired
           /\ c.blasVersion = chunks[s].blasVersion /\ c.mesh = chunks[s].mesh
           /\ c.blasVersion <= c.desired /\ (~Explicit(s) => c.desired < c.latest)
           /\ OfTask(task).slot = s
<1>1. /\ s \in Slots /\ (s < handles.primary \/ handles.active[s])
      /\ d \in Build /\ c \in ChunkState /\ c.mesh = chunks[s].mesh
  BY AdmittedTask
<1>2. s \in SlotIds
  BY <1>1 DEF VersionsOK
<1>3. /\ OfTask(task) = [slot |-> s, sgen |-> task.sgen, version |-> task.gen, owner |-> task.owner]
      /\ task \in ProducerState /\ p \in Busy
  BY TaskItem DEF IInv, WorkOK, Busy
<1>4. d = [slot |-> s, sgen |-> task.sgen, version |-> NextVersion(task), owner |-> task.owner,
           kind |-> kind, lit |-> lit]
  BY DEF NewBuild
<1>5. OfTask(task) \in Coming /\ (task.gen >= 0 <=> Explicit(s))
  BY <1>3 DEF Coming, VersionsOK
<1>6. /\ chunks[s] \in ChunkState /\ chunks[s].latest \in Nat /\ chunks[s].desired \in Int
      /\ chunks[s].blasVersion \in Int /\ issued[s] \in Int
      /\ chunks[s].blasVersion <= chunks[s].desired
      /\ ~Explicit(s) => chunks[s].desired < chunks[s].latest
  BY <1>1, <1>2, BoundsAssumption DEF IInv, SlotsOK, ChunkState, HistoryOK, Versions, VersionsOK
<1>7. task.gen \in Int /\ (task.gen >= 0 => task.gen >= chunks[s].desired)
  <2>1. OfTask(task) \in Item
    BY <1>5, ComingItems
  <2>2. task.gen \in Int
    BY <1>3, <2>1, BoundsAssumption DEF Item, Versions
  <2> QED
    BY <1>6, <2>2 DEF Admitted, Outdated
<1>8. IsCurrent(handles, s, task.sgen)
  BY DEF Admitted
<1>9. /\ task.gen >= 0 => d.version = task.gen
      /\ ~(task.gen >= 0) => d.version = chunks[s].latest
  BY <1>4 DEF NextVersion
<1>10. d.version >= chunks[s].desired /\ d.version >= 0
  BY <1>5, <1>6, <1>7, <1>9
<1>11. /\ c.desired = MaxOf(chunks[s].desired, d.version)
       /\ c.latest = IF task.gen >= 0 THEN chunks[s].latest ELSE chunks[s].latest + 1
       /\ c.blasVersion = chunks[s].blasVersion
  BY <1>4, <1>6 DEF Wanting, ChunkState
<1>12. d.version \in Int /\ c.desired = d.version
  BY <1>6, <1>7, <1>9, <1>10, <1>11 DEF MaxOf
<1>13. ~Explicit(s) => c.desired < c.latest
  BY <1>5, <1>6, <1>9, <1>11, <1>12
<1>14. ASSUME OwnersOK
       PROVE  IF Explicit(s)
              THEN task.gen <= issued[s] /\ (task.owner = owner[s] \/ task.gen < chunks[s].desired)
              ELSE task.owner = owner[s]
  <2> DEFINE i == OfTask(task)
  <2>1. i.slot = s /\ i.sgen = task.sgen /\ i.version = task.gen /\ i.owner = task.owner
    BY <1>3
  <2>2. Sound(i)
    BY <1>5, <1>14 DEF OwnersOK
  <2> HIDE DEF i
  <2> QED
    BY <1>8, <2>1, <2>2 DEF Sound
<1>15. OwnersOK => d.owner = owner[s] /\ (Explicit(s) => d.version <= issued[s])
  <2>1. d.owner = task.owner
    BY <1>4
  <2> QED
    BY <1>5, <1>6, <1>7, <1>9, <1>14, <2>1
<1>16. d.slot = s /\ d.sgen = task.sgen /\ OfTask(task).sgen = task.sgen /\ OfTask(task).slot = s
  BY <1>3, <1>4
<1>17. c.blasVersion <= c.desired
  BY <1>6, <1>10, <1>11, <1>12
<1> QED
  BY <1>1, <1>2, <1>5, <1>8, <1>10, <1>11, <1>12, <1>13, <1>15, <1>16, <1>17

QueuesBuild(p) ==
    \E kind \in Kinds : \E lit \in BOOLEAN :
        \/ Enqueue(p, kind, lit)
        \/ \E throws \in BOOLEAN : EnqueueImportant(p, kind, lit, throws)

\* Slot s takes the build d of a task: it wants the build's version from now on, and shows
\* the build, queues it, or loses it to an exception.
TakesIn(s, d) ==
    /\ s \in SlotIds /\ (s < handles.primary \/ handles.active[s])
    /\ \E i \in Coming : i.slot = s /\ i.sgen = d.sgen
    /\ d.slot = s /\ d.version >= 0
    /\ OwnersOK => d.owner = owner[s] /\ (Explicit(s) => d.version <= issued[s])
    /\ IsCurrent(handles, s, d.sgen)
    /\ \A k \in Slots : k # s => chunks'[k] = chunks[k] /\ buildDatas'[k] = buildDatas[k]
    /\ \A k \in SlotIds : k # s => accepted'[k] = accepted[k]
    /\ buildDatas'[s] \in {NoBuild, d} /\ accepted'[s] \in {-1, d.version}
    /\ chunks'[s].desired = d.version /\ d.version >= chunks[s].desired
    /\ chunks'[s].blasVersion <= d.version
    /\ ~Explicit(s) => chunks'[s].desired < chunks'[s].latest
    /\ \/ chunks'[s].blasVersion = chunks[s].blasVersion /\ chunks'[s].mesh = chunks[s].mesh
       \/ /\ chunks'[s].blasVersion = d.version /\ chunks'[s].mesh = d
          /\ d.version > chunks[s].blasVersion
    /\ accepted'[s] = d.version =>
          chunks'[s].blasVersion = d.version \/ buildDatas'[s] = d

LEMMA QueuesEffect ==
    ASSUME IInv, VersionsOK, NEW p \in Producers, QueuesBuild(p)
    PROVE  /\ UNCHANGED <<handles, render, inFlight, fatal, owner, nextOwner, issued>>
           /\ \A q \in Producers : q # p => producers'[q] = producers[q]
           /\ producers'[p].pc = "idle"
           /\ \E s \in Slots : \E d \in Build : TakesIn(s, d)
<1>1. PICK kind \in Kinds, lit \in BOOLEAN :
          \/ Enqueue(p, kind, lit)
          \/ \E throws \in BOOLEAN : EnqueueImportant(p, kind, lit, throws)
  BY DEF QueuesBuild
<1>2. PICK task : task = producers[p]
  OBVIOUS
<1>3. PICK s : s = task.slot
  OBVIOUS
<1>4. PICK d : d = NewBuild(task, kind, lit)
  OBVIOUS
<1>5. PICK c : c = Wanting(task)
  OBVIOUS
<1>6. /\ task.pc = "copying" /\ Admitted(task) /\ d.version <= MaxVersion
      /\ UNCHANGED <<handles, render, inFlight, fatal, owner, nextOwner, issued>>
      /\ producers' = [producers EXCEPT ![p] = IdleProducer]
  BY <1>1, <1>2, <1>4 DEF Enqueue, EnqueueImportant, poolVars
<1>7. /\ s \in Slots /\ s \in SlotIds /\ (s < handles.primary \/ handles.active[s])
      /\ d \in Build /\ c \in ChunkState
      /\ OfTask(task) \in Coming
      /\ d.slot = s /\ d.sgen = OfTask(task).sgen /\ d.version >= 0
      /\ OwnersOK => d.owner = owner[s] /\ (Explicit(s) => d.version <= issued[s])
      /\ IsCurrent(handles, s, d.sgen)
      /\ c.desired = d.version /\ c.desired >= chunks[s].desired
      /\ c.blasVersion = chunks[s].blasVersion /\ c.mesh = chunks[s].mesh
      /\ c.blasVersion <= c.desired /\ (~Explicit(s) => c.desired < c.latest)
      /\ OfTask(task).slot = s
  BY <1>2, <1>3, <1>4, <1>5, <1>6, AdmittedOwner
<1>8. /\ chunks \in [Slots -> ChunkState] /\ buildDatas \in [Slots -> Build \cup {NoBuild}]
      /\ accepted \in [SlotIds -> Versions] /\ producers \in [Producers -> ProducerState]
  BY DEF IInv, SlotsOK, HistoryOK, WorkOK
<1>9. d.version \in Int /\ c.blasVersion \in Int /\ c.desired \in Int
  BY <1>7, BoundsAssumption DEF Build, Versions, ChunkState
<1>10. /\ producers'[p].pc = "idle"
       /\ \A q \in Producers : q # p => producers'[q] = producers[q]
  BY <1>6, <1>8 DEF IdleProducer
<1>11. /\ Published(c, d) = [c EXCEPT !.blasVersion = d.version, !.mesh = d]
       /\ Published(c, d).blasVersion = d.version /\ Published(c, d).mesh = d
       /\ Published(c, d).desired = c.desired /\ Published(c, d).latest = c.latest
  BY <1>7, <1>9 DEF Published, ChunkState
<1>12. CASE Enqueue(p, kind, lit)
  <2>1. /\ chunks' = [chunks EXCEPT ![s] = c] /\ buildDatas' = [buildDatas EXCEPT ![s] = d]
        /\ accepted' = [accepted EXCEPT ![s] = d.version]
    BY <1>2, <1>3, <1>4, <1>5, <1>12 DEF Enqueue
  <2>2. /\ chunks'[s] = c /\ buildDatas'[s] = d /\ accepted'[s] = d.version
        /\ \A k \in Slots : k # s => chunks'[k] = chunks[k] /\ buildDatas'[k] = buildDatas[k]
        /\ \A k \in SlotIds : k # s => accepted'[k] = accepted[k]
    BY <1>7, <1>8, <2>1
  <2> QED
    BY <1>6, <1>7, <1>9, <1>10, <2>2 DEF TakesIn
<1>13. ASSUME NEW throws \in BOOLEAN, EnqueueImportant(p, kind, lit, throws)
       PROVE  /\ \A k \in Slots : k # s => chunks'[k] = chunks[k] /\ buildDatas'[k] = buildDatas[k]
              /\ \A k \in SlotIds : k # s => accepted'[k] = accepted[k]
              /\ buildDatas'[s] = NoBuild
              /\ accepted'[s] = IF throws THEN -1 ELSE d.version
              /\ chunks'[s] = IF ~throws /\ Accepts(c, d) THEN Published(c, d) ELSE c
  <2>1. /\ chunks' = [chunks EXCEPT ![s] = IF ~throws /\ Accepts(c, d) THEN Published(c, d) ELSE c]
        /\ buildDatas' = [buildDatas EXCEPT ![s] = NoBuild]
        /\ accepted' = [accepted EXCEPT ![s] = IF throws THEN -1 ELSE d.version]
    BY <1>2, <1>3, <1>4, <1>5, <1>13 DEF EnqueueImportant
  <2> QED
    BY <1>7, <1>8, <2>1
<1>14. CASE \E throws \in BOOLEAN : EnqueueImportant(p, kind, lit, throws)
  <2>1. PICK throws \in BOOLEAN : EnqueueImportant(p, kind, lit, throws)
    BY <1>14
  <2>2. /\ \A k \in Slots : k # s => chunks'[k] = chunks[k] /\ buildDatas'[k] = buildDatas[k]
        /\ \A k \in SlotIds : k # s => accepted'[k] = accepted[k]
        /\ buildDatas'[s] = NoBuild
        /\ accepted'[s] = IF throws THEN -1 ELSE d.version
        /\ chunks'[s] = IF ~throws /\ Accepts(c, d) THEN Published(c, d) ELSE c
    BY <1>13, <2>1
  <2>3. Accepts(c, d) <=> d.version > c.blasVersion
    BY <1>7 DEF Accepts
  <2>4. CASE ~throws /\ Accepts(c, d)
    <3>1. /\ chunks'[s].blasVersion = d.version /\ chunks'[s].mesh = d
          /\ chunks'[s].desired = c.desired /\ chunks'[s].latest = c.latest
          /\ d.version > chunks[s].blasVersion
      BY <1>7, <1>11, <2>2, <2>3, <2>4
    <3> QED
      BY <1>6, <1>7, <1>9, <1>10, <2>2, <2>4, <3>1 DEF TakesIn
  <2>5. CASE ~(~throws /\ Accepts(c, d))
    <3>1. chunks'[s] = c
      BY <2>2, <2>5
    <3>2. accepted'[s] = d.version => c.blasVersion = d.version
      BY <1>7, <1>9, <2>2, <2>3, <2>5
    <3> QED
      BY <1>6, <1>7, <1>9, <1>10, <2>2, <3>1, <3>2 DEF TakesIn
  <2> QED
    BY <2>4, <2>5
<1> QED
  BY <1>1, <1>12, <1>14

\* Nothing else comes on its way, and the builds of the other slots stay.
LEMMA QueuesBuilds ==
    ASSUME IInv, IInv', VersionsOK, NEW p \in Producers, QueuesBuild(p),
           NEW s \in Slots, NEW d \in Build, TakesIn(s, d)
    PROVE  /\ Coming' \subseteq Coming \cup {OfBuild(d)}
           /\ \A e \in BuildsAlive : e.slot # s => e \in BuildsAlive'
           /\ buildDatas'[s] = d => d \in BuildsAlive'
<1>1. /\ UNCHANGED <<handles, render, inFlight>> /\ Slots' = Slots
      /\ \A q \in Producers : q # p => producers'[q] = producers[q]
      /\ producers'[p].pc = "idle"
      /\ \A k \in Slots : k # s => buildDatas'[k] = buildDatas[k]
      /\ buildDatas'[s] \in {NoBuild, d}
  BY QueuesEffect DEF Slots, TakesIn
<1>2. /\ queued = {k \in Slots : buildDatas[k] # NoBuild}
      /\ queued' = {k \in Slots : buildDatas'[k] # NoBuild}
  BY <1>1 DEF IInv, SlotsOK
<1>3. Waiters' \subseteq Waiters \cup {d}
  BY <1>1, <1>2 DEF Waiters
<1>4. ASSUME NEW e \in Waiters, e.slot # s PROVE e \in Waiters'
  <2>1. PICK k \in queued : e = buildDatas[k]
    BY DEF Waiters
  <2>2. k \in Slots /\ buildDatas[k] # NoBuild
    BY <1>2
  <2>3. e.slot = k
    BY <2>1, <2>2 DEF VersionsOK
  <2>4. buildDatas'[k] = e /\ k \in queued'
    BY <1>1, <1>2, <1>4, <2>1, <2>2, <2>3
  <2> QED
    BY <2>4 DEF Waiters
<1>5. BuildsUnderWay' = BuildsUnderWay
  BY <1>1 DEF BuildsUnderWay
<1>6. \A q \in Busy' : q \in Busy /\ OfTask(producers'[q]) = OfTask(producers[q])
  BY <1>1 DEF Busy
<1>7. BuildsAlive = Waiters \cup BuildsUnderWay /\ BuildsAlive' = Waiters' \cup BuildsUnderWay'
  BY DEF BuildsAlive, Waiters, BuildsUnderWay
<1>8. buildDatas'[s] = d => d \in Waiters'
  BY <1>1, <1>2, NoBuildAssumption DEF Waiters
<1>9. Coming' \subseteq Coming \cup {OfBuild(d)}
  BY <1>3, <1>5, <1>6 DEF Coming
<1> QED
  BY <1>4, <1>5, <1>7, <1>8, <1>9

LEMMA QueuesVersions ==
    ASSUME IInv, IInv', VersionsOK, NEW p \in Producers, QueuesBuild(p)
    PROVE  VersionsOK'
<1>1. PICK s \in Slots, d \in Build : TakesIn(s, d)
  BY QueuesEffect
<1>2. /\ handles' = handles /\ Slots' = Slots
      /\ \A q \in Producers : q # p => producers'[q] = producers[q]
      /\ producers'[p].pc = "idle"
  BY QueuesEffect DEF Slots
<1>3. /\ s \in SlotIds /\ (s < handles.primary \/ handles.active[s]) /\ d.slot = s
      /\ \A k \in Slots : k # s => chunks'[k] = chunks[k] /\ buildDatas'[k] = buildDatas[k]
      /\ \A k \in SlotIds : k # s => accepted'[k] = accepted[k]
      /\ buildDatas'[s] \in {NoBuild, d} /\ accepted'[s] \in {-1, d.version}
      /\ chunks'[s].desired = d.version
      /\ chunks'[s].blasVersion <= d.version
      /\ ~Explicit(s) => chunks'[s].desired < chunks'[s].latest
  BY <1>1 DEF TakesIn
<1>4. \A q \in Busy' : q \in Busy /\ producers'[q] = producers[q]
  BY <1>2 DEF Busy
<1>5. \A q \in Busy' : (producers[q].gen >= 0)' <=> Explicit(OfTask(producers[q]).slot)'
  BY <1>4 DEF VersionsOK, Explicit
<1>6. \A k \in Slots : /\ chunks'[k].blasVersion <= chunks'[k].desired
                       /\ ~Explicit(k) => chunks'[k].desired < chunks'[k].latest
                       /\ buildDatas'[k] # NoBuild => buildDatas'[k].slot = k
  BY <1>3 DEF VersionsOK
<1>7. \A k \in SlotIds : accepted'[k] >= 0 =>
          /\ k \in Slots /\ (k < handles.primary \/ handles.active[k])
          /\ accepted'[k] = chunks'[k].desired
  BY <1>3 DEF VersionsOK
<1>8. Slots \subseteq SlotIds
  BY DEF VersionsOK
<1> QED
  BY <1>2, <1>5, <1>6, <1>7, <1>8 DEF VersionsOK, Explicit

LEMMA QueuesDelivers ==
    ASSUME IInv, IInv', VersionsOK, NoLostBuild, NEW p \in Producers, QueuesBuild(p)
    PROVE  NoLostBuild'
<1>1. PICK s \in Slots, d \in Build : TakesIn(s, d)
  BY QueuesEffect
<1>2. handles' = handles /\ Slots' = Slots /\ fatal' = fatal /\ Slots \subseteq SlotIds
  BY QueuesEffect DEF Slots, VersionsOK
<1>3. /\ d.slot = s /\ IsCurrent(handles, s, d.sgen) /\ d.version >= 0
      /\ \A k \in Slots : k # s => chunks'[k] = chunks[k]
      /\ \A k \in SlotIds : k # s => accepted'[k] = accepted[k]
      /\ accepted'[s] \in {-1, d.version}
      /\ chunks'[s].desired = d.version /\ chunks'[s].blasVersion <= d.version
      /\ accepted'[s] = d.version => chunks'[s].blasVersion = d.version \/ buildDatas'[s] = d
  BY <1>1 DEF TakesIn
<1> SUFFICES ASSUME NEW k \in Slots, accepted'[k] >= 0, ~fatal',
                    chunks'[k].blasVersion # accepted'[k]
             PROVE  \E e \in BuildsAlive' : e.slot = k /\ e.version = accepted'[k]
                                            /\ Publishable(e)'
  BY <1>2 DEF NoLostBuild
<1>4. \A e, g : IsCurrent(handles, e, g)' <=> IsCurrent(handles, e, g)
  BY <1>2 DEF IsCurrent, StorageSlots
<1>5. CASE k # s
  <2>1. accepted'[k] = accepted[k] /\ chunks'[k] = chunks[k]
    BY <1>2, <1>3, <1>5
  <2>2. PICK e \in BuildsAlive : e.slot = k /\ e.version = accepted[k] /\ Publishable(e)
    BY <1>2, <2>1 DEF NoLostBuild
  <2>3. e \in BuildsAlive'
    BY <1>1, <1>5, <2>2, QueuesBuilds
  <2>4. Publishable(e)'
    BY <1>4, <2>1, <2>2 DEF Publishable, Accepts
  <2> QED
    BY <2>1, <2>2, <2>3, <2>4
<1>6. CASE k = s
  <2>1. accepted'[s] = d.version
    BY <1>3, <1>6
  <2>2. d \in BuildsAlive'
    BY <1>1, <1>3, <1>6, <2>1, QueuesBuilds
  <2>3. d.version \in Int /\ chunks'[s].blasVersion \in Int
    BY <1>2, BoundsAssumption DEF Build, Versions, IInv, SlotsOK, ChunkState
  <2>4. d.version > chunks'[s].blasVersion
    BY <1>3, <1>6, <2>1, <2>3
  <2>5. Publishable(d)'
    BY <1>3, <1>4, <2>4 DEF Publishable, Accepts
  <2> QED
    BY <1>3, <1>6, <2>1, <2>2, <2>5
<1> QED
  BY <1>5, <1>6

LEMMA QueuesOwners ==
    ASSUME IInv, IInv', VersionsOK, OwnersOK, NEW p \in Producers, QueuesBuild(p)
    PROVE  OwnersOK'
<1>1. PICK s \in Slots, d \in Build : TakesIn(s, d)
  BY QueuesEffect
<1>2. UNCHANGED <<handles, owner, nextOwner, issued>> /\ Slots' = Slots /\ Slots \subseteq SlotIds
  BY QueuesEffect DEF Slots, VersionsOK
<1>3. /\ d.slot = s /\ d.owner = owner[s] /\ (Explicit(s) => d.version <= issued[s])
      /\ \E i \in Coming : i.slot = s /\ i.sgen = d.sgen
      /\ \A k \in Slots : k # s => chunks'[k] = chunks[k]
      /\ chunks'[s].desired = d.version /\ d.version >= chunks[s].desired
      /\ \/ chunks'[s].mesh = chunks[s].mesh
         \/ chunks'[s].mesh = d
  BY <1>1 DEF TakesIn
<1>4. \A k \in Slots : chunks[k].desired \in Int /\ issued[k] \in Int
  BY <1>2, BoundsAssumption DEF IInv, SlotsOK, ChunkState, HistoryOK, Versions
<1>5. \A k \in Slots : chunks'[k].desired >= chunks[k].desired /\ issued'[k] >= issued[k]
  BY <1>2, <1>3, <1>4
<1>6. ASSUME NEW i \in Coming PROVE Sound(i)'
  BY <1>2, <1>5, <1>6, ComingItems, StaysSound DEF OwnersOK
<1>7. ASSUME NEW i, i = OfBuild(d) PROVE Sound(i)'
  <2>1. PICK j \in Coming : j.slot = s /\ j.sgen = d.sgen
    BY <1>3
  <2>2. Sound(j)'
    BY <1>6, <2>1
  <2>3. i.slot = s /\ i.sgen = d.sgen /\ i.version = d.version /\ i.owner = owner'[s]
    BY <1>2, <1>3, <1>7 DEF OfBuild
  <2>4. Explicit(s) => i.version <= issued'[s]
    BY <1>2, <1>3, <2>3
  <2> QED
    BY <2>1, <2>2, <2>3, <2>4 DEF Sound, Explicit
<1>8. \A i \in Coming' : Sound(i)'
  <2>1. Coming' \subseteq Coming \cup {OfBuild(d)}
    BY <1>1, QueuesBuilds
  <2> QED
    BY <1>6, <1>7, <2>1
<1>9. GenerationsOK' /\ NoForeignBuild'
  BY <1>2, <1>3 DEF OwnersOK, GenerationsOK, NoForeignBuild
<1> QED
  BY <1>8, <1>9 DEF OwnersOK

LEMMA QueuesImplement ==
    ASSUME IInv, IInv', VersionsOK, OwnersOK, NEW p \in Producers, QueuesBuild(p),
           NEW k \in SlotIds
    PROVE  [Slot(k)!Next]_(Slot(k)!slot)
<1>1. PICK s \in Slots, d \in Build : TakesIn(s, d)
  BY QueuesEffect
<1>2. owner' = owner /\ Slots' = Slots
  BY QueuesEffect DEF Slots
<1>3. /\ d.owner = owner[s] /\ \A j \in Slots : j # s => chunks'[j] = chunks[j]
      /\ chunks'[s].desired = d.version /\ d.version >= chunks[s].desired
      /\ \/ chunks'[s].blasVersion = chunks[s].blasVersion /\ chunks'[s].mesh = chunks[s].mesh
         \/ /\ chunks'[s].blasVersion = d.version /\ chunks'[s].mesh = d
            /\ d.version > chunks[s].blasVersion
  BY <1>1 DEF TakesIn
<1>4. CASE k # s \/ owner[k] = 0
  BY <1>2, <1>3, <1>4 DEF Slot!slot, Occupied, Shown
<1>5. CASE k = s /\ owner[k] # 0
  <2>1. k \in Slots /\ Occupied(k) /\ Occupied(k)'
    BY <1>2, <1>5 DEF Occupied
  <2>2. d.version \in Int /\ chunks[k].desired \in Int
    BY <2>1, BoundsAssumption DEF Build, Versions, IInv, SlotsOK, ChunkState
  <2>3. CASE chunks'[k].blasVersion = chunks[k].blasVersion /\ chunks'[k].mesh = chunks[k].mesh
    <3>1. Shown(k)' = Shown(k)
      BY <2>1, <2>3 DEF Shown
    <3>2. CASE d.version = chunks[k].desired
      BY <1>2, <1>3, <1>5, <2>1, <2>3, <3>1, <3>2 DEF Slot!slot
    <3>3. CASE d.version > chunks[k].desired
      <4>1. Slot(k)!Want
        BY <1>2, <1>3, <1>5, <2>1, <2>3, <3>1, <3>3 DEF Slot!Want
      <4> QED
        BY <4>1 DEF Slot!Next
    <3> QED
      BY <1>3, <1>5, <2>2, <3>2, <3>3
  <2>4. CASE /\ chunks'[k].blasVersion = d.version /\ chunks'[k].mesh = d
             /\ d.version > chunks[k].blasVersion
    <3>1. Shown(k)' = [owner |-> owner[k], version |-> d.version]
      BY <1>3, <1>5, <2>1, <2>4, NoBuildAssumption DEF Shown
    <3>2. Slot(k)!Show
      BY <1>2, <1>3, <1>5, <2>1, <2>4, <3>1 DEF Slot!Show
    <3> QED
      BY <3>2 DEF Slot!Next
  <2> QED
    BY <1>3, <1>5, <2>3, <2>4
<1> QED
  BY <1>4, <1>5

-----------------------------------------------------------------------------
(* The world is left                                                       *)

LeavesWorld == (\E n \in PrimaryCounts : Reset(n)) \/ ReleaseScene

\* Nobody is on the way, and whoever moves in is new.
LEMMA LeavesEffect ==
    ASSUME IInv, LeavesWorld
    PROVE  \E n \in 0 .. MaxSlots :
               /\ Slots' = 0 .. n - 1 /\ Slots' \subseteq SlotIds /\ handles'.primary = n
               /\ \A s \in Slots' : chunks'[s] = FreshChunk /\ buildDatas'[s] = NoBuild
               /\ Busy' = {} /\ Coming' = {}
               /\ \A s \in SlotIds : accepted'[s] = -1
               /\ owner' = [s \in SlotIds |-> IF s < n THEN nextOwner + s ELSE 0]
               /\ nextOwner' = nextOwner + n
               /\ nextOwner <= MaxOwners + 1 => nextOwner' <= MaxOwners + 1
<1>1. RenderIdle /\ WorkersStopped /\ render' = render
  BY DEF LeavesWorld, Reset, ReleaseScene
<1>2. ASSUME NEW n \in 0 .. MaxSlots, EmptyStorage(n)
      PROVE  /\ Slots' = 0 .. n - 1 /\ Slots' \subseteq SlotIds /\ handles'.primary = n
             /\ \A s \in Slots' : chunks'[s] = FreshChunk /\ buildDatas'[s] = NoBuild
             /\ Busy' = {} /\ Coming' = {}
             /\ \A s \in SlotIds : accepted'[s] = -1
  <2>1. /\ handles' = ResetTable(n) /\ queued' = {} /\ inFlight' = {}
        /\ chunks' = [s \in 0 .. n - 1 |-> FreshChunk]
        /\ buildDatas' = [s \in 0 .. n - 1 |-> NoBuild]
        /\ accepted' = [s \in SlotIds |-> -1]
    BY <1>2 DEF EmptyStorage
  <2>2. handles'.primary = n /\ handles'.size = n
    BY <2>1 DEF ResetTable
  <2>3. Slots' = 0 .. n - 1 /\ Slots' \subseteq SlotIds
    BY <2>2, SlotsAssumption DEF Slots, StorageSlots, SlotIds
  <2>4. BuildsUnderWay' = {}
    <3>1. render.builds = {}
      BY <1>1 DEF RenderIdle, IInv, PoolOK
    <3> QED
      BY <1>1, <2>1, <3>1 DEF BuildsUnderWay
  <2>5. Busy' = {}
    BY <1>1 DEF WorkersStopped, IdleProducer, Busy
  <2>6. Waiters' = {}
    BY <2>1 DEF Waiters
  <2>7. Coming' = {}
    BY <2>4, <2>5, <2>6 DEF Coming
  <2> QED
    BY <2>1, <2>2, <2>3, <2>5, <2>7
<1>3. nextOwner \in Nat
  BY DEF IInv, HistoryOK
<1>4. ASSUME NEW n \in PrimaryCounts, Reset(n)
      PROVE  /\ n \in 0 .. MaxSlots /\ EmptyStorage(n)
             /\ owner' = [s \in SlotIds |-> IF s < n THEN nextOwner + s ELSE 0]
             /\ nextOwner' = nextOwner + n /\ nextOwner' <= MaxOwners + 1
  BY <1>4, SlotsAssumption DEF Reset
<1>5. CASE \E n \in PrimaryCounts : Reset(n)
  <2>1. PICK n \in PrimaryCounts : Reset(n)
    BY <1>5
  <2> QED
    BY <1>2, <1>4, <2>1
<1>6. CASE ReleaseScene
  <2>1. /\ EmptyStorage(0) /\ owner' = [s \in SlotIds |-> 0] /\ nextOwner' = nextOwner
    BY <1>6 DEF ReleaseScene
  <2>2. owner' = [s \in SlotIds |-> IF s < 0 THEN nextOwner + s ELSE 0]
    BY <2>1 DEF SlotIds
  <2>3. nextOwner' = nextOwner + 0 /\ 0 \in 0 .. MaxSlots
    BY <1>3, <2>1, SlotsAssumption, BoundsAssumption
  <2> QED
    BY <1>2, <2>1, <2>2, <2>3
<1> QED
  BY <1>5, <1>6 DEF LeavesWorld

LEMMA LeavesVersions ==
    ASSUME IInv, LeavesWorld
    PROVE  VersionsOK' /\ NoLostBuild'
<1>1. PICK n \in 0 .. MaxSlots :
          /\ Slots' = 0 .. n - 1 /\ Slots' \subseteq SlotIds /\ handles'.primary = n
          /\ \A s \in Slots' : chunks'[s] = FreshChunk /\ buildDatas'[s] = NoBuild
          /\ Busy' = {} /\ Coming' = {}
          /\ \A s \in SlotIds : accepted'[s] = -1
  BY LeavesEffect
<1>3. \A s \in Slots' : /\ chunks'[s].blasVersion = -1 /\ chunks'[s].desired = -1
                        /\ chunks'[s].latest = 0 /\ chunks'[s].mesh = NoBuild
  BY <1>1 DEF FreshChunk
<1>4. VersionsOK'
  <2>1. \A s \in SlotIds : ~(accepted'[s] >= 0)
    BY <1>1
  <2> QED
    BY <1>1, <1>3, <2>1 DEF VersionsOK
<1>5. NoLostBuild'
  <2>1. \A s \in Slots' : ~(accepted'[s] >= 0)
    BY <1>1
  <2> QED
    BY <2>1 DEF NoLostBuild
<1> QED
  BY <1>4, <1>5

LEMMA LeavesOwners ==
    ASSUME IInv, OwnersOK, LeavesWorld
    PROVE  OwnersOK'
<1>1. PICK n \in 0 .. MaxSlots :
          /\ Slots' = 0 .. n - 1 /\ handles'.primary = n /\ Coming' = {}
          /\ \A s \in Slots' : chunks'[s] = FreshChunk
          /\ owner' = [s \in SlotIds |-> IF s < n THEN nextOwner + s ELSE 0]
          /\ nextOwner' = nextOwner + n
          /\ nextOwner <= MaxOwners + 1 => nextOwner' <= MaxOwners + 1
  BY LeavesEffect
<1>2. nextOwner \in 1 .. MaxOwners + 1 /\ n \in Nat
  BY SlotsAssumption DEF OwnersOK, GenerationsOK
<1>3. \A s \in Slots' : chunks'[s].mesh = NoBuild
  BY <1>1 DEF FreshChunk
<1>4. nextOwner' \in 1 .. MaxOwners + 1
  BY <1>1, <1>2, BoundsAssumption
<1>5. \A s \in SlotIds : owner'[s] < nextOwner'
  BY <1>1, <1>2 DEF SlotIds
<1>6. \A s \in Slots' : ~(s >= handles'.primary)
  BY <1>1, <1>2
<1>7. GenerationsOK'
  BY <1>4, <1>5, <1>6 DEF GenerationsOK
<1>8. OwnersOK'
  BY <1>1, <1>3, <1>7 DEF OwnersOK, NoForeignBuild
<1> QED
  BY <1>8

LEMMA LeavesImplement ==
    ASSUME IInv, IInv', VersionsOK, OwnersOK, LeavesWorld, NEW k \in SlotIds
    PROVE  [Slot(k)!Next]_(Slot(k)!slot)
<1>1. PICK n \in 0 .. MaxSlots :
          /\ Slots' = 0 .. n - 1
          /\ \A s \in Slots' : chunks'[s] = FreshChunk
          /\ owner' = [s \in SlotIds |-> IF s < n THEN nextOwner + s ELSE 0]
  BY LeavesEffect
<1>2. nextOwner \in 1 .. MaxOwners + 1 /\ owner[k] < nextOwner /\ owner[k] \in Nat /\ k \in Nat
  BY DEF OwnersOK, GenerationsOK, IInv, HistoryOK, SlotIds
<1>3. k \in Slots' => chunks'[k].desired = -1 /\ chunks'[k].blasVersion = -1
                      /\ chunks'[k].mesh = NoBuild
  BY <1>1 DEF FreshChunk
<1>4. Shown(k)' = NoBuild
  BY <1>3 DEF Shown, Occupied
<1>5. CASE k \in Slots'
  <2>1. owner'[k] > owner[k] /\ owner'[k] # 0
    BY <1>1, <1>2, <1>5
  <2>2. Slot(k)!Pass
    BY <1>2, <1>3, <1>4, <1>5, <2>1 DEF Slot!Pass
  <2> QED
    BY <2>2 DEF Slot!Next
<1>6. CASE k \notin Slots' /\ Occupied(k)
  <2>1. Slot(k)!Pass
    BY <1>3, <1>4, <1>6 DEF Slot!Pass, Occupied
  <2> QED
    BY <2>1 DEF Slot!Next
<1>7. CASE k \notin Slots' /\ ~Occupied(k)
  BY <1>4, <1>7 DEF Slot!slot, Occupied, Shown
<1> QED
  BY <1>5, <1>6, <1>7

-----------------------------------------------------------------------------
(* Every step                                                              *)

LEMMA EveryStep ==
    ASSUME IInv, IInv', VersionsOK, OrderOK, [Next]_vars
    PROVE  \/ MovesAlong
           \/ LeavesWorld
           \/ \E s \in SlotIds : TakesBack(s)
           \/ AllocateExternalChunk
           \/ \E p \in Producers : WorkerStep(p) \/ QueuesBuild(p)
<1>1. CASE RenderThread \/ (\E f \in Fences : Signal(f)) \/ Fail \/ UNCHANGED vars
  BY <1>1, BackgroundMoves DEF LeavesWorld
<1>2. CASE Game
  BY <1>1, <1>2 DEF Game, TakesBack
<1>3. CASE \E p \in Producers : Produce(p)
  <2>1. \A kind : Lights(kind) \subseteq BOOLEAN
    BY DEF Lights
  <2> QED
    BY <1>3, <2>1 DEF Produce, WorkerStep, QueuesBuild
<1> QED
  BY <1>1, <1>2, <1>3 DEF Next

LEMMA NextVersions ==
    ASSUME IInv, IInv', VersionsOK, OrderOK, NoLostBuild, [Next]_vars
    PROVE  VersionsOK' /\ OrderOK' /\ NoLostBuild'
<1>1. OrderOK'
  BY NextOrder
<1>2. VersionsOK'
  BY EveryStep, MovesVersions, LeavesVersions, TakesBackVersions, AllocateVersions,
     WorkerVersions, QueuesVersions
<1>3. NoLostBuild'
  BY EveryStep, MovesDeliver, LeavesVersions, TakesBackDelivers, AllocateDelivers,
     WorkerDelivers, QueuesDelivers
<1> QED
  BY <1>1, <1>2, <1>3

LEMMA NextOwners ==
    ASSUME MaxOwners < MaxGen, IInv, IInv', VersionsOK, OrderOK, OwnersOK, [Next]_vars
    PROVE  OwnersOK'
BY EveryStep, MovesOwners, LeavesOwners, TakesBackOwners, AllocateOwners, WorkerOwners,
   QueuesOwners

LEMMA NextImplements ==
    ASSUME IInv, IInv', VersionsOK, OrderOK, OwnersOK, OwnersOK', [Next]_vars, NEW s \in SlotIds
    PROVE  [Slot(s)!Next]_(Slot(s)!slot)
<1>1. CASE MovesAlong
  BY <1>1, MovesImplement
<1>2. CASE LeavesWorld
  BY <1>2, LeavesImplement
<1>3. CASE \E k \in SlotIds : TakesBack(k)
  BY <1>3, TakesBackImplements
<1>4. CASE AllocateExternalChunk
  BY <1>4, AllocateImplements
<1>5. ASSUME NEW p \in Producers, WorkerStep(p) PROVE [Slot(s)!Next]_(Slot(s)!slot)
  BY <1>5, WorkerImplements
<1>6. ASSUME NEW p \in Producers, QueuesBuild(p) PROVE [Slot(s)!Next]_(Slot(s)!slot)
  BY <1>6, QueuesImplement
<1> QED
  BY <1>1, <1>2, <1>3, <1>4, <1>5, <1>6, EveryStep

LEMMA InitFlow == Init => VersionsOK /\ OrderOK /\ NoLostBuild /\ OwnersOK
<1> SUFFICES ASSUME Init PROVE VersionsOK /\ OrderOK /\ NoLostBuild /\ OwnersOK
  OBVIOUS
<1>1. Slots = {} /\ handles.primary = 0
  BY DEF Init, Slots, StorageSlots, ResetTable
<1>2. /\ Busy = {} /\ Waiters = {} /\ BuildsUnderWay = {} /\ Coming = {}
  BY DEF Init, IdleProducer, NoBatch, Busy, Waiters, BuildsUnderWay, Coming
<1>3. \A s \in SlotIds : ~(accepted[s] >= 0) /\ owner[s] = 0
  BY DEF Init
<1>4. nextOwner = 1 /\ inFlight = {} /\ 1 \in 1 .. MaxOwners + 1
  BY BoundsAssumption DEF Init
<1>5. VersionsOK
  BY <1>1, <1>2, <1>3 DEF VersionsOK
<1>6. GenerationsOK
  BY <1>1, <1>3, <1>4 DEF GenerationsOK
<1>7. OwnersOK
  BY <1>1, <1>2, <1>6 DEF OwnersOK, NoForeignBuild
<1>8. OrderOK /\ NoLostBuild
  BY <1>1, <1>4 DEF OrderOK, NoLostBuild
<1> QED
  BY <1>5, <1>7, <1>8

LEMMA FlowInductive == Spec => [](IInv /\ VersionsOK /\ OrderOK /\ NoLostBuild)
<1>1. Spec => [](IInv /\ DarkOK)
  BY Inductive
<1>2. Init => VersionsOK /\ OrderOK /\ NoLostBuild
  BY InitFlow
<1>3. /\ IInv /\ IInv' /\ VersionsOK /\ OrderOK /\ NoLostBuild /\ [Next]_vars
      => VersionsOK' /\ OrderOK' /\ NoLostBuild'
  BY NextVersions
<1> QED
  BY <1>1, <1>2, <1>3, PTL DEF Spec

\* Nothing in the pipeline drops a build its slot still waits for: not the purge of stale
\* builds, the recheck of generations, the batches recycled in any order of their fences,
\* nor the deduplication that publishes the first fitting build of several batches.
THEOREM BuildsAreDelivered == Spec => []NoLostBuild
BY FlowInductive, PTL

LEMMA OwnersInductive ==
    ASSUME MaxOwners < MaxGen
    PROVE  Spec => [](IInv /\ VersionsOK /\ OrderOK /\ OwnersOK)
<1>1. Spec => [](IInv /\ VersionsOK /\ OrderOK /\ NoLostBuild)
  BY FlowInductive
<1>2. Init => OwnersOK
  BY InitFlow
<1>3. IInv /\ IInv' /\ VersionsOK /\ OrderOK /\ OwnersOK /\ [Next]_vars => OwnersOK'
  BY NextOwners
<1> QED
  BY <1>1, <1>2, <1>3, PTL DEF Spec

\* Unless a slot's generations run out, it never shows a mesh made for another occupant:
\* whatever is on its way was meant for a former generation, or for the present occupant,
\* or is of a version the slot has ceased to want.
THEOREM MeshesAreOwn == MaxOwners < MaxGen => (Spec => []NoForeignBuild)
<1> SUFFICES ASSUME MaxOwners < MaxGen PROVE Spec => []NoForeignBuild
  OBVIOUS
<1>1. Spec => [](IInv /\ VersionsOK /\ OrderOK /\ OwnersOK)
  BY OwnersInductive
<1>2. OwnersOK => NoForeignBuild
  BY DEF OwnersOK
<1> QED
  BY <1>1, <1>2, PTL

\* Under the same condition every slot implements LatestWins: each step of the pipeline is,
\* for each slot, to want, show or hide a mesh, to change hands, or nothing.
THEOREM LatestMeshWins == MaxOwners < MaxGen => (Spec => ImplementsLatestWins)
<1> SUFFICES ASSUME MaxOwners < MaxGen PROVE Spec => ImplementsLatestWins
  OBVIOUS
<1> DEFINE Inv == IInv /\ VersionsOK /\ OrderOK /\ OwnersOK
<1>1. Spec => []Inv
  BY OwnersInductive
<1>2. Init => \A s \in SlotIds : Slot(s)!Init
  BY DEF Slot!Init, Init, Slots, Occupied, Shown, StorageSlots, ResetTable
<1>3. Inv /\ Inv' /\ [Next]_vars
      => [\A s \in SlotIds : [Slot(s)!Next]_(Slot(s)!slot)]_vars
  BY NextImplements
<1> HIDE DEF Inv
<1> QED
  BY <1>1, <1>2, <1>3, PTL DEF Spec, ImplementsLatestWins
=============================================================================
