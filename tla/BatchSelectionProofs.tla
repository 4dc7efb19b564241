------------------------ MODULE BatchSelectionProofs ------------------------
(***************************************************************************)
(* What a round admits, for any sections, budgets and sizes of batches.    *)
(*                                                                         *)
(* Totals and the history of a batch are computed by recursion along a     *)
(* sequence.  Facts about them are proved by induction, stated for a set   *)
(* of naturals that has 0 and the successors of its elements.              *)
(***************************************************************************)
EXTENDS BatchSelection, SequenceTheorems, WellFoundedInduction, TLAPS

-----------------------------------------------------------------------------
(* Induction and recursion                                                 *)

LEMMA LeastNatural ==
    ASSUME NEW S \in SUBSET Nat, S # {}
    PROVE  \E n \in S : \A m \in S : n <= m
<1> DEFINE R == OpToRel(<, Nat)
<1>1. IsWellFoundedOn(R, Nat)
  BY NatLessThanWellFounded
<1>2. \A m, n \in Nat : <<m, n>> \in R <=> m < n
  BY DEF OpToRel
<1> HIDE DEF R
<1>3. PICK n \in S : \A m \in S : ~ (<<m, n>> \in R)
  BY <1>1, WFMin
<1>4. ASSUME NEW m \in S PROVE n <= m
  <2>1. ~ (m < n)
    BY <1>2, <1>3
  <2> QED
    BY <2>1
<1> QED
  BY <1>4

LEMMA SetInduction ==
    ASSUME NEW S, 0 \in S, \A n \in Nat : n \in S => n + 1 \in S
    PROVE  Nat \subseteq S
<1> DEFINE T == Nat \ S
<1> SUFFICES ASSUME T # {} PROVE FALSE
  OBVIOUS
<1>1. PICK n \in T : \A m \in T : n <= m
  BY LeastNatural
<1>2. n # 0 /\ n - 1 \in Nat /\ n - 1 \in S
  BY <1>1
<1> QED
  BY <1>1, <1>2

\* What is to be shown for 0 .. size.
LEMMA PrefixInduction ==
    ASSUME NEW size \in Nat, NEW S, 0 \in S,
           \A n \in 0 .. size : n \in S /\ n < size => n + 1 \in S
    PROVE  0 .. size \subseteq S
<1> DEFINE T == S \cup {n \in Nat : n > size}
<1>1. \A n \in Nat : n \in T => n + 1 \in T
  OBVIOUS
<1>2. Nat \subseteq T
  BY <1>1, SetInduction
<1> QED
  BY <1>2

\* A recursion along 0 .. size has a solution; step tells how it goes on.
Solves(f, m, V, first, step) ==
    /\ f \in [0 .. m -> V]
    /\ f[0] = first
    /\ \A n \in 1 .. m : f[n] = step[<<f[n - 1], n>>]

LEMMA RecursionExists ==
    ASSUME NEW size \in Nat, NEW V, NEW first \in V, NEW step \in [V \X (1 .. size) -> V]
    PROVE  \E f : Solves(f, size, V, first, step)
<1> DEFINE S == {m \in 0 .. size : \E f : Solves(f, m, V, first, step)}
<1>1. 0 \in S
  <2> DEFINE f == [n \in 0 .. 0 |-> first]
  <2>1. f \in [0 .. 0 -> V] /\ f[0] = first /\ 1 .. 0 = {}
    OBVIOUS
  <2> HIDE DEF f
  <2>2. Solves(f, 0, V, first, step)
    BY <2>1 DEF Solves
  <2> QED
    BY <2>2
<1>2. ASSUME NEW m \in 0 .. size, m \in S, m < size PROVE m + 1 \in S
  <2>1. PICK f : Solves(f, m, V, first, step)
    BY <1>2
  <2> DEFINE g == [n \in 0 .. m + 1 |-> IF n = m + 1 THEN step[<<f[m], m + 1>>] ELSE f[n]]
  <2>2. f[m] \in V /\ m + 1 \in 1 .. size
    BY <1>2, <2>1 DEF Solves
  <2>3. step[<<f[m], m + 1>>] \in V
    BY <2>2
  <2>4. g \in [0 .. m + 1 -> V]
    BY <1>2, <2>1, <2>3 DEF Solves
  <2>5. \A n \in 0 .. m : g[n] = f[n]
    BY <1>2
  <2>6. g[m + 1] = step[<<f[m], m + 1>>]
    BY <1>2
  <2> HIDE DEF g
  <2>7. \A n \in 1 .. m + 1 : g[n] = step[<<g[n - 1], n>>]
    <3> SUFFICES ASSUME NEW n \in 1 .. m + 1 PROVE g[n] = step[<<g[n - 1], n>>]
      OBVIOUS
    <3>1. n - 1 \in 0 .. m /\ g[n - 1] = f[n - 1]
      BY <1>2, <2>5
    <3>2. CASE n = m + 1
      BY <1>2, <2>6, <3>1, <3>2
    <3>3. CASE n # m + 1
      <4>1. n \in 1 .. m /\ n \in 0 .. m
        BY <1>2, <3>3
      <4> QED
        BY <2>1, <2>5, <3>1, <4>1 DEF Solves
    <3> QED
      BY <3>2, <3>3
  <2>8. g[0] = first
    BY <1>2, <2>1, <2>5 DEF Solves
  <2>9. Solves(g, m + 1, V, first, step)
    BY <2>4, <2>7, <2>8 DEF Solves
  <2>10. m + 1 \in 0 .. size
    BY <1>2
  <2> QED
    BY <2>9, <2>10
<1> HIDE DEF S
<1>3. 0 .. size \subseteq S
  BY <1>1, <1>2, PrefixInduction
<1> QED
  BY <1>3 DEF S

-----------------------------------------------------------------------------
(* Totals                                                                  *)

\* The totals of all prefixes.
IsTotals(f, numbers) ==
    /\ f \in [0 .. Len(numbers) -> Nat]
    /\ f[0] = 0
    /\ \A n \in 1 .. Len(numbers) : f[n] = f[n - 1] + numbers[n]

LEMMA TotalsAre ==
    ASSUME NEW numbers \in Seq(Nat)
    PROVE  \E f : IsTotals(f, numbers) /\ Total(numbers) = f[Len(numbers)]
<1> DEFINE size == Len(numbers)
           Defines(f) == f = [n \in 0 .. size |-> IF n = 0 THEN 0 ELSE f[n - 1] + numbers[n]]
           totals == CHOOSE f : Defines(f)
           step == [p \in Nat \X (1 .. size) |-> p[1] + numbers[p[2]]]
<1>1. size \in Nat /\ step \in [Nat \X (1 .. size) -> Nat]
  OBVIOUS
<1>2. PICK f : Solves(f, size, Nat, 0, step)
  <2> HIDE DEF step, size
  <2> QED
    BY <1>1, RecursionExists
<1>3. \A n \in 1 .. size : n - 1 \in 0 .. size
  BY <1>1
<1>4. f \in [0 .. size -> Nat] /\ f[0] = 0
  BY <1>2 DEF Solves
<1>5. \A n \in 1 .. size : f[n] = f[n - 1] + numbers[n]
  <2>1. \A n \in 1 .. size : <<f[n - 1], n>> \in Nat \X (1 .. size)
    BY <1>3, <1>4
  <2>2. \A n \in 1 .. size : step[<<f[n - 1], n>>] = f[n - 1] + numbers[n]
    BY <2>1
  <2> HIDE DEF step
  <2> QED
    BY <1>2, <2>2 DEF Solves
<1>6. Defines(f)
  <2> DEFINE g == [n \in 0 .. size |-> IF n = 0 THEN 0 ELSE f[n - 1] + numbers[n]]
  <2>1. \A n \in 0 .. size : n = 0 \/ n \in 1 .. size
    BY <1>1
  <2>2. \A n \in 0 .. size : f[n] = IF n = 0 THEN 0 ELSE f[n - 1] + numbers[n]
    BY <1>4, <1>5, <2>1
  <2> QED
    BY <1>4, <2>2
<1>7. Defines(totals)
  BY <1>6
<1>8. Total(numbers) = totals[size]
  BY DEF Total
<1> HIDE DEF totals
<1>9. totals[0] = 0 /\ \A n \in 1 .. size : totals[n] = totals[n - 1] + numbers[n]
  <2> HIDE DEF size, step
  <2>1. \A n \in 0 .. size :
           totals[n] = IF n = 0 THEN 0 ELSE totals[n - 1] + numbers[n]
    BY <1>7
  <2>2. 0 \in 0 .. size /\ \A n \in 1 .. size : n \in 0 .. size /\ n # 0
    BY <1>1
  <2> QED
    BY <2>1, <2>2
<1>10. \A n \in 0 .. size : totals[n] \in Nat
  <2> DEFINE S == {n \in 0 .. size : totals[n] \in Nat}
  <2>1. 0 \in S
    BY <1>1, <1>9
  <2>2. \A n \in 0 .. size : n \in S /\ n < size => n + 1 \in S
    <3> SUFFICES ASSUME NEW n \in 0 .. size, n \in S, n < size PROVE n + 1 \in S
      OBVIOUS
    <3>1. n + 1 \in 1 .. size /\ numbers[n + 1] \in Nat /\ (n + 1) - 1 = n
      BY <1>1
    <3>2. totals[n + 1] = totals[n] + numbers[n + 1]
      BY <1>9, <3>1
    <3> QED
      BY <3>1, <3>2
  <2>3. 0 .. size \subseteq S
    <3> HIDE DEF S
    <3> QED
      BY <1>1, <2>1, <2>2, PrefixInduction
  <2> QED
    BY <2>3
<1>11. totals = [n \in 0 .. size |-> totals[n]]
  BY <1>7
<1>12. IsTotals(totals, numbers)
  BY <1>9, <1>10, <1>11 DEF IsTotals
<1> QED
  BY <1>8, <1>12

\* There is only one way to total up.
LEMMA TotalIs ==
    ASSUME NEW numbers \in Seq(Nat), NEW g, g[0] = 0,
           \A n \in 1 .. Len(numbers) : g[n] = g[n - 1] + numbers[n]
    PROVE  Total(numbers) = g[Len(numbers)]
<1>1. PICK f : IsTotals(f, numbers) /\ Total(numbers) = f[Len(numbers)]
  BY TotalsAre
<1> DEFINE S == {n \in 0 .. Len(numbers) : f[n] = g[n]}
<1>2. Len(numbers) \in Nat
  OBVIOUS
<1>3. 0 \in S
  BY <1>1, <1>2 DEF IsTotals
<1>4. ASSUME NEW n \in 0 .. Len(numbers), n \in S, n < Len(numbers) PROVE n + 1 \in S
  <2>1. n + 1 \in 1 .. Len(numbers) /\ (n + 1) - 1 = n
    BY <1>2, <1>4
  <2>2. f[n + 1] = f[n] + numbers[n + 1] /\ g[n + 1] = g[n] + numbers[n + 1]
    BY <1>1, <2>1 DEF IsTotals
  <2> QED
    BY <1>4, <2>1, <2>2
<1> HIDE DEF S
<1>5. 0 .. Len(numbers) \subseteq S
  BY <1>2, <1>3, <1>4, PrefixInduction
<1>6. Len(numbers) \in S
  BY <1>2, <1>5
<1> QED
  BY <1>1, <1>6 DEF S

LEMMA TotalNat ==
    ASSUME NEW numbers \in Seq(Nat)
    PROVE  Total(numbers) \in Nat
<1>1. PICK f : IsTotals(f, numbers) /\ Total(numbers) = f[Len(numbers)]
  BY TotalsAre
<1> QED
  BY <1>1 DEF IsTotals

LEMMA TotalEmpty == Total(<<>>) = 0
<1>1. <<>> \in Seq(Nat) /\ Len(<<>>) = 0
  OBVIOUS
<1>2. \A s \in Seq(Nat) : Len(s) = 0 => Total(s) = 0
  <2> TAKE s \in Seq(Nat)
  <2>1. PICK f : IsTotals(f, s) /\ Total(s) = f[Len(s)]
    BY TotalsAre
  <2> QED
    BY <2>1 DEF IsTotals
<1> QED
  BY <1>1, <1>2

LEMMA TotalAppend ==
    ASSUME NEW numbers \in Seq(Nat), NEW x \in Nat
    PROVE  Total(Append(numbers, x)) = Total(numbers) + x
<1>1. PICK f : IsTotals(f, numbers) /\ Total(numbers) = f[Len(numbers)]
  BY TotalsAre
<1> DEFINE size == Len(numbers)
           more == Append(numbers, x)
           g == [n \in 0 .. size + 1 |-> IF n = size + 1 THEN f[size] + x ELSE f[n]]
<1>2. more \in Seq(Nat) /\ Len(more) = size + 1 /\ more[size + 1] = x /\ size \in Nat
  OBVIOUS
<1>3. \A n \in 1 .. size : more[n] = numbers[n]
  OBVIOUS
<1>4. \A n \in 0 .. size : g[n] = f[n]
  BY <1>2
<1>5. g[size + 1] = f[size] + x
  BY <1>2
<1> HIDE DEF g, more
<1>6. \A n \in 1 .. size + 1 : g[n] = g[n - 1] + more[n]
  <2> SUFFICES ASSUME NEW n \in 1 .. size + 1 PROVE g[n] = g[n - 1] + more[n]
    OBVIOUS
  <2>1. n - 1 \in 0 .. size /\ g[n - 1] = f[n - 1]
    BY <1>2, <1>4
  <2>2. CASE n = size + 1
    BY <1>2, <1>5, <2>1, <2>2
  <2>3. CASE n # size + 1
    <3>1. n \in 1 .. size /\ n \in 0 .. size
      BY <1>2, <2>3
    <3> QED
      BY <1>1, <1>3, <1>4, <2>1, <3>1 DEF IsTotals
  <2> QED
    BY <2>2, <2>3
<1>7. g[0] = 0
  BY <1>1, <1>2, <1>4 DEF IsTotals
<1>8. Total(more) = g[Len(more)]
  <2> HIDE DEF size
  <2> QED
    BY <1>2, <1>6, <1>7, TotalIs
<1> QED
  BY <1>1, <1>2, <1>5, <1>8 DEF more

LEMMA SubSeqIs ==
    ASSUME NEW s \in Seq(Nat), NEW m \in Nat \ {0}, NEW n \in Nat, n <= Len(s), m <= n + 1
    PROVE  /\ SubSeq(s, m, n) \in Seq(Nat)
           /\ Len(SubSeq(s, m, n)) = (n - m) + 1
           /\ \A i \in 1 .. (n - m) + 1 : SubSeq(s, m, n)[i] = s[(m + i) - 1]
<1>1. \A i \in m .. n : s[i] \in Nat
  OBVIOUS
<1>2. m \in Int /\ n \in Int
  OBVIOUS
<1>3. /\ SubSeq(s, m, n) \in Seq(Nat)
      /\ Len(SubSeq(s, m, n)) = IF m <= n THEN n - m + 1 ELSE 0
      /\ \A i \in 1 .. n - m + 1 : SubSeq(s, m, n)[i] = s[m + i - 1]
  BY <1>1, <1>2, SubSeqProperties, SMTT(60)
<1> DEFINE sub == SubSeq(s, m, n)
<1> HIDE DEF sub
<1>4. Len(sub) = (n - m) + 1
  BY <1>3 DEF sub
<1> QED
  BY <1>3, <1>4 DEF sub

LEMMA RemoveAtIs ==
    ASSUME NEW numbers \in Seq(Nat), NEW k \in DOMAIN numbers
    PROVE  /\ RemoveAt(numbers, k) \in Seq(Nat)
           /\ Len(RemoveAt(numbers, k)) = Len(numbers) - 1
           /\ \A n \in 1 .. Len(numbers) - 1 :
                 RemoveAt(numbers, k)[n] = IF n < k THEN numbers[n] ELSE numbers[n + 1]
<1> DEFINE front == SubSeq(numbers, 1, k - 1)
           back == SubSeq(numbers, k + 1, Len(numbers))
<1>1. k \in 1 .. Len(numbers) /\ Len(numbers) \in Nat
  OBVIOUS
<1>2. front \in Seq(Nat) /\ Len(front) = k - 1 /\ \A n \in 1 .. k - 1 : front[n] = numbers[n]
  BY <1>1
<1>3. /\ back \in Seq(Nat) /\ Len(back) = Len(numbers) - k
      /\ \A n \in 1 .. Len(numbers) - k : back[n] = numbers[n + k]
  <2>1. k + 1 \in Nat \ {0} /\ Len(numbers) \in Nat /\ k + 1 <= Len(numbers) + 1
    BY <1>1
  <2> DEFINE from == k + 1
             to   == Len(numbers)
  <2>0. from \in Nat \ {0} /\ to \in Nat /\ to <= Len(numbers) /\ from <= to + 1
    BY <2>1
  <2> HIDE DEF from, to
  <2>2. /\ SubSeq(numbers, from, to) \in Seq(Nat)
        /\ Len(SubSeq(numbers, from, to)) = (to - from) + 1
        /\ \A i \in 1 .. (to - from) + 1 : SubSeq(numbers, from, to)[i] = numbers[(from + i) - 1]
    BY <2>0, SubSeqIs
  <2>3. /\ back \in Seq(Nat) /\ Len(back) = (Len(numbers) - (k + 1)) + 1
        /\ \A i \in 1 .. (Len(numbers) - (k + 1)) + 1 : back[i] = numbers[((k + 1) + i) - 1]
    BY <2>2 DEF from, to
  <2> HIDE DEF back
  <2>4. Len(back) = Len(numbers) - k
    BY <1>1, <2>3
  <2>5. ASSUME NEW n \in 1 .. Len(numbers) - k PROVE back[n] = numbers[n + k]
    <3>1. n \in 1 .. (Len(numbers) - (k + 1)) + 1 /\ ((k + 1) + n) - 1 = n + k
      BY <1>1
    <3> QED
      BY <2>3, <3>1
  <2> QED
    BY <2>3, <2>4, <2>5
<1>4. RemoveAt(numbers, k) = front \o back
  BY DEF RemoveAt
<1> HIDE DEF front, back
<1>5. /\ front \o back \in Seq(Nat)
      /\ Len(front \o back) = Len(front) + Len(back)
      /\ \A n \in 1 .. Len(front) + Len(back) :
            (front \o back)[n] = IF n <= Len(front) THEN front[n] ELSE back[n - Len(front)]
  BY <1>2, <1>3, ConcatProperties
<1> DEFINE less == front \o back
<1> HIDE DEF less
<1>6. ASSUME NEW n \in 1 .. Len(numbers) - 1
      PROVE  less[n] = IF n < k THEN numbers[n] ELSE numbers[n + 1]
  <2>1. less[n] = IF n <= k - 1 THEN front[n] ELSE back[n - (k - 1)]
    <3>1. n \in 1 .. Len(front) + Len(back)
      BY <1>1, <1>2, <1>3
    <3> QED
      BY <1>2, <1>5, <3>1 DEF less
  <2>2. CASE n < k
    BY <1>1, <1>2, <2>1, <2>2
  <2>3. CASE n >= k
    <3>1. n - (k - 1) \in 1 .. Len(numbers) - k /\ (n - (k - 1)) + k = n + 1
      BY <1>1, <2>3
    <3>2. back[n - (k - 1)] = numbers[n + 1]
      BY <1>3, <3>1
    <3> QED
      BY <1>1, <2>1, <2>3, <3>2
  <2> QED
    BY <1>1, <2>2, <2>3
<1>7. Len(less) = Len(numbers) - 1 /\ less \in Seq(Nat)
  BY <1>1, <1>2, <1>3, <1>5 DEF less
<1> QED
  BY <1>4, <1>6, <1>7 DEF less

LEMMA TotalRemoveAt ==
    ASSUME NEW numbers \in Seq(Nat), NEW k \in DOMAIN numbers
    PROVE  Total(RemoveAt(numbers, k)) = Total(numbers) - numbers[k]
<1>1. PICK f : IsTotals(f, numbers) /\ Total(numbers) = f[Len(numbers)]
  BY TotalsAre
<1> DEFINE size == Len(numbers)
           less == RemoveAt(numbers, k)
           g == [n \in 0 .. size - 1 |-> IF n < k THEN f[n] ELSE f[n + 1] - numbers[k]]
<1>2. k \in 1 .. size /\ size \in Nat /\ numbers[k] \in Nat
  OBVIOUS
<1>3. less \in Seq(Nat) /\ Len(less) = size - 1
  BY RemoveAtIs
<1>4. \A n \in 1 .. size - 1 : less[n] = IF n < k THEN numbers[n] ELSE numbers[n + 1]
  BY RemoveAtIs
<1>5. f[0] = 0 /\ \A n \in 1 .. size : f[n] \in Nat /\ f[n - 1] \in Nat /\ f[n] = f[n - 1] + numbers[n]
  <2>1. \A n \in 1 .. size : n \in 0 .. size /\ n - 1 \in 0 .. size
    BY <1>2
  <2> QED
    BY <1>1, <2>1 DEF IsTotals
<1>6. \A n \in 0 .. size - 1 : g[n] = IF n < k THEN f[n] ELSE f[n + 1] - numbers[k]
  OBVIOUS
<1> HIDE DEF g, less
<1>7. \A n \in 1 .. size - 1 : g[n] = g[n - 1] + less[n]
  <2> SUFFICES ASSUME NEW n \in 1 .. size - 1 PROVE g[n] = g[n - 1] + less[n]
    OBVIOUS
  <2>1. n \in 0 .. size - 1 /\ n - 1 \in 0 .. size - 1 /\ n \in 1 .. size /\ n + 1 \in 1 .. size
    BY <1>2
  <2>2. f[n] = f[n - 1] + numbers[n] /\ f[n + 1] = f[n] + numbers[n + 1] /\ numbers[n] \in Nat
    <3>1. f[n] = f[n - 1] + numbers[n] /\ numbers[n] \in Nat
      BY <1>5, <2>1
    <3> DEFINE next == n + 1
    <3>2. next \in 1 .. size /\ next - 1 = n
      BY <2>1
    <3> HIDE DEF next
    <3>3. f[next] = f[next - 1] + numbers[next]
      BY <1>5, <3>2
    <3> QED
      BY <3>1, <3>2, <3>3 DEF next
  <2>3. numbers[n + 1] \in Nat /\ f[n - 1] \in Nat /\ f[n] \in Nat
    <3>1. numbers[n + 1] \in Nat
      BY <2>1
    <3>2. f[n - 1] \in Nat /\ f[n] \in Nat
      BY <1>5, <2>1
    <3> QED
      BY <3>1, <3>2
  <2>4. /\ less[n] = IF n < k THEN numbers[n] ELSE numbers[n + 1]
        /\ g[n] = IF n < k THEN f[n] ELSE f[n + 1] - numbers[k]
        /\ g[n - 1] = IF n - 1 < k THEN f[n - 1] ELSE f[(n - 1) + 1] - numbers[k]
    <3> DEFINE before == n - 1
    <3>1. before \in 0 .. size - 1
      BY <2>1
    <3> HIDE DEF before
    <3>2. g[before] = IF before < k THEN f[before] ELSE f[before + 1] - numbers[k]
      BY <1>6, <3>1
    <3>3. less[n] = IF n < k THEN numbers[n] ELSE numbers[n + 1]
      BY <1>4
    <3>4. g[n] = IF n < k THEN f[n] ELSE f[n + 1] - numbers[k]
      BY <1>6, <2>1
    <3> QED
      BY <3>2, <3>3, <3>4 DEF before
  <2>5. (n - 1) + 1 = n /\ n \in Int /\ k \in Int
    BY <1>2
  <2>6. CASE n < k
    <3>1. n - 1 < k
      BY <2>5, <2>6
    <3> QED
      BY <2>2, <2>4, <2>6, <3>1
  <2>7. CASE n = k
    <3>1. n - 1 < k /\ ~ (n < k)
      BY <2>5, <2>7
    <3>2. g[n] = f[n + 1] - numbers[n] /\ less[n] = numbers[n + 1] /\ g[n - 1] = f[n - 1]
      BY <2>4, <2>7, <3>1
    <3>3. f[n + 1] - numbers[n] = f[n - 1] + numbers[n + 1]
      <4>1. f[n + 1] = (f[n - 1] + numbers[n]) + numbers[n + 1]
        BY <2>2
      <4>2. \A a, b, c \in Nat : ((a + b) + c) - b = a + c
        OBVIOUS
      <4>3. ((f[n - 1] + numbers[n]) + numbers[n + 1]) - numbers[n] = f[n - 1] + numbers[n + 1]
        BY <2>2, <2>3, <4>2
      <4> QED
        BY <4>1, <4>3
    <3> QED
      BY <3>2, <3>3
  <2>8. CASE n > k
    <3>1. ~ (n - 1 < k) /\ ~ (n < k)
      BY <2>5, <2>8
    <3>2. g[n] = f[n + 1] - numbers[k] /\ less[n] = numbers[n + 1] /\ g[n - 1] = f[n] - numbers[k]
      BY <2>4, <2>5, <3>1
    <3> QED
      BY <1>2, <2>2, <2>3, <3>2
  <2> QED
    BY <2>5, <2>6, <2>7, <2>8
<1>8. g[0] = 0
  BY <1>2, <1>5, <1>6
<1>9. Total(less) = g[Len(less)]
  <2> HIDE DEF size
  <2> QED
    BY <1>3, <1>7, <1>8, TotalIs
<1>10. g[size - 1] = f[size] - numbers[k]
  <2>1. size - 1 \in 0 .. size - 1 /\ size \in 1 .. size /\ (size - 1) + 1 = size
    BY <1>2
  <2>2. g[size - 1] = IF size - 1 < k THEN f[size - 1] ELSE f[size] - numbers[k]
    BY <1>6, <2>1
  <2>3. f[size] = f[size - 1] + numbers[size] /\ f[size - 1] \in Nat /\ numbers[size] \in Nat
    BY <1>2, <1>5, <2>1
  <2>4. CASE k = size
    BY <1>2, <2>2, <2>3, <2>4
  <2>5. CASE k < size
    BY <1>2, <2>2, <2>5
  <2> QED
    BY <1>2, <2>4, <2>5
<1> QED
  BY <1>1, <1>3, <1>9, <1>10 DEF less

\* Any two of the numbers together are no more than the total.
LEMMA TotalBounds ==
    ASSUME NEW numbers \in Seq(Nat), NEW j \in DOMAIN numbers
    PROVE  /\ numbers[j] <= Total(numbers)
           /\ \A k \in DOMAIN numbers \ {j} : numbers[j] + numbers[k] <= Total(numbers)
<1>1. ASSUME NEW s \in Seq(Nat), NEW k \in DOMAIN s PROVE s[k] <= Total(s) /\ s[k] \in Nat
  <2>1. Total(RemoveAt(s, k)) \in Nat /\ Total(s) \in Nat
    BY RemoveAtIs, TotalNat
  <2> QED
    BY <2>1, TotalRemoveAt
<1>2. ASSUME NEW k \in DOMAIN numbers \ {j} PROVE numbers[j] + numbers[k] <= Total(numbers)
  <2> DEFINE less == RemoveAt(numbers, j)
             at == IF k < j THEN k ELSE k - 1
  <2>1. j \in 1 .. Len(numbers) /\ k \in 1 .. Len(numbers) /\ Len(numbers) \in Nat /\ k # j
    BY <1>2
  <2>2. at \in 1 .. Len(numbers) - 1
    BY <2>1
  <2>3. less \in Seq(Nat) /\ Len(less) = Len(numbers) - 1
    BY RemoveAtIs
  <2>4. less[at] = IF at < j THEN numbers[at] ELSE numbers[at + 1]
    BY <2>2, RemoveAtIs
  <2>5. less[at] = numbers[k]
    BY <2>1, <2>4
  <2>6. at \in DOMAIN less
    BY <2>2, <2>3
  <2> HIDE DEF less, at
  <2>7. numbers[k] <= Total(less)
    BY <1>1, <2>3, <2>5, <2>6
  <2>8. Total(less) = Total(numbers) - numbers[j]
    BY TotalRemoveAt DEF less
  <2>9. numbers[j] \in Nat /\ numbers[k] \in Nat /\ Total(numbers) \in Nat
    BY <1>1, <2>1, TotalNat
  <2> QED
    BY <2>7, <2>8, <2>9
<1> QED
  BY <1>1, <1>2

-----------------------------------------------------------------------------
(* Types                                                                   *)

Row == [passed : Nat, yielded : Nat]

LEMMA NoRowIsRow == NoRow \in Row
  BY DEF NoRow, Row

LEMMA RowAfterIsRow ==
    ASSUME NEW chosen, NEW n, NEW before \in Row
    PROVE  RowAfter(chosen, n, before) \in Row
  BY DEF RowAfter, NoRow, Row

\* The histories along a batch.
IsHistory(f, chosen) ==
    /\ f \in [0 .. Len(chosen) -> Row]
    /\ f[0] = row
    /\ \A n \in 1 .. Len(chosen) : f[n] = RowAfter(chosen, n, f[n - 1])

LEMMA HistoryIs ==
    ASSUME NEW chosen, Len(chosen) \in Nat, row \in Row
    PROVE  \E f : IsHistory(f, chosen) /\ Rows(chosen) = f[Len(chosen)]
<1> DEFINE size == Len(chosen)
           Defines(f) ==
               f = [n \in 0 .. size |-> IF n = 0 THEN row ELSE RowAfter(chosen, n, f[n - 1])]
           rows == CHOOSE f : Defines(f)
           step == [p \in Row \X (1 .. size) |-> RowAfter(chosen, p[2], p[1])]
<1>1. step \in [Row \X (1 .. size) -> Row]
  BY RowAfterIsRow
<1>2. PICK f : Solves(f, size, Row, row, step)
  <2> HIDE DEF step, size
  <2>1. size \in Nat
    BY DEF size
  <2> QED
    BY <1>1, <2>1, RecursionExists
<1>3. \A n \in 1 .. size : n - 1 \in 0 .. size
  OBVIOUS
<1>4. f \in [0 .. size -> Row] /\ f[0] = row
  BY <1>2 DEF Solves
<1>5. \A n \in 1 .. size : f[n] = RowAfter(chosen, n, f[n - 1])
  <2>1. \A n \in 1 .. size : <<f[n - 1], n>> \in Row \X (1 .. size)
    BY <1>3, <1>4
  <2>2. \A n \in 1 .. size : step[<<f[n - 1], n>>] = RowAfter(chosen, n, f[n - 1])
    BY <2>1
  <2> HIDE DEF step
  <2> QED
    BY <1>2, <2>2 DEF Solves
<1>6. Defines(f)
  <2>1. \A n \in 0 .. size : n = 0 \/ n \in 1 .. size
    OBVIOUS
  <2>2. \A n \in 0 .. size : f[n] = IF n = 0 THEN row ELSE RowAfter(chosen, n, f[n - 1])
    BY <1>4, <1>5, <2>1
  <2> QED
    BY <1>4, <2>2
<1>7. Defines(rows)
  BY <1>6
<1>8. Rows(chosen) = rows[size]
  BY DEF Rows
<1> HIDE DEF rows
<1>9. rows[0] = row /\ \A n \in 1 .. size : rows[n] = RowAfter(chosen, n, rows[n - 1])
  BY <1>7
<1>10. \A n \in 0 .. size : rows[n] \in Row
  <2> DEFINE S == {n \in 0 .. size : rows[n] \in Row}
  <2>1. 0 \in S
    BY <1>9
  <2>2. \A n \in 0 .. size : n \in S /\ n < size => n + 1 \in S
    <3> SUFFICES ASSUME NEW n \in 0 .. size, n \in S, n < size PROVE n + 1 \in S
      OBVIOUS
    <3>1. n + 1 \in 1 .. size /\ (n + 1) - 1 = n /\ n + 1 \in 0 .. size
      OBVIOUS
    <3>2. rows[n + 1] = RowAfter(chosen, n + 1, rows[n])
      BY <1>9, <3>1
    <3> QED
      BY <3>1, <3>2, RowAfterIsRow
  <2> HIDE DEF S
  <2>3. 0 .. size \subseteq S
    BY <2>1, <2>2, PrefixInduction
  <2> QED
    BY <2>3 DEF S
<1>11. rows = [n \in 0 .. size |-> rows[n]]
  BY <1>7
<1>12. IsHistory(rows, chosen)
  BY <1>9, <1>10, <1>11 DEF IsHistory
<1> QED
  BY <1>8, <1>12

\* The bytes of what a round has chosen, in order.
BytesAlong(chosen) == [n \in DOMAIN chosen |-> Bytes[chosen[n]]]

LEMMA BytesAlongIs ==
    ASSUME NEW S \in SUBSET Sections, NEW chosen \in Seq(S)
    PROVE  /\ BytesAlong(chosen) \in Seq(Nat)
           /\ Len(BytesAlong(chosen)) = Len(chosen)
           /\ BytesOf(chosen) = Total(BytesAlong(chosen))
           /\ BytesOf(chosen) \in Nat
<1>1. \A n \in DOMAIN chosen : Bytes[chosen[n]] \in Nat
  BY SectionsAssumption
<1>2. BytesAlong(chosen) \in Seq(Nat) /\ Len(BytesAlong(chosen)) = Len(chosen)
  BY <1>1 DEF BytesAlong
<1>3. BytesOf(chosen) = Total(BytesAlong(chosen))
  BY DEF BytesOf, BytesAlong
<1> QED
  BY <1>2, <1>3, TotalNat

LEMMA ChosenIs ==
    ASSUME NEW chosen \in SeqOf(Queued, Maximum)
    PROVE  chosen \in Seq(Queued)
  BY DEF SeqOf

LEMMA WithoutIs ==
    ASSUME TypeOK, NEW S
    PROVE  Without(S) \in [Queued \ S -> Entry]
<1>1. \A t \in Queued : queue[t] \in Entry
  BY DEF TypeOK
<1>2. ASSUME NEW e \in Entry PROVE [e EXCEPT !.before = @ \ S] \in Entry
  BY DEF Entry
<1> QED
  BY <1>1, <1>2 DEF Without

LEMMA EnqueuedIs ==
    ASSUME TypeOK, NEW s \in Sections, NEW interactive \in BOOLEAN
    PROVE  Enqueued(s, interactive) \in [Queued \cup {s} -> Entry]
<1>1. [interactive |-> interactive, age |-> 0, before |-> Queued \ {s}] \in Entry
  BY PolicyAssumption DEF TypeOK, Entry
<1>2. \A t \in Queued \ {s} : Without({s})[t] \in Entry
  BY WithoutIs
<1> QED
  BY <1>1, <1>2 DEF Enqueued

LEMMA InitType == Init => TypeOK
<1> SUFFICES ASSUME Init PROVE TypeOK
  OBVIOUS
<1>1. Queued = {} /\ queue \in [Queued -> Entry]
  BY DEF Init, Queued
<1>2. flights \in Seq(Nat) /\ Len(flights) = 0
  BY DEF Init
<1>3. row \in [passed : Nat, yielded : Nat]
  BY DEF Init, NoRow
<1> QED
  BY <1>1, <1>2, <1>3, PolicyAssumption DEF Init, TypeOK

LEMMA AdmitFacts ==
    ASSUME TypeOK, NEW chosen \in SeqOf(Queued, Maximum), Admit(chosen)
    PROVE  /\ chosen \in Seq(Queued) /\ Queued \subseteq Sections
           /\ Len(chosen) \in Nat \ {0}
           /\ BytesOf(chosen) \in Nat
           /\ Rows(chosen) \in Row
<1>1. chosen \in Seq(Queued) /\ Queued \subseteq Sections
  BY ChosenIs DEF TypeOK
<1>2. Len(chosen) \in Nat \ {0}
  BY <1>1, EmptySeq DEF Admit
<1>3. BytesOf(chosen) \in Nat
  BY <1>1, BytesAlongIs
<1>4. row \in Row
  BY DEF TypeOK, Row
<1>5. PICK f : IsHistory(f, chosen) /\ Rows(chosen) = f[Len(chosen)]
  BY <1>2, <1>4, HistoryIs
<1>6. Rows(chosen) \in Row
  BY <1>2, <1>5 DEF IsHistory
<1> QED
  BY <1>1, <1>2, <1>3, <1>6

LEMMA NextType == TypeOK /\ [Next]_vars => TypeOK'
<1> SUFFICES ASSUME TypeOK, [Next]_vars PROVE TypeOK'
  OBVIOUS
<1>1. ASSUME NEW s \in Sections, Drop(s) PROVE TypeOK'
  <2>1. Without({s}) \in [Queued \ {s} -> Entry]
    BY WithoutIs
  <2>2. Queued' = Queued \ {s} /\ queue' \in [Queued' -> Entry]
    BY <1>1, <2>1 DEF Drop, Queued
  <2> QED
    BY <1>1, <2>2 DEF Drop, TypeOK
<1>2. ASSUME NEW s \in Sections, NEW interactive \in BOOLEAN, Enqueue(s, interactive) PROVE TypeOK'
  <2>1. Enqueued(s, interactive) \in [Queued \cup {s} -> Entry]
    BY EnqueuedIs
  <2>2. Queued' = Queued \cup {s} /\ queue' \in [Queued' -> Entry]
    BY <1>2, <2>1 DEF Enqueue, Queued
  <2> QED
    BY <1>2, <2>2 DEF Enqueue, TypeOK
<1>3. ASSUME Tick PROVE TypeOK'
  <2>1. ASSUME NEW s \in Queued, ~ Aged(s) PROVE [queue[s] EXCEPT !.age = @ + 1] \in Entry
    <3>1. queue[s] \in Entry
      BY DEF TypeOK
    <3>2. queue[s].age + 1 \in 0 .. FairnessAge
      BY <2>1, <3>1, PolicyAssumption DEF Aged, Entry
    <3> QED
      BY <3>1, <3>2 DEF Entry
  <2>2. \A s \in Queued : queue[s] \in Entry
    BY DEF TypeOK
  <2>3. Queued' = Queued /\ queue' \in [Queued' -> Entry]
    BY <1>3, <2>1, <2>2 DEF Tick, Queued
  <2> QED
    BY <1>3, <2>3 DEF Tick, TypeOK
<1>4. ASSUME Round PROVE TypeOK'
  <2>1. PICK chosen \in SeqOf(Queued, Maximum) : Admit(chosen)
    BY <1>4 DEF Round
  <2>2. BytesOf(chosen) \in Nat /\ Rows(chosen) \in Row /\ Len(chosen) \in Nat
    BY <2>1, AdmitFacts
  <2>3. Without(ToSet(chosen)) \in [Queued \ ToSet(chosen) -> Entry]
    BY WithoutIs
  <2>4. Queued' = Queued \ ToSet(chosen) /\ queue' \in [Queued' -> Entry]
    BY <2>1, <2>3 DEF Admit, Queued
  <2>5. flights' \in Seq(Nat) /\ Len(flights') <= TotalBatches
    BY <1>4, <2>1, <2>2, PolicyAssumption DEF Round, Admit, TypeOK
  <2>6. sequence' \in 0 .. 3
    BY <2>1, <2>2 DEF Admit, TypeOK
  <2> QED
    BY <2>1, <2>2, <2>4, <2>5, <2>6 DEF Admit, TypeOK, Row
<1>5. ASSUME ResetScheduler PROVE TypeOK'
  <2>1. flights' \in Seq(Nat) /\ Len(flights') = 0
    BY <1>5 DEF ResetScheduler
  <2>2. row' \in [passed : Nat, yielded : Nat]
    BY <1>5 DEF ResetScheduler, NoRow
  <2> QED
    BY <1>5, <2>1, <2>2, PolicyAssumption DEF ResetScheduler, TypeOK, Queued
<1>6. ASSUME NEW k \in DOMAIN flights, Finish(k) PROVE TypeOK'
  <2>1. flights' \in Seq(Nat) /\ Len(flights') = Len(flights) - 1
    BY <1>6, RemoveAtIs DEF Finish, TypeOK
  <2>2. Len(flights) \in Nat
    BY DEF TypeOK
  <2>3. Len(flights') <= TotalBatches
    BY <2>1, <2>2, PolicyAssumption DEF TypeOK
  <2> QED
    BY <1>6, <2>1, <2>3 DEF Finish, TypeOK, Queued
<1>7. CASE UNCHANGED vars
  BY <1>7 DEF TypeOK, vars, Queued
<1> QED
  BY <1>1, <1>2, <1>3, <1>4, <1>5, <1>6, <1>7 DEF Next

\* The queue holds builds of sections, the flights are amounts of bytes, and the
\* history counts.
THEOREM TypeCorrect == Spec => []TypeOK
<1> QED
  BY InitType, NextType, PTL DEF Spec

-----------------------------------------------------------------------------
(* The lanes                                                               *)

\* Builds wait no longer than since the last slot for background builds.
RowFits(r, turn) ==
    /\ r.passed <= turn
    /\ r.yielded <= 1
    /\ r.yielded = 1 => turn = 0

LanesInv == RowFits(row, sequence)

LEMMA Slots ==
    ASSUME NEW m \in Nat
    PROVE  /\ m % 4 \in 0 .. 3
           /\ m % 4 = 3 => (m + 1) % 4 = 0
           /\ m % 4 # 3 => (m + 1) % 4 = (m % 4) + 1
  OBVIOUS

LEMMA LeftShrinks ==
    ASSUME NEW chosen, NEW n \in Nat \ {0}
    PROVE  LeftAfter(chosen, n) \subseteq LeftAfter(chosen, n - 1)
  BY DEF LeftAfter

\* What one slot does to the history.
LEMMA SlotKeepsRow ==
    ASSUME TypeOK, NEW chosen, NEW n \in Nat \ {0},
           IsCandidate(chosen[n], n - 1, LeftAfter(chosen, n - 1)),
           NEW before \in Row, RowFits(before, (sequence + (n - 1)) % 4)
    PROVE  RowFits(RowAfter(chosen, n, before), (sequence + n) % 4)
<1> DEFINE earlier == LeftAfter(chosen, n - 1)
           left == LeftAfter(chosen, n)
           turn == (sequence + (n - 1)) % 4
           old == {s \in Background(earlier) : Aged(s)}
           s == chosen[n]
<1>1. left \subseteq earlier
  BY LeftShrinks
<1>2. s \in Lane(n - 1, earlier)
  BY DEF IsCandidate
<1>3. /\ turn \in 0 .. 3
      /\ turn = 3 => (sequence + n) % 4 = 0
      /\ turn # 3 => (sequence + n) % 4 = turn + 1
  <2>1. sequence + (n - 1) \in Nat /\ (sequence + (n - 1)) + 1 = sequence + n
    BY DEF TypeOK
  <2> QED
    BY <2>1, Slots
<1>4. (sequence + n) % 4 \in 0 .. 3
  BY <1>3
<1>5. BackgroundTurn(n - 1) <=> turn = 3
  BY DEF BackgroundTurn
<1>6. before.passed \in Nat /\ before.yielded \in Nat
  BY DEF Row
<1>7. RowFits(NoRow, (sequence + n) % 4)
  BY <1>4 DEF RowFits, NoRow
<1> HIDE DEF left, earlier, turn
<1>8. CASE queue[s].interactive
  <2>1. CASE \E t \in Background(left) : Aged(t)
    <3>1. old # {}
      BY <1>1, <2>1 DEF Background, Interactive
    <3>2. s \in Interactive(earlier)
      BY <1>2, <1>8 DEF Lane, Background, Interactive
    <3>3. ~ BackgroundTurn(n - 1)
      BY <1>2, <1>8, <3>1, <3>2 DEF Lane, Background, Interactive
    <3>4. RowAfter(chosen, n, before) = [NoRow EXCEPT !.passed = before.passed + 1]
      BY <1>8, <2>1 DEF RowAfter, left
    <3>5. before.passed <= turn
      BY DEF RowFits, turn
    <3> QED
      BY <1>3, <1>5, <1>6, <3>3, <3>4, <3>5 DEF RowFits, NoRow
  <2>2. CASE ~ \E t \in Background(left) : Aged(t)
    BY <1>7, <1>8, <2>2 DEF RowAfter, left
  <2> QED
    BY <2>1, <2>2
<1>9. CASE ~ queue[s].interactive
  <2>1. CASE Interactive(left) # {}
    <3>1. Interactive(earlier) # {}
      BY <1>1, <2>1 DEF Interactive
    <3>2. BackgroundTurn(n - 1)
      BY <1>2, <1>9, <3>1 DEF Lane, Interactive
    <3>3. RowAfter(chosen, n, before) = [NoRow EXCEPT !.yielded = before.yielded + 1]
      BY <1>9, <2>1 DEF RowAfter, left
    <3>4. before.yielded <= 1 /\ (before.yielded = 1 => turn = 0)
      BY DEF RowFits, turn
    <3>5. before.yielded = 0 /\ (sequence + n) % 4 = 0
      BY <1>3, <1>5, <1>6, <3>2, <3>4
    <3> QED
      BY <3>3, <3>5 DEF RowFits, NoRow
  <2>2. CASE Interactive(left) = {}
    BY <1>7, <1>9, <2>2 DEF RowAfter, left
  <2> QED
    BY <2>1, <2>2
<1> QED
  BY <1>8, <1>9

LEMMA BatchKeepsLanes ==
    ASSUME TypeOK, LanesInv, NEW chosen \in SeqOf(Queued, Maximum), Admit(chosen)
    PROVE  LanesInv'
<1> DEFINE size == Len(chosen)
<1>1. size \in Nat \ {0}
  BY AdmitFacts
<1>2. row \in Row /\ sequence \in 0 .. 3
  BY DEF TypeOK, Row
<1>3. PICK f : IsHistory(f, chosen) /\ Rows(chosen) = f[size]
  BY <1>1, <1>2, HistoryIs
<1> DEFINE S == {n \in 0 .. size : RowFits(f[n], (sequence + n) % 4)}
<1>4. 0 \in S
  <2>1. (sequence + 0) % 4 = sequence
    BY <1>2
  <2>2. f[0] = row
    BY <1>3 DEF IsHistory
  <2> QED
    BY <1>1, <2>1, <2>2 DEF LanesInv
<1>5. ASSUME NEW m \in 0 .. size, m \in S, m < size PROVE m + 1 \in S
  <2> DEFINE n == m + 1
  <2>1. n \in 1 .. size /\ n \in Nat \ {0} /\ n - 1 = m /\ n \in 0 .. size
    BY <1>1, <1>5
  <2>2. f[n - 1] \in Row /\ f[n] = RowAfter(chosen, n, f[n - 1])
    BY <1>3, <2>1 DEF IsHistory
  <2>3. IsCandidate(chosen[n], n - 1, LeftAfter(chosen, n - 1))
    <3> HIDE DEF n
    <3> QED
      BY <2>1 DEF Admit, IsSelection
  <2>4. RowFits(f[n - 1], (sequence + (n - 1)) % 4)
    BY <1>5, <2>1
  <2> HIDE DEF n
  <2>5. RowFits(f[n], (sequence + n) % 4)
    BY <2>1, <2>2, <2>3, <2>4, SlotKeepsRow
  <2> QED
    BY <2>1, <2>5 DEF n
<1> HIDE DEF S
<1>6. 0 .. size \subseteq S
  BY <1>1, <1>4, <1>5, PrefixInduction
<1>7. RowFits(f[size], (sequence + size) % 4)
  BY <1>1, <1>6 DEF S
<1> QED
  BY <1>3, <1>7 DEF Admit, LanesInv, RowFits

LEMMA InitLanes == Init => LanesInv
  BY DEF Init, LanesInv, RowFits, NoRow

LEMMA NextLanes == TypeOK /\ LanesInv /\ [Next]_vars => LanesInv'
<1> SUFFICES ASSUME TypeOK, LanesInv, [Next]_vars PROVE LanesInv'
  OBVIOUS
<1>1. CASE Round
  BY <1>1, BatchKeepsLanes DEF Round
<1>2. CASE ResetScheduler
  BY <1>2 DEF ResetScheduler, LanesInv, RowFits, NoRow
<1>3. CASE UNCHANGED <<sequence, row>>
  BY <1>3 DEF LanesInv, RowFits
<1> QED
  BY <1>1, <1>2, <1>3 DEF Next, Drop, Enqueue, Tick, Finish, vars

\* Neither kind of build keeps the other waiting for more than its slots, in one batch
\* or across batches: every fourth slot is counted on.
THEOREM LanesAreShared == Spec => []LanesShare
<1>1. TypeOK /\ LanesInv => LanesShare
  BY DEF TypeOK, LanesInv, RowFits, LanesShare
<1> QED
  BY <1>1, InitType, NextType, InitLanes, NextLanes, PTL DEF Spec

-----------------------------------------------------------------------------
(* The bytes in flight                                                     *)

\* Beyond the budget, all there is in flight is one batch with one section's bytes.
BudgetInv ==
    \/ InFlightBytes <= InFlightBudget
    \/ \E k \in DOMAIN flights, s \in Sections :
          InFlightBytes = flights[k] /\ flights[k] = Bytes[s]

\* The first n of what is chosen.
FirstBytes(chosen, n) == BytesOf(SubSeq(chosen, 1, n))

LEMMA FirstBytesGrow ==
    ASSUME NEW S \in SUBSET Sections, NEW chosen \in Seq(S), NEW n \in 1 .. Len(chosen)
    PROVE  /\ FirstBytes(chosen, n) = FirstBytes(chosen, n - 1) + Bytes[chosen[n]]
           /\ FirstBytes(chosen, n - 1) \in Nat
<1> DEFINE front == SubSeq(chosen, 1, n - 1)
           longer == SubSeq(chosen, 1, n)
<1>1. /\ front \in Seq(S) /\ Len(front) = n - 1
      /\ \A k \in 1 .. n - 1 : front[k] = chosen[k]
  OBVIOUS
<1>2. longer \in Seq(S) /\ Len(longer) = n /\ \A k \in 1 .. n : longer[k] = chosen[k]
  OBVIOUS
<1>3. Bytes[chosen[n]] \in Nat
  BY SectionsAssumption
<1> HIDE DEF front, longer
<1>4. /\ BytesAlong(front) \in Seq(Nat) /\ Len(BytesAlong(front)) = n - 1
      /\ BytesOf(front) = Total(BytesAlong(front)) /\ BytesOf(front) \in Nat
  BY <1>1, BytesAlongIs
<1>5. /\ BytesAlong(longer) \in Seq(Nat) /\ Len(BytesAlong(longer)) = n
      /\ BytesOf(longer) = Total(BytesAlong(longer))
  BY <1>2, BytesAlongIs
<1>6. \A k \in 1 .. n - 1 : BytesAlong(front)[k] = Bytes[chosen[k]]
  BY <1>1 DEF BytesAlong
<1>7. \A k \in 1 .. n : BytesAlong(longer)[k] = Bytes[chosen[k]]
  BY <1>2 DEF BytesAlong
<1>8. BytesAlong(longer) = Append(BytesAlong(front), Bytes[chosen[n]])
  <2> DEFINE a == BytesAlong(longer)
             b == BytesAlong(front)
             c == Append(b, Bytes[chosen[n]])
  <2>1. n \in Nat \ {0}
    OBVIOUS
  <2>2. /\ c \in Seq(Nat) /\ Len(c) = n /\ c[n] = Bytes[chosen[n]]
        /\ \A k \in 1 .. n - 1 : c[k] = b[k]
    BY <1>3, <1>4, <2>1
  <2>3. \A k \in 1 .. n : a[k] = c[k]
    BY <1>6, <1>7, <2>1, <2>2
  <2> HIDE DEF a, b, c
  <2>4. a \in Seq(Nat) /\ Len(a) = n
    BY <1>5 DEF a
  <2>5. a = c
    BY <2>2, <2>3, <2>4, SeqEqual
  <2> QED
    BY <2>5 DEF a, b, c
<1> QED
  BY <1>3, <1>4, <1>5, <1>8, TotalAppend DEF FirstBytes, front, longer

\* A batch beyond the budget of a batch has the bytes of a single section.
LEMMA BatchIsSmall ==
    ASSUME TypeOK, NEW chosen \in SeqOf(Queued, Maximum), Admit(chosen)
    PROVE  \/ BytesOf(chosen) <= UploadBudget
           \/ \E s \in Sections : BytesOf(chosen) = Bytes[s]
<1> DEFINE size == Len(chosen)
           Small(bytes) == bytes <= UploadBudget \/ \E s \in Sections : bytes = Bytes[s]
           S == {n \in 0 .. size : Small(FirstBytes(chosen, n))}
<1>1. chosen \in Seq(Queued) /\ Queued \in SUBSET Sections /\ size \in Nat \ {0}
  BY AdmitFacts
<1>2. FirstBytes(chosen, 0) = 0
  <2>1. SubSeq(chosen, 1, 0) = <<>>
    BY <1>1
  <2>2. <<>> \in Seq(Queued) /\ Len(<<>>) = 0
    OBVIOUS
  <2>3. BytesAlong(<<>>) = <<>>
    <3>1. BytesAlong(<<>>) \in Seq(Nat) /\ Len(BytesAlong(<<>>)) = 0
      BY <1>1, <2>2, BytesAlongIs
    <3> QED
      BY <3>1, EmptySeq
  <2> QED
    BY <1>1, <2>1, <2>2, <2>3, BytesAlongIs, TotalEmpty DEF FirstBytes
<1>3. 0 \in S
  BY <1>1, <1>2, PolicyAssumption
<1>4. ASSUME NEW m \in 0 .. size, m \in S, m < size PROVE m + 1 \in S
  <2> DEFINE n == m + 1
             front == SubSeq(chosen, 1, n - 1)
  <2>1. n \in 1 .. size /\ n - 1 = m /\ n \in 0 .. size
    BY <1>1, <1>4
  <2>2. /\ FirstBytes(chosen, n) = FirstBytes(chosen, n - 1) + Bytes[chosen[n]]
        /\ FirstBytes(chosen, n - 1) \in Nat
    <3> HIDE DEF n
    <3> QED
      BY <1>1, <2>1, FirstBytesGrow
  <2>3. Small(FirstBytes(chosen, n - 1))
    BY <1>4, <2>1
  <2>4. chosen[n] \in Sections /\ Bytes[chosen[n]] \in Nat
    BY <1>1, <2>1, SectionsAssumption
  <2> HIDE DEF n
  <2>5. Fits(front, chosen[n])
    BY <2>1 DEF Admit, IsSelection
  <2>6. CASE front = <<>>
    <3>1. FirstBytes(chosen, n - 1) = FirstBytes(chosen, 0)
      <4>1. SubSeq(chosen, 1, 0) = <<>>
        BY <1>1
      <4> QED
        BY <2>6, <4>1 DEF FirstBytes
    <3> QED
      BY <1>2, <2>1, <2>2, <2>4, <3>1 DEF n
  <2>7. CASE BytesOf(front) + Bytes[chosen[n]] <= UploadBudget
    <3>1. Small(FirstBytes(chosen, n))
      BY <2>2, <2>7 DEF FirstBytes
    <3> QED
      BY <2>1, <3>1 DEF n
  <2>8. CASE Bytes[chosen[n]] = 0
    <3>1. FirstBytes(chosen, n) = FirstBytes(chosen, n - 1)
      BY <2>2, <2>8
    <3> QED
      BY <2>1, <2>3, <3>1 DEF n
  <2> QED
    BY <2>5, <2>6, <2>7, <2>8 DEF Fits
<1> HIDE DEF S
<1>5. 0 .. size \subseteq S
  BY <1>1, <1>3, <1>4, PrefixInduction
<1>6. Small(FirstBytes(chosen, size))
  BY <1>1, <1>5 DEF S
<1>7. SubSeq(chosen, 1, size) = chosen
  BY <1>1
<1> QED
  BY <1>6, <1>7 DEF FirstBytes

LEMMA BatchKeepsBudget ==
    ASSUME TypeOK, BudgetInv, NEW chosen \in SeqOf(Queued, Maximum), Admit(chosen)
    PROVE  BudgetInv'
<1> DEFINE size == Len(chosen)
           bytes == BytesOf(chosen)
<1>1. /\ chosen \in Seq(Queued) /\ Queued \in SUBSET Sections
      /\ size \in Nat \ {0} /\ bytes \in Nat
  BY AdmitFacts
<1>2. flights \in Seq(Nat) /\ InFlightBytes \in Nat
  BY TotalNat DEF TypeOK, InFlightBytes
<1>3. InFlightBytes' = InFlightBytes + bytes
  BY <1>1, <1>2, TotalAppend DEF Admit, InFlightBytes
<1>4. CanAdmit(bytes)
  <2>1. Fits(SubSeq(chosen, 1, size - 1), chosen[size])
    BY <1>1 DEF Admit, IsSelection
  <2>2. FirstBytes(chosen, size) = FirstBytes(chosen, size - 1) + Bytes[chosen[size]]
    BY <1>1, FirstBytesGrow
  <2>3. SubSeq(chosen, 1, size) = chosen
    BY <1>1
  <2>4. BytesOf(SubSeq(chosen, 1, size - 1)) + Bytes[chosen[size]] = bytes
    BY <2>2, <2>3 DEF FirstBytes
  <2> QED
    BY <2>1, <2>4 DEF Fits
<1> HIDE DEF bytes, size
<1>5. CASE InFlightBytes < InFlightBudget /\ InFlightBytes + bytes <= InFlightBudget
  BY <1>3, <1>5 DEF BudgetInv
<1>6. CASE InFlightBytes = 0
  <2>1. InFlightBytes' = bytes
    BY <1>1, <1>3, <1>6
  <2>2. CASE bytes <= UploadBudget
    BY <1>1, <2>1, <2>2, PolicyAssumption DEF BudgetInv
  <2>3. CASE \E s \in Sections : bytes = Bytes[s]
    <3> DEFINE k == Len(flights) + 1
    <3>1. k \in DOMAIN flights' /\ flights'[k] = bytes
      BY <1>1, <1>2 DEF Admit, bytes
    <3> HIDE DEF k
    <3> QED
      BY <2>1, <2>3, <3>1 DEF BudgetInv
  <2> QED
    BY <2>2, <2>3, BatchIsSmall DEF bytes
<1> QED
  BY <1>4, <1>5, <1>6 DEF CanAdmit

LEMMA FinishKeepsBudget ==
    ASSUME TypeOK, BudgetInv, NEW j \in DOMAIN flights, Finish(j)
    PROVE  BudgetInv'
<1>1. flights \in Seq(Nat) /\ InFlightBytes \in Nat /\ flights[j] \in Nat
  BY TotalNat DEF TypeOK, InFlightBytes
<1>2. InFlightBytes' = InFlightBytes - flights[j]
  BY <1>1, TotalRemoveAt DEF Finish, InFlightBytes
<1>3. CASE InFlightBytes <= InFlightBudget
  BY <1>1, <1>2, <1>3, PolicyAssumption DEF BudgetInv
<1>4. ASSUME NEW k \in DOMAIN flights, NEW s \in Sections,
             InFlightBytes = flights[k], flights[k] = Bytes[s]
      PROVE  BudgetInv'
  <2>1. CASE k = j
    BY <1>1, <1>2, <1>4, <2>1, PolicyAssumption DEF BudgetInv
  <2>2. CASE k # j
    <3>1. flights[j] + flights[k] <= InFlightBytes /\ flights[k] \in Nat
      BY <1>1, <2>2, TotalBounds DEF InFlightBytes
    <3>2. flights[j] = 0
      BY <1>1, <1>4, <3>1
    <3>3. InFlightBytes' = flights[k]
      BY <1>1, <1>2, <1>4, <3>1, <3>2
    <3> DEFINE at == IF k < j THEN k ELSE k - 1
    <3>4. k \in 1 .. Len(flights) /\ j \in 1 .. Len(flights) /\ Len(flights) \in Nat
      BY <1>1
    <3>5. at \in 1 .. Len(flights) - 1
      BY <2>2, <3>4
    <3>6. /\ flights' \in Seq(Nat) /\ Len(flights') = Len(flights) - 1
          /\ flights'[at] = IF at < j THEN flights[at] ELSE flights[at + 1]
      BY <1>1, <3>5, RemoveAtIs DEF Finish
    <3>7. flights'[at] = flights[k]
      BY <2>2, <3>4, <3>6
    <3>8. at \in DOMAIN flights'
      BY <3>5, <3>6
    <3> HIDE DEF at
    <3> QED
      BY <1>4, <3>3, <3>7, <3>8 DEF BudgetInv
  <2> QED
    BY <2>1, <2>2
<1> QED
  BY <1>3, <1>4 DEF BudgetInv

LEMMA InitBudget == Init => BudgetInv
  BY TotalEmpty, PolicyAssumption DEF Init, BudgetInv, InFlightBytes

LEMMA NextBudget == TypeOK /\ BudgetInv /\ [Next]_vars => BudgetInv'
<1> SUFFICES ASSUME TypeOK, BudgetInv, [Next]_vars PROVE BudgetInv'
  OBVIOUS
<1>1. CASE Round
  BY <1>1, BatchKeepsBudget DEF Round
<1>2. CASE ResetScheduler
  BY <1>2, TotalEmpty, PolicyAssumption DEF ResetScheduler, BudgetInv, InFlightBytes
<1>3. CASE \E k \in DOMAIN flights : Finish(k)
  BY <1>3, FinishKeepsBudget
<1>4. CASE UNCHANGED flights
  BY <1>4 DEF BudgetInv, InFlightBytes
<1> QED
  BY <1>1, <1>2, <1>3, <1>4 DEF Next, Drop, Enqueue, Tick, vars

\* Batches admitted one after the other do not add up beyond the budget: what exceeds
\* it is a single section, and everything else in flight has no bytes.
THEOREM FlightsAreBounded == Spec => []InFlightBounded
<1>1. TypeOK /\ BudgetInv => InFlightBounded
  <2> SUFFICES ASSUME TypeOK, BudgetInv, ~ (InFlightBytes <= InFlightBudget)
               PROVE  \E s \in Sections : InFlightBytes = Bytes[s] /\ Bytes[s] > InFlightBudget
    BY DEF InFlightBounded
  <2>1. PICK s \in Sections : InFlightBytes = Bytes[s]
    BY DEF BudgetInv
  <2>2. Bytes[s] \in Nat
    BY SectionsAssumption
  <2>3. Bytes[s] > InFlightBudget
    BY <2>1, <2>2, PolicyAssumption
  <2> QED
    BY <2>1, <2>3
<1> QED
  BY <1>1, InitType, NextType, InitBudget, NextBudget, PTL DEF Spec
=============================================================================
