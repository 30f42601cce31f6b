-------------------------- MODULE TempHistoryProofs --------------------------
(***************************************************************************)
(* What findInHistory() returns, for every history of every size.  The     *)
(* pass is a recursive function; what it computes is shown by induction on *)
(* the slots, as a fact about the set of numbers for which it holds.       *)
(***************************************************************************)
EXTENDS TempHistory, SequenceTheorems, WellFoundedInduction, TLAPS

\* A set of numbers with 0 and the successors of its elements is all of Nat.
LEMMA SetInduction ==
  ASSUME NEW T \in SUBSET Nat, 0 \in T, \A n \in T : n + 1 \in T
  PROVE  T = Nat
  <1> DEFINE Less == OpToRel(<, Nat)
             Rest == Nat \ T
  <1>1. IsWellFoundedOn(Less, Nat)
    BY NatLessThanWellFounded
  <1>2. \A m, n \in Nat : m < n => <<m, n>> \in Less
    BY DEF OpToRel
  <1>3. Rest \subseteq Nat
    OBVIOUS
  <1> SUFFICES ASSUME Rest # {} PROVE FALSE
    OBVIOUS
  <1> HIDE DEF Less
  <1>4. PICK x \in Rest : \A y \in Rest : ~(<<y, x>> \in Less)
    BY <1>1, <1>3, WFMin
  <1>5. x - 1 \in Nat /\ x - 1 < x
    OBVIOUS
  <1>6. x - 1 \notin Rest
    BY <1>2, <1>4, <1>5
  <1>. QED
    BY <1>5, <1>6

-----------------------------------------------------------------------------
(* The pass of findInHistory().                                            *)

\* f is the pass over the first n slots.
IsPass(f, h, n) ==
  f = [i \in 0..n |-> IF i = 0 THEN NoRange ELSE Widen(f[i - 1], h[i])]

\* It exists for every number of slots.
LEMMA PassExists ==
  ASSUME NEW h, NEW n \in Nat
  PROVE  \E f : IsPass(f, h, n)
  <1> DEFINE T == {k \in Nat : \E f : IsPass(f, h, k)}
  <1>1. 0 \in T
    <2> DEFINE f == [i \in 0..0 |-> NoRange]
    <2>1. f = [i \in 0..0 |-> IF i = 0 THEN NoRange ELSE Widen(f[i - 1], h[i])]
      OBVIOUS
    <2>. QED
      BY <2>1 DEF IsPass
  <1>2. ASSUME NEW k \in T PROVE k + 1 \in T
    <2>1. PICK f : IsPass(f, h, k)
      OBVIOUS
    <2> DEFINE g == [i \in 0..(k + 1) |-> IF i = k + 1 THEN Widen(f[k], h[k + 1]) ELSE f[i]]
    <2>2. ASSUME NEW i \in 0..(k + 1)
          PROVE  g[i] = IF i = 0 THEN NoRange ELSE Widen(g[i - 1], h[i])
      <3>1. CASE i = k + 1
        BY <3>1
      <3>2. CASE i \in 0..k
        <4>1. f[i] = IF i = 0 THEN NoRange ELSE Widen(f[i - 1], h[i])
          BY <2>1, <3>2 DEF IsPass
        <4>2. g[i] = f[i] /\ (i # 0 => g[i - 1] = f[i - 1])
          BY <3>2
        <4>. QED
          BY <4>1, <4>2
      <3>. QED
        BY <3>1, <3>2
    <2>3. g = [i \in 0..(k + 1) |-> IF i = 0 THEN NoRange ELSE Widen(g[i - 1], h[i])]
      <3> DEFINE r == [i \in 0..(k + 1) |-> IF i = 0 THEN NoRange ELSE Widen(g[i - 1], h[i])]
      <3>1. \A i \in 0..(k + 1) : g[i] = r[i]
        BY <2>2
      <3>2. DOMAIN g = DOMAIN r
        OBVIOUS
      <3>. QED
        BY <3>1, <3>2
    <2>4. IsPass(g, h, k + 1)
      BY <2>3 DEF IsPass
    <2> HIDE DEF g
    <2>. QED
      BY <2>4
  <1>3. T = Nat
    <2> HIDE DEF T
    <2>. QED
      BY <1>1, <1>2, SetInduction DEF T
  <1>. QED
    BY <1>3

\* So it is what FindInHistory() computes.
LEMMA FindIsPass ==
  ASSUME NEW h
  PROVE  \E f : IsPass(f, h, HISTORY_SIZE) /\ FindInHistory(h) = f[HISTORY_SIZE]
  <1> DEFINE Pass == CHOOSE f : IsPass(f, h, HISTORY_SIZE)
  <1>1. IsPass(Pass, h, HISTORY_SIZE)
    BY HistoryAssumption, PassExists
  <1>2. FindInHistory(h) = Pass[HISTORY_SIZE]
    BY DEF FindInHistory, IsPass
  <1>. QED
    BY <1>1, <1>2

\* The readings in the first n slots.
Seen(h, n) == {h[i] : i \in {j \in 1..n : h[j] # NO_TEMP}}

\* The range of a set of readings: its least and its largest, or none.
IsRangeOf(range, S) ==
  IF S = {} THEN range = NoRange
  ELSE /\ range.min \in S /\ \A t \in S : range.min <= t
       /\ range.max \in S /\ \A t \in S : range.max >= t

LEMMA WidenRange ==
  ASSUME NEW S \in SUBSET (Int \ {NO_TEMP}), NEW range, IsRangeOf(range, S), NEW t \in Int
  PROVE  IsRangeOf(Widen(range, t), IF t = NO_TEMP THEN S ELSE S \union {t})
  <1>1. CASE t = NO_TEMP
    BY <1>1 DEF Widen
  <1>2. CASE t # NO_TEMP /\ S = {}
    BY <1>2 DEF Widen, IsRangeOf, NoRange
  <1>3. CASE t # NO_TEMP /\ S # {}
    <2>1. /\ range.min \in S /\ range.max \in S
          /\ \A u \in S : u \in Int /\ u # NO_TEMP /\ range.min <= u /\ range.max >= u
      BY <1>3 DEF IsRangeOf
    <2> DEFINE w == Widen(range, t)
    <2>2. /\ w.min = IF range.min > t THEN t ELSE range.min
          /\ w.max = IF range.max < t THEN t ELSE range.max
      BY <1>3, <2>1 DEF Widen
    <2> HIDE DEF w
    <2>3. w.min \in S \union {t} /\ w.min <= t /\ \A u \in S : w.min <= u
      <3>1. range.min \in Int
        BY <2>1
      <3>2. CASE range.min > t
        BY <2>1, <2>2, <3>1, <3>2
      <3>3. CASE ~(range.min > t)
        BY <2>1, <2>2, <3>1, <3>3
      <3>. QED
        BY <3>2, <3>3
    <2>4. w.max \in S \union {t} /\ w.max >= t /\ \A u \in S : w.max >= u
      <3>1. range.max \in Int
        BY <2>1
      <3>2. CASE range.max < t
        BY <2>1, <2>2, <3>1, <3>2
      <3>3. CASE ~(range.max < t)
        BY <2>1, <2>2, <3>1, <3>3
      <3>. QED
        BY <3>2, <3>3
    <2>. QED
      BY <1>3, <2>3, <2>4 DEF IsRangeOf, w
  <1>. QED
    BY <1>1, <1>2, <1>3

\* findInHistory() returns the least and the largest of the readings in the history,
\* and NO_TEMP for both if there is none.
THEOREM FindIsRange ==
  ASSUME NEW h \in Seq(Int), Len(h) = HISTORY_SIZE
  PROVE  IsRangeOf(FindInHistory(h), Seen(h, HISTORY_SIZE))
  <1>1. PICK f : IsPass(f, h, HISTORY_SIZE) /\ FindInHistory(h) = f[HISTORY_SIZE]
    BY FindIsPass
  <1>2. /\ f[0] = NoRange
        /\ \A i \in 1..HISTORY_SIZE : f[i] = Widen(f[i - 1], h[i])
    <2>1. ASSUME NEW i \in 0..HISTORY_SIZE
          PROVE  f[i] = IF i = 0 THEN NoRange ELSE Widen(f[i - 1], h[i])
      BY <1>1 DEF IsPass
    <2>. QED
      BY <2>1, HistoryAssumption
  <1> DEFINE T == {k \in Nat : k <= HISTORY_SIZE => IsRangeOf(f[k], Seen(h, k))}
  <1>3. 0 \in T
    <2>1. Seen(h, 0) = {}
      BY DEF Seen
    <2>. QED
      BY <1>2, <2>1 DEF IsRangeOf
  <1>4. ASSUME NEW k \in T PROVE k + 1 \in T
    <2> SUFFICES ASSUME k + 1 <= HISTORY_SIZE
                 PROVE  IsRangeOf(f[k + 1], Seen(h, k + 1))
      OBVIOUS
    <2>1. IsRangeOf(f[k], Seen(h, k))
      BY HistoryAssumption
    <2>2. /\ k + 1 \in 1..HISTORY_SIZE /\ h[k + 1] \in Int
          /\ \A i \in 1..k : h[i] \in Int
      BY HistoryAssumption
    <2>3. f[k + 1] = Widen(f[k], h[k + 1])
      BY <1>2, <2>2
    <2>4. Seen(h, k) \subseteq Int \ {NO_TEMP}
      BY <2>2 DEF Seen
    <2>5. Seen(h, k + 1) = IF h[k + 1] = NO_TEMP THEN Seen(h, k) ELSE Seen(h, k) \union {h[k + 1]}
      <3>1. \A i : i \in 1..(k + 1) <=> i \in 1..k \/ i = k + 1
        OBVIOUS
      <3>. QED
        BY <3>1 DEF Seen
    <2> DEFINE R == Seen(h, k)
    <2>6. IsRangeOf(Widen(f[k], h[k + 1]), IF h[k + 1] = NO_TEMP THEN R ELSE R \union {h[k + 1]})
      <3> HIDE DEF T
      <3>. QED
        BY <2>1, <2>2, <2>4, WidenRange
    <2>. QED
      BY <2>3, <2>5, <2>6
  <1>5. T = Nat
    <2> HIDE DEF T
    <2>. QED
      BY <1>3, <1>4, SetInduction DEF T
  <1>. QED
    BY <1>1, <1>5, HistoryAssumption
=============================================================================
