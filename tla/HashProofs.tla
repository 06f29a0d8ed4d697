----------------------------- MODULE HashProofs -----------------------------
(***************************************************************************)
(* Proofs about HASH, for every set of keys, ranks and batches: its types, *)
(* the assertions of hash.cpp, that a search ends and finds what is there, *)
(* and that the tables implement maps (KeyMap).                            *)
(***************************************************************************)
EXTENDS Hash, TLAPS, SequenceTheorems, FiniteSetTheorems, WellFoundedInduction

-----------------------------------------------------------------------------
(* Numbers and loops *)

(* A set of numbers has a smallest one, and Min is that. *)
LEMMA Smallest ==
    ASSUME NEW S, S \subseteq Nat, S # {}
    PROVE  Min(S) \in S /\ \A i \in S : Min(S) <= i
<1> DEFINE Under == {p \in Nat \X Nat : p[1] < p[2]}
<1>1. IsWellFoundedOn(Under, Nat)
  BY NatLessThanWellFounded, Zenon DEF OpToRel
<1>2. \A i, j \in Nat : i < j => <<i, j>> \in Under
  OBVIOUS
<1> HIDE DEF Under
<1>3. PICK m \in S : \A i \in S : ~(<<i, m>> \in Under)
  BY <1>1, WFMin
<1>4. \A i \in S : i \in Nat /\ m \in Nat /\ ~(i < m)
  BY <1>2, <1>3
<1>5. \A i \in S : m <= i
  BY <1>4
<1> QED
  BY <1>5 DEF Min

(* A bounded set of numbers has a largest one, and Max is that. *)
LEMMA Largest ==
    ASSUME NEW n \in Nat, NEW S, S \subseteq 0 .. n, S # {}
    PROVE  Max(S) \in S /\ \A i \in S : i <= Max(S)
<1> DEFINE T == {n - i : i \in S}
<1>1. T \subseteq Nat /\ T # {}
  <2>1. \A i \in S : i \in 0 .. n /\ n - i \in Nat
    OBVIOUS
  <2> QED
    BY <2>1
<1>2. Min(T) \in T /\ \A i \in T : Min(T) <= i
  <2> HIDE DEF T
  <2> QED
    BY <1>1, Smallest
<1>3. PICK m \in S : Min(T) = n - m
  BY <1>2
<1>4. \A i \in S : n - m <= n - i
  BY <1>2, <1>3
<1>5. m \in Nat /\ \A i \in S : i \in Nat /\ i <= m
  BY <1>4
<1>6. \E x \in S : \A y \in S : x >= y
  BY <1>5
<1> DEFINE x == Max(S)
<1>7. x \in S /\ \A y \in S : x >= y
  BY <1>6 DEF Max
<1> QED
  BY <1>7

(* What holds at first and is kept by each of N turns holds after all of   *)
(* them: otherwise there would be a first turn after which it does not.    *)
LEMMA Turns ==
    ASSUME NEW N \in Nat, NEW S, 0 \in S, \A n \in 1 .. N : n - 1 \in S => n \in S
    PROVE  \A n \in 0 .. N : n \in S
<1> DEFINE fails == {n \in 0 .. N : n \notin S}
<1> SUFFICES ASSUME fails # {} PROVE FALSE
  OBVIOUS
<1>1. fails \subseteq Nat
  OBVIOUS
<1>2. Min(fails) \in fails /\ \A i \in fails : Min(fails) <= i
  <2> HIDE DEF fails
  <2> QED
    BY <1>1, Smallest
<1>3. PICK m \in fails : \A i \in fails : m <= i
  BY <1>2
<1>4. m \in 1 .. N /\ m - 1 \in 0 .. N
  BY <1>3
<1>5. m - 1 \notin fails
  BY <1>1, <1>3, <1>4
<1> QED
  BY <1>3, <1>4, <1>5

(* A loop of N turns from b; all its values are in T. *)
IsLoop(N, T, b, step) == N \in Nat /\ b \in T /\ step \in [1 .. N -> [T -> T]]

Follows(f, N, T, b, step) ==
    /\ f \in [0 .. N -> T]
    /\ f[0] = b
    /\ \A n \in 1 .. N : f[n] = step[n][f[n - 1]]

(* A loop of N turns, each from T to T, has a run, and it stays in T. *)
LEMMA Loop ==
    ASSUME NEW N, NEW T, NEW b, NEW step, IsLoop(N, T, b, step)
    PROVE  \E f : Follows(f, N, T, b, step)
<1>0. N \in Nat /\ b \in T /\ step \in [1 .. N -> [T -> T]]
  BY DEF IsLoop
<1> DEFINE Runs(f, m) == f[0] = b /\ \A n \in 1 .. m : f[n] = step[n][f[n - 1]]
           S == {m \in 0 .. N : \E f \in [0 .. m -> T] : Runs(f, m)}
<1>1. 0 \in S
  <2>1. [i \in 0 .. 0 |-> b] \in [0 .. 0 -> T] /\ Runs([i \in 0 .. 0 |-> b], 0)
    BY <1>0
  <2>2. 0 \in 0 .. N
    BY <1>0
  <2>3. \E f \in [0 .. 0 -> T] : Runs(f, 0)
    BY <2>1
  <2> QED
    BY <2>2, <2>3
<1>2. ASSUME NEW n \in 1 .. N, n - 1 \in S
      PROVE  n \in S
  <2>1. PICK f \in [0 .. n - 1 -> T] : Runs(f, n - 1)
    BY <1>2
  <2> DEFINE g == [i \in 0 .. n |-> IF i = n THEN step[n][f[n - 1]] ELSE f[i]]
  <2>2. step[n][f[n - 1]] \in T
    <3>1. f[n - 1] \in T
      BY <1>0
    <3> QED
      BY <3>1, <1>0
  <2>3. g \in [0 .. n -> T]
    BY <2>2
  <2>4. g[0] = b
    BY <2>1
  <2>5. \A i \in 1 .. n : g[i] = step[i][g[i - 1]]
    <3>1. ASSUME NEW i \in 1 .. n PROVE g[i] = step[i][g[i - 1]]
      <4>1. i - 1 \in 0 .. n /\ i - 1 # n /\ g[i - 1] = f[i - 1]
        BY <1>0
      <4>2. CASE i = n
        BY <4>1, <4>2
      <4>3. CASE i # n
        <5>1. i \in 1 .. n - 1 /\ g[i] = f[i]
          BY <4>3
        <5> QED
          BY <5>1, <4>1, <2>1
      <4> QED
        BY <4>2, <4>3
    <3> QED
      BY <3>1
  <2> HIDE DEF g
  <2> QED
    BY <2>3, <2>4, <2>5
<1> HIDE DEF S
<1>3. \A n \in 0 .. N : n \in S
  BY <1>0, <1>1, <1>2, Turns
<1>4. N \in S
  BY <1>0, <1>3
<1> QED
  BY <1>4 DEF S, Follows

(* At least 50% of a new table is free, and it is not empty. *)
LEMMA InitialSize ==
    ASSUME NEW n \in Nat
    PROVE  GetInitialTableSize(n) \in Nat /\ GetInitialTableSize(n) >= 4
           /\ GetInitialTableSize(n) >= 2 * n
<1> DEFINE F(f) == [i \in 0 .. n |-> IF i = 0 THEN 4 ELSE 2 * f[i - 1]]
           size == CHOOSE f : f = F(f)
           large == {s \in {size[i] : i \in 0 .. n} : s >= 2 * n}
<1>1. GetInitialTableSize(n) = Min(large)
  BY DEF GetInitialTableSize
<1>2. size = F(size)
  <2> DEFINE step == [i \in 1 .. n |-> [x \in Nat |-> 2 * x]]
  <2>1. IsLoop(n, Nat, 4, step)
    BY DEF IsLoop
  <2>2. PICK f : Follows(f, n, Nat, 4, step)
    BY <2>1, Loop, Zenon
  <2>3. f \in [0 .. n -> Nat] /\ f[0] = 4 /\ \A i \in 1 .. n : f[i] = 2 * f[i - 1]
    <3>1. \A i \in 1 .. n : i - 1 \in 0 .. n
      OBVIOUS
    <3>2. f \in [0 .. n -> Nat] /\ f[0] = 4 /\ \A i \in 1 .. n : f[i] = step[i][f[i - 1]]
      BY <2>2 DEF Follows
    <3> QED
      BY <3>1, <3>2
  <2>4. f = F(f)
    BY <2>3
  <2> QED
    BY <2>4
<1>3. size[0] = 4 /\ \A i \in 1 .. n : size[i] = 2 * size[i - 1]
  <2> HIDE DEF size
  <2> QED
    BY <1>2
<1> DEFINE S == {i \in 0 .. n : size[i] \in Nat /\ size[i] >= 2 * i + 4}
<1>4. 0 \in S
  <2> HIDE DEF size
  <2> QED
    BY <1>3
<1>5. ASSUME NEW i \in 1 .. n, i - 1 \in S PROVE i \in S
  <2> HIDE DEF size
  <2>1. size[i - 1] \in Nat /\ size[i - 1] >= 2 * (i - 1) + 4 /\ size[i] = 2 * size[i - 1]
    BY <1>3, <1>5
  <2> QED
    BY <2>1
<1>6. \A i \in 0 .. n : i \in S
  <2> HIDE DEF S
  <2> QED
    BY <1>4, <1>5, Turns
<1>7. \A i \in 0 .. n : size[i] \in Nat /\ size[i] >= 4 /\ size[i] >= 2 * i
  <2>1. \A i \in 0 .. n : size[i] \in Nat /\ size[i] >= 2 * i + 4
    BY <1>6
  <2> HIDE DEF size
  <2> QED
    BY <2>1
<1> HIDE DEF size
<1>8. size[n] \in large /\ large \subseteq Nat /\ \A s \in large : s >= 4 /\ s >= 2 * n
  BY <1>7
<1> HIDE DEF large
<1>9. Min(large) \in large
  BY <1>8, Smallest
<1> QED
  BY <1>1, <1>8, <1>9

(* A table for no entries has four places. *)
LEMMA SmallestSize == GetInitialTableSize(0) = 4
<1> DEFINE F(f) == [i \in 0 .. 0 |-> IF i = 0 THEN 4 ELSE 2 * f[i - 1]]
           size == CHOOSE f : f = F(f)
<1>1. GetInitialTableSize(0) = Min({s \in {size[i] : i \in 0 .. 0} : s >= 2 * 0})
  BY DEF GetInitialTableSize
<1>2. 0 .. 0 = {0}
  OBVIOUS
<1> DEFINE f == [i \in 0 .. 0 |-> 4]
<1>3. f = F(f)
  BY <1>2
<1>4. size = F(size)
  BY <1>3
<1> HIDE DEF size
<1>5. size[0] = 4
  BY <1>2, <1>4
<1>6. {s \in {size[i] : i \in 0 .. 0} : s >= 2 * 0} = {4}
  BY <1>2, <1>5
<1>7. Min({4}) \in {4}
  BY Smallest
<1> QED
  BY <1>1, <1>6, <1>7

-----------------------------------------------------------------------------
(* Tables and the search *)

Table == UNION {[0 .. n - 1 -> Entry \cup {Free}] : n \in Nat \ {0}}

(* A place holds an entry or is a hole. *)
LEMMA EntryIsNoHole == \A e \in Entry : e # Free /\ e.key \in Keys /\ e.value \in Values
BY DEF Entry, Free

(* The size of a table is the number of its places. *)
LEMMA TableOfSize ==
    ASSUME NEW n \in Nat \ {0}, NEW t \in [0 .. n - 1 -> Entry \cup {Free}]
    PROVE  t \in Table /\ Size(t) = n
<1>1. t \in Table
  BY DEF Table
<1>2. DOMAIN t = 0 .. n - 1
  OBVIOUS
<1>3. Cardinality(0 .. n - 1) = n
  <2>1. 0 \in Int /\ n - 1 \in Int
    OBVIOUS
  <2>2. Cardinality(0 .. n - 1) = IF 0 > n - 1 THEN 0 ELSE (n - 1) - 0 + 1
    BY <2>1, FS_Interval
  <2> QED
    BY <2>2
<1> QED
  BY <1>1, <1>2, <1>3 DEF Size

(* What is in a table, and where. *)
LEMMA TableFacts ==
    ASSUME NEW t \in Table
    PROVE  /\ Size(t) \in Nat \ {0} /\ DOMAIN t = 0 .. Size(t) - 1
           /\ t \in [0 .. Size(t) - 1 -> Entry \cup {Free}]
           /\ Used(t) \subseteq 0 .. Size(t) - 1
           /\ \A i \in Used(t) : i \in Nat /\ t[i] \in Entry /\ t[i].key \in Keys
           /\ \A i \in 0 .. Size(t) - 1 : i \notin Used(t) <=> t[i] = Free
           /\ IsFiniteSet(Used(t)) /\ Cardinality(Used(t)) \in Nat
           /\ Cardinality(Used(t)) <= Size(t)
           /\ Cardinality(Used(t)) = Size(t) => Used(t) = DOMAIN t
<1>1. PICK n \in Nat \ {0} : t \in [0 .. n - 1 -> Entry \cup {Free}]
  BY DEF Table
<1>2. Size(t) = n /\ DOMAIN t = 0 .. n - 1
  BY <1>1, TableOfSize
<1>3. /\ Used(t) \subseteq 0 .. n - 1
      /\ \A i \in Used(t) : i \in Nat /\ t[i] \in Entry /\ t[i].key \in Keys
      /\ \A i \in 0 .. n - 1 : i \notin Used(t) <=> t[i] = Free
  BY <1>1, EntryIsNoHole DEF Used
<1>4. IsFiniteSet(0 .. n - 1)
  <2>1. 0 \in Int /\ n - 1 \in Int
    OBVIOUS
  <2> QED
    BY <2>1, FS_Interval
<1>5. Cardinality(0 .. n - 1) = n
  BY <1>2 DEF Size
<1>6. /\ IsFiniteSet(Used(t)) /\ Cardinality(Used(t)) <= n
      /\ Cardinality(0 .. n - 1) = Cardinality(Used(t)) => 0 .. n - 1 = Used(t)
  BY <1>3, <1>4, <1>5, FS_Subset
<1>7. Cardinality(Used(t)) \in Nat
  BY <1>6, FS_CardinalityType
<1> QED
  BY <1>1, <1>2, <1>3, <1>5, <1>6, <1>7

(* The entry a search looks at is in its interval; if there is none, the   *)
(* interval holds holes only.                                              *)
LEMMA CandidateFacts ==
    ASSUME NEW t \in Table, NEW lo \in Nat, NEW hi \in Nat, lo <= hi, hi <= Size(t)
    PROVE  LET p == Min(Candidates(t, lo, hi))
           IN IF Candidates(t, lo, hi) = {}
              THEN /\ \A i \in Used(t) : ~(lo <= i /\ i < hi)
                   /\ lo = hi => lo \notin Used(t)
              ELSE p \in Used(t) /\ lo <= p /\ (p < hi \/ (p = lo /\ lo = hi))
<1> DEFINE mid == (lo + hi) \div 2
           below == {i \in Used(t) : lo <= i /\ i <= mid}
           above == {i \in Used(t) : mid < i /\ i < hi}
<1>1. mid \in Nat /\ lo <= mid /\ (lo < hi => mid < hi) /\ (lo = hi => mid = lo)
  OBVIOUS
<1>2. Candidates(t, lo, hi) = IF below # {} THEN {Max(below)} ELSE above
  BY DEF Candidates
<1> HIDE DEF mid
<1>3. \A i \in Used(t) : i \in Nat
  BY TableFacts
<1>4. CASE below # {}
  <2>1. below \subseteq 0 .. mid
    BY <1>1, <1>3
  <2>2. Max(below) \in below
    <3> HIDE DEF below
    <3> QED
      BY <1>1, <1>4, <2>1, Largest
  <2>3. Max(below) \in Used(t) /\ lo <= Max(below) /\ Max(below) <= mid /\ Max(below) \in Nat
    BY <2>2, <1>3
  <2>4. Candidates(t, lo, hi) = {Max(below)}
    BY <1>2, <1>4
  <2> HIDE DEF below
  <2>5. Min({Max(below)}) = Max(below)
    <3>1. {Max(below)} \subseteq Nat /\ {Max(below)} # {}
      BY <2>3
    <3>2. Min({Max(below)}) \in {Max(below)}
      BY <3>1, Smallest
    <3> QED
      BY <3>2
  <2> QED
    BY <2>3, <2>4, <2>5, <1>1
<1>5. CASE below = {}
  <2>1. Candidates(t, lo, hi) = above /\ above \subseteq Nat
    BY <1>2, <1>3, <1>5
  <2>2. CASE above = {}
    BY <2>1, <2>2, <1>1, <1>3, <1>5
  <2>3. CASE above # {}
    <3>1. Min(above) \in above
      <4> HIDE DEF above
      <4> QED
        BY <2>1, <2>3, Smallest
    <3>2. Min(above) \in Used(t) /\ mid < Min(above) /\ Min(above) < hi /\ Min(above) \in Nat
      BY <3>1, <1>3
    <3>3. lo <= Min(above) /\ Min(above) < hi
      <4> HIDE DEF above, below
      <4> QED
        BY <3>2, <1>1
    <3>4. Candidates(t, lo, hi) # {} /\ Min(Candidates(t, lo, hi)) = Min(above)
      <4> HIDE DEF above, below
      <4> QED
        BY <2>1, <2>3
    <3> HIDE DEF above, below
    <3> QED
      BY <3>2, <3>3, <3>4
  <2> QED
    BY <2>2, <2>3
<1> QED
  BY <1>4, <1>5

(* Where every turn of a search may be; the interval gets shorter with     *)
(* every turn, and it is never empty with a hole at its end.               *)
TurnType ==
    [at : {"search", "absent", "found", "outside"}, ix : Nat, lo : Nat, hi : Nat]

Between(t, k, folds, lo, hi) ==
    \A i \in Used(t) : /\ i < lo => Less(t[i].key, k, folds)
                       /\ i >= hi => Less(k, t[i].key, folds)

Sorted(t, folds) ==
    \A i, j \in Used(t) : i < j => Less(t[i].key, t[j].key, folds)

SearchInv(t, k, folds, w, n) ==
    /\ w \in TurnType
    /\ w.lo <= w.hi /\ w.hi <= Size(t) /\ w.ix <= Size(t)
    /\ w.at # "outside"
    /\ w.at = "search" => /\ w.hi - w.lo <= Size(t) - n
                          /\ w.hi = Size(t) \/ w.hi \in Used(t)
                          /\ w.lo = w.hi => w.hi < Size(t)
    /\ w.at = "found" => w.ix \in Used(t) /\ Same(k, t[w.ix].key, folds)
    /\ Sorted(t, folds) => /\ w.at = "search" => Between(t, k, folds, w.lo, w.hi)
                           /\ w.at = "absent" => Between(t, k, folds, w.ix, w.ix)

(* Ranks are numbers. *)
LEMMA RankNat == \A folds : \A k \in Keys : Rank(k, folds) \in Nat
BY RanksAssumption DEF Rank

(* A turn of the search keeps SearchInv. *)
LEMMA TurnFacts ==
    ASSUME NEW t \in Table, NEW k \in Keys, NEW folds, NEW n \in Nat, NEW w,
           SearchInv(t, k, folds, w, n)
    PROVE  SearchInv(t, k, folds, Turn(t, k, folds, w), n + 1)
<1> DEFINE found == Candidates(t, w.lo, w.hi)
           p == Min(found)
           c == t[p].key
           next == Turn(t, k, folds, w)
<1> SUFFICES SearchInv(t, k, folds, next, n + 1)
  OBVIOUS
<1>1. /\ w \in TurnType /\ w.lo \in Nat /\ w.hi \in Nat /\ w.ix \in Nat
      /\ w.lo <= w.hi /\ w.hi <= Size(t) /\ w.ix <= Size(t) /\ Size(t) \in Nat \ {0}
      /\ w.at \in {"search", "absent", "found", "outside"}
  BY TableFacts DEF SearchInv, TurnType
<1>2. IF found = {}
      THEN /\ \A i \in Used(t) : ~(w.lo <= i /\ i < w.hi)
           /\ w.lo = w.hi => w.lo \notin Used(t)
      ELSE p \in Used(t) /\ w.lo <= p /\ (p < w.hi \/ (p = w.lo /\ w.lo = w.hi))
  BY <1>1, CandidateFacts
<1> HIDE DEF found
<1>3. CASE w.at # "search"
  <2>1. next = w
    BY <1>3 DEF Turn
  <2> QED
    BY <1>3, <2>1 DEF SearchInv
<1>4. CASE w.at = "search" /\ found = {}
  <2>1. w.lo # w.hi
    <3>1. w.lo = w.hi => w.lo \notin Used(t)
      BY <1>2, <1>4
    <3>2. (w.hi = Size(t) \/ w.hi \in Used(t)) /\ (w.lo = w.hi => w.hi < Size(t))
      BY <1>4 DEF SearchInv
    <3> QED
      BY <3>1, <3>2, <1>1
  <2> DEFINE mid == (w.lo + w.hi) \div 2
  <2>2. next = [w EXCEPT !.at = "absent", !.ix = mid]
    BY <1>4, <2>1 DEF Turn, found
  <2>3. mid \in Nat /\ w.lo <= mid /\ mid <= w.hi
    BY <1>1
  <2> HIDE DEF mid
  <2>4. /\ next \in TurnType /\ next.at = "absent" /\ next.ix = mid
        /\ next.lo = w.lo /\ next.hi = w.hi
    BY <1>1, <2>2, <2>3 DEF TurnType
  <2>5. ASSUME Between(t, k, folds, w.lo, w.hi)
        PROVE  Between(t, k, folds, mid, mid)
    <3>1. \A i \in Used(t) : i \in Nat /\ (i < w.lo \/ i >= w.hi)
      BY <1>1, <1>2, <1>4, TableFacts
    <3>2. \A i \in Used(t) : (i < mid => i < w.lo) /\ (i >= mid => i >= w.hi)
      BY <3>1, <2>3, <1>1
    <3> QED
      BY <2>5, <3>2 DEF Between
  <2> HIDE DEF next
  <2> QED
    BY <1>1, <1>4, <2>3, <2>4, <2>5 DEF SearchInv
<1>5. CASE w.at = "search" /\ found # {}
  <2>1. /\ p \in Used(t) /\ p \in Nat /\ w.lo <= p /\ (p < w.hi \/ (p = w.lo /\ w.lo = w.hi))
        /\ t[p].key \in Keys /\ p < Size(t)
    BY <1>1, <1>2, <1>5, TableFacts
  <2>2. /\ w.hi - w.lo <= Size(t) - n /\ (w.hi = Size(t) \/ w.hi \in Used(t))
        /\ w.lo = w.hi => w.hi < Size(t)
        /\ Sorted(t, folds) => Between(t, k, folds, w.lo, w.hi)
    BY <1>5 DEF SearchInv
  <2>3. Rank(k, folds) \in Nat /\ Rank(t[p].key, folds) \in Nat
    BY <2>1, RankNat
  <2> HIDE DEF p
  <2>4. CASE Same(k, t[p].key, folds)
    <3>1. next = [w EXCEPT !.at = "found", !.ix = p]
      BY <1>5, <2>4 DEF Turn, found, p
    <3> HIDE DEF next
    <3>2. /\ next \in TurnType /\ next.at = "found" /\ next.ix = p
          /\ next.lo = w.lo /\ next.hi = w.hi
      BY <1>1, <2>1, <3>1 DEF TurnType
    <3> QED
      BY <1>1, <2>1, <2>4, <3>2 DEF SearchInv
  <2>5. CASE ~Same(k, t[p].key, folds) /\ w.lo = w.hi
    <3>1. next = [w EXCEPT !.at = "absent", !.ix = w.lo]
      BY <1>5, <2>5 DEF Turn, found, p
    <3> HIDE DEF next
    <3>2. /\ next \in TurnType /\ next.at = "absent" /\ next.ix = w.lo
          /\ next.lo = w.lo /\ next.hi = w.hi
      BY <1>1, <2>1, <3>1 DEF TurnType
    <3> QED
      BY <1>1, <2>2, <2>5, <3>2 DEF SearchInv
  <2>6. CASE ~Same(k, t[p].key, folds) /\ w.lo # w.hi /\ Less(k, t[p].key, folds)
    <3>1. p < w.hi
      BY <2>1, <2>6
    <3>2. ASSUME Sorted(t, folds), NEW i \in Used(t), i >= p
          PROVE  Less(k, t[i].key, folds)
      <4>1. i \in Nat /\ t[i].key \in Keys /\ (i = p \/ p < i)
        BY <2>1, <3>2, TableFacts
      <4>2. i = p \/ Less(t[p].key, t[i].key, folds)
        BY <2>1, <3>2, <4>1 DEF Sorted
      <4> QED
        BY <2>3, <2>6, <4>1, <4>2, RankNat DEF Less
    <3>3. CASE p = w.lo
      <4>1. next = [w EXCEPT !.at = "absent", !.ix = p]
        BY <1>5, <2>6, <3>3 DEF Turn, found, p
      <4> HIDE DEF next
      <4>2. /\ next \in TurnType /\ next.at = "absent" /\ next.ix = p
            /\ next.lo = w.lo /\ next.hi = w.hi
        BY <1>1, <2>1, <4>1 DEF TurnType
      <4>3. Sorted(t, folds) => Between(t, k, folds, p, p)
        BY <2>2, <3>2, <3>3 DEF Between
      <4> QED
        BY <1>1, <2>1, <4>2, <4>3 DEF SearchInv
    <3>4. CASE p # w.lo
      <4>1. next = [w EXCEPT !.hi = p]
        BY <1>5, <2>6, <3>4 DEF Turn, found, p
      <4> HIDE DEF next
      <4>2. /\ next \in TurnType /\ next.at = "search" /\ next.ix = w.ix
            /\ next.lo = w.lo /\ next.hi = p
        BY <1>1, <1>5, <2>1, <4>1 DEF TurnType
      <4>3. Sorted(t, folds) => Between(t, k, folds, w.lo, p)
        BY <2>2, <3>2 DEF Between
      <4>4. p - w.lo <= Size(t) - (n + 1) /\ w.lo <= p /\ w.lo # p
        BY <1>1, <2>1, <2>2, <3>1, <3>4
      <4> QED
        BY <1>1, <2>1, <4>2, <4>3, <4>4 DEF SearchInv
    <3> QED
      BY <3>3, <3>4
  <2>7. CASE ~Same(k, t[p].key, folds) /\ w.lo # w.hi /\ ~Less(k, t[p].key, folds)
    <3>1. p < w.hi
      BY <2>1, <2>7
    <3>2. ASSUME Sorted(t, folds), NEW i \in Used(t), i < p + 1
          PROVE  Less(t[i].key, k, folds)
      <4>1. i \in Nat /\ t[i].key \in Keys /\ (i = p \/ i < p)
        BY <2>1, <3>2, TableFacts
      <4>2. i = p \/ Less(t[i].key, t[p].key, folds)
        BY <2>1, <3>2, <4>1 DEF Sorted
      <4>3. Less(t[p].key, k, folds)
        BY <2>3, <2>7 DEF Less, Same
      <4> QED
        BY <2>1, <2>3, <4>1, <4>2, <4>3, RankNat DEF Less
    <3>3. CASE p + 1 >= Size(t)
      <4>1. next = [w EXCEPT !.at = "absent", !.ix = Size(t)]
        BY <1>5, <2>7, <3>3 DEF Turn, found, p, After
      <4> HIDE DEF next
      <4>2. /\ next \in TurnType /\ next.at = "absent" /\ next.ix = Size(t)
            /\ next.lo = w.lo /\ next.hi = w.hi
        BY <1>1, <2>1, <4>1 DEF TurnType
      <4>3. \A i \in Used(t) : i \in Nat /\ i < Size(t) /\ i < p + 1
        BY <1>1, <2>1, <3>3, TableFacts
      <4>4. Sorted(t, folds) => Between(t, k, folds, Size(t), Size(t))
        BY <1>1, <3>2, <4>3 DEF Between
      <4> QED
        BY <1>1, <4>2, <4>4 DEF SearchInv
    <3>4. CASE p + 1 < Size(t)
      <4>1. next = [w EXCEPT !.lo = p + 1]
        BY <1>1, <1>5, <2>1, <2>7, <3>4 DEF Turn, found, p, After
      <4> HIDE DEF next
      <4>2. /\ next \in TurnType /\ next.at = "search" /\ next.ix = w.ix
            /\ next.lo = p + 1 /\ next.hi = w.hi
        BY <1>1, <1>5, <2>1, <4>1 DEF TurnType
      <4>3. Sorted(t, folds) => Between(t, k, folds, p + 1, w.hi)
        BY <2>2, <3>2 DEF Between
      <4>4. w.hi - (p + 1) <= Size(t) - (n + 1) /\ p + 1 <= w.hi
            /\ (p + 1 = w.hi => w.hi < Size(t))
        BY <1>1, <2>1, <2>2, <3>1, <3>4
      <4> QED
        BY <1>1, <2>1, <2>2, <4>2, <4>3, <4>4 DEF SearchInv
    <3> QED
      BY <1>1, <2>1, <3>3, <3>4
  <2> QED
    BY <2>4, <2>5, <2>6, <2>7
<1> QED
  BY <1>3, <1>4, <1>5

(* Every search ends.  It finds the key only where it is; in a table in    *)
(* the order of the search it finds it if it is there, and otherwise says  *)
(* where it would be inserted.                                             *)
LEMMA SearchFacts ==
    ASSUME NEW t \in Table, NEW k \in Keys, NEW folds
    PROVE  LET found == HashIndex(t, k, folds)
           IN /\ found.at \in {"found", "absent"} /\ found.ix \in 0 .. Size(t)
              /\ found.at = "found" =>
                    found.ix \in Used(t) /\ Same(k, t[found.ix].key, folds)
              /\ Sorted(t, folds) /\ found.at = "absent" =>
                    Between(t, k, folds, found.ix, found.ix)
<1> DEFINE N == Size(t) + 1
           begin == [at |-> "search", ix |-> 0, lo |-> 0, hi |-> Size(t)]
           F(f) == [n \in 0 .. N |-> IF n = 0 THEN begin ELSE Turn(t, k, folds, f[n - 1])]
           turn == CHOOSE f : f = F(f)
           T == {w \in TurnType : \E n \in Nat : SearchInv(t, k, folds, w, n)}
           step == [n \in 1 .. N |-> [w \in T |-> Turn(t, k, folds, w)]]
<1>1. HashIndex(t, k, folds) = turn[N]
  BY DEF HashIndex
<1>2. Size(t) \in Nat \ {0} /\ N \in Nat
  BY TableFacts
<1>3. begin \in TurnType /\ SearchInv(t, k, folds, begin, 0)
  <2>1. begin \in TurnType
    BY <1>2 DEF TurnType
  <2>2. Between(t, k, folds, 0, Size(t))
    <3>1. \A i \in Used(t) : i \in Nat /\ i < Size(t)
      BY TableFacts
    <3> QED
      BY <1>2, <3>1 DEF Between
  <2> QED
    BY <1>2, <2>1, <2>2 DEF SearchInv
<1> HIDE DEF begin, N
<1>4. \A w \in T : Turn(t, k, folds, w) \in T
  <2>1. ASSUME NEW w, NEW n \in Nat, SearchInv(t, k, folds, w, n)
        PROVE  SearchInv(t, k, folds, Turn(t, k, folds, w), n + 1) /\ n + 1 \in Nat
    BY <2>1, TurnFacts
  <2>2. \A w, n : SearchInv(t, k, folds, w, n) => w \in TurnType
    BY DEF SearchInv
  <2> QED
    BY <2>1, <2>2
<1>5. begin \in T
  BY <1>3
<1> HIDE DEF T
<1>6. IsLoop(N, T, begin, step)
  BY <1>2, <1>4, <1>5 DEF IsLoop
<1>7. PICK f : Follows(f, N, T, begin, step)
  BY <1>6, Loop, Zenon
<1>8. /\ f \in [0 .. N -> T] /\ f[0] = begin
      /\ \A n \in 1 .. N : f[n] = Turn(t, k, folds, f[n - 1])
  <2>1. \A n \in 1 .. N : n - 1 \in 0 .. N
    BY <1>2
  <2>2. f \in [0 .. N -> T] /\ f[0] = begin /\ \A n \in 1 .. N : f[n] = step[n][f[n - 1]]
    BY <1>7 DEF Follows
  <2> QED
    BY <2>1, <2>2
<1>9. f = F(f)
  BY <1>2, <1>8
<1> HIDE DEF step
<1>10. turn = F(turn)
  BY <1>9
<1> HIDE DEF turn
<1>11. turn[0] = begin /\ \A n \in 1 .. N : turn[n] = Turn(t, k, folds, turn[n - 1])
  BY <1>2, <1>10
<1> DEFINE S == {n \in 0 .. N : SearchInv(t, k, folds, turn[n], n)}
<1>12. 0 \in S
  BY <1>2, <1>3, <1>11
<1>13. ASSUME NEW n \in 1 .. N, n - 1 \in S PROVE n \in S
  <2>1. n - 1 \in Nat /\ n \in 0 .. N /\ n - 1 + 1 = n
    BY <1>2
  <2>2. SearchInv(t, k, folds, Turn(t, k, folds, turn[n - 1]), n - 1 + 1)
    BY <1>13, <2>1, TurnFacts
  <2> QED
    BY <1>11, <2>1, <2>2
<1>14. \A n \in 0 .. N : n \in S
  <2> HIDE DEF S
  <2> QED
    BY <1>2, <1>12, <1>13, Turns
<1>15. SearchInv(t, k, folds, turn[N], N)
  BY <1>2, <1>14
<1>16. turn[N].at # "search"
  BY <1>2, <1>15 DEF SearchInv, TurnType, N
<1> QED
  BY <1>1, <1>2, <1>15, <1>16 DEF SearchInv, TurnType

-----------------------------------------------------------------------------
(* Insertion and removal *)

Contents(t) == {t[i] : i \in Used(t)}

(* new is t with the entry at p: the place i of new has what was at o[i],  *)
(* in the same order, and the hole is gone.                                *)
Makes(t, new, entry, pos, p, o) ==
    /\ p \in DOMAIN t /\ new[p] = entry
    /\ o \in [DOMAIN t -> DOMAIN t]
    /\ \A i \in DOMAIN t : i # p => /\ new[i] = t[o[i]]
                                    /\ i < p => o[i] < pos
                                    /\ i > p => o[i] >= pos
    /\ \A i, j \in DOMAIN t : i < j /\ i # p /\ j # p => o[i] < o[j]
    /\ \A m \in Used(t) : \E i \in DOMAIN t : i # p /\ o[i] = m

(* A table made by moving entries into a hole is in order, and has the     *)
(* entries of the old one and the new one.                                 *)
LEMMA MadeFacts ==
    ASSUME NEW t \in Table, NEW new, DOMAIN new = DOMAIN t, NEW entry \in Entry,
           NEW pos, NEW p, NEW o, Makes(t, new, entry, pos, p, o), NEW folds
    PROVE  /\ Sorted(t, folds) /\ Between(t, entry.key, folds, pos, pos) =>
                Sorted(new, folds)
           /\ Contents(new) = Contents(t) \cup {entry}
<1>1. /\ DOMAIN t = 0 .. Size(t) - 1 /\ Size(t) \in Nat
      /\ p \in 0 .. Size(t) - 1 /\ entry # Free
  BY TableFacts, EntryIsNoHole DEF Makes
<1>2. \A i \in Used(new) : /\ i \in DOMAIN t
                           /\ i # p => o[i] \in Used(t) /\ new[i] = t[o[i]]
  BY DEF Makes, Used
<1>3. ASSUME Sorted(t, folds), Between(t, entry.key, folds, pos, pos),
             NEW i \in Used(new), NEW j \in Used(new), i < j
      PROVE  Less(new[i].key, new[j].key, folds)
  <2>1. i \in 0 .. Size(t) - 1 /\ j \in 0 .. Size(t) - 1
    BY <1>1, <1>2
  <2>2. CASE i # p /\ j # p
    <3>1. o[i] < o[j] /\ o[i] \in Used(t) /\ o[j] \in Used(t)
      BY <1>2, <1>3, <2>2 DEF Makes
    <3>2. new[i] = t[o[i]] /\ new[j] = t[o[j]]
      BY <1>2, <2>2
    <3> QED
      BY <1>3, <3>1, <3>2 DEF Sorted
  <2>3. CASE i = p
    <3>1. new[i] = entry /\ j # p /\ j > p
      BY <1>1, <1>3, <2>1, <2>3 DEF Makes
    <3>2. o[j] >= pos /\ new[j] = t[o[j]] /\ o[j] \in Used(t)
      BY <1>2, <3>1 DEF Makes
    <3> QED
      BY <1>3, <3>1, <3>2 DEF Between
  <2>4. CASE j = p
    <3>1. new[j] = entry /\ i # p /\ i < p
      BY <1>1, <1>3, <2>1, <2>4 DEF Makes
    <3>2. o[i] < pos /\ new[i] = t[o[i]] /\ o[i] \in Used(t)
      BY <1>2, <3>1 DEF Makes
    <3> QED
      BY <1>3, <3>1, <3>2 DEF Between
  <2> QED
    BY <2>2, <2>3, <2>4
<1>4. p \in Used(new)
  BY <1>1 DEF Used, Makes
<1>5. ASSUME NEW m \in Used(t) PROVE t[m] \in Contents(new)
  <2>1. PICK i \in DOMAIN t : i # p /\ o[i] = m
    BY DEF Makes
  <2>2. new[i] = t[m] /\ i \in DOMAIN new /\ t[m] # Free
    BY <2>1 DEF Makes, Used
  <2>3. i \in Used(new)
    BY <2>2 DEF Used
  <2> QED
    BY <2>2, <2>3 DEF Contents
<1>6. ASSUME NEW i \in Used(new) PROVE new[i] \in Contents(t) \cup {entry}
  BY <1>2 DEF Contents, Makes
<1>7. entry \in Contents(new)
  BY <1>4 DEF Contents, Makes
<1>8. Contents(new) = Contents(t) \cup {entry}
  BY <1>5, <1>6, <1>7 DEF Contents
<1> QED
  BY <1>3, <1>8 DEF Sorted

(* A table and the hole that an insertion fills. *)
Filled(t, new, entry, pos, h, folds) ==
    /\ new \in Table /\ Size(new) = Size(t)
    /\ h \notin Used(t) /\ Used(new) = Used(t) \cup {h}
    /\ Sorted(t, folds) /\ Between(t, entry.key, folds, pos, pos) => Sorted(new, folds)
    /\ Contents(new) = Contents(t) \cup {entry}

(* An insertion that fills the nearest hole at or above the position. *)
LEMMA FilledFromBelow ==
    ASSUME NEW t \in Table, NEW pos \in 0 .. Size(t), NEW entry \in Entry, NEW folds,
           NEW h \in DOMAIN t, h \notin Used(t), h >= pos,
           \A i \in DOMAIN t \ Used(t) : i >= pos => h <= i
    PROVE  Filled(t, [Shifted(t, pos + 1, h, -1) EXCEPT ![pos] = entry],
                  entry, pos, h, folds)
<1> DEFINE new == [Shifted(t, pos + 1, h, -1) EXCEPT ![pos] = entry]
           n == Size(t)
           o == [i \in DOMAIN t |-> IF i \in pos + 1 .. h THEN i - 1 ELSE i]
<1>1. /\ n \in Nat \ {0} /\ DOMAIN t = 0 .. n - 1
      /\ t \in [0 .. n - 1 -> Entry \cup {Free}] /\ Used(t) \subseteq 0 .. n - 1
      /\ \A i \in 0 .. n - 1 : i \notin Used(t) <=> t[i] = Free
  BY TableFacts
<1>2. entry # Free /\ entry \in Entry
  BY EntryIsNoHole
<1>3. h \in 0 .. n - 1 /\ pos \in 0 .. n - 1 /\ t[h] = Free
  BY <1>1
<1>4. \A i \in pos .. h - 1 : i \in Used(t)
  BY <1>1, <1>3
<1>5. /\ new = [i \in DOMAIN new |-> new[i]] /\ DOMAIN new = 0 .. n - 1 /\ new[pos] = entry
      /\ \A i \in 0 .. n - 1 : i < pos \/ i > h => new[i] = t[i]
      /\ \A i \in pos + 1 .. h : new[i] = t[i - 1] /\ i - 1 \in pos .. h - 1
  <2> DEFINE s == Shifted(t, pos + 1, h, -1)
  <2>1. s = [i \in 0 .. n - 1 |-> IF i \in pos + 1 .. h THEN t[i + -1] ELSE t[i]]
    BY <1>1 DEF Shifted
  <2>2. new = [s EXCEPT ![pos] = entry]
    OBVIOUS
  <2> HIDE DEF s, new
  <2>3. new = [i \in 0 .. n - 1 |-> IF i = pos THEN entry ELSE s[i]]
    BY <1>3, <2>2, <2>1
  <2>4. \A i \in pos + 1 .. h : i \in 0 .. n - 1 /\ i # pos /\ i + -1 = i - 1 /\ i - 1 \in pos .. h - 1
    BY <1>1, <1>3
  <2>5. \A i \in 0 .. n - 1 : i < pos \/ i > h => i # pos /\ i \notin pos + 1 .. h
    BY <1>1, <1>3
  <2> QED
    BY <1>3, <2>1, <2>3, <2>4, <2>5
<1> HIDE DEF new
<1>6. ASSUME NEW i \in 0 .. n - 1 PROVE new[i] \in Entry \cup {Free}
  BY <1>1, <1>2, <1>3, <1>5
<1>7. new \in [0 .. n - 1 -> Entry \cup {Free}]
  BY <1>5, <1>6
<1>8. ASSUME NEW i \in 0 .. n - 1 PROVE i \in Used(new) <=> i \in Used(t) \cup {h}
  <2>1. i \in Used(new) <=> new[i] # Free
    BY <1>5 DEF Used
  <2>2. CASE i < pos \/ i > h
    BY <1>1, <1>3, <1>5, <2>1, <2>2
  <2>3. CASE i \in pos .. h
    <3>1. new[i] # Free
      BY <1>1, <1>2, <1>3, <1>4, <1>5, <2>3
    <3>2. i \in Used(t) \/ i = h
      BY <1>3, <1>4, <2>3
    <3> QED
      BY <2>1, <3>1, <3>2
  <2> QED
    BY <1>3, <2>2, <2>3
<1>9. Used(new) = Used(t) \cup {h}
  <2>1. Used(new) \subseteq 0 .. n - 1
    BY <1>5 DEF Used
  <2> QED
    BY <1>1, <1>3, <1>8, <2>1
<1>10. Makes(t, new, entry, pos, pos, o)
  <2>1. \A i \in 0 .. n - 1 : o[i] \in 0 .. n - 1 /\ o[i] = IF i \in pos + 1 .. h THEN i - 1 ELSE i
    BY <1>1, <1>3
  <2>2. o \in [0 .. n - 1 -> 0 .. n - 1]
    BY <1>1, <2>1
  <2> HIDE DEF o
  <2>3. \A i \in 0 .. n - 1 : i # pos => /\ new[i] = t[o[i]]
                                         /\ i < pos => o[i] < pos
                                         /\ i > pos => o[i] >= pos
    BY <1>3, <1>5, <2>1
  <2>4. \A i, j \in 0 .. n - 1 : i < j /\ i # pos /\ j # pos => o[i] < o[j]
    BY <1>3, <2>1
  <2>5. ASSUME NEW m \in Used(t) PROVE \E i \in 0 .. n - 1 : i # pos /\ o[i] = m
    <3>1. m \in 0 .. n - 1 /\ m # h
      BY <1>1
    <3>2. CASE m < pos \/ m > h
      BY <1>3, <2>1, <3>1, <3>2
    <3>3. CASE m \in pos .. h - 1
      <4>1. m + 1 \in 0 .. n - 1 /\ m + 1 # pos /\ m + 1 \in pos + 1 .. h
        BY <1>1, <1>3, <3>1, <3>3
      <4>2. o[m + 1] = (m + 1) - 1
        BY <2>1, <4>1
      <4>3. o[m + 1] = m
        BY <3>1, <4>2
      <4> QED
        BY <4>1, <4>3
    <3> QED
      BY <1>3, <3>1, <3>2, <3>3
  <2> QED
    BY <1>1, <1>3, <1>5, <2>2, <2>3, <2>4, <2>5 DEF Makes
<1> HIDE DEF o
<1>11. new \in Table /\ Size(new) = n
  BY <1>1, <1>7, TableOfSize
<1>12. /\ Sorted(t, folds) /\ Between(t, entry.key, folds, pos, pos) => Sorted(new, folds)
       /\ Contents(new) = Contents(t) \cup {entry}
  BY <1>1, <1>5, <1>10, MadeFacts
<1>13. Filled(t, new, entry, pos, h, folds)
  BY <1>9, <1>11, <1>12 DEF Filled
<1> QED
  BY <1>13 DEF new

(* An insertion that fills the nearest hole below the position. *)
LEMMA FilledFromAbove ==
    ASSUME NEW t \in Table, NEW pos \in 0 .. Size(t), NEW entry \in Entry, NEW folds,
           NEW h \in DOMAIN t, h \notin Used(t), h < pos,
           \A i \in DOMAIN t \ Used(t) : i <= h
    PROVE  Filled(t, [Shifted(t, h, pos - 2, 1) EXCEPT ![pos - 1] = entry],
                  entry, pos, h, folds)
<1> DEFINE new == [Shifted(t, h, pos - 2, 1) EXCEPT ![pos - 1] = entry]
           n == Size(t)
           o == [i \in DOMAIN t |-> IF i \in h .. pos - 2 THEN i + 1 ELSE i]
<1>1. /\ n \in Nat \ {0} /\ DOMAIN t = 0 .. n - 1
      /\ t \in [0 .. n - 1 -> Entry \cup {Free}] /\ Used(t) \subseteq 0 .. n - 1
      /\ \A i \in 0 .. n - 1 : i \notin Used(t) <=> t[i] = Free
  BY TableFacts
<1>2. entry # Free /\ entry \in Entry
  BY EntryIsNoHole
<1>3. h \in 0 .. n - 1 /\ pos \in 0 .. n /\ pos - 1 \in 0 .. n - 1 /\ t[h] = Free
  BY <1>1
<1>4. \A i \in h + 1 .. n - 1 : i \in Used(t)
  BY <1>1, <1>3
<1>5. /\ new = [i \in DOMAIN new |-> new[i]] /\ DOMAIN new = 0 .. n - 1 /\ new[pos - 1] = entry
      /\ \A i \in 0 .. n - 1 : i < h \/ i >= pos => new[i] = t[i]
      /\ \A i \in h .. pos - 2 : new[i] = t[i + 1] /\ i + 1 \in h + 1 .. n - 1
  <2> DEFINE s == Shifted(t, h, pos - 2, 1)
  <2>1. s = [i \in 0 .. n - 1 |-> IF i \in h .. pos - 2 THEN t[i + 1] ELSE t[i]]
    BY <1>1 DEF Shifted
  <2>2. new = [s EXCEPT ![pos - 1] = entry]
    OBVIOUS
  <2> HIDE DEF s, new
  <2>3. new = [i \in 0 .. n - 1 |-> IF i = pos - 1 THEN entry ELSE s[i]]
    BY <1>3, <2>2, <2>1
  <2>4. \A i \in h .. pos - 2 : i \in 0 .. n - 1 /\ i # pos - 1 /\ i + 1 \in h + 1 .. n - 1
    BY <1>1, <1>3
  <2>5. \A i \in 0 .. n - 1 : i < h \/ i >= pos => i # pos - 1 /\ i \notin h .. pos - 2
    BY <1>1, <1>3
  <2> QED
    BY <1>3, <2>1, <2>3, <2>4, <2>5
<1> HIDE DEF new
<1>6. ASSUME NEW i \in 0 .. n - 1 PROVE new[i] \in Entry \cup {Free}
  BY <1>1, <1>2, <1>3, <1>5
<1>7. new \in [0 .. n - 1 -> Entry \cup {Free}]
  BY <1>5, <1>6
<1>8. ASSUME NEW i \in 0 .. n - 1 PROVE i \in Used(new) <=> i \in Used(t) \cup {h}
  <2>1. i \in Used(new) <=> new[i] # Free
    BY <1>5 DEF Used
  <2>2. CASE i < h \/ i >= pos
    BY <1>1, <1>3, <1>5, <2>1, <2>2
  <2>3. CASE i \in h .. pos - 1
    <3>1. new[i] # Free
      BY <1>1, <1>2, <1>3, <1>4, <1>5, <2>3
    <3>2. i \in Used(t) \/ i = h
      BY <1>3, <1>4, <2>3
    <3> QED
      BY <2>1, <3>1, <3>2
  <2> QED
    BY <1>3, <2>2, <2>3
<1>9. Used(new) = Used(t) \cup {h}
  <2>1. Used(new) \subseteq 0 .. n - 1
    BY <1>5 DEF Used
  <2> QED
    BY <1>1, <1>3, <1>8, <2>1
<1>10. Makes(t, new, entry, pos, pos - 1, o)
  <2>1. \A i \in 0 .. n - 1 : o[i] \in 0 .. n - 1 /\ o[i] = IF i \in h .. pos - 2 THEN i + 1 ELSE i
    BY <1>1, <1>3
  <2>2. o \in [0 .. n - 1 -> 0 .. n - 1]
    BY <1>1, <2>1
  <2> HIDE DEF o
  <2>3. \A i \in 0 .. n - 1 : i # pos - 1 => /\ new[i] = t[o[i]]
                                             /\ i < pos - 1 => o[i] < pos
                                             /\ i > pos - 1 => o[i] >= pos
    BY <1>3, <1>5, <2>1
  <2>4. \A i, j \in 0 .. n - 1 : i < j /\ i # pos - 1 /\ j # pos - 1 => o[i] < o[j]
    BY <1>3, <2>1
  <2>5. ASSUME NEW m \in Used(t) PROVE \E i \in 0 .. n - 1 : i # pos - 1 /\ o[i] = m
    <3>1. m \in 0 .. n - 1 /\ m # h
      BY <1>1
    <3>2. CASE m < h \/ m >= pos
      BY <1>3, <2>1, <3>1, <3>2
    <3>3. CASE m \in h + 1 .. pos - 1
      <4>1. m - 1 \in 0 .. n - 1 /\ m - 1 # pos - 1 /\ m - 1 \in h .. pos - 2
        BY <1>1, <1>3, <3>1, <3>3
      <4>2. o[m - 1] = (m - 1) + 1
        BY <2>1, <4>1
      <4>3. o[m - 1] = m
        BY <3>1, <4>2
      <4> QED
        BY <4>1, <4>3
    <3> QED
      BY <1>3, <3>1, <3>2, <3>3
  <2> QED
    BY <1>1, <1>3, <1>5, <2>2, <2>3, <2>4, <2>5 DEF Makes
<1> HIDE DEF o
<1>11. new \in Table /\ Size(new) = n
  BY <1>1, <1>7, TableOfSize
<1>12. /\ Sorted(t, folds) /\ Between(t, entry.key, folds, pos, pos) => Sorted(new, folds)
       /\ Contents(new) = Contents(t) \cup {entry}
  BY <1>1, <1>5, <1>10, MadeFacts
<1>13. Filled(t, new, entry, pos, h, folds)
  BY <1>9, <1>11, <1>12 DEF Filled
<1> QED
  BY <1>13 DEF new

(* An insertion at the position the search gave, into a table with a       *)
(* hole.                                                                   *)
LEMMA InsertedFacts ==
    ASSUME NEW t \in Table, NEW pos \in 0 .. Size(t), NEW entry \in Entry,
           Used(t) # DOMAIN t, NEW folds
    PROVE  \E h : Filled(t, Inserted(t, pos, entry), entry, pos, h, folds)
<1> DEFINE holes == DOMAIN t \ Used(t)
           above == {i \in holes : i >= pos}
<1>1. /\ Size(t) \in Nat \ {0} /\ DOMAIN t = 0 .. Size(t) - 1
      /\ Used(t) \subseteq DOMAIN t /\ holes # {} /\ holes \subseteq 0 .. Size(t) - 1
  BY TableFacts
<1>2. CASE above # {}
  <2> DEFINE h == Min(above)
  <2>1. h \in above /\ \A i \in above : h <= i
    <3>1. above \subseteq Nat
      BY <1>1
    <3> HIDE DEF above
    <3> QED
      BY <1>2, <3>1, Smallest
  <2>2. Inserted(t, pos, entry) = [Shifted(t, pos + 1, h, -1) EXCEPT ![pos] = entry]
    BY <1>2, Zenon DEF Inserted
  <2>3. /\ h \in DOMAIN t /\ h \notin Used(t) /\ h >= pos
        /\ \A i \in DOMAIN t \ Used(t) : i >= pos => h <= i
    BY <2>1
  <2> HIDE DEF h
  <2>4. Filled(t, [Shifted(t, pos + 1, h, -1) EXCEPT ![pos] = entry], entry, pos, h, folds)
    BY <2>3, FilledFromBelow
  <2> QED
    BY <2>2, <2>4
<1>3. CASE above = {}
  <2> DEFINE h == Max(holes)
  <2>1. h \in holes /\ \A i \in holes : i <= h
    <3> HIDE DEF holes
    <3>1. Size(t) - 1 \in Nat
      BY <1>1
    <3> QED
      BY <1>1, <3>1, Largest
  <2>2. Inserted(t, pos, entry) = [Shifted(t, h, pos - 2, 1) EXCEPT ![pos - 1] = entry]
    BY <1>1, <1>3, Zenon DEF Inserted
  <2>3. /\ h \in DOMAIN t /\ h \notin Used(t) /\ h < pos
        /\ \A i \in DOMAIN t \ Used(t) : i <= h
    <3>1. ~(h >= pos) /\ h \in 0 .. Size(t) - 1
      BY <1>1, <1>3, <2>1
    <3>2. h < pos
      <4> HIDE DEF h
      <4> QED
        BY <1>1, <3>1
    <3> QED
      BY <2>1, <3>2
  <2> HIDE DEF h
  <2>4. Filled(t, [Shifted(t, h, pos - 2, 1) EXCEPT ![pos - 1] = entry], entry, pos, h, folds)
    BY <2>3, FilledFromAbove
  <2> QED
    BY <2>2, <2>4
<1> QED
  BY <1>2, <1>3

-----------------------------------------------------------------------------
(* Growth: the entries in order, and spread over a larger table *)

Ordered(es, folds) ==
    \A a, b \in 1 .. Len(es) : a < b => Less(es[a].key, es[b].key, folds)

Elements(es) == {es[a] : a \in 1 .. Len(es)}

Lower(t, n) == {i \in Used(t) : i < n}

EntriesInv(t, folds, s, n) ==
    /\ s \in Seq(Entry)
    /\ Len(s) = Cardinality(Lower(t, n))
    /\ Elements(s) = {t[i] : i \in Lower(t, n)}
    /\ Sorted(t, folds) => Ordered(s, folds)

(* Append, by places. *)
LEMMA PushFacts ==
    ASSUME NEW S, NEW s \in Seq(S), NEW e \in S
    PROVE  /\ Append(s, e) \in Seq(S) /\ Len(s) \in Nat /\ Len(Append(s, e)) = Len(s) + 1
           /\ \A a \in 1 .. Len(s) : Append(s, e)[a] = s[a]
           /\ Append(s, e)[Len(s) + 1] = e
           /\ Elements(Append(s, e)) = Elements(s) \cup {e}
<1>1. /\ Append(s, e) \in Seq(S) /\ Len(s) \in Nat /\ Len(Append(s, e)) = Len(s) + 1
      /\ \A a \in 1 .. Len(s) : Append(s, e)[a] = s[a]
      /\ Append(s, e)[Len(s) + 1] = e
  BY AppendProperties, LenProperties
<1> DEFINE r == Append(s, e)
<1> HIDE DEF r
<1>2. \A a \in 1 .. Len(s) + 1 : a \in 1 .. Len(s) \/ a = Len(s) + 1
  BY <1>1
<1>3. 1 .. Len(s) \subseteq 1 .. Len(s) + 1 /\ Len(s) + 1 \in 1 .. Len(s) + 1
  BY <1>1
<1>4. Elements(r) = Elements(s) \cup {e}
  BY <1>1, <1>2, <1>3 DEF Elements, r
<1> QED
  BY <1>1, <1>4 DEF r

(* The walk over the table takes one more place. *)
LEMMA EntriesStep ==
    ASSUME NEW t \in Table, NEW folds, NEW n \in 0 .. Size(t) - 1, NEW s,
           EntriesInv(t, folds, s, n)
    PROVE  EntriesInv(t, folds, IF t[n] = Free THEN s ELSE Append(s, t[n]), n + 1)
<1>1. /\ Size(t) \in Nat /\ DOMAIN t = 0 .. Size(t) - 1 /\ IsFiniteSet(Used(t))
      /\ \A i \in Used(t) : i \in Nat /\ t[i] \in Entry
      /\ n \in Used(t) <=> t[n] # Free
  BY TableFacts
<1>2. \A i \in Used(t) : i < n + 1 <=> i < n \/ i = n
  BY <1>1
<1>3. CASE t[n] = Free
  <2>1. Lower(t, n + 1) = Lower(t, n)
    BY <1>1, <1>2, <1>3 DEF Lower
  <2> QED
    BY <1>3, <2>1 DEF EntriesInv
<1>4. CASE t[n] # Free
  <2>1. Lower(t, n + 1) = Lower(t, n) \cup {n} /\ n \notin Lower(t, n)
    BY <1>1, <1>2, <1>4 DEF Lower
  <2>2. IsFiniteSet(Lower(t, n))
    <3>1. Lower(t, n) \in SUBSET Used(t)
      BY DEF Lower
    <3> QED
      BY <1>1, <3>1, FS_Subset
  <2>3. Cardinality(Lower(t, n + 1)) = Cardinality(Lower(t, n)) + 1
    BY <2>1, <2>2, FS_AddElement
  <2>4. s \in Seq(Entry) /\ t[n] \in Entry
    BY <1>1, <1>4 DEF EntriesInv
  <2> DEFINE r == Append(s, t[n])
  <2>5. /\ r \in Seq(Entry) /\ Len(s) \in Nat /\ Len(r) = Len(s) + 1
        /\ \A a \in 1 .. Len(s) : r[a] = s[a]
        /\ r[Len(s) + 1] = t[n]
        /\ Elements(r) = Elements(s) \cup {t[n]}
    BY <2>4, PushFacts
  <2> HIDE DEF r
  <2>6. Elements(r) = {t[i] : i \in Lower(t, n + 1)}
    BY <2>1, <2>5 DEF EntriesInv
  <2>7. ASSUME Sorted(t, folds), NEW a \in 1 .. Len(r), NEW b \in 1 .. Len(r), a < b
        PROVE  Less(r[a].key, r[b].key, folds)
    <3>1. a \in 1 .. Len(s) /\ r[a] = s[a] /\ (b \in 1 .. Len(s) \/ b = Len(s) + 1)
      BY <2>5, <2>7
    <3>2. CASE b \in 1 .. Len(s)
      BY <2>5, <2>7, <3>1, <3>2 DEF EntriesInv, Ordered
    <3>3. CASE b = Len(s) + 1
      <4>1. s[a] \in {t[i] : i \in Lower(t, n)}
        BY <3>1 DEF EntriesInv, Elements
      <4>2. PICK i \in Lower(t, n) : s[a] = t[i]
        BY <4>1
      <4>3. i \in Used(t) /\ i < n /\ n \in Used(t)
        BY <1>1, <1>4, <4>2 DEF Lower
      <4> QED
        BY <2>5, <2>7, <3>1, <3>3, <4>2, <4>3 DEF Sorted
    <3> QED
      BY <3>1, <3>2, <3>3
  <2>8. EntriesInv(t, folds, r, n + 1)
    BY <2>3, <2>5, <2>6, <2>7 DEF EntriesInv, Ordered
  <2> QED
    BY <1>4, <2>8 DEF r
<1> QED
  BY <1>3, <1>4

(* The walk gives the entries of the table, in its order. *)
LEMMA EntriesFacts ==
    ASSUME NEW t \in Table, NEW folds
    PROVE  /\ Entries(t) \in Seq(Entry) /\ Len(Entries(t)) = Cardinality(Used(t))
           /\ Elements(Entries(t)) = Contents(t)
           /\ Sorted(t, folds) => Ordered(Entries(t), folds)
<1> DEFINE N == Size(t)
           One(s, n) == IF t[n - 1] = Free THEN s ELSE Append(s, t[n - 1])
           F(f) == [n \in 0 .. N |-> IF n = 0 THEN <<>> ELSE One(f[n - 1], n)]
           upTo == CHOOSE f : f = F(f)
           step == [n \in 1 .. N |-> [s \in Seq(Entry) |-> One(s, n)]]
<1>1. Entries(t) = upTo[N]
  BY DEF Entries
<1>2. N \in Nat \ {0} /\ t \in [0 .. N - 1 -> Entry \cup {Free}]
  BY TableFacts
<1>3. \A n \in 1 .. N : n - 1 \in 0 .. N - 1 /\ n - 1 \in 0 .. N /\ n - 1 + 1 = n
  BY <1>2
<1> HIDE DEF N
<1>4. \A n \in 1 .. N : \A s \in Seq(Entry) : One(s, n) \in Seq(Entry)
  <2>1. ASSUME NEW n \in 1 .. N, NEW s \in Seq(Entry), t[n - 1] # Free
        PROVE  Append(s, t[n - 1]) \in Seq(Entry)
    <3>1. t[n - 1] \in Entry
      BY <1>2, <1>3, <2>1
    <3> QED
      BY <3>1, AppendProperties
  <2> QED
    BY <2>1
<1> HIDE DEF One
<1>5. IsLoop(N, Seq(Entry), <<>>, step)
  <2>1. <<>> \in Seq(Entry)
    OBVIOUS
  <2>2. step \in [1 .. N -> [Seq(Entry) -> Seq(Entry)]]
    BY <1>4
  <2> HIDE DEF step
  <2> QED
    BY <1>2, <2>1, <2>2 DEF IsLoop
<1>6. PICK f : Follows(f, N, Seq(Entry), <<>>, step)
  BY <1>5, Loop, Zenon
<1>7. /\ f \in [0 .. N -> Seq(Entry)] /\ f[0] = <<>>
      /\ \A n \in 1 .. N : f[n] = One(f[n - 1], n)
  <2>1. /\ f \in [0 .. N -> Seq(Entry)] /\ f[0] = <<>>
        /\ \A n \in 1 .. N : f[n] = step[n][f[n - 1]]
    BY <1>6 DEF Follows
  <2> QED
    BY <1>3, <2>1
<1>8. f = F(f)
  BY <1>2, <1>7
<1> HIDE DEF step
<1>9. upTo = F(upTo)
  BY <1>8
<1> HIDE DEF upTo
<1>10. upTo[0] = <<>> /\ \A n \in 1 .. N : upTo[n] = One(upTo[n - 1], n)
  BY <1>2, <1>9
<1> DEFINE S == {n \in 0 .. N : EntriesInv(t, folds, upTo[n], n)}
<1>11. 0 \in S
  <2>1. Lower(t, 0) = {}
    BY TableFacts DEF Lower
  <2>2. EntriesInv(t, folds, <<>>, 0)
    BY <2>1, FS_EmptySet DEF EntriesInv, Elements, Ordered
  <2> QED
    BY <1>2, <1>10, <2>2
<1>12. ASSUME NEW n \in 1 .. N, n - 1 \in S PROVE n \in S
  <2>1. EntriesInv(t, folds, upTo[n - 1], n - 1) /\ n - 1 \in 0 .. Size(t) - 1 /\ n - 1 + 1 = n
    BY <1>3, <1>12 DEF N
  <2>2. EntriesInv(t, folds, One(upTo[n - 1], n), n)
    BY <2>1, EntriesStep DEF One
  <2> QED
    BY <1>2, <1>10, <2>2
<1>13. \A n \in 0 .. N : n \in S
  <2> HIDE DEF S
  <2> QED
    BY <1>2, <1>11, <1>12, Turns
<1>14. EntriesInv(t, folds, upTo[N], N)
  BY <1>2, <1>13
<1>15. Lower(t, N) = Used(t)
  BY TableFacts DEF Lower, N
<1> QED
  BY <1>1, <1>14, <1>15 DEF EntriesInv, Contents

(* Numbers divided by a number. *)
LEMMA Division ==
    ASSUME NEW a \in Nat, NEW c \in Nat \ {0}
    PROVE  a \div c \in Nat /\ c * (a \div c) <= a /\ a < c * (a \div c) + c
OBVIOUS

(* Products keep the order. *)
LEMMA Times ==
    ASSUME NEW x \in Nat, NEW y \in Nat, NEW c \in Nat, x <= y
    PROVE  c * x <= c * y
OBVIOUS

(* A larger quotient when the number is larger by the divisor. *)
LEMMA DivisionLess ==
    ASSUME NEW a \in Nat, NEW b \in Nat, NEW c \in Nat \ {0}, a + c <= b
    PROVE  a \div c < b \div c
<1> DEFINE p == a \div c
           q == b \div c
<1>1. p \in Nat /\ q \in Nat /\ c * p <= a /\ b < c * q + c
  BY Division
<1> HIDE DEF p, q
<1>2. c * p \in Nat /\ c * q \in Nat
  BY <1>1
<1>3. c * p < c * q
  BY <1>1, <1>2
<1>4. p >= q => c * q <= c * p
  BY <1>1, Times
<1>5. p < q
  BY <1>1, <1>2, <1>3, <1>4
<1> QED
  BY <1>5 DEF p, q

(* Entries spread over a table have places of their own, in their order. *)
LEMMA Places ==
    ASSUME NEW n \in Nat \ {0}, NEW c \in Nat \ {0}, c <= n, NEW e \in 1 .. c
    PROVE  /\ ((e - 1) * n) \div c \in 0 .. n - 1
           /\ \A f \in 1 .. c : e < f => ((e - 1) * n) \div c < ((f - 1) * n) \div c
<1>1. e - 1 \in Nat /\ e - 1 < c /\ e \in Nat
  OBVIOUS
<1>2. \A x \in Nat : n * x \in Nat /\ x * n = n * x
  OBVIOUS
<1>3. n * (e - 1) + n = n * e
  BY <1>1
<1>4. n * e <= n * c
  BY <1>1, Times
<1>5. (e - 1) * n \in Nat /\ (e - 1) * n + n <= n * c
  BY <1>1, <1>2, <1>3, <1>4
<1> DEFINE q == ((e - 1) * n) \div c
<1>6. q \in Nat /\ c * q <= (e - 1) * n
  BY <1>5, Division
<1>7. q < n
  <2> HIDE DEF q
  <2>1. c * q + n <= n * c
    BY <1>5, <1>6, <1>2
  <2>2. q >= n => c * n <= c * q
    BY <1>6, Times
  <2>3. c * n = n * c /\ c * q \in Nat /\ c * n \in Nat
    BY <1>6
  <2> QED
    BY <1>6, <2>1, <2>2, <2>3
<1>8. ASSUME NEW f \in 1 .. c, e < f
      PROVE  q < ((f - 1) * n) \div c
  <2>1. f - 1 \in Nat /\ e <= f - 1
    BY <1>1, <1>8
  <2>2. n * e <= n * (f - 1)
    BY <1>1, <2>1, Times
  <2>3. (f - 1) * n \in Nat /\ (e - 1) * n + c <= (f - 1) * n
    BY <1>1, <1>2, <1>3, <1>5, <2>1, <2>2
  <2> QED
    BY <1>5, <2>3, DivisionLess
<1> QED
  BY <1>6, <1>7, <1>8

(* Spreading keeps the entries and their order. *)
LEMMA SpreadFacts ==
    ASSUME NEW es \in Seq(Entry), NEW n \in Nat \ {0}, NEW c \in Nat,
           Len(es) <= c, c <= n, NEW folds
    PROVE  LET t == Spread(es, n, c)
           IN /\ t \in Table /\ Size(t) = n
              /\ Cardinality(Used(t)) = Len(es)
              /\ Contents(t) = Elements(es)
              /\ Ordered(es, folds) => Sorted(t, folds)
<1> DEFINE L == Len(es)
           t == Spread(es, n, c)
           Place(e) == ((e - 1) * n) \div c
           At(i) == {e \in DOMAIN es : Place(e) = i}
<1>1. L \in Nat /\ DOMAIN es = 1 .. L /\ \A e \in 1 .. L : es[e] \in Entry /\ es[e] # Free
  BY LenProperties, ElementOfSeq, EntryIsNoHole
<1>2. t = [i \in 0 .. n - 1 |-> IF At(i) = {} THEN Free ELSE es[Min(At(i))]]
  BY DEF Spread
<1> HIDE DEF L, t
<1>3. \A e \in 1 .. L : /\ Place(e) \in 0 .. n - 1
                        /\ \A f \in 1 .. L : e < f => Place(e) < Place(f)
  <2>1. ASSUME NEW e \in 1 .. L
        PROVE  /\ Place(e) \in 0 .. n - 1
               /\ \A f \in 1 .. L : e < f => Place(e) < Place(f)
    <3>1. c \in Nat \ {0} /\ e \in 1 .. c /\ \A f \in 1 .. L : f \in 1 .. c
      BY <1>1 DEF L
    <3>2. /\ Place(e) \in 0 .. n - 1
          /\ \A f \in 1 .. c : e < f => Place(e) < Place(f)
      BY <3>1, Places
    <3> HIDE DEF Place
    <3> QED
      BY <3>1, <3>2
  <2> QED
    BY <2>1
<1> HIDE DEF Place
<1>4. ASSUME NEW e \in 1 .. L, NEW f \in 1 .. L, Place(e) = Place(f)
      PROVE  e = f
  <2>1. Place(e) \in Nat /\ ~(e < f) /\ ~(f < e)
    BY <1>3, <1>4
  <2> QED
    BY <1>1, <2>1
<1>5. ASSUME NEW e \in 1 .. L PROVE t[Place(e)] = es[e]
  <2>1. At(Place(e)) = {e}
    BY <1>1, <1>4, <1>5
  <2>2. Min({e}) = e
    <3>1. {e} \subseteq Nat /\ {e} # {}
      BY <1>1
    <3>2. Min({e}) \in {e}
      BY <3>1, Smallest
    <3> QED
      BY <3>2
  <2> HIDE DEF At
  <2> QED
    BY <1>2, <1>3, <2>1, <2>2
<1>6. ASSUME NEW i \in 0 .. n - 1, \A e \in 1 .. L : Place(e) # i PROVE t[i] = Free
  <2>1. At(i) = {}
    BY <1>1, <1>6
  <2> HIDE DEF At
  <2> QED
    BY <1>2, <2>1
<1>7. DOMAIN t = 0 .. n - 1 /\ t = [i \in DOMAIN t |-> t[i]]
  <2> HIDE DEF At
  <2> QED
    BY <1>2
<1> HIDE DEF At
<1>8. ASSUME NEW i \in 0 .. n - 1 PROVE t[i] \in Entry \cup {Free}
  BY <1>1, <1>5, <1>6
<1>9. t \in Table /\ Size(t) = n
  <2>1. t \in [0 .. n - 1 -> Entry \cup {Free}]
    BY <1>7, <1>8
  <2> QED
    BY <2>1, TableOfSize
<1>10. Used(t) = {Place(e) : e \in 1 .. L}
  <2>1. \A e \in 1 .. L : Place(e) \in Used(t)
    BY <1>1, <1>3, <1>5, <1>7 DEF Used
  <2>2. \A i \in Used(t) : \E e \in 1 .. L : Place(e) = i
    BY <1>6, <1>7 DEF Used
  <2> QED
    BY <2>1, <2>2
<1>11. Cardinality(Used(t)) = L
  <2> DEFINE b == [e \in 1 .. L |-> Place(e)]
  <2>1. b \in [1 .. L -> Used(t)]
    BY <1>10
  <2>2. \A e, f \in 1 .. L : b[e] = b[f] => e = f
    BY <1>4
  <2>3. \A i \in Used(t) : \E e \in 1 .. L : b[e] = i
    BY <1>10
  <2>4. b \in Bijection(1 .. L, Used(t))
    <3> HIDE DEF b
    <3>1. b \in Injection(1 .. L, Used(t))
      BY <2>1, <2>2 DEF Injection, IsInjective
    <3>2. b \in Surjection(1 .. L, Used(t))
      BY <2>1, <2>3 DEF Surjection
    <3> QED
      BY <3>1, <3>2 DEF Bijection
  <2>5. ExistsBijection(1 .. L, Used(t))
    BY <2>4 DEF ExistsBijection
  <2>6. IsFiniteSet(1 .. L) /\ Cardinality(1 .. L) = L
    <3>1. 1 \in Int /\ L \in Int
      BY <1>1
    <3>2. IsFiniteSet(1 .. L) /\ Cardinality(1 .. L) = IF 1 > L THEN 0 ELSE L - 1 + 1
      BY <3>1, FS_Interval
    <3> QED
      BY <1>1, <3>2
  <2> QED
    BY <2>5, <2>6, FS_Bijection
<1>12. Contents(t) = Elements(es)
  BY <1>5, <1>10 DEF Contents, Elements, L
<1>13. ASSUME Ordered(es, folds), NEW i \in Used(t), NEW j \in Used(t), i < j
       PROVE  Less(t[i].key, t[j].key, folds)
  <2>1. PICK e \in 1 .. L : Place(e) = i
    BY <1>10
  <2>2. PICK f \in 1 .. L : Place(f) = j
    BY <1>10
  <2>3. e < f
    <3>1. ~(f < e) /\ f # e
      <4>1. Place(e) \in Nat /\ Place(f) \in Nat
        BY <1>3
      <4> QED
        BY <1>3, <1>13, <2>1, <2>2, <4>1
    <3> QED
      BY <1>1, <3>1
  <2> QED
    BY <1>5, <1>13, <2>1, <2>2, <2>3 DEF Ordered, L
<1> QED
  BY <1>9, <1>11, <1>12, <1>13 DEF Sorted, L, t

-----------------------------------------------------------------------------
(* Statements *)

HashState == [table : Table, count : Nat, fold : BOOLEAN]

(* The count is that of the entries. *)
Sound(s) == s \in HashState /\ s.count = Cardinality(Used(s.table))

InOrder(s) == Sorted(s.table, s.fold)

(* A new hash is empty and sound. *)
LEMMA NewFacts ==
    ASSUME NEW n \in Nat, NEW folds \in BOOLEAN
    PROVE  LET s == NewHash(n, folds)
           IN /\ Sound(s) /\ InOrder(s) /\ s.fold = folds
              /\ Size(s.table) = GetInitialTableSize(n)
              /\ Contents(s.table) = {}
<1> DEFINE size == GetInitialTableSize(n)
           t == Empty(size)
           s == NewHash(n, folds)
<1>1. size \in Nat \ {0}
  BY InitialSize
<1>2. s = [table |-> t, count |-> 0, fold |-> folds]
  BY DEF NewHash
<1> HIDE DEF size, s
<1>3. t \in [0 .. size - 1 -> Entry \cup {Free}] /\ Used(t) = {}
  BY DEF Empty, Used
<1> HIDE DEF t
<1>4. t \in Table /\ Size(t) = size
  BY <1>1, <1>3, TableOfSize
<1>5. Sound(s)
  BY <1>2, <1>3, <1>4, FS_EmptySet DEF Sound, HashState
<1>6. InOrder(s) /\ Contents(s.table) = {}
  BY <1>2, <1>3 DEF InOrder, Sorted, Contents
<1> QED
  BY <1>2, <1>4, <1>5, <1>6 DEF size, s

(* In a table in order there is one place for a key. *)
LEMMA OnePlace ==
    ASSUME NEW t \in Table, NEW folds, Sorted(t, folds), NEW i \in Used(t), NEW j \in Used(t),
           Same(t[i].key, t[j].key, folds)
    PROVE  i = j
<1>1. /\ i \in Nat /\ j \in Nat
      /\ Rank(t[i].key, folds) \in Nat /\ Rank(t[j].key, folds) \in Nat
  BY TableFacts, RankNat
<1>2. ~(i < j) /\ ~(j < i)
  BY <1>1 DEF Sorted, Less, Same
<1> QED
  BY <1>1, <1>2

(* A value is replaced, and its key stays where it is. *)
LEMMA ReplacedFacts ==
    ASSUME NEW t \in Table, NEW ix \in Used(t), NEW v \in Values, NEW folds
    PROVE  LET r == [t EXCEPT ![ix].value = v]
           IN /\ r \in Table /\ Size(r) = Size(t) /\ Used(r) = Used(t)
              /\ Sorted(t, folds) =>
                    /\ Sorted(r, folds)
                    /\ Contents(r) = (Contents(t) \ {t[ix]}) \cup {[t[ix] EXCEPT !.value = v]}
<1> DEFINE n == Size(t)
           e == [t[ix] EXCEPT !.value = v]
           r == [t EXCEPT ![ix].value = v]
<1>1. /\ n \in Nat \ {0} /\ DOMAIN t = 0 .. n - 1
      /\ t \in [0 .. n - 1 -> Entry \cup {Free}] /\ Used(t) \subseteq 0 .. n - 1
      /\ \A i \in Used(t) : t[i] \in Entry
  BY TableFacts
<1>2. e \in Entry /\ e.key = t[ix].key /\ e # Free
  <2>1. t[ix] \in [key : Keys, value : Values]
    BY <1>1 DEF Entry
  <2>2. e \in Entry /\ e.key = t[ix].key
    BY <2>1 DEF Entry
  <2> QED
    BY <2>2, EntryIsNoHole
<1>3. r = [i \in 0 .. n - 1 |-> IF i = ix THEN e ELSE t[i]]
  BY <1>1
<1> HIDE DEF n, e, r
<1>4. r \in [0 .. n - 1 -> Entry \cup {Free}] /\ Used(r) = Used(t)
  BY <1>1, <1>2, <1>3 DEF Used
<1>5. r \in Table /\ Size(r) = n
  BY <1>1, <1>4, TableOfSize
<1>6. \A i \in Used(t) : r[i].key = t[i].key /\ r[i] = IF i = ix THEN e ELSE t[i]
  BY <1>1, <1>2, <1>3
<1>7. Sorted(t, folds) => Sorted(r, folds)
  BY <1>4, <1>6 DEF Sorted
<1>8. ASSUME Sorted(t, folds)
      PROVE  Contents(r) = (Contents(t) \ {t[ix]}) \cup {e}
  <2>1. \A i \in Used(t) : t[i] = t[ix] => i = ix
    BY <1>8, OnePlace DEF Same
  <2> QED
    BY <1>4, <1>6, <2>1 DEF Contents
<1> QED
  BY <1>4, <1>5, <1>7, <1>8 DEF r, n, e

(* An entry becomes a hole. *)
LEMMA EmptiedFacts ==
    ASSUME NEW t \in Table, NEW ix \in Used(t), NEW folds
    PROVE  LET r == [t EXCEPT ![ix] = Free]
           IN /\ r \in Table /\ Size(r) = Size(t)
              /\ Cardinality(Used(t)) \in Nat /\ Cardinality(Used(t)) > 0
              /\ Cardinality(Used(r)) = Cardinality(Used(t)) - 1
              /\ Sorted(t, folds) =>
                    Sorted(r, folds) /\ Contents(r) = Contents(t) \ {t[ix]}
<1> DEFINE n == Size(t)
           r == [t EXCEPT ![ix] = Free]
<1>1. /\ n \in Nat \ {0} /\ DOMAIN t = 0 .. n - 1
      /\ t \in [0 .. n - 1 -> Entry \cup {Free}] /\ Used(t) \subseteq 0 .. n - 1
      /\ IsFiniteSet(Used(t)) /\ Cardinality(Used(t)) \in Nat
  BY TableFacts
<1>2. r = [i \in 0 .. n - 1 |-> IF i = ix THEN Free ELSE t[i]]
  BY <1>1
<1> HIDE DEF n, r
<1>3. r \in [0 .. n - 1 -> Entry \cup {Free}] /\ Used(r) = Used(t) \ {ix}
  BY <1>1, <1>2 DEF Used
<1>4. r \in Table /\ Size(r) = n
  BY <1>1, <1>3, TableOfSize
<1>5. Cardinality(Used(t) \ {ix}) = Cardinality(Used(t)) - 1
  BY <1>1, FS_RemoveElement
<1>6. Cardinality(Used(t)) # 0
  BY <1>1, FS_EmptySet
<1>7. \A i \in Used(r) : i \in Used(t) /\ i # ix /\ r[i] = t[i]
  BY <1>1, <1>2, <1>3
<1>8. Sorted(t, folds) => Sorted(r, folds)
  BY <1>7 DEF Sorted
<1>9. ASSUME Sorted(t, folds) PROVE Contents(r) = Contents(t) \ {t[ix]}
  <2>1. \A i \in Used(t) : t[i] = t[ix] => i = ix
    BY <1>9, OnePlace DEF Same
  <2> QED
    BY <1>3, <1>7, <2>1 DEF Contents
<1>10. /\ Cardinality(Used(t)) \in Nat /\ Cardinality(Used(t)) > 0
       /\ Cardinality(Used(r)) = Cardinality(Used(t)) - 1
  BY <1>1, <1>3, <1>5, <1>6
<1> QED
  BY <1>4, <1>8, <1>9, <1>10 DEF r, n

(* Growth keeps the entries and their order, and there is a hole           *)
(* afterwards.                                                             *)
LEMMA GrownFacts ==
    ASSUME NEW s, Sound(s)
    PROVE  LET t == Grown(s)
           IN /\ t \in Table /\ Cardinality(Used(t)) = s.count /\ Used(t) # DOMAIN t
              /\ Contents(t) = Contents(s.table)
              /\ InOrder(s) => Sorted(t, s.fold)
              /\ s.count = 0 => t = s.table
<1> DEFINE t == s.table
           n == Size(t)
           c == s.count
           es == Entries(t)
           folds == s.fold
<1>1. /\ t \in Table /\ c \in Nat /\ c = Cardinality(Used(t)) /\ folds \in BOOLEAN
  BY DEF Sound, HashState
<1>2. n \in Nat \ {0} /\ DOMAIN t = 0 .. n - 1 /\ c <= n /\ Cardinality(DOMAIN t) = n
  BY <1>1, TableFacts DEF Size
<1>3. IsCrowded(n, c) <=> n <= (c * 10) \div 8
  BY DEF IsCrowded
<1>4. /\ c <= (c * 10) \div 8
      /\ c = 0 => (c * 10) \div 8 = 0
  <2>1. \A x \in Nat : x <= (x * 10) \div 8 /\ (x = 0 => (x * 10) \div 8 = 0)
    OBVIOUS
  <2> QED
    BY <1>1, <2>1
<1>5. CASE IsCrowded(n, c)
  <2>1. Grown(s) = Spread(es, 2 * n, c)
    BY <1>5 DEF Grown
  <2>2. /\ es \in Seq(Entry) /\ Len(es) = c /\ Elements(es) = Contents(t)
        /\ Sorted(t, folds) => Ordered(es, folds)
    BY <1>1, EntriesFacts
  <2> HIDE DEF es, c, n, t, folds
  <2>3. 2 * n \in Nat \ {0} /\ c <= 2 * n /\ c < 2 * n /\ Len(es) <= c
    BY <1>1, <1>2, <2>2
  <2> DEFINE g == Spread(es, 2 * n, c)
  <2>4. /\ g \in Table /\ Size(g) = 2 * n
        /\ Cardinality(Used(g)) = Len(es)
        /\ Contents(g) = Elements(es)
        /\ Ordered(es, folds) => Sorted(g, folds)
    BY <1>1, <2>2, <2>3, SpreadFacts
  <2> HIDE DEF g
  <2>5. Used(g) # DOMAIN g
    BY <1>1, <1>2, <2>2, <2>3, <2>4 DEF Size
  <2>6. c # 0
    BY <1>2, <1>3, <1>4, <1>5
  <2> QED
    BY <2>1, <2>2, <2>4, <2>5, <2>6 DEF g, c, t, InOrder, folds
<1>6. CASE ~IsCrowded(n, c)
  <2>1. Grown(s) = t
    BY <1>6 DEF Grown
  <2>2. c < n
    BY <1>1, <1>2, <1>3, <1>4, <1>6
  <2>3. Used(t) # DOMAIN t
    BY <1>1, <1>2, <2>2
  <2> QED
    BY <1>1, <2>1, <2>3 DEF InOrder
<1> QED
  BY <1>5, <1>6

(* What an insertion does to the entries, KeyMap tells. *)
LEMMA PutFacts ==
    ASSUME NEW m, NEW e, NEW folds
    PROVE  /\ (\A d \in m : ~Same(d.key, e.key, folds)) =>
                Abstract!Put(m, e, folds) = m \cup {e}
           /\ \A o \in m : Same(o.key, e.key, folds)
                           /\ (\A d \in m : Same(d.key, e.key, folds) => d = o) =>
                Abstract!Put(m, e, folds) = (m \ {o}) \cup {[o EXCEPT !.value = e.value]}
<1> DEFINE old == Abstract!At(m, e.key, folds)
<1>1. Abstract!Put(m, e, folds) =
        (m \ old) \cup (IF old = {} THEN {e} ELSE {[o EXCEPT !.value = e.value] : o \in old})
  BY DEF Abstract!Put
<1>2. old = {d \in m : Same(d.key, e.key, folds)}
  BY DEF Abstract!At, Abstract!Same, Same, Rank
<1> HIDE DEF old
<1>3. ASSUME \A d \in m : ~Same(d.key, e.key, folds)
      PROVE  Abstract!Put(m, e, folds) = m \cup {e}
  <2>1. old = {}
    BY <1>2, <1>3
  <2> QED
    BY <1>1, <2>1
<1>4. ASSUME NEW o \in m, Same(o.key, e.key, folds),
             \A d \in m : Same(d.key, e.key, folds) => d = o
      PROVE  Abstract!Put(m, e, folds) = (m \ {o}) \cup {[o EXCEPT !.value = e.value]}
  <2>1. old = {o}
    BY <1>2, <1>4
  <2> QED
    BY <1>1, <2>1
<1> QED
  BY <1>3, <1>4

Inserts(s, entry, r) ==
    /\ Sound(r) /\ r.fold = s.fold
    /\ InOrder(s) =>
        /\ InOrder(r)
        /\ Contents(r.table) = Abstract!Put(Contents(s.table), entry, s.fold)

(* The first entry goes to the middle. *)
LEMMA InsertIntoEmpty ==
    ASSUME NEW s, Sound(s), NEW entry \in Entry, s.count = 0
    PROVE  Inserts(s, entry, InsertIntoHashTable(s, entry))
<1> DEFINE t == s.table
           n == Size(t)
           p == n \div 2
           u == [t EXCEPT ![p] = entry]
           r == InsertIntoHashTable(s, entry)
<1>1. /\ t \in Table /\ s.fold \in BOOLEAN /\ s.count \in Nat /\ s \in HashState
      /\ Cardinality(Used(t)) = 0
  BY DEF Sound, HashState
<1>2. /\ n \in Nat \ {0} /\ DOMAIN t = 0 .. n - 1
      /\ t \in [0 .. n - 1 -> Entry \cup {Free}] /\ Used(t) = {}
  BY <1>1, TableFacts, FS_EmptySet
<1>3. r = [s EXCEPT !.table = u, !.count = 1]
  <2>1. Grown(s) = t
    BY GrownFacts
  <2> QED
    BY <2>1 DEF InsertIntoHashTable
<1>4. p \in 0 .. n - 1
  BY <1>2
<1> HIDE DEF t, n, p, r
<1>5. r \in [table : {u}, count : {1}, fold : {s.fold}]
  BY <1>1, <1>3 DEF HashState
<1>6. r.table = u /\ r.count = 1 /\ r.fold = s.fold
  BY <1>5
<1>7. u = [i \in 0 .. n - 1 |-> IF i = p THEN entry ELSE t[i]]
  BY <1>2, <1>4
<1> HIDE DEF u
<1>8. /\ u \in [0 .. n - 1 -> Entry \cup {Free}]
      /\ Used(u) = {p} /\ u[p] = entry
  BY <1>2, <1>4, <1>7, EntryIsNoHole DEF Used
<1>9. u \in Table
  BY <1>2, <1>8, TableOfSize
<1>10. Cardinality({p}) = 1
  BY FS_Singleton
<1>11. Sound(r)
  BY <1>1, <1>5, <1>6, <1>8, <1>9, <1>10 DEF Sound, HashState
<1>12. InOrder(r)
  <2>1. \A i, j \in {p} : ~(i < j)
    BY <1>4
  <2> QED
    BY <1>6, <1>8, <2>1 DEF InOrder, Sorted
<1>13. Contents(r.table) = Abstract!Put(Contents(t), entry, s.fold)
  <2>1. Contents(t) = {} /\ Contents(u) = {entry}
    BY <1>2, <1>8 DEF Contents
  <2>2. Abstract!Put({}, entry, s.fold) = {} \cup {entry}
    BY PutFacts
  <2> QED
    BY <1>6, <2>1, <2>2
<1> QED
  BY <1>6, <1>11, <1>12, <1>13 DEF Inserts, r, t

(* InsertIntoHashTable puts the pair into the map that the table holds. *)
LEMMA InsertFacts ==
    ASSUME NEW s, Sound(s), NEW entry \in Entry
    PROVE  Inserts(s, entry, InsertIntoHashTable(s, entry))
<1> DEFINE t == Grown(s)
           folds == s.fold
           found == HashIndex(t, entry.key, folds)
           r == InsertIntoHashTable(s, entry)
<1>1. /\ s \in HashState /\ s.count \in Nat /\ folds \in BOOLEAN
  BY DEF Sound, HashState
<1>2. /\ t \in Table /\ Cardinality(Used(t)) = s.count /\ Used(t) # DOMAIN t
      /\ Contents(t) = Contents(s.table)
      /\ InOrder(s) => Sorted(t, folds)
  BY GrownFacts
<1>3. entry.key \in Keys /\ entry.value \in Values
  BY EntryIsNoHole
<1>4. /\ found.at \in {"found", "absent"} /\ found.ix \in 0 .. Size(t)
      /\ found.at = "found" => found.ix \in Used(t) /\ Same(entry.key, t[found.ix].key, folds)
      /\ Sorted(t, folds) /\ found.at = "absent" =>
            Between(t, entry.key, folds, found.ix, found.ix)
  BY <1>2, <1>3, SearchFacts
<1>5. r = CASE s.count = 0 -> [s EXCEPT !.table[Size(t) \div 2] = entry, !.count = 1]
            [] s.count # 0 /\ found.at = "found" ->
                    [s EXCEPT !.table = [t EXCEPT ![found.ix].value = entry.value]]
            [] OTHER -> [s EXCEPT !.table = Inserted(t, found.ix, entry), !.count = @ + 1]
  BY DEF InsertIntoHashTable
<1>6. CASE s.count = 0
  BY <1>6, InsertIntoEmpty
<1>7. CASE s.count # 0 /\ found.at = "found"
  <2> DEFINE ix == found.ix
             u == [t EXCEPT ![ix].value = entry.value]
  <2>1. r = [s EXCEPT !.table = u]
    BY <1>5, <1>7
  <2>2. ix \in Used(t) /\ Same(entry.key, t[ix].key, folds)
    BY <1>4, <1>7
  <2> HIDE DEF r, t, found, folds, ix
  <2>3. /\ u \in Table /\ Used(u) = Used(t)
        /\ Sorted(t, folds) =>
              /\ Sorted(u, folds)
              /\ Contents(u) = (Contents(t) \ {t[ix]}) \cup {[t[ix] EXCEPT !.value = entry.value]}
    BY <1>2, <1>3, <2>2, ReplacedFacts
  <2> HIDE DEF u
  <2>4. r \in [table : {u}, count : {s.count}, fold : {folds}]
    BY <1>1, <2>1 DEF HashState, folds
  <2>5. r.table = u /\ r.count = s.count /\ r.fold = folds
    BY <2>4
  <2>6. Sound(r)
    BY <1>1, <1>2, <2>3, <2>4, <2>5 DEF Sound, HashState
  <2>7. ASSUME InOrder(s)
        PROVE  InOrder(r) /\ Contents(r.table) = Abstract!Put(Contents(t), entry, folds)
    <3>1. Sorted(t, folds)
      BY <1>2, <2>7
    <3>2. InOrder(r)
      BY <2>3, <2>5, <3>1 DEF InOrder
    <3>3. t[ix] \in Contents(t) /\ Same(t[ix].key, entry.key, folds)
      BY <2>2 DEF Contents, Same
    <3>4. ASSUME NEW d \in Contents(t), Same(d.key, entry.key, folds)
          PROVE  d = t[ix]
      <4>1. PICK i \in Used(t) : d = t[i]
        BY DEF Contents
      <4>2. Same(t[i].key, t[ix].key, folds)
        BY <2>2, <3>4, <4>1 DEF Same
      <4> QED
        BY <1>2, <2>2, <3>1, <4>1, <4>2, OnePlace
    <3>5. Abstract!Put(Contents(t), entry, folds) =
            (Contents(t) \ {t[ix]}) \cup {[t[ix] EXCEPT !.value = entry.value]}
      BY <3>3, <3>4, PutFacts
    <3> QED
      BY <2>3, <2>5, <3>1, <3>2, <3>5
  <2> QED
    BY <1>2, <2>5, <2>6, <2>7 DEF Inserts, r, folds
<1>8. CASE s.count # 0 /\ found.at = "absent"
  <2> DEFINE pos == found.ix
             u == Inserted(t, pos, entry)
  <2>1. r = [s EXCEPT !.table = u, !.count = s.count + 1]
    BY <1>5, <1>8
  <2>2. pos \in 0 .. Size(t) /\ (Sorted(t, folds) => Between(t, entry.key, folds, pos, pos))
    BY <1>4, <1>8
  <2> HIDE DEF r, t, found, folds, pos
  <2>3. PICK h : Filled(t, u, entry, pos, h, folds)
    BY <1>2, <2>2, InsertedFacts
  <2> HIDE DEF u
  <2>4. /\ u \in Table /\ h \notin Used(t) /\ Used(u) = Used(t) \cup {h}
        /\ Sorted(t, folds) => Sorted(u, folds)
        /\ Contents(u) = Contents(t) \cup {entry}
    BY <2>2, <2>3 DEF Filled
  <2>5. Cardinality(Used(u)) = s.count + 1
    <3>1. IsFiniteSet(Used(t))
      BY <1>2, TableFacts
    <3>2. Cardinality(Used(t) \cup {h}) = Cardinality(Used(t)) + 1
      BY <2>4, <3>1, FS_AddElement
    <3> QED
      BY <1>2, <2>4, <3>2
  <2>6. r \in [table : {u}, count : {s.count + 1}, fold : {folds}]
    BY <1>1, <2>1 DEF HashState, folds
  <2>7. r.table = u /\ r.count = s.count + 1 /\ r.fold = folds
    BY <2>6
  <2>8. Sound(r)
    <3>1. s.count + 1 \in Nat
      BY <1>1
    <3>2. r \in HashState
      BY <1>1, <2>4, <2>6, <3>1 DEF HashState
    <3> QED
      BY <2>5, <2>7, <3>2 DEF Sound
  <2>9. ASSUME InOrder(s)
        PROVE  InOrder(r) /\ Contents(r.table) = Abstract!Put(Contents(t), entry, folds)
    <3>1. Sorted(t, folds) /\ Between(t, entry.key, folds, pos, pos)
      BY <1>2, <2>2, <2>9
    <3>2. InOrder(r)
      BY <2>4, <2>7, <3>1 DEF InOrder
    <3>3. ASSUME NEW d \in Contents(t) PROVE ~Same(d.key, entry.key, folds)
      <4>1. PICK i \in Used(t) : d = t[i]
        BY DEF Contents
      <4>2. i \in Nat /\ pos \in Nat /\ t[i].key \in Keys
        BY <1>2, <2>2, TableFacts
      <4>3. Less(t[i].key, entry.key, folds) \/ Less(entry.key, t[i].key, folds)
        BY <3>1, <4>2 DEF Between
      <4> QED
        BY <1>3, <4>1, <4>2, <4>3, RankNat DEF Less, Same
    <3>4. Abstract!Put(Contents(t), entry, folds) = Contents(t) \cup {entry}
      BY <3>3, PutFacts
    <3> QED
      BY <2>4, <2>7, <3>2, <3>4
  <2> QED
    BY <1>2, <2>7, <2>8, <2>9 DEF Inserts, r, folds
<1> QED
  BY <1>4, <1>6, <1>7, <1>8

-----------------------------------------------------------------------------
(* Several keys *)

(* The hashes on the way of an insertion of several entries. *)
InsertsOnTheWay(into, s, batch) ==
    /\ into[0] = s
    /\ \A n \in 1 .. Len(batch) : into[n] = InsertIntoHashTable(into[n - 1], batch[n])
    /\ \A n \in 0 .. Len(batch) : Sound(into[n]) /\ into[n].fold = s.fold

(* The states on the way of InsertAll. *)
LEMMA InsertAllRuns ==
    ASSUME NEW s, Sound(s), NEW batch \in Seq(Entry)
    PROVE  \E into : InsertsOnTheWay(into, s, batch) /\ InsertAll(s, batch) = into[Len(batch)]
<1> DEFINE N == Len(batch)
           F(f) == [n \in 0 .. N |->
                        IF n = 0 THEN s ELSE InsertIntoHashTable(f[n - 1], batch[n])]
           upTo == CHOOSE f : f = F(f)
           T == {x \in HashState : Sound(x) /\ x.fold = s.fold}
           step == [n \in 1 .. N |-> [x \in T |-> InsertIntoHashTable(x, batch[n])]]
<1>1. InsertAll(s, batch) = upTo[N]
  BY DEF InsertAll
<1>2. N \in Nat /\ \A n \in 1 .. N : batch[n] \in Entry
  BY LenProperties, ElementOfSeq
<1>3. \A n \in 1 .. N : n - 1 \in 0 .. N
  BY <1>2
<1> HIDE DEF N
<1>4. \A n \in 1 .. N : \A x \in T : InsertIntoHashTable(x, batch[n]) \in T
  <2>1. ASSUME NEW n \in 1 .. N, NEW x, Sound(x), x.fold = s.fold
        PROVE  /\ Sound(InsertIntoHashTable(x, batch[n]))
               /\ InsertIntoHashTable(x, batch[n]).fold = s.fold
    <3>1. Inserts(x, batch[n], InsertIntoHashTable(x, batch[n]))
      BY <1>2, <2>1, InsertFacts
    <3> QED
      BY <2>1, <3>1 DEF Inserts
  <2> QED
    BY <2>1 DEF Sound
<1>5. s \in T
  BY DEF Sound
<1>6. \A x \in T : Sound(x) /\ x.fold = s.fold
  OBVIOUS
<1> HIDE DEF T
<1>7. IsLoop(N, T, s, step)
  BY <1>2, <1>4, <1>5 DEF IsLoop
<1>8. PICK f : Follows(f, N, T, s, step)
  BY <1>7, Loop, Zenon
<1>9. /\ f \in [0 .. N -> T] /\ f[0] = s
      /\ \A n \in 1 .. N : f[n] = InsertIntoHashTable(f[n - 1], batch[n])
  <2>1. f \in [0 .. N -> T] /\ f[0] = s /\ \A n \in 1 .. N : f[n] = step[n][f[n - 1]]
    BY <1>8 DEF Follows
  <2> QED
    BY <1>3, <2>1
<1> HIDE DEF step
<1>10. f = F(f)
  BY <1>2, <1>9
<1>11. upTo = F(upTo)
  BY <1>10
<1> HIDE DEF upTo
<1>12. upTo[0] = s /\ \A n \in 1 .. N : upTo[n] = InsertIntoHashTable(upTo[n - 1], batch[n])
  BY <1>2, <1>11
<1> DEFINE S == {n \in 0 .. N : upTo[n] \in T}
<1>13. 0 \in S
  BY <1>2, <1>5, <1>12
<1>14. \A n \in 1 .. N : n - 1 \in S => n \in S
  BY <1>2, <1>4, <1>12
<1>15. \A n \in 0 .. N : n \in S
  <2> HIDE DEF S
  <2> QED
    BY <1>2, <1>13, <1>14, Turns
<1>16. InsertsOnTheWay(upTo, s, batch)
  BY <1>6, <1>12, <1>15 DEF InsertsOnTheWay, N
<1> QED
  BY <1>1, <1>16 DEF N

(* The same of the pairs of KeyMap. *)
PutsOnTheWay(puts, m, batch, folds) ==
    /\ puts[0] = m
    /\ \A n \in 1 .. Len(batch) : puts[n] = Abstract!Put(puts[n - 1], batch[n], folds)
    /\ \A n \in 0 .. Len(batch) : puts[n] \subseteq Entry

(* A map of pairs stays one. *)
LEMMA PutKeepsEntries ==
    ASSUME NEW m, m \subseteq Entry, NEW e \in Entry, NEW folds
    PROVE  Abstract!Put(m, e, folds) \subseteq Entry
<1>1. \A o \in m : [o EXCEPT !.value = e.value] \in Entry
  BY DEF Entry
<1>2. Abstract!At(m, e.key, folds) \subseteq m
  BY DEF Abstract!At
<1> QED
  BY <1>1, <1>2 DEF Abstract!Put

(* The maps on the way of PutAll. *)
LEMMA PutAllRuns ==
    ASSUME NEW m, m \subseteq Entry, NEW batch \in Seq(Entry), NEW folds
    PROVE  \E puts : /\ PutsOnTheWay(puts, m, batch, folds)
                     /\ Abstract!PutAll(m, batch, folds) = puts[Len(batch)]
<1> DEFINE N == Len(batch)
           F(f) == [n \in 0 .. N |->
                        IF n = 0 THEN m ELSE Abstract!Put(f[n - 1], batch[n], folds)]
           upTo == CHOOSE f : f = F(f)
           T == SUBSET Entry
           step == [n \in 1 .. N |-> [x \in T |-> Abstract!Put(x, batch[n], folds)]]
<1>1. Abstract!PutAll(m, batch, folds) = upTo[N]
  BY DEF Abstract!PutAll
<1>2. N \in Nat /\ \A n \in 1 .. N : batch[n] \in Entry
  BY LenProperties, ElementOfSeq
<1>3. \A n \in 1 .. N : n - 1 \in 0 .. N
  BY <1>2
<1> HIDE DEF N
<1>4. \A n \in 1 .. N : \A x \in T : Abstract!Put(x, batch[n], folds) \in T
  BY <1>2, PutKeepsEntries
<1>5. m \in T
  OBVIOUS
<1>6. \A x \in T : x \subseteq Entry
  OBVIOUS
<1> HIDE DEF T
<1>7. IsLoop(N, T, m, step)
  BY <1>2, <1>4, <1>5 DEF IsLoop
<1>8. PICK f : Follows(f, N, T, m, step)
  BY <1>7, Loop, Zenon
<1>9. /\ f \in [0 .. N -> T] /\ f[0] = m
      /\ \A n \in 1 .. N : f[n] = Abstract!Put(f[n - 1], batch[n], folds)
  <2>1. f \in [0 .. N -> T] /\ f[0] = m /\ \A n \in 1 .. N : f[n] = step[n][f[n - 1]]
    BY <1>8 DEF Follows
  <2> QED
    BY <1>3, <2>1
<1> HIDE DEF step
<1>10. f = F(f)
  BY <1>2, <1>9
<1>11. upTo = F(upTo)
  BY <1>10
<1> HIDE DEF upTo
<1>12. upTo[0] = m /\ \A n \in 1 .. N : upTo[n] = Abstract!Put(upTo[n - 1], batch[n], folds)
  BY <1>2, <1>11
<1> DEFINE S == {n \in 0 .. N : upTo[n] \in T}
<1>13. 0 \in S
  BY <1>2, <1>5, <1>12
<1>14. \A n \in 1 .. N : n - 1 \in S => n \in S
  BY <1>2, <1>4, <1>12
<1>15. \A n \in 0 .. N : n \in S
  <2> HIDE DEF S
  <2> QED
    BY <1>2, <1>13, <1>14, Turns
<1>16. PutsOnTheWay(upTo, m, batch, folds)
  BY <1>6, <1>12, <1>15 DEF PutsOnTheWay, N
<1> QED
  BY <1>1, <1>16 DEF N

(* What several insertions do to the table and to its entries. *)
InsertsAll(s, batch, r) ==
    /\ Sound(r) /\ r.fold = s.fold
    /\ InOrder(s) =>
        /\ InOrder(r)
        /\ Contents(r.table) = Abstract!PutAll(Contents(s.table), batch, s.fold)

(* What a table holds are pairs. *)
LEMMA ContentsAreEntries ==
    ASSUME NEW t \in Table PROVE Contents(t) \subseteq Entry
BY TableFacts DEF Contents

(* Several insertions put several pairs. *)
LEMMA InsertAllFacts ==
    ASSUME NEW s, Sound(s), NEW batch \in Seq(Entry)
    PROVE  InsertsAll(s, batch, InsertAll(s, batch))
<1> DEFINE N == Len(batch)
           folds == s.fold
           m == Contents(s.table)
           r == InsertAll(s, batch)
<1>1. PICK into : InsertsOnTheWay(into, s, batch) /\ r = into[N]
  BY InsertAllRuns
<1>2. m \subseteq Entry
  BY ContentsAreEntries DEF Sound, HashState
<1>3. N \in Nat /\ \A n \in 1 .. N : batch[n] \in Entry
  BY LenProperties, ElementOfSeq
<1> HIDE DEF m, r
<1>4. PICK puts : PutsOnTheWay(puts, m, batch, folds) /\ Abstract!PutAll(m, batch, folds) = puts[N]
  BY <1>2, PutAllRuns
<1>5. /\ into[0] = s /\ \A n \in 1 .. N : into[n] = InsertIntoHashTable(into[n - 1], batch[n])
      /\ \A n \in 0 .. N : Sound(into[n]) /\ into[n].fold = folds
  BY <1>1 DEF InsertsOnTheWay
<1>6. puts[0] = m /\ \A n \in 1 .. N : puts[n] = Abstract!Put(puts[n - 1], batch[n], folds)
  BY <1>4 DEF PutsOnTheWay
<1> HIDE DEF N
<1>7. ASSUME InOrder(s)
      PROVE  InOrder(r) /\ Contents(r.table) = Abstract!PutAll(m, batch, folds)
  <2> DEFINE S == {n \in 0 .. N : InOrder(into[n]) /\ Contents(into[n].table) = puts[n]}
  <2>1. 0 \in S
    BY <1>3, <1>5, <1>6, <1>7 DEF m
  <2>2. ASSUME NEW n \in 1 .. N, n - 1 \in S PROVE n \in S
    <3>1. n - 1 \in 0 .. N /\ n \in 0 .. N
      BY <1>3
    <3>2. Sound(into[n - 1]) /\ into[n - 1].fold = folds
      BY <1>5, <3>1
    <3>3. Inserts(into[n - 1], batch[n], into[n])
      BY <1>3, <1>5, <3>2, InsertFacts
    <3>4. InOrder(into[n - 1]) /\ Contents(into[n - 1].table) = puts[n - 1]
      BY <2>2
    <3>5. InOrder(into[n]) /\ Contents(into[n].table) = puts[n]
      BY <1>6, <3>2, <3>3, <3>4 DEF Inserts
    <3> QED
      BY <3>1, <3>5
  <2>3. \A n \in 0 .. N : n \in S
    <3> HIDE DEF S
    <3> QED
      BY <1>3, <2>1, <2>2, Turns
  <2> QED
    BY <1>1, <1>3, <1>4, <2>3
<1>8. Sound(r) /\ r.fold = s.fold
  BY <1>1, <1>3, <1>5
<1> QED
  BY <1>7, <1>8 DEF InsertsAll, m, r

(* What a search finds of the pairs. *)
LookedUp(s, e) ==
    LET found == Search(s, e.key)
        got == [e EXCEPT !.value = s.table[found.ix].value]
        at == Abstract!At(Contents(s.table), e.key, s.fold)
    IN /\ found.at = "found" => found.ix \in Used(s.table) /\ got \in Entry
       /\ InOrder(s) =>
            /\ found.at # "found" => at = {}
            /\ found.at = "found" =>
                at = {s.table[found.ix]} /\ Abstract!Got(Contents(s.table), e, s.fold) = got

(* A search tells whether the map has the key, and its value. *)
LEMMA SearchTells ==
    ASSUME NEW s, Sound(s), NEW e \in Entry
    PROVE  LookedUp(s, e)
<1> DEFINE t == s.table
           k == e.key
           folds == s.fold
           found == Search(s, k)
           got == [e EXCEPT !.value = t[found.ix].value]
           m == Contents(t)
           there == Abstract!At(m, k, folds)
<1>1. t \in Table /\ k \in Keys
  BY EntryIsNoHole DEF Sound, HashState
<1>2. /\ found.at \in {"found", "absent"}
      /\ found.at = "found" => found.ix \in Used(t) /\ Same(k, t[found.ix].key, folds)
      /\ Sorted(t, folds) /\ found.at = "absent" => Between(t, k, folds, found.ix, found.ix)
      /\ found.ix \in 0 .. Size(t)
  <2> HIDE DEF t, k, folds
  <2>1. found = HashIndex(t, k, folds)
    BY DEF Search, t, k, folds
  <2> HIDE DEF found
  <2> QED
    BY <1>1, <2>1, SearchFacts
<1>3. /\ Size(t) \in Nat \ {0}
      /\ \A i \in Used(t) : i \in Nat /\ t[i] \in Entry /\ t[i].key \in Keys
  BY <1>1, TableFacts
<1>4. there = {d \in m : Same(d.key, k, folds)} /\ m = {t[i] : i \in Used(t)}
  BY DEF Abstract!At, Abstract!Same, Same, Rank, Contents
<1>5. \A x \in Keys : Rank(x, folds) \in Nat
  BY RankNat
<1>6. Abstract!Got(m, e, folds) = [e EXCEPT !.value = (CHOOSE o \in there : TRUE).value]
  BY DEF Abstract!Got
<1>7. InOrder(s) = Sorted(t, folds)
  BY DEF InOrder
<1>8. ASSUME found.at = "found"
      PROVE  found.ix \in Used(t) /\ got \in Entry
  <2>1. found.ix \in Used(t)
    BY <1>2, <1>8
  <2>2. t[found.ix].value \in Values
    BY <1>3, <2>1, EntryIsNoHole
  <2> QED
    BY <2>1, <2>2 DEF Entry
<1>9. ASSUME Sorted(t, folds), found.at # "found" PROVE there = {}
  <2> HIDE DEF found, t, k, folds
  <2>1. Between(t, k, folds, found.ix, found.ix) /\ found.ix \in Nat
    BY <1>2, <1>3, <1>9
  <2>2. ASSUME NEW i \in Used(t), Same(t[i].key, k, folds) PROVE FALSE
    <3>1. Less(t[i].key, k, folds) \/ Less(k, t[i].key, folds)
      BY <1>3, <2>1 DEF Between
    <3>2. Rank(t[i].key, folds) \in Nat /\ Rank(k, folds) \in Nat
      BY <1>1, <1>3, <1>5
    <3> QED
      BY <2>2, <3>1, <3>2 DEF Less, Same
  <2> QED
    BY <1>4, <2>2
<1>10. ASSUME Sorted(t, folds), found.at = "found"
       PROVE  there = {t[found.ix]} /\ Abstract!Got(m, e, folds) = got
  <2>1. found.ix \in Used(t) /\ Same(k, t[found.ix].key, folds)
    BY <1>2, <1>10
  <2>2. there = {t[found.ix]}
    <3> HIDE DEF found, t, k, folds
    <3>1. \A i \in Used(t) : Same(t[i].key, k, folds) => Same(t[i].key, t[found.ix].key, folds)
      BY <2>1 DEF Same
    <3>2. \A i \in Used(t) : Same(t[i].key, k, folds) => i = found.ix
      BY <1>1, <1>10, <2>1, <3>1, OnePlace
    <3>3. Same(t[found.ix].key, k, folds)
      BY <2>1 DEF Same
    <3> QED
      BY <1>4, <2>1, <3>2, <3>3
  <2>3. (CHOOSE o \in there : TRUE) = t[found.ix]
    <3> HIDE DEF there, found, t
    <3> QED
      BY <2>2
  <2> QED
    BY <1>6, <2>2, <2>3
<1> HIDE DEF there, got, found, m, t, folds, k
<1>11. LookedUp(s, e) = (/\ found.at = "found" => found.ix \in Used(t) /\ got \in Entry
                         /\ InOrder(s) =>
                              /\ found.at # "found" => there = {}
                              /\ found.at = "found" =>
                                    there = {t[found.ix]} /\ Abstract!Got(m, e, folds) = got)
  BY DEF LookedUp, there, got, found, m, t, folds, k
<1> QED
  BY <1>7, <1>8, <1>9, <1>10, <1>11

(* One key of those a new HASH is made of. *)
LEMMA SubsetOneFacts ==
    ASSUME NEW s, Sound(s), NEW x, Sound(x), x.fold = s.fold, InOrder(x), NEW e \in Entry
    PROVE  LET r == SubsetOne(s, x, e)
           IN /\ Sound(r) /\ r.fold = s.fold /\ InOrder(r)
              /\ InOrder(s) => Contents(r.table) =
                    Abstract!ThereOne(Contents(s.table), Contents(x.table), e, s.fold)
<1> DEFINE found == Search(s, e.key)
           got == [e EXCEPT !.value = s.table[found.ix].value]
           r == SubsetOne(s, x, e)
<1>1. /\ found.at = "found" => got \in Entry
      /\ InOrder(s) /\ found.at # "found" => Abstract!At(Contents(s.table), e.key, s.fold) = {}
      /\ InOrder(s) /\ found.at = "found" =>
            /\ Abstract!At(Contents(s.table), e.key, s.fold) # {}
            /\ Abstract!Got(Contents(s.table), e, s.fold) = got
  BY SearchTells, Zenon DEF LookedUp
<1>2. r = IF found.at # "found" THEN x ELSE InsertIntoHashTable(x, got)
  BY DEF SubsetOne
<1> HIDE DEF r, got, found
<1>3. CASE found.at = "found"
  <2>1. Inserts(x, got, r)
    BY <1>1, <1>2, <1>3, InsertFacts
  <2>2. /\ Sound(r) /\ r.fold = s.fold /\ InOrder(r)
        /\ Contents(r.table) = Abstract!Put(Contents(x.table), got, s.fold)
    BY <2>1 DEF Inserts
  <2>3. InOrder(s) => Contents(r.table) =
            Abstract!ThereOne(Contents(s.table), Contents(x.table), e, s.fold)
    BY <1>1, <1>3, <2>2 DEF Abstract!ThereOne
  <2> QED
    BY <2>2, <2>3 DEF r
<1>4. CASE found.at # "found"
  <2>1. r = x
    BY <1>2, <1>4
  <2>2. InOrder(s) => Contents(r.table) =
            Abstract!ThereOne(Contents(s.table), Contents(x.table), e, s.fold)
    BY <1>1, <1>4, <2>1 DEF Abstract!ThereOne
  <2> QED
    BY <2>1, <2>2 DEF r
<1> QED
  BY <1>3, <1>4

ThereOnTheWay(puts, m, batch, folds) ==
    /\ puts[0] = {}
    /\ \A n \in 1 .. Len(batch) : puts[n] = Abstract!ThereOne(m, puts[n - 1], batch[n], folds)

(* The maps on the way of There. *)
LEMMA ThereRuns ==
    ASSUME NEW m, m \subseteq Entry, NEW batch \in Seq(Entry), NEW folds
    PROVE  \E puts : /\ ThereOnTheWay(puts, m, batch, folds)
                     /\ Abstract!There(m, batch, folds) = puts[Len(batch)]
<1> DEFINE N == Len(batch)
           F(f) == [n \in 0 .. N |->
                        IF n = 0 THEN {} ELSE Abstract!ThereOne(m, f[n - 1], batch[n], folds)]
           upTo == CHOOSE f : f = F(f)
           T == SUBSET Entry
           step == [n \in 1 .. N |-> [x \in T |-> Abstract!ThereOne(m, x, batch[n], folds)]]
<1>1. Abstract!There(m, batch, folds) = upTo[N]
  BY DEF Abstract!There
<1>2. N \in Nat /\ \A n \in 1 .. N : batch[n] \in Entry
  BY LenProperties, ElementOfSeq
<1>3. \A n \in 1 .. N : n - 1 \in 0 .. N
  BY <1>2
<1> HIDE DEF N
<1>4. \A n \in 1 .. N : \A x \in T : Abstract!ThereOne(m, x, batch[n], folds) \in T
  <2>1. ASSUME NEW e \in Entry, Abstract!At(m, e.key, folds) # {}
        PROVE  Abstract!Got(m, e, folds) \in Entry
    <3> DEFINE o == CHOOSE o \in Abstract!At(m, e.key, folds) : TRUE
    <3>1. o \in Abstract!At(m, e.key, folds)
      BY <2>1
    <3>2. o \in Entry
      BY <3>1 DEF Abstract!At
    <3>3. Abstract!Got(m, e, folds) = [e EXCEPT !.value = o.value]
      BY DEF Abstract!Got
    <3> HIDE DEF o
    <3> QED
      BY <3>2, <3>3 DEF Entry
  <2>2. ASSUME NEW e \in Entry, NEW x \in T PROVE Abstract!ThereOne(m, x, e, folds) \in T
    <3>1. CASE Abstract!At(m, e.key, folds) = {}
      BY <3>1 DEF Abstract!ThereOne
    <3>2. CASE Abstract!At(m, e.key, folds) # {}
      <4>1. Abstract!Put(x, Abstract!Got(m, e, folds), folds) \subseteq Entry
        BY <2>1, <3>2, PutKeepsEntries
      <4> QED
        BY <3>2, <4>1 DEF Abstract!ThereOne
    <3> QED
      BY <3>1, <3>2
  <2> QED
    BY <1>2, <2>2
<1>5. {} \in T
  OBVIOUS
<1> HIDE DEF T
<1>6. IsLoop(N, T, {}, step)
  BY <1>2, <1>4, <1>5 DEF IsLoop
<1>7. PICK f : Follows(f, N, T, {}, step)
  BY <1>6, Loop, Zenon
<1>8. /\ f \in [0 .. N -> T] /\ f[0] = {}
      /\ \A n \in 1 .. N : f[n] = Abstract!ThereOne(m, f[n - 1], batch[n], folds)
  <2>1. f \in [0 .. N -> T] /\ f[0] = {} /\ \A n \in 1 .. N : f[n] = step[n][f[n - 1]]
    BY <1>7 DEF Follows
  <2> QED
    BY <1>3, <2>1
<1> HIDE DEF step
<1>9. f = F(f)
  BY <1>2, <1>8
<1>10. upTo = F(upTo)
  BY <1>9
<1> HIDE DEF upTo
<1>11. upTo[0] = {} /\ \A n \in 1 .. N : upTo[n] = Abstract!ThereOne(m, upTo[n - 1], batch[n], folds)
  <2>1. ASSUME NEW n \in 0 .. N
        PROVE  upTo[n] = IF n = 0 THEN {} ELSE Abstract!ThereOne(m, upTo[n - 1], batch[n], folds)
    BY <1>10
  <2>2. 0 \in 0 .. N /\ \A n \in 1 .. N : n \in 0 .. N /\ n # 0
    BY <1>2
  <2> HIDE DEF F
  <2> QED
    BY <2>1, <2>2, Zenon
<1>12. ThereOnTheWay(upTo, m, batch, folds)
  BY <1>11 DEF ThereOnTheWay, N
<1> QED
  BY <1>1, <1>12 DEF N

(* g = h[keys] holds the pairs of h that have these keys. *)
LEMMA SubsetFacts ==
    ASSUME NEW s, Sound(s), NEW batch \in Seq(Entry)
    PROVE  LET r == Subset(s, batch)
           IN /\ Sound(r) /\ r.fold = s.fold /\ InOrder(r)
              /\ InOrder(s) =>
                    Contents(r.table) = Abstract!There(Contents(s.table), batch, s.fold)
<1> DEFINE N == Len(batch)
           folds == s.fold
           m == Contents(s.table)
           begin == NewHash(N, folds)
           F(f) == [n \in 0 .. N |->
                        IF n = 0 THEN begin ELSE SubsetOne(s, f[n - 1], batch[n])]
           upTo == CHOOSE f : f = F(f)
           T == {x \in HashState : Sound(x) /\ x.fold = folds /\ InOrder(x)}
           step == [n \in 1 .. N |-> [x \in T |-> SubsetOne(s, x, batch[n])]]
<1>1. Subset(s, batch) = upTo[N]
  BY DEF Subset
<1>2. N \in Nat /\ \A n \in 1 .. N : batch[n] \in Entry
  BY LenProperties, ElementOfSeq
<1>3. \A n \in 1 .. N : n - 1 \in 0 .. N
  BY <1>2
<1>4. begin \in T /\ Contents(begin.table) = {}
  <2>1. folds \in BOOLEAN
    BY DEF Sound, HashState
  <2>2. Sound(begin) /\ InOrder(begin) /\ begin.fold = folds /\ Contents(begin.table) = {}
    BY <1>2, <2>1, NewFacts
  <2> QED
    BY <2>2 DEF Sound
<1> HIDE DEF N, begin
<1>5. \A n \in 1 .. N : \A x \in T : SubsetOne(s, x, batch[n]) \in T
  <2>1. ASSUME NEW n \in 1 .. N, NEW x, Sound(x), x.fold = folds, InOrder(x)
        PROVE  LET r == SubsetOne(s, x, batch[n])
               IN Sound(r) /\ r.fold = folds /\ InOrder(r)
    BY <1>2, <2>1, SubsetOneFacts
  <2> QED
    BY <2>1 DEF Sound
<1>6. \A x \in T : Sound(x) /\ x.fold = folds /\ InOrder(x)
  OBVIOUS
<1> HIDE DEF T
<1>7. IsLoop(N, T, begin, step)
  BY <1>2, <1>4, <1>5 DEF IsLoop
<1>8. PICK f : Follows(f, N, T, begin, step)
  BY <1>7, Loop, Zenon
<1>9. /\ f \in [0 .. N -> T] /\ f[0] = begin
      /\ \A n \in 1 .. N : f[n] = SubsetOne(s, f[n - 1], batch[n])
  <2>1. f \in [0 .. N -> T] /\ f[0] = begin /\ \A n \in 1 .. N : f[n] = step[n][f[n - 1]]
    BY <1>8 DEF Follows
  <2> QED
    BY <1>3, <2>1
<1> HIDE DEF step
<1>10. f = F(f)
  BY <1>2, <1>9
<1>11. upTo = F(upTo)
  BY <1>10
<1> HIDE DEF upTo
<1>12. upTo[0] = begin /\ \A n \in 1 .. N : upTo[n] = SubsetOne(s, upTo[n - 1], batch[n])
  BY <1>2, <1>11
<1>13. m \subseteq Entry
  BY ContentsAreEntries DEF Sound, HashState
<1> HIDE DEF m
<1>14. PICK puts : ThereOnTheWay(puts, m, batch, folds) /\ Abstract!There(m, batch, folds) = puts[N]
  BY <1>13, ThereRuns DEF N
<1>15. puts[0] = {} /\ \A n \in 1 .. N : puts[n] = Abstract!ThereOne(m, puts[n - 1], batch[n], folds)
  BY <1>14 DEF ThereOnTheWay, N
<1> DEFINE S == {n \in 0 .. N : upTo[n] \in T /\ (InOrder(s) => Contents(upTo[n].table) = puts[n])}
<1>16. 0 \in S
  <2>1. 0 \in 0 .. N /\ upTo[0] \in T
    BY <1>2, <1>4, <1>12
  <2>2. Contents(upTo[0].table) = puts[0]
    BY <1>4, <1>12, <1>15
  <2> QED
    BY <2>1, <2>2
<1>17. ASSUME NEW n \in 1 .. N, n - 1 \in S PROVE n \in S
  <2>1. /\ upTo[n - 1] \in T /\ n \in 0 .. N
        /\ InOrder(s) => Contents(upTo[n - 1].table) = puts[n - 1]
    BY <1>2, <1>17
  <2>2. Sound(upTo[n - 1]) /\ upTo[n - 1].fold = folds /\ InOrder(upTo[n - 1])
    BY <1>6, <2>1
  <2>3. InOrder(s) => Contents(upTo[n].table) = Abstract!ThereOne(m, Contents(upTo[n - 1].table), batch[n], folds)
    BY <1>2, <1>12, <2>2, SubsetOneFacts DEF m
  <2>4. upTo[n] \in T
    BY <1>5, <1>12, <2>1
  <2> QED
    BY <1>15, <2>1, <2>3, <2>4
<1>18. \A n \in 0 .. N : n \in S
  <2> HIDE DEF S
  <2> QED
    BY <1>2, <1>16, <1>17, Turns
<1>19. upTo[N] \in T /\ (InOrder(s) => Contents(upTo[N].table) = puts[N])
  <2>1. N \in 0 .. N
    BY <1>2
  <2> QED
    BY <1>18, <2>1
<1> QED
  BY <1>1, <1>6, <1>14, <1>19 DEF m

(* The pairs that are left when those with the first n keys are gone. *)
LeftOf(m, batch, n, folds) == {d \in m : \A i \in 1 .. n : ~Same(d.key, batch[i].key, folds)}

(* When the pairs with one more key go, what is left of the map. *)
LEMMA OneMoreGone ==
    ASSUME NEW m, NEW batch, NEW folds, NEW n \in Nat, Abstract!Present(m, batch, n, folds)
    PROVE  LET left == LeftOf(m, batch, n, folds)
               at == Abstract!At(left, batch[n + 1].key, folds)
           IN /\ at = {} => ~Abstract!Present(m, batch, n + 1, folds)
              /\ \A o : at = {o} =>
                    /\ Abstract!Present(m, batch, n + 1, folds)
                    /\ Abstract!At(m, batch[n + 1].key, folds) = {o}
                    /\ LeftOf(m, batch, n + 1, folds) = left \ {o}
<1> DEFINE left == LeftOf(m, batch, n, folds)
           R(k) == Rank(k, folds)
           r(i) == R(batch[i].key)
           at == Abstract!At(left, batch[n + 1].key, folds)
           there(i) == Abstract!At(m, batch[i].key, folds)
<1>1. \A c : LeftOf(m, batch, c, folds) = {d \in m : \A i \in 1 .. c : R(d.key) # r(i)}
  BY DEF LeftOf, Same
<1>2. at = {d \in left : R(d.key) = r(n + 1)}
  BY DEF Abstract!At, Abstract!Same, Rank
<1>3. \A i : there(i) = {d \in m : R(d.key) = r(i)}
  BY DEF Abstract!At, Abstract!Same, Rank
<1>4. \A c : Abstract!Present(m, batch, c, folds) =
        \A i \in 1 .. c : there(i) # {} /\ \A j \in 1 .. i - 1 : r(i) # r(j)
  BY DEF Abstract!Present, Abstract!Same, Rank
<1>5. 1 .. n + 1 = (1 .. n) \cup {n + 1} /\ n + 1 - 1 = n
  OBVIOUS
<1>6. left = {d \in m : \A i \in 1 .. n : R(d.key) # r(i)}
  BY <1>1
<1>7. LeftOf(m, batch, n + 1, folds) = {d \in left : R(d.key) # r(n + 1)}
  <2>1. LeftOf(m, batch, n + 1, folds) = {d \in m : \A i \in 1 .. n + 1 : R(d.key) # r(i)}
    BY <1>1
  <2> HIDE DEF left, r, R
  <2> QED
    BY <1>5, <1>6, <2>1
<1>8. Abstract!Present(m, batch, n + 1, folds) <=>
        (there(n + 1) # {} /\ \A j \in 1 .. n : r(n + 1) # r(j))
  <2> DEFINE P(i) == there(i) # {} /\ \A j \in 1 .. i - 1 : r(i) # r(j)
  <2>1. /\ \A i \in 1 .. n : P(i)
        /\ Abstract!Present(m, batch, n + 1, folds) = \A i \in 1 .. n + 1 : P(i)
    BY <1>4
  <2>2. P(n + 1) = (there(n + 1) # {} /\ \A j \in 1 .. n : r(n + 1) # r(j))
    <3> HIDE DEF r, there
    <3> QED
      BY <1>5
  <2> HIDE DEF P
  <2>3. (\A i \in 1 .. n + 1 : P(i)) <=> P(n + 1)
    BY <1>5, <2>1
  <2> QED
    BY <2>1, <2>2, <2>3, Zenon
<1> HIDE DEF left, at, R, r, there
<1>9. ASSUME at = {} PROVE ~Abstract!Present(m, batch, n + 1, folds)
  <2>1. ASSUME NEW d \in there(n + 1) PROVE \E j \in 1 .. n : r(n + 1) = r(j)
    <3>1. d \in m /\ R(d.key) = r(n + 1)
      BY <1>3
    <3>2. d \notin left
      BY <1>2, <1>9, <3>1
    <3> QED
      BY <1>6, <3>1, <3>2
  <2> QED
    BY <1>8, <2>1
<1>10. ASSUME NEW o, at = {o}
       PROVE  /\ Abstract!Present(m, batch, n + 1, folds)
              /\ there(n + 1) = {o}
              /\ LeftOf(m, batch, n + 1, folds) = left \ {o}
  <2>1. o \in left /\ R(o.key) = r(n + 1) /\ o \in m
    BY <1>2, <1>6, <1>10
  <2>2. \A j \in 1 .. n : r(n + 1) # r(j)
    BY <1>6, <2>1
  <2>3. \A d \in m : R(d.key) = r(n + 1) => d \in left
    BY <1>6, <2>2
  <2>4. there(n + 1) = {o}
    BY <1>2, <1>3, <1>10, <2>1, <2>3
  <2>5. LeftOf(m, batch, n + 1, folds) = left \ {o}
    BY <1>2, <1>7, <1>10
  <2> QED
    BY <1>8, <2>2, <2>4, <2>5
<1> QED
  BY <1>9, <1>10 DEF left, at, there

(* RemoveFromHashTable leaves a sound table without the pair. *)
LEMMA RemovedFacts ==
    ASSUME NEW s, Sound(s), NEW i \in Used(s.table)
    PROVE  LET r == Removed(s, i)
           IN /\ Sound(r) /\ r.fold = s.fold /\ Size(r.table) = Size(s.table)
              /\ InOrder(s) => InOrder(r) /\ Contents(r.table) = Contents(s.table) \ {s.table[i]}
<1> DEFINE t == s.table
           u == [t EXCEPT ![i] = Free]
           r == Removed(s, i)
<1>1. s \in HashState /\ t \in Table /\ s.fold \in BOOLEAN /\ s.count = Cardinality(Used(t))
  BY DEF Sound, HashState
<1>2. r = [s EXCEPT !.table = u, !.count = s.count - 1]
  BY DEF Removed
<1> HIDE DEF r, t
<1>3. /\ u \in Table /\ Size(u) = Size(t)
      /\ s.count \in Nat /\ s.count > 0 /\ Cardinality(Used(u)) = s.count - 1
      /\ Sorted(t, s.fold) => Sorted(u, s.fold) /\ Contents(u) = Contents(t) \ {t[i]}
  BY <1>1, EmptiedFacts DEF t
<1> HIDE DEF u
<1>4. r \in [table : {u}, count : {s.count - 1}, fold : {s.fold}]
  BY <1>1, <1>2 DEF HashState
<1>5. r.table = u /\ r.count = s.count - 1 /\ r.fold = s.fold
  BY <1>4
<1>6. Sound(r)
  <2>1. s.count - 1 \in Nat
    BY <1>3
  <2>2. r \in HashState
    BY <1>1, <1>3, <1>4, <2>1 DEF HashState
  <2> QED
    BY <1>3, <1>5, <2>2 DEF Sound
<1> QED
  BY <1>3, <1>5, <1>6 DEF InOrder, r, t

(* After the removals of the first j keys, or of those before an error.    *)
Partial == [hash : HashState, taken : Seq(Entry), ok : BOOLEAN]

RemovedInv(s, batch, x, j) ==
    LET n == Len(x.taken)
        m == Contents(s.table)
    IN /\ x \in Partial /\ Sound(x.hash) /\ x.hash.fold = s.fold
       /\ Size(x.hash.table) = Size(s.table)
       /\ IF x.ok THEN n = j ELSE n < j
       /\ InOrder(s) =>
            /\ InOrder(x.hash)
            /\ Contents(x.hash.table) = LeftOf(m, batch, n, s.fold)
            /\ Abstract!Present(m, batch, n, s.fold)
            /\ ~x.ok => ~Abstract!Present(m, batch, n + 1, s.fold)
            /\ \A i \in 1 .. n : x.taken[i] = Abstract!Got(m, batch[i], s.fold)

(* One more removal keeps RemovedInv. *)
LEMMA RemovedStep ==
    ASSUME NEW s, Sound(s), NEW batch, NEW n \in Nat, batch[n + 1] \in Entry,
           NEW x, RemovedInv(s, batch, x, n)
    PROVE  RemovedInv(s, batch, RemoveOne(x, batch[n + 1]), n + 1)
<1> DEFINE m == Contents(s.table)
           folds == s.fold
           e == batch[n + 1]
           h == x.hash
           found == Search(h, e.key)
           got == [e EXCEPT !.value = h.table[found.ix].value]
           y == RemoveOne(x, e)
           c == Len(x.taken)
<1>1. /\ x \in Partial /\ Sound(h) /\ h.fold = folds /\ Size(h.table) = Size(s.table)
      /\ IF x.ok THEN c = n ELSE c < n
      /\ InOrder(s) =>
            /\ InOrder(h)
            /\ Contents(h.table) = LeftOf(m, batch, c, folds)
            /\ Abstract!Present(m, batch, c, folds)
            /\ ~x.ok => ~Abstract!Present(m, batch, c + 1, folds)
            /\ \A i \in 1 .. c : x.taken[i] = Abstract!Got(m, batch[i], folds)
  BY DEF RemovedInv
<1>2. x.hash \in HashState /\ x.taken \in Seq(Entry) /\ x.ok \in BOOLEAN /\ c \in Nat
  BY <1>1 DEF Partial
<1>3. LookedUp(h, e)
  BY <1>1, SearchTells
<1>4. /\ found.at = "found" => found.ix \in Used(h.table) /\ got \in Entry
      /\ InOrder(h) =>
            /\ found.at # "found" => Abstract!At(Contents(h.table), e.key, folds) = {}
            /\ found.at = "found" =>
                /\ Abstract!At(Contents(h.table), e.key, folds) = {h.table[found.ix]}
                /\ Abstract!Got(Contents(h.table), e, folds) = got
  BY <1>1, <1>3, Zenon DEF LookedUp
<1>5. y = IF x.ok /\ found.at = "found"
          THEN [x EXCEPT !.hash = Removed(h, found.ix), !.taken = Append(x.taken, got)]
          ELSE [x EXCEPT !.ok = FALSE]
  BY DEF RemoveOne
<1>6. InOrder(s) =>
        LET left == LeftOf(m, batch, c, folds)
            at == Abstract!At(left, batch[c + 1].key, folds)
        IN /\ at = {} => ~Abstract!Present(m, batch, c + 1, folds)
           /\ \A o : at = {o} =>
                    /\ Abstract!Present(m, batch, c + 1, folds)
                    /\ Abstract!At(m, batch[c + 1].key, folds) = {o}
                    /\ LeftOf(m, batch, c + 1, folds) = left \ {o}
  BY <1>1, <1>2, OneMoreGone
<1>7. \A o : LET one == Abstract!Got(m, e, folds)
                 other == Abstract!Got(Contents(h.table), e, folds)
             IN Abstract!At(m, e.key, folds) = {o}
                /\ Abstract!At(Contents(h.table), e.key, folds) = {o} => one = other
  BY Zenon DEF Abstract!Got
<1> HIDE DEF y, got, found, m, h
<1>8. CASE x.ok /\ found.at = "found"
  <2> DEFINE r == Removed(h, found.ix)
             o == h.table[found.ix]
  <2>1. c = n /\ batch[c + 1] = e
    BY <1>1, <1>8
  <2>2. /\ Sound(r) /\ r.fold = folds /\ Size(r.table) = Size(s.table)
        /\ InOrder(h) => InOrder(r) /\ Contents(r.table) = Contents(h.table) \ {o}
    BY <1>1, <1>4, <1>8, RemovedFacts
  <2>3. y = [x EXCEPT !.hash = r, !.taken = Append(x.taken, got)]
    BY <1>5, <1>8
  <2>4. /\ Append(x.taken, got) \in Seq(Entry) /\ Len(Append(x.taken, got)) = c + 1
        /\ \A i \in 1 .. c : Append(x.taken, got)[i] = x.taken[i]
        /\ Append(x.taken, got)[c + 1] = got
    BY <1>2, <1>4, <1>8, PushFacts
  <2> DEFINE new == Append(x.taken, got)
  <2> HIDE DEF r, o, new
  <2>5. y \in [hash : {r}, taken : {new}, ok : {TRUE}]
    BY <1>1, <1>8, <2>3 DEF Partial, new
  <2>6. y.hash = r /\ y.taken = new /\ y.ok = TRUE
    BY <2>5
  <2>7. y \in Partial
    BY <2>2, <2>4, <2>5 DEF Partial, Sound, new
  <2>8. Len(y.taken) = n + 1 /\ y.ok
    BY <2>1, <2>4, <2>6 DEF new
  <2>9. ASSUME InOrder(s)
        PROVE  /\ InOrder(r)
               /\ Contents(r.table) = LeftOf(m, batch, n + 1, folds)
               /\ Abstract!Present(m, batch, n + 1, folds)
               /\ \A i \in 1 .. n + 1 : new[i] = Abstract!Got(m, batch[i], folds)
    <3>1. InOrder(h) /\ Contents(h.table) = LeftOf(m, batch, n, folds)
      BY <1>1, <2>1, <2>9
    <3>2. Abstract!At(Contents(h.table), e.key, folds) = {o}
          /\ Abstract!Got(Contents(h.table), e, folds) = got
      BY <1>4, <1>8, <3>1 DEF o
    <3>3. /\ Abstract!Present(m, batch, n + 1, folds)
          /\ Abstract!At(m, e.key, folds) = {o}
          /\ LeftOf(m, batch, n + 1, folds) = LeftOf(m, batch, n, folds) \ {o}
      BY <1>6, <2>1, <2>9, <3>1, <3>2
    <3>4. Abstract!Got(m, e, folds) = got
      BY <1>7, <3>2, <3>3
    <3>5. \A i \in 1 .. n : x.taken[i] = Abstract!Got(m, batch[i], folds)
      BY <1>1, <2>1, <2>9
    <3>6. \A i \in 1 .. n + 1 : new[i] = Abstract!Got(m, batch[i], folds)
      <4>1. new[n + 1] = Abstract!Got(m, batch[n + 1], folds)
        BY <2>1, <2>4, <3>4 DEF new
      <4>2. \A i \in 1 .. n : new[i] = Abstract!Got(m, batch[i], folds)
        BY <2>1, <2>4, <3>5 DEF new
      <4>3. \A i \in 1 .. n + 1 : i \in 1 .. n \/ i = n + 1
        OBVIOUS
      <4> QED
        BY <4>1, <4>2, <4>3, Zenon
    <3> QED
      BY <2>2, <3>1, <3>3, <3>6
  <2>10. y.ok /\ Len(y.taken) = n + 1
    BY <2>8
  <2> QED
    BY <2>2, <2>6, <2>7, <2>8, <2>9, Zenon DEF RemovedInv, y, m
<1>9. CASE ~(x.ok /\ found.at = "found")
  <2>1. y = [x EXCEPT !.ok = FALSE]
    BY <1>5, <1>9
  <2>2. y \in [hash : {h}, taken : {x.taken}, ok : {FALSE}]
    BY <1>1, <2>1 DEF Partial, h
  <2>3. y.hash = h /\ y.taken = x.taken /\ y.ok = FALSE
    BY <2>2
  <2>4. y \in Partial
    BY <1>2, <2>2 DEF Partial, h
  <2>5. c < n + 1
    BY <1>1, <1>2
  <2>6. ASSUME InOrder(s), x.ok PROVE ~Abstract!Present(m, batch, c + 1, folds)
    <3>1. c = n /\ InOrder(h) /\ Contents(h.table) = LeftOf(m, batch, c, folds) /\ found.at # "found"
      BY <1>1, <1>9, <2>6
    <3>2. Abstract!At(LeftOf(m, batch, c, folds), batch[c + 1].key, folds) = {}
      BY <1>4, <3>1
    <3> QED
      BY <1>6, <2>6, <3>2
  <2>7. InOrder(s) => ~Abstract!Present(m, batch, c + 1, folds)
    BY <1>1, <2>6
  <2> HIDE DEF c
  <2>8. Len(y.taken) = c
    BY <2>3 DEF c
  <2> QED
    BY <1>1, <2>3, <2>4, <2>5, <2>7, <2>8, Zenon DEF RemovedInv, y, m
<1> QED
  BY <1>8, <1>9 DEF y

(* A removal, or an error, leaves a sound hash. *)
LEMMA RemoveOneType ==
    ASSUME NEW x \in Partial, Sound(x.hash), NEW e \in Entry
    PROVE  RemoveOne(x, e) \in Partial /\ Sound(RemoveOne(x, e).hash)
<1> DEFINE h == x.hash
           found == Search(h, e.key)
           got == [e EXCEPT !.value = h.table[found.ix].value]
           y == RemoveOne(x, e)
<1>1. x.hash \in HashState /\ x.taken \in Seq(Entry) /\ x.ok \in BOOLEAN
  BY DEF Partial
<1>2. found.at = "found" => found.ix \in Used(h.table) /\ got \in Entry
  BY SearchTells, Zenon DEF LookedUp
<1>3. y = IF x.ok /\ found.at = "found"
          THEN [x EXCEPT !.hash = Removed(h, found.ix), !.taken = Append(x.taken, got)]
          ELSE [x EXCEPT !.ok = FALSE]
  BY DEF RemoveOne
<1> HIDE DEF y, got, found
<1>4. CASE x.ok /\ found.at = "found"
  <2> DEFINE r == Removed(h, found.ix)
             new == Append(x.taken, got)
  <2>1. Sound(r)
    BY <1>2, <1>4, RemovedFacts
  <2>2. new \in Seq(Entry)
    BY <1>1, <1>2, <1>4, PushFacts
  <2>3. y = [x EXCEPT !.hash = r, !.taken = new]
    BY <1>3, <1>4
  <2> HIDE DEF r, new
  <2>4. y \in [hash : {r}, taken : {new}, ok : BOOLEAN]
    BY <1>1, <2>3 DEF Partial
  <2> QED
    BY <2>1, <2>2, <2>4 DEF Partial, Sound, y
<1>5. CASE ~(x.ok /\ found.at = "found")
  BY <1>1, <1>3, <1>5 DEF Partial, y
<1> QED
  BY <1>4, <1>5

(* RemovedInv holds when all keys were looked at. *)
LEMMA RemoveEachFacts ==
    ASSUME NEW s, Sound(s), NEW batch \in Seq(Entry)
    PROVE  RemovedInv(s, batch, RemoveEach(s, batch), Len(batch))
<1> DEFINE N == Len(batch)
           m == Contents(s.table)
           begin == [hash |-> s, taken |-> <<>>, ok |-> TRUE]
           F(f) == [n \in 0 .. N |-> IF n = 0 THEN begin ELSE RemoveOne(f[n - 1], batch[n])]
           upTo == CHOOSE f : f = F(f)
           T == {x \in Partial : Sound(x.hash)}
           step == [n \in 1 .. N |-> [x \in T |-> RemoveOne(x, batch[n])]]
<1>1. RemoveEach(s, batch) = upTo[N]
  BY DEF RemoveEach
<1>2. N \in Nat /\ \A n \in 1 .. N : batch[n] \in Entry
  BY LenProperties, ElementOfSeq
<1>3. \A n \in 1 .. N : n - 1 \in 0 .. N /\ n - 1 \in Nat /\ n - 1 + 1 = n /\ n \in 0 .. N
  BY <1>2
<1> HIDE DEF N
<1>4. begin \in T /\ RemovedInv(s, batch, begin, 0)
  <2>1. begin \in Partial /\ Sound(begin.hash)
    BY DEF Partial, Sound
  <2>2. Len(begin.taken) = 0 /\ begin.hash = s /\ begin.ok
    BY LenProperties
  <2> HIDE DEF begin, m
  <2>3. LeftOf(m, batch, 0, s.fold) = m
    BY DEF LeftOf
  <2>4. Abstract!Present(m, batch, 0, s.fold)
    BY DEF Abstract!Present
  <2>5. 1 .. 0 = {}
    OBVIOUS
  <2> QED
    BY <2>1, <2>2, <2>3, <2>4, <2>5, Zenon DEF RemovedInv, m
<1> HIDE DEF begin
<1>5. \A n \in 1 .. N : \A x \in T : RemoveOne(x, batch[n]) \in T
  BY <1>2, RemoveOneType
<1> HIDE DEF T
<1>6. IsLoop(N, T, begin, step)
  BY <1>2, <1>4, <1>5 DEF IsLoop
<1>7. PICK f : Follows(f, N, T, begin, step)
  BY <1>6, Loop, Zenon
<1>8. /\ f \in [0 .. N -> T] /\ f[0] = begin
      /\ \A n \in 1 .. N : f[n] = RemoveOne(f[n - 1], batch[n])
  <2>1. f \in [0 .. N -> T] /\ f[0] = begin /\ \A n \in 1 .. N : f[n] = step[n][f[n - 1]]
    BY <1>7 DEF Follows
  <2> QED
    BY <1>3, <2>1
<1> HIDE DEF step
<1>9. f = F(f)
  BY <1>2, <1>8
<1>10. upTo = F(upTo)
  BY <1>9
<1> HIDE DEF upTo
<1>11. upTo[0] = begin /\ \A n \in 1 .. N : upTo[n] = RemoveOne(upTo[n - 1], batch[n])
  BY <1>2, <1>10
<1> DEFINE S == {n \in 0 .. N : RemovedInv(s, batch, upTo[n], n)}
<1>12. 0 \in S
  BY <1>2, <1>4, <1>11
<1>13. ASSUME NEW n \in 1 .. N, n - 1 \in S PROVE n \in S
  <2>1. RemovedInv(s, batch, upTo[n - 1], n - 1) /\ n - 1 \in Nat /\ batch[n - 1 + 1] \in Entry
    BY <1>2, <1>3, <1>13
  <2>2. RemovedInv(s, batch, RemoveOne(upTo[n - 1], batch[n - 1 + 1]), n - 1 + 1)
    BY <2>1, RemovedStep
  <2> QED
    BY <1>3, <1>11, <2>2
<1>14. \A n \in 0 .. N : n \in S
  <2> HIDE DEF S
  <2> QED
    BY <1>2, <1>12, <1>13, Turns
<1>15. RemovedInv(s, batch, upTo[N], N)
  BY <1>2, <1>14
<1> QED
  BY <1>1, <1>15 DEF N

-----------------------------------------------------------------------------
(* The sum of two tables *)

(* An entry above all others goes to the end. *)
LEMMA PushedInOrder ==
    ASSUME NEW s \in Seq(Entry), NEW folds, Ordered(s, folds), NEW e \in Entry,
           \A o \in Elements(s) : Less(o.key, e.key, folds)
    PROVE  Ordered(Append(s, e), folds)
<1> DEFINE new == Append(s, e)
<1>1. /\ Len(s) \in Nat /\ Len(new) = Len(s) + 1 /\ new[Len(s) + 1] = e
      /\ \A a \in 1 .. Len(s) : new[a] = s[a]
  BY PushFacts
<1>2. \A a \in 1 .. Len(s) : s[a] \in Elements(s)
  BY DEF Elements
<1> HIDE DEF new
<1>3. ASSUME NEW a \in 1 .. Len(new), NEW b \in 1 .. Len(new), a < b
      PROVE  Less(new[a].key, new[b].key, folds)
  <2>1. a \in 1 .. Len(s) /\ (b \in 1 .. Len(s) \/ b = Len(s) + 1)
    BY <1>1, <1>3
  <2>2. CASE b \in 1 .. Len(s)
    BY <1>1, <1>3, <2>1, <2>2 DEF Ordered
  <2>3. CASE b = Len(s) + 1
    BY <1>1, <1>2, <2>1, <2>3
  <2> QED
    BY <2>1, <2>2, <2>3
<1> QED
  BY <1>3 DEF Ordered, new

MergeType == [i : Nat \ {0}, j : Nat \ {0}, out : Seq(Entry)]

(* Of the first entries of l those whose keys are not in r. *)
Lone(l, r, i) == {a \in 1 .. i - 1 : \A b \in 1 .. Len(r) : ~Same(l[a].key, r[b].key, FALSE)}

Merged(l, r, w) ==
    /\ Ordered(w.out, FALSE)
    /\ Elements(w.out) = {r[b] : b \in 1 .. w.j - 1} \cup {l[a] : a \in Lone(l, r, w.i)}
    /\ \A o \in Elements(w.out) :
        /\ \A a \in w.i .. Len(l) : Less(o.key, l[a].key, FALSE)
        /\ \A b \in w.j .. Len(r) : Less(o.key, r[b].key, FALSE)

MergeInv(l, r, w, n) ==
    /\ w \in MergeType /\ w.i <= Len(l) + 1 /\ w.j <= Len(r) + 1
    /\ Len(w.out) <= w.i - 1 + w.j - 1
    /\ w.i - 1 + w.j - 1 >= n \/ (w.i > Len(l) /\ w.j > Len(r))
    /\ Ordered(l, FALSE) /\ Ordered(r, FALSE) => Merged(l, r, w)

(* The left entry is next: it is below all that is left of r. *)
LEMMA MergeLeft ==
    ASSUME NEW l \in Seq(Entry), NEW r \in Seq(Entry), Ordered(l, FALSE), Ordered(r, FALSE),
           NEW w \in MergeType, Merged(l, r, w), w.i <= Len(l), w.j <= Len(r) + 1,
           w.j <= Len(r) => Less(l[w.i].key, r[w.j].key, FALSE)
    PROVE  Merged(l, r, [i |-> w.i + 1, j |-> w.j, out |-> Append(w.out, l[w.i])])
<1> DEFINE x(a) == Rank(l[a].key, FALSE)
           y(b) == Rank(r[b].key, FALSE)
           z(o) == Rank(o.key, FALSE)
           i == w.i
           j == w.j
           L == Len(l)
           R == Len(r)
           new == Append(w.out, l[i])
           v == [i |-> i + 1, j |-> j, out |-> new]
<1>1. i \in Nat \ {0} /\ j \in Nat \ {0} /\ w.out \in Seq(Entry) /\ L \in Nat /\ R \in Nat
  BY DEF MergeType
<1>2. (\A a \in 1 .. L : l[a] \in Entry) /\ (\A b \in 1 .. R : r[b] \in Entry)
  BY ElementOfSeq
<1>3. (\A a \in 1 .. L : x(a) \in Nat) /\ (\A b \in 1 .. R : y(b) \in Nat)
  BY <1>2, RankNat, EntryIsNoHole
<1>4. \A o \in Elements(w.out) : z(o) \in Nat
  <2>1. \A a \in 1 .. Len(w.out) : w.out[a] \in Entry
    BY <1>1, ElementOfSeq
  <2> QED
    BY <2>1, RankNat, EntryIsNoHole DEF Elements
<1>5. /\ \A a, b \in 1 .. L : a < b => x(a) < x(b)
      /\ \A a, b \in 1 .. R : a < b => y(a) < y(b)
  BY DEF Ordered, Less
<1>6. /\ Ordered(w.out, FALSE)
      /\ Elements(w.out) = {r[b] : b \in 1 .. j - 1} \cup {l[a] : a \in Lone(l, r, i)}
      /\ \A o \in Elements(w.out) : /\ \A a \in i .. L : z(o) < x(a)
                                    /\ \A b \in j .. R : z(o) < y(b)
  BY DEF Merged, Less
<1>7. /\ i <= L /\ j <= R + 1 /\ (j <= R => x(i) < y(j))
      /\ (\A a : z(l[a]) = x(a)) /\ (\A b : z(r[b]) = y(b))
  BY DEF Less
<1>8. \A o, e : z(o) < z(e) <=> Less(o.key, e.key, FALSE)
  BY DEF Less
<1>9. \A k : Lone(l, r, k) = {a \in 1 .. k - 1 : \A b \in 1 .. R : x(a) # y(b)}
  BY DEF Lone, Same
<1> HIDE DEF x, y, z, i, j, L, R
<1>10. i \in 1 .. L /\ i \in i .. L /\ l[i] \in Entry
  BY <1>1, <1>2, <1>7
<1>11. Elements(new) = Elements(w.out) \cup {l[i]}
  BY <1>1, <1>10, PushFacts
<1>12. Ordered(new, FALSE)
  <2>1. \A o \in Elements(w.out) : z(o) < z(l[i])
    BY <1>6, <1>7, <1>10
  <2>2. \A o \in Elements(w.out) : Less(o.key, l[i].key, FALSE)
    BY <1>8, <2>1
  <2> QED
    BY <1>1, <1>6, <1>10, <2>2, PushedInOrder
<1>13. ASSUME NEW b \in 1 .. j - 1 PROVE b \in 1 .. R /\ y(b) < x(i)
  <2>1. r[b] \in Elements(w.out) /\ b \in 1 .. R
    BY <1>1, <1>6, <1>7
  <2>2. z(r[b]) < x(i)
    BY <1>6, <1>10, <2>1
  <2> QED
    BY <1>7, <2>1, <2>2
<1>14. ASSUME NEW b \in j .. R PROVE b \in 1 .. R /\ x(i) < y(b)
  <2>1. j \in 1 .. R /\ b \in 1 .. R /\ b \in Nat /\ j <= R
    BY <1>1
  <2>2. x(i) < y(j) /\ x(i) \in Nat /\ y(j) \in Nat /\ y(b) \in Nat
    BY <1>3, <1>7, <1>10, <2>1
  <2>3. CASE j = b
    BY <2>1, <2>2, <2>3
  <2>4. CASE j < b
    <3>1. y(j) < y(b)
      BY <1>5, <2>1, <2>4
    <3> QED
      BY <2>1, <2>2, <3>1
  <2> QED
    BY <1>1, <2>1, <2>3, <2>4
<1>15. Lone(l, r, i + 1) = Lone(l, r, i) \cup {i}
  <2>1. ASSUME NEW b \in 1 .. R PROVE x(i) # y(b)
    <3>1. b \in 1 .. j - 1 \/ b \in j .. R
      BY <1>1
    <3>2. x(i) \in Nat /\ y(b) \in Nat
      BY <1>3, <1>10
    <3> QED
      BY <1>13, <1>14, <3>1, <3>2
  <2>2. 1 .. i + 1 - 1 = (1 .. i - 1) \cup {i}
    BY <1>1
  <2> QED
    BY <1>9, <2>1, <2>2
<1>16. Elements(new) = {r[b] : b \in 1 .. j - 1} \cup {l[a] : a \in Lone(l, r, i + 1)}
  <2> HIDE DEF new
  <2> QED
    BY <1>6, <1>11, <1>15
<1>17. \A o \in Elements(new) : /\ \A a \in i + 1 .. L : z(o) < x(a)
                                /\ \A b \in j .. R : z(o) < y(b)
  <2>1. \A a \in i + 1 .. L : a \in i .. L /\ a \in 1 .. L /\ x(i) < x(a)
    BY <1>1, <1>5, <1>10
  <2> HIDE DEF new
  <2> QED
    BY <1>6, <1>7, <1>11, <1>14, <2>1
<1> HIDE DEF new
<1>18. v.i = i + 1 /\ v.j = j /\ v.out = new
  OBVIOUS
<1> HIDE DEF v
<1>19. \A o \in Elements(new) :
         /\ \A a \in i + 1 .. L : Less(o.key, l[a].key, FALSE)
         /\ \A b \in j .. R : Less(o.key, r[b].key, FALSE)
  BY <1>7, <1>8, <1>17
<1>20. Merged(l, r, v)
  BY <1>12, <1>16, <1>18, <1>19, Zenon DEF Merged, L, R
<1> QED
  BY <1>20 DEF v, new, i, j

(* The right entry is next: it is not above what is left of l, and if it   *)
(* has the key of the left one, that is passed too.                        *)
LEMMA MergeRight ==
    ASSUME NEW l \in Seq(Entry), NEW r \in Seq(Entry), Ordered(l, FALSE), Ordered(r, FALSE),
           NEW w \in MergeType, Merged(l, r, w), w.i <= Len(l) + 1, w.j <= Len(r),
           w.i <= Len(l) => ~Less(l[w.i].key, r[w.j].key, FALSE),
           NEW both, both <=> (w.i <= Len(l) /\ Same(l[w.i].key, r[w.j].key, FALSE))
    PROVE  Merged(l, r, [i |-> IF both THEN w.i + 1 ELSE w.i, j |-> w.j + 1,
                         out |-> Append(w.out, r[w.j])])
<1> DEFINE x(a) == Rank(l[a].key, FALSE)
           y(b) == Rank(r[b].key, FALSE)
           z(o) == Rank(o.key, FALSE)
           i == w.i
           j == w.j
           L == Len(l)
           R == Len(r)
           ii == IF both THEN i + 1 ELSE i
           new == Append(w.out, r[j])
           v == [i |-> ii, j |-> j + 1, out |-> new]
<1>1. i \in Nat \ {0} /\ j \in Nat \ {0} /\ w.out \in Seq(Entry) /\ L \in Nat /\ R \in Nat
  BY DEF MergeType
<1>2. (\A a \in 1 .. L : l[a] \in Entry) /\ (\A b \in 1 .. R : r[b] \in Entry)
  BY ElementOfSeq
<1>3. (\A a \in 1 .. L : x(a) \in Nat) /\ (\A b \in 1 .. R : y(b) \in Nat)
  BY <1>2, RankNat, EntryIsNoHole
<1>4. \A o \in Elements(w.out) : z(o) \in Nat
  <2>1. \A a \in 1 .. Len(w.out) : w.out[a] \in Entry
    BY <1>1, ElementOfSeq
  <2> QED
    BY <2>1, RankNat, EntryIsNoHole DEF Elements
<1>5. /\ \A a, b \in 1 .. L : a < b => x(a) < x(b)
      /\ \A a, b \in 1 .. R : a < b => y(a) < y(b)
  BY DEF Ordered, Less
<1>6. /\ Ordered(w.out, FALSE)
      /\ Elements(w.out) = {r[b] : b \in 1 .. j - 1} \cup {l[a] : a \in Lone(l, r, i)}
      /\ \A o \in Elements(w.out) : /\ \A a \in i .. L : z(o) < x(a)
                                    /\ \A b \in j .. R : z(o) < y(b)
  BY DEF Merged, Less
<1>7. /\ i <= L + 1 /\ j <= R /\ (i <= L => ~(x(i) < y(j)))
      /\ both <=> (i <= L /\ x(i) = y(j))
      /\ (\A a : z(l[a]) = x(a)) /\ (\A b : z(r[b]) = y(b))
  BY DEF Less, Same
<1>8. \A o, e : z(o) < z(e) <=> Less(o.key, e.key, FALSE)
  BY DEF Less
<1>9. \A k : Lone(l, r, k) = {a \in 1 .. k - 1 : \A b \in 1 .. R : x(a) # y(b)}
  BY DEF Lone, Same
<1> HIDE DEF x, y, z, i, j, L, R
<1>10. j \in 1 .. R /\ j \in j .. R /\ r[j] \in Entry
  BY <1>1, <1>2, <1>7
<1>11. Elements(new) = Elements(w.out) \cup {r[j]}
  BY <1>1, <1>10, PushFacts
<1>12. Ordered(new, FALSE)
  <2>1. \A o \in Elements(w.out) : z(o) < z(r[j])
    BY <1>6, <1>7, <1>10
  <2>2. \A o \in Elements(w.out) : Less(o.key, r[j].key, FALSE)
    BY <1>8, <2>1
  <2> QED
    BY <1>1, <1>6, <1>10, <2>2, PushedInOrder
<1>13. /\ ii \in Nat /\ ii >= i
       /\ both => ii = i + 1 /\ i \in 1 .. L /\ x(i) = y(j)
       /\ ~both => ii = i /\ (i <= L => x(i) # y(j))
  BY <1>1, <1>7
<1> HIDE DEF ii
<1>14. ASSUME NEW a \in ii .. L PROVE a \in i .. L /\ a \in 1 .. L /\ y(j) < x(a)
  <2>1. a \in i .. L /\ a \in 1 .. L /\ i \in 1 .. L /\ a \in Nat
    BY <1>1, <1>13
  <2>2. x(i) \in Nat /\ y(j) \in Nat /\ x(a) \in Nat
    BY <1>3, <1>10, <2>1
  <2>3. i < a => x(i) < x(a)
    BY <1>5, <2>1
  <2>4. CASE both
    <3>1. i < a /\ x(i) = y(j)
      BY <1>1, <1>13, <2>4
    <3> QED
      BY <2>1, <2>2, <2>3, <3>1
  <2>5. CASE ~both
    <3>1. ~(x(i) < y(j)) /\ x(i) # y(j)
      BY <1>1, <1>7, <1>13, <2>1, <2>5
    <3>2. y(j) < x(i)
      BY <2>2, <3>1
    <3>3. a = i \/ i < a
      BY <1>1, <2>1
    <3> QED
      BY <2>1, <2>2, <2>3, <3>2, <3>3
  <2> QED
    BY <2>4, <2>5
<1>15. \A b \in j + 1 .. R : b \in j .. R /\ b \in 1 .. R /\ y(j) < y(b)
  BY <1>1, <1>5, <1>10
<1>16. Lone(l, r, ii) = Lone(l, r, i)
  <2>1. CASE both
    <3>1. 1 .. ii - 1 = (1 .. i - 1) \cup {i}
      BY <1>1, <1>13, <2>1
    <3>2. x(i) = y(j)
      BY <1>13, <2>1
    <3> QED
      BY <1>9, <1>10, <3>1, <3>2
  <2>2. CASE ~both
    BY <1>13, <2>2
  <2> QED
    BY <2>1, <2>2
<1>17. Elements(new) = {r[b] : b \in 1 .. j + 1 - 1} \cup {l[a] : a \in Lone(l, r, ii)}
  <2>1. 1 .. j + 1 - 1 = (1 .. j - 1) \cup {j}
    BY <1>1
  <2> HIDE DEF new
  <2> QED
    BY <1>6, <1>11, <1>16, <2>1
<1>18. \A o \in Elements(new) : /\ \A a \in ii .. L : z(o) < x(a)
                                /\ \A b \in j + 1 .. R : z(o) < y(b)
  <2> HIDE DEF new
  <2> QED
    BY <1>6, <1>7, <1>11, <1>14, <1>15
<1> HIDE DEF new
<1>19. v.i = ii /\ v.j = j + 1 /\ v.out = new
  OBVIOUS
<1> HIDE DEF v
<1>20. \A o \in Elements(new) :
         /\ \A a \in ii .. L : Less(o.key, l[a].key, FALSE)
         /\ \A b \in j + 1 .. R : Less(o.key, r[b].key, FALSE)
  BY <1>7, <1>8, <1>18
<1>21. Merged(l, r, v)
  <2>1. Ordered(v.out, FALSE)
    BY <1>12, <1>19
  <2>2. Elements(v.out) = {r[b] : b \in 1 .. v.j - 1} \cup {l[a] : a \in Lone(l, r, v.i)}
    <3>1. v.out = new /\ 1 .. v.j - 1 = 1 .. j + 1 - 1 /\ Lone(l, r, v.i) = Lone(l, r, ii)
      BY <1>1, <1>19
    <3> QED
      BY <1>17, <3>1, Zenon
  <2>3. \A o \in Elements(v.out) :
          /\ \A a \in v.i .. L : Less(o.key, l[a].key, FALSE)
          /\ \A b \in v.j .. R : Less(o.key, r[b].key, FALSE)
    BY <1>19, <1>20
  <2> QED
    BY <2>1, <2>2, <2>3, Zenon DEF Merged, L, R
<1> QED
  BY <1>21 DEF v, new, ii, i, j

(* One more step of the merge keeps MergeInv. *)
LEMMA MergeStep ==
    ASSUME NEW l \in Seq(Entry), NEW r \in Seq(Entry), NEW w, NEW n \in Nat, MergeInv(l, r, w, n)
    PROVE  MergeInv(l, r, MergeOne(l, r, w), n + 1)
<1> DEFINE i == w.i
           j == w.j
           L == Len(l)
           R == Len(r)
           leftIsNext == i <= L /\ (j <= R => Less(l[i].key, r[j].key, FALSE))
           both == i <= L /\ j <= R /\ Same(l[i].key, r[j].key, FALSE)
           ii == IF both THEN i + 1 ELSE i
           next == MergeOne(l, r, w)
           ordered == Ordered(l, FALSE) /\ Ordered(r, FALSE)
<1>1. /\ w \in MergeType /\ i <= L + 1 /\ j <= R + 1
      /\ Len(w.out) <= i - 1 + j - 1
      /\ i - 1 + j - 1 >= n \/ (i > L /\ j > R)
      /\ ordered => Merged(l, r, w)
  BY DEF MergeInv
<1>2. i \in Nat \ {0} /\ j \in Nat \ {0} /\ w.out \in Seq(Entry) /\ L \in Nat /\ R \in Nat
  BY <1>1 DEF MergeType
<1>3. (\A a \in 1 .. L : l[a] \in Entry) /\ (\A b \in 1 .. R : r[b] \in Entry)
  BY ElementOfSeq
<1>4. /\ leftIsNext => next = [i |-> i + 1, j |-> j, out |-> Append(w.out, l[i])]
      /\ ~leftIsNext /\ j <= R => next = [i |-> ii, j |-> j + 1, out |-> Append(w.out, r[j])]
      /\ ~leftIsNext /\ ~(j <= R) => next = w
  BY Zenon DEF MergeOne
<1>5. /\ leftIsNext => i <= L
      /\ ~leftIsNext => ~(i <= L) \/ j <= R
      /\ both => i <= L
  BY Zenon
<1>6. /\ leftIsNext => (j <= R => Less(l[i].key, r[j].key, FALSE))
      /\ ~leftIsNext => (i <= L => ~Less(l[i].key, r[j].key, FALSE))
      /\ both <=> i <= L /\ j <= R /\ Same(l[i].key, r[j].key, FALSE)
  BY Zenon
<1> DEFINE Within(a, b, c) == /\ a <= L + 1 /\ b <= R + 1 /\ c <= a - 1 + b - 1
                              /\ a - 1 + b - 1 >= n + 1 \/ (a > L /\ b > R)
<1>7. ASSUME next \in MergeType, Within(next.i, next.j, Len(next.out)),
             ordered => Merged(l, r, next)
      PROVE  MergeInv(l, r, next, n + 1)
  BY <1>7, Zenon DEF MergeInv
<1> HIDE DEF i, j, L, R, leftIsNext, both, next, ordered
<1>8. ii \in Nat \ {0} /\ ii >= i /\ ii <= i + 1 /\ ii <= L + 1
  BY <1>1, <1>2, <1>5
<1> HIDE DEF ii
<1>9. CASE leftIsNext
  <2> DEFINE new == Append(w.out, l[i])
             v == [i |-> i + 1, j |-> j, out |-> new]
  <2>1. l[i] \in Entry
    BY <1>2, <1>3, <1>5, <1>9
  <2>2. new \in Seq(Entry) /\ Len(w.out) \in Nat /\ Len(new) = Len(w.out) + 1
    BY <1>2, <2>1, PushFacts
  <2>3. ordered => Merged(l, r, v)
    BY <1>1, <1>5, <1>6, <1>9, MergeLeft DEF i, j, L, R, ordered
  <2> HIDE DEF new
  <2>4. next = v
    BY <1>4, <1>9 DEF new
  <2>5. next \in MergeType /\ next.i = i + 1 /\ next.j = j /\ next.out = new
    BY <1>2, <2>2, <2>4 DEF MergeType
  <2>6. Within(i + 1, j, Len(new))
    BY <1>1, <1>2, <1>5, <1>9, <2>2
  <2> HIDE DEF Within, v
  <2> QED
    BY <1>7, <2>3, <2>4, <2>5, <2>6 DEF next
<1>10. CASE ~leftIsNext /\ j <= R
  <2> DEFINE new == Append(w.out, r[j])
             v == [i |-> ii, j |-> j + 1, out |-> new]
  <2>1. r[j] \in Entry
    BY <1>2, <1>3, <1>10
  <2>2. new \in Seq(Entry) /\ Len(w.out) \in Nat /\ Len(new) = Len(w.out) + 1
    BY <1>2, <2>1, PushFacts
  <2>3. ordered => Merged(l, r, v)
    <3>1. i <= L => ~Less(l[i].key, r[j].key, FALSE)
      BY <1>6, <1>10
    <3>2. both <=> (i <= L /\ Same(l[i].key, r[j].key, FALSE))
      BY <1>6, <1>10
    <3> QED
      BY <1>1, <1>10, <3>1, <3>2, MergeRight DEF i, j, L, R, ii, ordered
  <2> HIDE DEF new
  <2>4. next = v
    BY <1>4, <1>10 DEF new
  <2>5. next \in MergeType /\ next.i = ii /\ next.j = j + 1 /\ next.out = new
    BY <1>2, <1>8, <2>2, <2>4 DEF MergeType
  <2>6. Within(ii, j + 1, Len(new))
    BY <1>1, <1>2, <1>8, <1>10, <2>2
  <2> HIDE DEF Within, v
  <2> QED
    BY <1>7, <2>3, <2>4, <2>5, <2>6 DEF next
<1>11. CASE ~leftIsNext /\ ~(j <= R)
  <2>1. next = w
    BY <1>4, <1>11
  <2>2. i > L /\ j > R
    BY <1>2, <1>5, <1>11
  <2>3. Within(w.i, w.j, Len(w.out))
    BY <1>1, <1>2, <2>2 DEF i, j
  <2> HIDE DEF Within
  <2> QED
    BY <1>1, <1>7, <2>1, <2>3 DEF next
<1> QED
  BY <1>9, <1>10, <1>11

(* The sum has the entries of r and those of l whose keys are not in r.    *)
LEMMA MergeFacts ==
    ASSUME NEW l \in Seq(Entry), NEW r \in Seq(Entry)
    PROVE  LET out == Merge(l, r)
           IN /\ out \in Seq(Entry) /\ Len(out) <= Len(l) + Len(r)
              /\ Ordered(l, FALSE) /\ Ordered(r, FALSE) =>
                    /\ Ordered(out, FALSE)
                    /\ Elements(out) = Elements(r) \cup
                        {e \in Elements(l) : \A d \in Elements(r) : ~Same(e.key, d.key, FALSE)}
<1> DEFINE N == Len(l) + Len(r)
           begin == [i |-> 1, j |-> 1, out |-> <<>>]
           F(f) == [n \in 0 .. N |-> IF n = 0 THEN begin ELSE MergeOne(l, r, f[n - 1])]
           walk == CHOOSE f : f = F(f)
           T == {w \in MergeType : \E n \in Nat : MergeInv(l, r, w, n)}
           step == [n \in 1 .. N |-> [w \in T |-> MergeOne(l, r, w)]]
<1>1. Merge(l, r) = walk[N].out
  BY DEF Merge
<1>2. N \in Nat /\ Len(l) \in Nat /\ Len(r) \in Nat
  BY LenProperties
<1>3. \A n \in 1 .. N : n - 1 \in 0 .. N /\ n - 1 \in Nat /\ n - 1 + 1 = n /\ n \in 0 .. N
  BY <1>2
<1>4. begin \in MergeType /\ MergeInv(l, r, begin, 0)
  <2>1. begin \in MergeType /\ begin.i = 1 /\ begin.j = 1 /\ begin.out = <<>> /\ Len(<<>>) = 0
    BY DEF MergeType
  <2> HIDE DEF begin
  <2>2. Elements(<<>>) = {} /\ Ordered(<<>>, FALSE)
    BY DEF Elements, Ordered
  <2>3. Lone(l, r, 1) = {} /\ {r[b] : b \in 1 .. 1 - 1} = {}
    BY DEF Lone
  <2>4. Merged(l, r, begin)
    BY <2>1, <2>2, <2>3 DEF Merged
  <2> QED
    BY <1>2, <2>1, <2>4 DEF MergeInv
<1> HIDE DEF begin, N
<1>5. \A w \in T : MergeOne(l, r, w) \in T
  <2>1. ASSUME NEW w, NEW n \in Nat, MergeInv(l, r, w, n)
        PROVE  MergeInv(l, r, MergeOne(l, r, w), n + 1) /\ n + 1 \in Nat
    BY <2>1, MergeStep
  <2>2. \A w, n : MergeInv(l, r, w, n) => w \in MergeType
    BY DEF MergeInv
  <2> QED
    BY <2>1, <2>2
<1>6. begin \in T
  BY <1>4
<1> HIDE DEF T
<1>7. IsLoop(N, T, begin, step)
  BY <1>2, <1>5, <1>6 DEF IsLoop
<1>8. PICK f : Follows(f, N, T, begin, step)
  BY <1>7, Loop, Zenon
<1>9. /\ f \in [0 .. N -> T] /\ f[0] = begin
      /\ \A n \in 1 .. N : f[n] = MergeOne(l, r, f[n - 1])
  <2>1. f \in [0 .. N -> T] /\ f[0] = begin /\ \A n \in 1 .. N : f[n] = step[n][f[n - 1]]
    BY <1>8 DEF Follows
  <2> QED
    BY <1>3, <2>1
<1> HIDE DEF step
<1>10. f = F(f)
  BY <1>2, <1>9
<1>11. walk = F(walk)
  BY <1>10
<1> HIDE DEF walk
<1>12. walk[0] = begin /\ \A n \in 1 .. N : walk[n] = MergeOne(l, r, walk[n - 1])
  BY <1>2, <1>11
<1> DEFINE S == {n \in 0 .. N : MergeInv(l, r, walk[n], n)}
<1>13. 0 \in S
  BY <1>2, <1>4, <1>12
<1>14. ASSUME NEW n \in 1 .. N, n - 1 \in S PROVE n \in S
  <2>1. MergeInv(l, r, walk[n - 1], n - 1) /\ n - 1 \in Nat
    BY <1>3, <1>14
  <2>2. MergeInv(l, r, MergeOne(l, r, walk[n - 1]), n - 1 + 1)
    BY <2>1, MergeStep
  <2> QED
    BY <1>3, <1>12, <2>2
<1>15. \A n \in 0 .. N : n \in S
  <2> HIDE DEF S
  <2> QED
    BY <1>2, <1>13, <1>14, Turns
<1> DEFINE w == walk[N]
           out == w.out
<1>16. MergeInv(l, r, w, N)
  BY <1>2, <1>15
<1> HIDE DEF w
<1>17. /\ w.i \in Nat \ {0} /\ w.j \in Nat \ {0} /\ out \in Seq(Entry)
       /\ w.i <= Len(l) + 1 /\ w.j <= Len(r) + 1 /\ Len(out) <= w.i - 1 + w.j - 1
       /\ w.i - 1 + w.j - 1 >= N \/ (w.i > Len(l) /\ w.j > Len(r))
       /\ Ordered(l, FALSE) /\ Ordered(r, FALSE) => Merged(l, r, w)
  BY <1>16 DEF MergeInv, MergeType
<1>18. Len(out) \in Nat
  BY <1>17, LenProperties
<1>19. w.i - 1 = Len(l) /\ w.j - 1 = Len(r) /\ Len(out) <= Len(l) + Len(r)
  <2> DEFINE i == w.i
             j == w.j
             o == Len(out)
             L == Len(l)
             R == Len(r)
  <2>1. /\ i \in Nat \ {0} /\ j \in Nat \ {0} /\ i <= L + 1 /\ j <= R + 1
        /\ o <= i - 1 + j - 1
        /\ i - 1 + j - 1 >= L + R \/ (i > L /\ j > R)
    BY <1>17, Zenon DEF N
  <2>2. L \in Nat /\ R \in Nat /\ o \in Nat
    BY <1>2, <1>18
  <2> HIDE DEF i, j, o, L, R
  <2>3. i - 1 = L /\ j - 1 = R
    BY <2>1, <2>2
  <2>4. o <= L + R
    BY <2>1, <2>2, <2>3
  <2> QED
    BY <2>3, <2>4 DEF i, j, o, L, R
<1>20. ASSUME Merged(l, r, w)
       PROVE  /\ Ordered(out, FALSE)
              /\ Elements(out) = Elements(r) \cup
                    {e \in Elements(l) : \A d \in Elements(r) : ~Same(e.key, d.key, FALSE)}
  <2>1. /\ Ordered(out, FALSE)
        /\ Elements(out) = {r[b] : b \in 1 .. Len(r)} \cup {l[a] : a \in Lone(l, r, w.i)}
    BY <1>19, <1>20 DEF Merged
  <2>2. {l[a] : a \in Lone(l, r, w.i)} =
            {e \in Elements(l) : \A d \in Elements(r) : ~Same(e.key, d.key, FALSE)}
    <3>1. Lone(l, r, w.i) = {a \in 1 .. Len(l) : \A b \in 1 .. Len(r) : ~Same(l[a].key, r[b].key, FALSE)}
      BY <1>19 DEF Lone
    <3> HIDE DEF w
    <3> QED
      BY <3>1 DEF Elements
  <2> QED
    BY <2>1, <2>2 DEF Elements
<1> QED
  BY <1>1, <1>17, <1>19, <1>20 DEF w

-----------------------------------------------------------------------------
(* The statements *)

(* The inductive invariant: every count is that of the entries, and a      *)
(* table of which kept says so is in the order of its bit.                 *)
HashInv ==
    /\ hash \in [Hashes -> HashState]
    /\ kept \in [Hashes -> BOOLEAN]
    /\ \A h \in Hashes :
        /\ Sound(hash[h])
        /\ Size(hash[h].table) <= MaxSize
        /\ kept[h] => InOrder(hash[h])

MapStep == [Abstract!NextMap]_(Abstract!mapVars)

(* The three variables of the abstract specification. *)
FoldOf == [x \in Hashes |-> hash[x].fold]

MapOf == [x \in Hashes |-> IF kept[x] THEN Contents(hash[x].table) ELSE {}]

(* A hash gets a new value. *)
LEMMA BecomesFacts ==
    ASSUME HashInv, NEW h \in Hashes, NEW s, NEW keeps \in BOOLEAN,
           Sound(s), keeps => InOrder(s), Becomes(h, s, keeps)
    PROVE  /\ HashInv'
           /\ FoldOf' = [FoldOf EXCEPT ![h] = s.fold] /\ kept' = [kept EXCEPT ![h] = keeps]
           /\ MapOf' = [MapOf EXCEPT ![h] = IF keeps THEN Contents(s.table) ELSE {}]
<1>1. /\ hash \in [Hashes -> HashState] /\ kept \in [Hashes -> BOOLEAN]
      /\ hash' = [hash EXCEPT ![h] = s] /\ kept' = [kept EXCEPT ![h] = keeps]
      /\ Size(s.table) <= MaxSize
  BY DEF HashInv, Becomes
<1>2. s \in HashState
  BY DEF Sound
<1>3. /\ hash' \in [Hashes -> HashState] /\ kept' \in [Hashes -> BOOLEAN]
      /\ hash'[h] = s /\ kept'[h] = keeps
      /\ \A g \in Hashes : g # h => hash'[g] = hash[g] /\ kept'[g] = kept[g]
  BY <1>1, <1>2
<1>4. ASSUME NEW g \in Hashes
      PROVE  Sound(hash'[g]) /\ Size(hash'[g].table) <= MaxSize /\ (kept'[g] => InOrder(hash'[g]))
  <2>1. CASE g = h
    BY <1>1, <1>3, <2>1
  <2>2. CASE g # h
    BY <1>3, <2>2 DEF HashInv
  <2> QED
    BY <2>1, <2>2
<1>5. HashInv'
  BY <1>3, <1>4, Zenon DEF HashInv, Sound, InOrder, Size, Sorted, Used
<1>6. FoldOf' = [FoldOf EXCEPT ![h] = s.fold]
  BY <1>3 DEF FoldOf
<1>7. MapOf' = [MapOf EXCEPT ![h] = IF keeps THEN Contents(s.table) ELSE {}]
  <2>1. [x \in Hashes |-> IF kept'[x] THEN Contents(hash'[x].table) ELSE {}] =
            [[x \in Hashes |-> IF kept[x] THEN Contents(hash[x].table) ELSE {}]
                EXCEPT ![h] = IF keeps THEN Contents(s.table) ELSE {}]
    BY <1>3
  <2> QED
    BY <2>1 DEF MapOf, Contents, Used
<1> QED
  BY <1>1, <1>5, <1>6, <1>7

(* These are the abstract variables. *)
LEMMA AbstractVars ==
    /\ Abstract!mapVars = <<FoldOf, kept, MapOf>>
    /\ (Abstract!mapVars)' = <<FoldOf', kept', MapOf'>>
BY DEF Abstract!mapVars, FoldOf, MapOf, Contents

(* Every action of the map is a step of it. *)
LEMMA MapSteps ==
    ASSUME NEW h \in Hashes, NEW g \in Hashes
    PROVE  /\ \A folds \in BOOLEAN, batch \in Batches : Abstract!New(h, folds, batch) => MapStep
           /\ \A batch \in Batches :
                /\ kept[h] /\ Abstract!SetAll(h, batch) => MapStep
                /\ kept[h] /\ Abstract!RemoveSome(h, batch) => MapStep
                /\ kept[h] /\ Abstract!MoveSome(h, g, batch) => MapStep
                /\ kept[h] /\ Abstract!Subset(h, g, batch) => MapStep
                /\ Abstract!PlusTags(g, h, batch) => MapStep
           /\ \A k \in Keys :
                /\ kept[h] /\ Abstract!RemoveOne(h, k) => MapStep
                /\ \A v \in Values :
                    kept[h] /\ Abstract!SetAll(h, <<[key |-> k, value |-> v]>>) => MapStep
           /\ kept[h] /\ Abstract!Copy(h, g) => MapStep
           /\ Abstract!Clear(h) => MapStep
           /\ Abstract!MoveAll(h, g) => MapStep
           /\ Abstract!Unknown(g) => MapStep
           /\ \A r \in Hashes : Abstract!Plus(r, h, g) => MapStep
<1>1. Abstract!NextMap => MapStep
  BY DEF MapStep
<1> QED
  BY <1>1, Zenon DEF Abstract!NextMap

(* A hash gets other entries, and keeps its bit and its order. *)
LEMMA SetsFacts ==
    ASSUME HashInv, NEW h \in Hashes, NEW s, Sound(s), s.fold = hash[h].fold,
           InOrder(hash[h]) => InOrder(s), Sets(h, s)
    PROVE  /\ HashInv' /\ FoldOf' = FoldOf /\ kept' = kept
           /\ kept[h] => MapOf[h] = Contents(hash[h].table)
                         /\ MapOf' = [MapOf EXCEPT ![h] = Contents(s.table)]
           /\ ~kept[h] => MapStep
<1>1. /\ hash \in [Hashes -> HashState] /\ kept \in [Hashes -> BOOLEAN]
      /\ hash' = [hash EXCEPT ![h] = s] /\ kept' = [kept EXCEPT ![h] = kept[h]]
      /\ kept[h] => InOrder(s)
  BY DEF HashInv, Becomes, Sets
<1>2. HashInv'
  <2>1. Becomes(h, s, kept[h]) /\ kept[h] \in BOOLEAN
    BY <1>1 DEF Sets
  <2> QED
    BY <1>1, <2>1, BecomesFacts
<1>3. /\ kept' = kept /\ hash'[h] = s /\ \A g \in Hashes : g # h => hash'[g] = hash[g]
  BY <1>1
<1>4. FoldOf' = FoldOf
  BY <1>3 DEF FoldOf
<1>5. kept[h] => MapOf[h] = Contents(hash[h].table)
                 /\ MapOf' = [MapOf EXCEPT ![h] = Contents(s.table)]
  <2>1. ASSUME kept[h]
        PROVE  [x \in Hashes |-> IF kept'[x] THEN Contents(hash'[x].table) ELSE {}] =
                    [[x \in Hashes |-> IF kept[x] THEN Contents(hash[x].table) ELSE {}]
                        EXCEPT ![h] = Contents(s.table)]
    BY <1>3, <2>1
  <2>2. MapOf' = [x \in Hashes |-> IF kept'[x] THEN Contents(hash'[x].table) ELSE {}]
    BY DEF MapOf, Contents, Used
  <2>3. kept[h] => MapOf[h] = Contents(hash[h].table)
    BY DEF MapOf
  <2> QED
    BY <2>1, <2>2, <2>3 DEF MapOf
<1>6. ~kept[h] => MapOf' = MapOf
  <2>1. ASSUME ~kept[h]
        PROVE  [x \in Hashes |-> IF kept'[x] THEN Contents(hash'[x].table) ELSE {}] =
                    [x \in Hashes |-> IF kept[x] THEN Contents(hash[x].table) ELSE {}]
    BY <1>3, <2>1
  <2>2. MapOf' = [x \in Hashes |-> IF kept'[x] THEN Contents(hash'[x].table) ELSE {}]
    BY DEF MapOf, Contents, Used
  <2> QED
    BY <2>1, <2>2 DEF MapOf
<1>7. ~kept[h] => MapStep
  BY <1>3, <1>4, <1>6, AbstractVars DEF MapStep
<1> QED
  BY <1>2, <1>3, <1>4, <1>5, <1>7

(* The map gets the pairs of a batch. *)
LEMMA SetAllMaps ==
    ASSUME NEW h \in Hashes, NEW batch, FoldOf' = FoldOf, kept' = kept,
           MapOf[h] = Contents(hash[h].table),
           MapOf' = [MapOf EXCEPT ![h] =
                        Abstract!PutAll(Contents(hash[h].table), batch, hash[h].fold)]
    PROVE  Abstract!SetAll(h, batch)
<1>1. FoldOf[h] = hash[h].fold
  BY DEF FoldOf
<1>2. MapOf' = [MapOf EXCEPT ![h] = Abstract!PutAll(MapOf[h], batch, FoldOf[h])]
  BY <1>1
<1> QED
  BY <1>2, Zenon DEF Abstract!SetAll, MapOf, FoldOf, Contents

(* h = HASH(...) *)
LEMMA HashCreateStep ==
    ASSUME HashInv, NEW h \in Hashes, NEW folds \in BOOLEAN, NEW batch \in Batches,
           HashCreate(h, folds, batch)
    PROVE  HashInv' /\ MapStep
<1> DEFINE new == NewHash(Len(batch), folds)
           s == InsertAll(new, batch)
<1>1. batch \in Seq(Entry) /\ Len(batch) \in Nat
  BY BatchesAssumption, LenProperties
<1>2. Sound(new) /\ InOrder(new) /\ new.fold = folds /\ Contents(new.table) = {}
  BY <1>1, NewFacts
<1> HIDE DEF new
<1>3. InsertsAll(new, batch, s)
  BY <1>1, <1>2, InsertAllFacts
<1>4. Becomes(h, s, TRUE)
  BY DEF HashCreate, new
<1> HIDE DEF s
<1>5. /\ Sound(s) /\ s.fold = folds /\ InOrder(s)
      /\ Contents(s.table) = Abstract!PutAll({}, batch, folds)
  BY <1>2, <1>3 DEF InsertsAll
<1>6. /\ HashInv'
      /\ FoldOf' = [FoldOf EXCEPT ![h] = s.fold] /\ kept' = [kept EXCEPT ![h] = TRUE]
      /\ MapOf' = [MapOf EXCEPT ![h] = Contents(s.table)]
  BY <1>4, <1>5, BecomesFacts
<1>7. Abstract!New(h, folds, batch)
  BY <1>5, <1>6, Zenon DEF Abstract!New, Abstract!Becomes, FoldOf, MapOf, Contents
<1> QED
  BY <1>6, <1>7, MapSteps

(* One pair is put by putting all of a sequence of one. *)
LEMMA PutOne ==
    ASSUME NEW m, m \subseteq Entry, NEW e \in Entry, NEW folds
    PROVE  Abstract!PutAll(m, <<e>>, folds) = Abstract!Put(m, e, folds)
<1>1. <<e>> \in Seq(Entry) /\ Len(<<e>>) = 1 /\ <<e>>[1] = e
  OBVIOUS
<1> DEFINE b == <<e>>
<1> HIDE DEF b
<1>2. PICK puts : PutsOnTheWay(puts, m, b, folds) /\ Abstract!PutAll(m, b, folds) = puts[Len(b)]
  BY <1>1, PutAllRuns DEF b
<1>3. puts[0] = m /\ \A n \in 1 .. 1 : puts[n] = Abstract!Put(puts[n - 1], b[n], folds)
  BY <1>1, <1>2 DEF PutsOnTheWay, b
<1>4. puts[1] = Abstract!Put(puts[0], b[1], folds)
  <2>1. 1 \in 1 .. 1 /\ 1 - 1 = 0
    OBVIOUS
  <2> QED
    BY <1>3, <2>1
<1> QED
  BY <1>1, <1>2, <1>3, <1>4 DEF b

(* h[k] = v *)
LEMMA AssignStep ==
    ASSUME HashInv, NEW h \in Hashes, NEW e \in Assignments, Assign(h, e.key, e.value)
    PROVE  HashInv' /\ MapStep
<1> DEFINE s == hash[h]
           t == s.table
           found == Search(s, e.key)
           u == [t EXCEPT ![found.ix].value = e.value]
           r == IF found.at = "found" THEN [s EXCEPT !.table = u] ELSE InsertIntoHashTable(s, e)
           m == Contents(t)
<1>1. /\ e \in Entry /\ e.key \in Keys /\ e.value \in Values
      /\ e = [key |-> e.key, value |-> e.value]
  BY BatchesAssumption DEF Entry
<1>2. Sound(s) /\ s \in HashState /\ t \in Table /\ s.fold \in BOOLEAN
  BY DEF HashInv, Sound, HashState
<1>3. Sets(h, r)
  BY <1>1 DEF Assign
<1>4. /\ found.at = "found" => found.ix \in Used(t)
      /\ InOrder(s) /\ found.at = "found" => Abstract!At(m, e.key, s.fold) = {t[found.ix]}
  BY <1>1, <1>2, SearchTells, Zenon DEF LookedUp
<1>5. m \subseteq Entry
  BY <1>2, ContentsAreEntries
<1> HIDE DEF found, s, t, m
<1>6. Inserts(s, e, r)
  <2>1. CASE found.at = "found"
    <3>1. /\ u \in Table /\ Used(u) = Used(t)
          /\ Sorted(t, s.fold) =>
                /\ Sorted(u, s.fold)
                /\ Contents(u) = (Contents(t) \ {t[found.ix]})
                                    \cup {[t[found.ix] EXCEPT !.value = e.value]}
      <4> DEFINE ix == found.ix
                 v == e.value
      <4>1. ix \in Used(t) /\ t \in Table /\ v \in Values
        BY <1>1, <1>2, <1>4, <2>1
      <4>2. u = [t EXCEPT ![ix].value = v]
        OBVIOUS
      <4> HIDE DEF ix, v, u
      <4> QED
        BY <4>1, <4>2, ReplacedFacts DEF ix, v
    <3>2. r = [s EXCEPT !.table = u]
      BY <2>1
    <3> HIDE DEF r, u
    <3>3. r \in [table : {u}, count : {s.count}, fold : {s.fold}]
      BY <1>2, <3>2 DEF HashState
    <3>4. r.table = u /\ r.count = s.count /\ r.fold = s.fold
      BY <3>3
    <3>5. Sound(r)
      BY <1>2, <3>1, <3>3, <3>4 DEF Sound, HashState, t
    <3>6. ASSUME InOrder(s)
          PROVE  InOrder(r) /\ Contents(u) = Abstract!Put(m, e, s.fold)
      <4>1. Sorted(t, s.fold)
        BY <3>6 DEF InOrder, t
      <4>2. Abstract!Put(m, e, s.fold) =
                (m \ {t[found.ix]}) \cup {[t[found.ix] EXCEPT !.value = e.value]}
        <5>1. Abstract!At(m, e.key, s.fold) = {t[found.ix]}
          BY <1>4, <2>1, <3>6
        <5> QED
          BY <5>1 DEF Abstract!Put
      <4> QED
        BY <3>1, <3>4, <4>1, <4>2 DEF InOrder, m
    <3> QED
      BY <3>4, <3>5, <3>6 DEF Inserts, m, t
  <2>2. CASE found.at # "found"
    BY <1>1, <1>2, <2>2, InsertFacts
  <2> QED
    BY <2>1, <2>2
<1> HIDE DEF r
<1>7. /\ Sound(r) /\ r.fold = s.fold
      /\ InOrder(s) => InOrder(r) /\ Contents(r.table) = Abstract!Put(m, e, s.fold)
  BY <1>6 DEF Inserts, m, t
<1>8. /\ HashInv' /\ FoldOf' = FoldOf /\ kept' = kept
      /\ kept[h] => MapOf[h] = m /\ MapOf' = [MapOf EXCEPT ![h] = Contents(r.table)]
      /\ ~kept[h] => MapStep
  BY <1>3, <1>7, SetsFacts DEF s, t, m
<1>9. ASSUME kept[h] PROVE MapStep
  <2>1. InOrder(s)
    BY <1>9 DEF HashInv, s
  <2>2. Contents(r.table) = Abstract!PutAll(m, <<e>>, s.fold)
    BY <1>1, <1>5, <1>7, <2>1, PutOne
  <2>3. Abstract!SetAll(h, <<e>>)
    BY <1>8, <1>9, <2>2, SetAllMaps DEF s, t, m
  <2> QED
    BY <1>1, <1>9, <2>3, MapSteps
<1> QED
  BY <1>8, <1>9

(* h[keys] = values *)
LEMMA AssignKeysStep ==
    ASSUME HashInv, NEW h \in Hashes, NEW batch \in Batches, AssignKeys(h, batch)
    PROVE  HashInv' /\ MapStep
<1> DEFINE s == hash[h]
           r == InsertAll(s, batch)
<1>1. batch \in Seq(Entry)
  BY BatchesAssumption
<1>2. Sound(s) /\ (kept[h] => InOrder(s))
  BY DEF HashInv
<1>3. Sets(h, r)
  BY DEF AssignKeys
<1>4. InsertsAll(s, batch, r)
  BY <1>1, <1>2, InsertAllFacts
<1> HIDE DEF r, s
<1>5. /\ Sound(r) /\ r.fold = s.fold
      /\ InOrder(s) => InOrder(r) /\ Contents(r.table) =
                            Abstract!PutAll(Contents(s.table), batch, s.fold)
  BY <1>4 DEF InsertsAll
<1>6. /\ HashInv' /\ FoldOf' = FoldOf /\ kept' = kept
      /\ kept[h] => MapOf[h] = Contents(s.table)
                    /\ MapOf' = [MapOf EXCEPT ![h] = Contents(r.table)]
      /\ ~kept[h] => MapStep
  BY <1>3, <1>5, SetsFacts DEF s
<1>7. ASSUME kept[h] PROVE MapStep
  <2>1. Contents(r.table) = Abstract!PutAll(Contents(s.table), batch, s.fold)
    BY <1>2, <1>5, <1>7
  <2>2. Abstract!SetAll(h, batch)
    BY <1>6, <1>7, <2>1, SetAllMaps DEF s
  <2> QED
    BY <1>7, <2>2, MapSteps
<1> QED
  BY <1>6, <1>7

(* Of a hash got from one that is not known nothing is known.              *)
LEMMA UnknownStep ==
    ASSUME NEW h \in Hashes, ~kept[h], NEW g \in Hashes, NEW folds \in BOOLEAN,
           FoldOf' = [FoldOf EXCEPT ![g] = folds], kept' = [kept EXCEPT ![g] = FALSE],
           MapOf' = [MapOf EXCEPT ![g] = {}]
    PROVE  MapStep
<1>1. Abstract!Unknown(g)
  BY Zenon DEF Abstract!Unknown, Abstract!Becomes, FoldOf, MapOf, Contents
<1> QED
  BY <1>1, MapSteps

(* g = h[keys] *)
LEMMA HashSubsetStep ==
    ASSUME HashInv, NEW h \in Hashes, NEW g \in Hashes, NEW batch \in Batches,
           HashSubset(h, g, batch)
    PROVE  HashInv' /\ MapStep
<1> DEFINE s == hash[h]
           r == Subset(s, batch)
<1>1. batch \in Seq(Entry)
  BY BatchesAssumption
<1>2. Sound(s) /\ (kept[h] => InOrder(s)) /\ kept[h] \in BOOLEAN /\ s.fold \in BOOLEAN
  BY DEF HashInv, HashState
<1>3. Becomes(g, r, kept[h])
  BY DEF HashSubset
<1>4. /\ Sound(r) /\ r.fold = s.fold /\ InOrder(r)
      /\ InOrder(s) => Contents(r.table) = Abstract!There(Contents(s.table), batch, s.fold)
  BY <1>1, <1>2, SubsetFacts
<1> HIDE DEF r, s
<1>5. /\ HashInv'
      /\ FoldOf' = [FoldOf EXCEPT ![g] = s.fold] /\ kept' = [kept EXCEPT ![g] = kept[h]]
      /\ MapOf' = [MapOf EXCEPT ![g] = IF kept[h] THEN Contents(r.table) ELSE {}]
  BY <1>2, <1>3, <1>4, BecomesFacts
<1>6. CASE kept[h]
  <2>1. MapOf[h] = Contents(s.table) /\ FoldOf[h] = s.fold
    BY <1>6 DEF MapOf, FoldOf, s
  <2>2. /\ FoldOf' = [FoldOf EXCEPT ![g] = FoldOf[h]] /\ kept' = [kept EXCEPT ![g] = TRUE]
        /\ MapOf' = [MapOf EXCEPT ![g] = Abstract!There(MapOf[h], batch, FoldOf[h])]
    BY <1>2, <1>4, <1>5, <1>6, <2>1
  <2>3. Abstract!Subset(h, g, batch)
    BY <2>2, Zenon DEF Abstract!Subset, Abstract!Becomes, FoldOf, MapOf, Contents
  <2> QED
    BY <1>5, <1>6, <2>3, MapSteps
<1>7. CASE ~kept[h]
  <2>1. kept' = [kept EXCEPT ![g] = FALSE] /\ MapOf' = [MapOf EXCEPT ![g] = {}]
    BY <1>2, <1>5, <1>7
  <2> QED
    BY <1>2, <1>5, <1>7, <2>1, UnknownStep
<1> QED
  BY <1>6, <1>7

(* A pair goes, and with it every pair with that key. *)
LEMMA RemovalStep ==
    ASSUME HashInv, NEW h \in Hashes, NEW i \in Used(hash[h].table), NEW k \in Keys,
           Same(hash[h].table[i].key, k, hash[h].fold), Sets(h, Removed(hash[h], i))
    PROVE  HashInv' /\ MapStep
<1> DEFINE s == hash[h]
           t == s.table
           m == Contents(t)
           r == Removed(s, i)
<1>1. Sound(s) /\ t \in Table /\ (kept[h] => InOrder(s))
  BY DEF HashInv, Sound, HashState
<1>2. /\ Sound(r) /\ r.fold = s.fold
      /\ InOrder(s) => InOrder(r) /\ Contents(r.table) = m \ {t[i]}
  BY <1>1, RemovedFacts
<1> HIDE DEF r, m
<1>3. /\ HashInv' /\ FoldOf' = FoldOf /\ kept' = kept
      /\ kept[h] => MapOf[h] = m /\ MapOf' = [MapOf EXCEPT ![h] = Contents(r.table)]
      /\ ~kept[h] => MapStep
  BY <1>1, <1>2, SetsFacts DEF r, m
<1>4. ASSUME kept[h] PROVE MapStep
  <2>1. Sorted(t, s.fold)
    BY <1>1, <1>4 DEF InOrder
  <2>2. Abstract!At(m, k, s.fold) = {t[i]}
    <3>1. \A j \in Used(t) : Same(t[j].key, k, s.fold) => Same(t[j].key, t[i].key, s.fold)
      BY DEF Same
    <3>2. \A j \in Used(t) : Same(t[j].key, k, s.fold) => j = i
      BY <1>1, <2>1, <3>1, OnePlace
    <3>3. Abstract!At(m, k, s.fold) = {d \in m : Same(d.key, k, s.fold)}
      BY DEF Abstract!At, Abstract!Same, Same, Rank
    <3>4. m = {t[j] : j \in Used(t)}
      BY DEF m, Contents
    <3> QED
      BY <3>2, <3>3, <3>4
  <2>3. FoldOf[h] = s.fold
    BY DEF FoldOf
  <2>4. MapOf' = [MapOf EXCEPT ![h] = MapOf[h] \ Abstract!At(MapOf[h], k, FoldOf[h])]
    BY <1>1, <1>2, <1>3, <1>4, <2>2, <2>3
  <2>5. Abstract!RemoveOne(h, k)
    BY <1>3, <2>4, Zenon DEF Abstract!RemoveOne, MapOf, FoldOf, Contents
  <2> QED
    BY <1>4, <2>5, MapSteps
<1> QED
  BY <1>3, <1>4

(* h.REMOVE(k) *)
LEMMA RemoveKeyStep ==
    ASSUME HashInv, NEW h \in Hashes, NEW k \in Keys, RemoveKey(h, k)
    PROVE  HashInv' /\ MapStep
<1> DEFINE s == hash[h]
           t == s.table
           found == Search(s, k)
<1>1. t \in Table
  BY DEF HashInv, HashState
<1>2. found.at = "found" /\ Sets(h, Removed(s, found.ix))
  BY DEF RemoveKey, Has
<1>3. found.ix \in Used(t) /\ Same(t[found.ix].key, k, s.fold)
  <2> DEFINE folds == s.fold
  <2> HIDE DEF t, folds
  <2>1. found = HashIndex(t, k, folds)
    BY DEF Search, t, folds
  <2> HIDE DEF found
  <2>2. found.at = "found" => found.ix \in Used(t) /\ Same(k, t[found.ix].key, folds)
    BY <1>1, <2>1, SearchFacts
  <2> QED
    BY <1>2, <2>2 DEF Same, folds
<1> QED
  BY <1>2, <1>3, RemovalStep

(* h.REMOVE() *)
LEMMA RemoveAnyStep ==
    ASSUME HashInv, NEW h \in Hashes, RemoveAny(h)
    PROVE  HashInv' /\ MapStep
<1> DEFINE t == hash[h].table
<1>1. t \in Table
  BY DEF HashInv, HashState
<1>2. PICK i \in LastUsed(t) : Sets(h, Removed(hash[h], i))
  BY DEF RemoveAny
<1>3. i \in Used(t)
  <2>1. Size(t) \in Nat \ {0} /\ Used(t) \subseteq 0 .. Size(t) - 1 /\ Size(t) - 1 \in Nat
    BY <1>1, TableFacts
  <2>2. Used(t) # {} /\ i = Max(Used(t))
    BY <1>2, Zenon DEF LastUsed
  <2> HIDE DEF t
  <2> QED
    BY <2>1, <2>2, Largest
<1>4. t[i].key \in Keys
  BY <1>1, <1>3, TableFacts
<1>5. Same(t[i].key, t[i].key, hash[h].fold)
  BY DEF Same
<1> QED
  BY <1>2, <1>3, <1>4, <1>5, RemovalStep


(* What is left when removals are over, and what they took. *)
LEMMA RemovedSome ==
    ASSUME HashInv, NEW h \in Hashes, NEW batch \in Batches
    PROVE  LET s == hash[h]
               x == RemoveEach(s, batch)
               m == Contents(s.table)
               n == Len(x.taken)
               N == Len(batch)
           IN /\ Sound(x.hash) /\ x.hash.fold = s.fold /\ (InOrder(s) => InOrder(x.hash))
              /\ Size(x.hash.table) <= MaxSize
              /\ x.taken \in Seq(Entry) /\ n \in 0 .. N /\ N \in Nat /\ (x.ok => n = N)
              /\ InOrder(s) =>
                    /\ Contents(x.hash.table) = LeftOf(m, batch, n, s.fold)
                    /\ Abstract!Present(m, batch, n, s.fold)
                    /\ n < N => ~Abstract!Present(m, batch, n + 1, s.fold)
                    /\ \A i \in 1 .. n : x.taken[i] = Abstract!Got(m, batch[i], s.fold)
<1> DEFINE s == hash[h]
           x == RemoveEach(s, batch)
           m == Contents(s.table)
           n == Len(x.taken)
           N == Len(batch)
<1>1. Sound(s) /\ batch \in Seq(Entry) /\ Size(s.table) <= MaxSize
  BY BatchesAssumption DEF HashInv
<1>2. RemovedInv(s, batch, x, N)
  BY <1>1, RemoveEachFacts
<1> HIDE DEF x, s, m
<1>3. /\ x \in Partial /\ Sound(x.hash) /\ x.hash.fold = s.fold
      /\ Size(x.hash.table) = Size(s.table)
      /\ IF x.ok THEN n = N ELSE n < N
      /\ InOrder(s) =>
            /\ InOrder(x.hash)
            /\ Contents(x.hash.table) = LeftOf(m, batch, n, s.fold)
            /\ Abstract!Present(m, batch, n, s.fold)
            /\ ~x.ok => ~Abstract!Present(m, batch, n + 1, s.fold)
            /\ \A i \in 1 .. n : x.taken[i] = Abstract!Got(m, batch[i], s.fold)
  BY <1>2, Zenon DEF RemovedInv, m
<1>4. x.taken \in Seq(Entry) /\ n \in Nat /\ N \in Nat
  BY <1>1, <1>3, LenProperties DEF Partial
<1> HIDE DEF n, N
<1>5. n \in 0 .. N /\ (x.ok => n = N) /\ (n < N => ~x.ok)
  BY <1>3, <1>4
<1>6. Size(x.hash.table) <= MaxSize
  BY <1>1, <1>3
<1> QED
  BY <1>3, <1>4, <1>5, <1>6, Zenon DEF x, s, m, n, N

(* h.REMOVE, keys *)
LEMMA RemoveKeysStep ==
    ASSUME HashInv, NEW h \in Hashes, NEW batch \in Batches, RemoveKeys(h, batch)
    PROVE  HashInv' /\ MapStep
<1> DEFINE s == hash[h]
           x == RemoveEach(s, batch)
           m == Contents(s.table)
           n == Len(x.taken)
           N == Len(batch)
<1>1. Sets(h, x.hash)
  BY DEF RemoveKeys
<1>2. /\ Sound(x.hash) /\ x.hash.fold = s.fold /\ (InOrder(s) => InOrder(x.hash))
      /\ n \in 0 .. N
      /\ InOrder(s) =>
            /\ Contents(x.hash.table) = LeftOf(m, batch, n, s.fold)
            /\ Abstract!Present(m, batch, n, s.fold)
            /\ n < N => ~Abstract!Present(m, batch, n + 1, s.fold)
  BY RemovedSome, Zenon
<1>3. kept[h] => InOrder(s)
  BY DEF HashInv
<1> HIDE DEF x, m, n, s
<1>4. /\ HashInv' /\ FoldOf' = FoldOf /\ kept' = kept
      /\ kept[h] => MapOf[h] = m /\ MapOf' = [MapOf EXCEPT ![h] = Contents(x.hash.table)]
      /\ ~kept[h] => MapStep
  BY <1>1, <1>2, SetsFacts DEF m, s
<1>5. ASSUME kept[h] PROVE MapStep
  <2>1. MapOf[h] = m /\ FoldOf[h] = s.fold
    BY <1>4, <1>5 DEF FoldOf, s
  <2>2. /\ Abstract!Present(MapOf[h], batch, n, FoldOf[h])
        /\ n < N => ~Abstract!Present(MapOf[h], batch, n + 1, FoldOf[h])
    BY <1>2, <1>3, <1>5, <2>1, Zenon
  <2>3. MapOf' = [MapOf EXCEPT ![h] = LeftOf(MapOf[h], batch, n, FoldOf[h])]
    BY <1>2, <1>3, <1>4, <1>5, <2>1, Zenon
  <2>4. \A d, e : Abstract!Same(d, e, FoldOf[h]) <=> Same(d, e, FoldOf[h])
    BY DEF Abstract!Same, Same, Rank
  <2>5. LeftOf(MapOf[h], batch, n, FoldOf[h]) =
            {e \in MapOf[h] : \A i \in 1 .. n : ~Abstract!Same(e.key, batch[i].key, FoldOf[h])}
    BY <2>4, Zenon DEF LeftOf
  <2>6. Abstract!RemoveSome(h, batch)
    BY <1>2, <1>4, <2>2, <2>3, <2>5, Zenon DEF Abstract!RemoveSome, MapOf, FoldOf, Contents
  <2> QED
    BY <1>5, <2>6, MapSteps
<1> QED
  BY <1>4, <1>5


BothBecome(h, s, a, g, r, b) ==
    hash' = [hash EXCEPT ![h] = s, ![g] = r] /\ kept' = [kept EXCEPT ![h] = a, ![g] = b]

(* Two hashes get new values. *)
LEMMA TwoBecome ==
    ASSUME HashInv, NEW h \in Hashes, NEW g \in Hashes, g # h,
           NEW s, Sound(s), Size(s.table) <= MaxSize,
           NEW r, Sound(r), Size(r.table) <= MaxSize,
           NEW a \in BOOLEAN, a => InOrder(s), NEW b \in BOOLEAN, b => InOrder(r),
           BothBecome(h, s, a, g, r, b)
    PROVE  /\ HashInv'
           /\ FoldOf' = [FoldOf EXCEPT ![h] = s.fold, ![g] = r.fold]
           /\ MapOf' = [MapOf EXCEPT ![h] = IF a THEN Contents(s.table) ELSE {},
                                     ![g] = IF b THEN Contents(r.table) ELSE {}]
<1>1. hash \in [Hashes -> HashState] /\ kept \in [Hashes -> BOOLEAN]
  BY DEF HashInv
<1>2. s \in HashState /\ r \in HashState
  BY DEF Sound
<1>3. /\ hash' \in [Hashes -> HashState] /\ kept' \in [Hashes -> BOOLEAN]
      /\ hash'[h] = s /\ kept'[h] = a /\ hash'[g] = r /\ kept'[g] = b
      /\ \A k \in Hashes : k # h /\ k # g => hash'[k] = hash[k] /\ kept'[k] = kept[k]
  BY <1>1, <1>2 DEF BothBecome
<1>4. ASSUME NEW k \in Hashes
      PROVE  Sound(hash'[k]) /\ Size(hash'[k].table) <= MaxSize /\ (kept'[k] => InOrder(hash'[k]))
  <2>1. CASE k = h
    BY <1>3, <2>1
  <2>2. CASE k = g
    BY <1>3, <2>2
  <2>3. CASE k # h /\ k # g
    BY <1>3, <2>3 DEF HashInv
  <2> QED
    BY <2>1, <2>2, <2>3
<1>5. HashInv'
  BY <1>3, <1>4, Zenon DEF HashInv, Sound, InOrder, Size, Sorted, Used
<1>6. FoldOf' = [FoldOf EXCEPT ![h] = s.fold, ![g] = r.fold]
  BY <1>3 DEF FoldOf
<1>7. MapOf' = [MapOf EXCEPT ![h] = IF a THEN Contents(s.table) ELSE {},
                             ![g] = IF b THEN Contents(r.table) ELSE {}]
  <2>1. [x \in Hashes |-> IF kept'[x] THEN Contents(hash'[x].table) ELSE {}] =
            [[x \in Hashes |-> IF kept[x] THEN Contents(hash[x].table) ELSE {}]
                EXCEPT ![h] = IF a THEN Contents(s.table) ELSE {},
                       ![g] = IF b THEN Contents(r.table) ELSE {}]
    BY <1>3
  <2> QED
    BY <2>1 DEF MapOf, Contents, Used
<1> QED
  BY <1>5, <1>6, <1>7

(* g = h.REMOVE(keys) *)
LEMMA RemoveKeysFunStep ==
    ASSUME HashInv, NEW h \in Hashes, NEW g \in Hashes, NEW batch \in Batches,
           RemoveKeysFun(h, g, batch)
    PROVE  HashInv' /\ MapStep
<1> DEFINE s == hash[h]
           x == RemoveEach(s, batch)
           m == Contents(s.table)
           n == Len(x.taken)
           N == Len(batch)
           begin == NewHash(N, FALSE)
           new == InsertAll(begin, x.taken)
<1>1. /\ g # h /\ x.ok /\ Size(new.table) <= MaxSize
      /\ hash' = [hash EXCEPT ![h] = x.hash, ![g] = new]
      /\ kept' = [kept EXCEPT ![g] = kept[h]]
  BY Zenon DEF RemoveKeysFun
<1>2. /\ Sound(x.hash) /\ x.hash.fold = s.fold /\ (InOrder(s) => InOrder(x.hash))
      /\ Size(x.hash.table) <= MaxSize
      /\ x.taken \in Seq(Entry) /\ N \in Nat /\ (x.ok => n = N)
      /\ InOrder(s) =>
            /\ Contents(x.hash.table) = LeftOf(m, batch, n, s.fold)
            /\ Abstract!Present(m, batch, n, s.fold)
            /\ \A i \in 1 .. n : x.taken[i] = Abstract!Got(m, batch[i], s.fold)
  BY RemovedSome, Zenon
<1>3. (kept[h] => InOrder(s)) /\ kept \in [Hashes -> BOOLEAN] /\ hash \in [Hashes -> HashState]
  BY DEF HashInv
<1>4. batch \in Seq(Entry) /\ DOMAIN batch = 1 .. N
  BY BatchesAssumption, LenProperties
<1>5. x.taken = [i \in 1 .. n |-> x.taken[i]]
  BY <1>2
<1> HIDE DEF x, m, s, N
<1>6. Sound(begin) /\ InOrder(begin) /\ begin.fold = FALSE /\ Contents(begin.table) = {}
  BY <1>2, NewFacts
<1> HIDE DEF begin
<1>7. InsertsAll(begin, x.taken, new)
  BY <1>2, <1>6, InsertAllFacts
<1> HIDE DEF new
<1>8. /\ Sound(new) /\ new.fold = FALSE /\ InOrder(new)
      /\ Contents(new.table) = Abstract!PutAll({}, x.taken, FALSE)
  BY <1>6, <1>7 DEF InsertsAll
<1>9. kept' = [kept EXCEPT ![h] = kept[h], ![g] = kept[h]] /\ kept[h] \in BOOLEAN
  BY <1>1, <1>3
<1>10. /\ HashInv'
       /\ FoldOf' = [FoldOf EXCEPT ![h] = s.fold, ![g] = FALSE]
       /\ MapOf' = [MapOf EXCEPT ![h] = IF kept[h] THEN Contents(x.hash.table) ELSE {},
                                 ![g] = IF kept[h] THEN Contents(new.table) ELSE {}]
  <2> DEFINE left == x.hash
             keeps == kept[h]
  <2>1. /\ Sound(left) /\ Size(left.table) <= MaxSize /\ (keeps => InOrder(left))
        /\ keeps \in BOOLEAN /\ (keeps => InOrder(new))
        /\ BothBecome(h, left, keeps, g, new, keeps)
    BY <1>1, <1>2, <1>3, <1>8, <1>9 DEF BothBecome
  <2>2. left.fold = s.fold /\ new.fold = FALSE
    BY <1>2, <1>8
  <2> HIDE DEF left, keeps
  <2>3. /\ HashInv'
        /\ FoldOf' = [FoldOf EXCEPT ![h] = left.fold, ![g] = new.fold]
        /\ MapOf' = [MapOf EXCEPT ![h] = IF keeps THEN Contents(left.table) ELSE {},
                                  ![g] = IF keeps THEN Contents(new.table) ELSE {}]
    <3>1. Sound(new) /\ Size(new.table) <= MaxSize /\ g # h
      BY <1>1, <1>8
    <3>2. HashInv'
      BY <2>1, <3>1, TwoBecome
    <3>3. FoldOf' = [FoldOf EXCEPT ![h] = left.fold, ![g] = new.fold]
      BY <2>1, <3>1, TwoBecome
    <3>4. MapOf' = [MapOf EXCEPT ![h] = IF keeps THEN Contents(left.table) ELSE {},
                                  ![g] = IF keeps THEN Contents(new.table) ELSE {}]
      BY <2>1, <3>1, TwoBecome
    <3> QED
      BY <3>2, <3>3, <3>4
  <2> QED
    BY <2>2, <2>3 DEF left, keeps
<1>11. FoldOf' = [FoldOf EXCEPT ![g] = FALSE]
  BY <1>1, <1>10 DEF FoldOf, s
<1>12. CASE kept[h]
  <2>1. MapOf[h] = m /\ FoldOf[h] = s.fold
    BY <1>12 DEF MapOf, FoldOf, m, s
  <2>2. kept' = [kept EXCEPT ![g] = TRUE]
    BY <1>1, <1>3, <1>12
  <2>3. Abstract!Present(MapOf[h], batch, Len(batch), FoldOf[h])
    BY <1>1, <1>2, <1>3, <1>12, <2>1, Zenon DEF N
  <2>4. x.taken = Abstract!From(MapOf[h], batch, FoldOf[h])
    <3>1. \A i \in 1 .. N : x.taken[i] = Abstract!Got(MapOf[h], batch[i], FoldOf[h])
      BY <1>1, <1>2, <1>3, <1>12, <2>1, Zenon
    <3>2. x.taken = [i \in 1 .. N |-> x.taken[i]]
      BY <1>1, <1>2, <1>5, Zenon
    <3>3. x.taken = [i \in DOMAIN batch |-> Abstract!Got(MapOf[h], batch[i], FoldOf[h])]
      BY <1>4, <3>1, <3>2, Zenon
    <3> QED
      BY <3>3 DEF Abstract!From
  <2>5. Contents(x.hash.table) =
            {e \in MapOf[h] : \A i \in DOMAIN batch : ~Abstract!Same(e.key, batch[i].key, FoldOf[h])}
    <3>1. \A d, e : Abstract!Same(d, e, FoldOf[h]) <=> Same(d, e, FoldOf[h])
      BY DEF Abstract!Same, Same, Rank
    <3>2. Contents(x.hash.table) = LeftOf(MapOf[h], batch, N, FoldOf[h])
      BY <1>1, <1>2, <1>3, <1>12, <2>1, Zenon
    <3> QED
      BY <1>4, <3>1, <3>2, Zenon DEF LeftOf
  <2>6. MapOf' = [MapOf EXCEPT ![h] = Contents(x.hash.table),
                               ![g] = Abstract!PutAll({}, Abstract!From(MapOf[h], batch, FoldOf[h]), FALSE)]
    BY <1>8, <1>10, <1>12, <2>4
  <2>7. MapOf' = [MapOf EXCEPT ![g] = Abstract!PutAll({}, Abstract!From(MapOf[h], batch, FoldOf[h]), FALSE),
                               ![h] = Contents(x.hash.table)]
    BY <1>1, <2>6
  <2>8. Abstract!MoveSome(h, g, batch)
    BY <1>1, <1>11, <2>2, <2>3, <2>5, <2>7, Zenon DEF Abstract!MoveSome, MapOf, FoldOf, Contents
  <2> QED
    BY <1>10, <1>12, <2>8, MapSteps
<1>13. CASE ~kept[h]
  <2>1. MapOf[h] = {}
    BY <1>13 DEF MapOf
  <2>2. kept' = [kept EXCEPT ![g] = FALSE] /\ MapOf' = [MapOf EXCEPT ![g] = {}]
    <3>1. kept' = [kept EXCEPT ![g] = FALSE]
      BY <1>1, <1>3, <1>13
    <3>2. MapOf' = [MapOf EXCEPT ![h] = {}, ![g] = {}]
      BY <1>10, <1>13
    <3> QED
      BY <1>1, <2>1, <3>1, <3>2 DEF MapOf
  <2> QED
    BY <1>10, <1>11, <1>13, <2>2, UnknownStep
<1> QED
  BY <1>12, <1>13


(* h.REMOVE, /ALL *)
LEMMA RemoveAllStep ==
    ASSUME HashInv, NEW h \in Hashes, RemoveAll(h)
    PROVE  HashInv' /\ MapStep
<1> DEFINE s == hash[h]
           new == NewHash(0, s.fold)
<1>1. Becomes(h, new, TRUE)
  BY DEF RemoveAll
<1>2. s.fold \in BOOLEAN
  BY DEF HashInv, HashState
<1>3. Sound(new) /\ InOrder(new) /\ new.fold = s.fold /\ Contents(new.table) = {}
  BY <1>2, NewFacts
<1> HIDE DEF new, s
<1>4. /\ HashInv'
      /\ FoldOf' = [FoldOf EXCEPT ![h] = s.fold] /\ kept' = [kept EXCEPT ![h] = TRUE]
      /\ MapOf' = [MapOf EXCEPT ![h] = {}]
  <2>1. /\ HashInv'
        /\ FoldOf' = [FoldOf EXCEPT ![h] = new.fold] /\ kept' = [kept EXCEPT ![h] = TRUE]
        /\ MapOf' = [MapOf EXCEPT ![h] = Contents(new.table)]
    BY <1>1, <1>3, BecomesFacts
  <2> QED
    BY <1>3, <2>1
<1>5. FoldOf[h] = s.fold
  BY DEF FoldOf, s
<1>6. Abstract!Clear(h)
  BY <1>4, <1>5, Zenon DEF Abstract!Clear, Abstract!Becomes, FoldOf, MapOf, Contents
<1> QED
  BY <1>4, <1>6, MapSteps

(* g = h.REMOVE(/ALL) *)
LEMMA RemoveAllFunStep ==
    ASSUME HashInv, NEW h \in Hashes, NEW g \in Hashes, RemoveAllFun(h, g)
    PROVE  HashInv' /\ MapStep
<1> DEFINE s == hash[h]
           new == NewHash(0, s.fold)
           r == [s EXCEPT !.fold = FALSE]
           keeps == kept[h] /\ ~s.fold
<1>1. /\ g # h /\ hash' = [hash EXCEPT ![h] = new, ![g] = r]
      /\ kept' = [kept EXCEPT ![h] = TRUE, ![g] = keeps]
  <2>1. hash \in [Hashes -> HashState]
    BY DEF HashInv
  <2> QED
    BY <2>1 DEF RemoveAllFun
<1>2. /\ Sound(s) /\ s \in HashState /\ s.fold \in BOOLEAN /\ (kept[h] => InOrder(s))
      /\ Size(s.table) <= MaxSize
  BY DEF HashInv, HashState
<1>3. /\ Sound(new) /\ InOrder(new) /\ new.fold = s.fold /\ Contents(new.table) = {}
      /\ Size(new.table) = GetInitialTableSize(0)
  BY <1>2, NewFacts
<1>4. Size(new.table) <= MaxSize
  BY <1>3, SmallestSize, BoundsAssumption
<1>5. r \in [table : {s.table}, count : {s.count}, fold : {FALSE}]
  BY <1>2 DEF HashState
<1> HIDE DEF new, r, s
<1>6. r.table = s.table /\ r.count = s.count /\ r.fold = FALSE
  BY <1>5
<1>7. Sound(r)
  BY <1>2, <1>5, <1>6 DEF Sound, HashState
<1>8. keeps => InOrder(r)
  BY <1>2, <1>6 DEF InOrder
<1> DEFINE all == TRUE
<1>9. BothBecome(h, new, all, g, r, keeps)
  BY <1>1 DEF BothBecome
<1>10. keeps \in BOOLEAN /\ all \in BOOLEAN /\ all
  BY <1>2
<1> HIDE DEF keeps, all
<1>11. /\ g # h /\ keeps \in BOOLEAN /\ all \in BOOLEAN
       /\ Sound(new) /\ Size(new.table) <= MaxSize /\ (all => InOrder(new))
       /\ Sound(r) /\ Size(r.table) <= MaxSize /\ (keeps => InOrder(r))
  BY <1>1, <1>2, <1>3, <1>4, <1>6, <1>7, <1>8, <1>10
<1>12. HashInv'
  BY <1>9, <1>11, TwoBecome
<1>13. FoldOf' = [FoldOf EXCEPT ![h] = new.fold, ![g] = r.fold]
  BY <1>9, <1>11, TwoBecome
<1>14. MapOf' = [MapOf EXCEPT ![h] = {}, ![g] = IF keeps THEN Contents(s.table) ELSE {}]
  <2>1. MapOf' = [MapOf EXCEPT ![h] = IF all THEN Contents(new.table) ELSE {},
                               ![g] = IF keeps THEN Contents(r.table) ELSE {}]
    BY <1>9, <1>11, TwoBecome
  <2> QED
    BY <1>3, <1>6, <1>10, <2>1
<1>15. FoldOf[h] = s.fold
  BY DEF FoldOf, s
<1>16. FoldOf' = [FoldOf EXCEPT ![g] = FALSE]
  BY <1>1, <1>3, <1>6, <1>13, <1>15 DEF FoldOf
<1>17. keeps <=> (kept[h] /\ ~FoldOf[h])
  BY <1>15 DEF keeps
<1>18. kept[h] => MapOf[h] = Contents(s.table)
  BY DEF MapOf, s
<1>19. MapOf' = [MapOf EXCEPT ![h] = {}, ![g] = IF kept[h] /\ ~FoldOf[h] THEN MapOf[h] ELSE {}]
  BY <1>14, <1>17, <1>18
<1>20. kept' = [kept EXCEPT ![h] = TRUE, ![g] = kept[h] /\ ~FoldOf[h]]
  BY <1>1, <1>15 DEF keeps
<1>21. Abstract!MoveAll(h, g)
  BY <1>1, <1>16, <1>19, <1>20, Zenon DEF Abstract!MoveAll, FoldOf, MapOf, Contents
<1> QED
  BY <1>12, <1>21, MapSteps


(* r = h + g *)
LEMMA PlusHashStep ==
    ASSUME HashInv, NEW r \in Hashes, NEW h \in Hashes, NEW g \in Hashes, PlusHash(r, h, g)
    PROVE  HashInv' /\ MapStep
<1> DEFINE s == hash[h]
           d == hash[g]
           left == Entries(s.table)
           right == Entries(d.table)
           merged == Merge(left, right)
           most == s.count + d.count
           size == GetInitialTableSize(most)
           t == Spread(merged, size, most)
           x == [table |-> t, count |-> Len(merged), fold |-> FALSE]
           keeps == kept[h] /\ kept[g] /\ ~s.fold /\ ~d.fold
<1>1. Becomes(r, x, keeps)
  BY Zenon DEF PlusHash
<1>2. /\ Sound(s) /\ s.table \in Table /\ s.count \in Nat /\ s.fold \in BOOLEAN
      /\ Sound(d) /\ d.table \in Table /\ d.count \in Nat /\ d.fold \in BOOLEAN
      /\ kept[h] => InOrder(s)
      /\ kept[g] => InOrder(d)
  BY DEF HashInv, HashState
<1>3. /\ left \in Seq(Entry) /\ Len(left) = s.count /\ Elements(left) = Contents(s.table)
      /\ Sorted(s.table, FALSE) => Ordered(left, FALSE)
  BY <1>2, EntriesFacts DEF Sound
<1>4. /\ right \in Seq(Entry) /\ Len(right) = d.count /\ Elements(right) = Contents(d.table)
      /\ Sorted(d.table, FALSE) => Ordered(right, FALSE)
  BY <1>2, EntriesFacts DEF Sound
<1> HIDE DEF left, right
<1>5. /\ merged \in Seq(Entry) /\ Len(merged) <= Len(left) + Len(right)
      /\ Ordered(left, FALSE) /\ Ordered(right, FALSE) =>
            /\ Ordered(merged, FALSE)
            /\ Elements(merged) = Elements(right) \cup
                  {e \in Elements(left) : \A o \in Elements(right) : ~Same(e.key, o.key, FALSE)}
  BY <1>3, <1>4, MergeFacts
<1>6. most \in Nat /\ Len(merged) \in Nat /\ Len(merged) <= most
  BY <1>2, <1>3, <1>4, <1>5, LenProperties
<1> HIDE DEF merged, most
<1>7. size \in Nat \ {0} /\ most <= size
  <2>1. size \in Nat /\ size >= 4 /\ size >= 2 * most
    BY <1>6, InitialSize
  <2> HIDE DEF size
  <2> QED
    BY <1>6, <2>1
<1> HIDE DEF size
<1>8. /\ t \in Table /\ Cardinality(Used(t)) = Len(merged) /\ Contents(t) = Elements(merged)
      /\ Ordered(merged, FALSE) => Sorted(t, FALSE)
  BY <1>5, <1>6, <1>7, SpreadFacts
<1> HIDE DEF t
<1>9. x.table = t /\ x.count = Len(merged) /\ x.fold = FALSE /\ x \in HashState
  BY <1>6, <1>8 DEF HashState
<1> HIDE DEF x
<1>10. Sound(x)
  BY <1>8, <1>9 DEF Sound
<1>11. keeps => /\ Ordered(left, FALSE) /\ Ordered(right, FALSE)
                /\ MapOf[h] = Elements(left) /\ MapOf[g] = Elements(right)
  <2>1. ~s.fold => s.fold = FALSE
    BY <1>2
  <2>2. ~d.fold => d.fold = FALSE
    BY <1>2
  <2>3. keeps => Sorted(s.table, FALSE) /\ Sorted(d.table, FALSE)
    BY <1>2, <2>1, <2>2 DEF InOrder
  <2>4. (kept[h] => MapOf[h] = Contents(s.table)) /\ (kept[g] => MapOf[g] = Contents(d.table))
    BY DEF MapOf
  <2> QED
    BY <1>3, <1>4, <2>3, <2>4, Zenon
<1>12. keeps => InOrder(x)
  BY <1>5, <1>8, <1>9, <1>11, Zenon DEF InOrder
<1>13. keeps \in BOOLEAN
  BY <1>2
<1> HIDE DEF s, d, keeps
<1>14. /\ HashInv'
       /\ FoldOf' = [FoldOf EXCEPT ![r] = x.fold] /\ kept' = [kept EXCEPT ![r] = keeps]
       /\ MapOf' = [MapOf EXCEPT ![r] = IF keeps THEN Contents(x.table) ELSE {}]
  BY <1>1, <1>10, <1>12, <1>13, BecomesFacts
<1> DEFINE sum == MapOf[g] \cup {e \in MapOf[h] : Abstract!At(MapOf[g], e.key, FALSE) = {}}
<1>15. keeps => Contents(x.table) = sum
  <2>1. \A e : Abstract!At(MapOf[g], e, FALSE) = {} <=> \A o \in MapOf[g] : ~Same(e, o.key, FALSE)
    BY DEF Abstract!At, Abstract!Same, Same, Rank
  <2>2. {e \in MapOf[h] : \A o \in MapOf[g] : ~Same(e.key, o.key, FALSE)} =
            {e \in MapOf[h] : Abstract!At(MapOf[g], e.key, FALSE) = {}}
    BY <2>1, Zenon
  <2> QED
    BY <1>5, <1>8, <1>9, <1>11, <2>2, Zenon
<1> HIDE DEF sum
<1>16. /\ FoldOf' = [FoldOf EXCEPT ![r] = FALSE]
       /\ MapOf' = [MapOf EXCEPT ![r] = IF keeps THEN sum ELSE {}]
  BY <1>9, <1>14, <1>15
<1>17. FoldOf[h] = s.fold /\ FoldOf[g] = d.fold
  BY DEF FoldOf, s, d
<1>18. keeps = (kept[h] /\ kept[g] /\ ~FoldOf[h] /\ ~FoldOf[g])
  BY <1>17 DEF keeps
<1>19. Abstract!Plus(r, h, g)
  BY <1>14, <1>16, <1>18, Zenon DEF Abstract!Plus, Abstract!Becomes, sum, FoldOf, MapOf, Contents
<1> QED
  BY <1>14, <1>19, MapSteps


(* r = h + structure *)
LEMMA PlusStructStep ==
    ASSUME HashInv, NEW r \in Hashes, NEW h \in Hashes, NEW batch \in Batches,
           PlusStruct(r, h, batch)
    PROVE  HashInv' /\ MapStep
<1> DEFINE s == hash[h]
           entries == Entries(s.table)
           most == s.count + Len(batch)
           size == GetInitialTableSize(most)
           copy == Spread(entries, size, s.count)
           x == [table |-> copy, count |-> s.count, fold |-> FALSE]
           y == InsertAll(x, batch)
           keeps == kept[h] /\ ~s.fold
<1>1. Becomes(r, y, keeps)
  BY Zenon DEF PlusStruct
<1>2. /\ Sound(s) /\ s.table \in Table /\ s.count \in Nat /\ s.fold \in BOOLEAN
      /\ kept[h] => InOrder(s)
  BY DEF HashInv, HashState
<1>3. batch \in Seq(Entry) /\ Len(batch) \in Nat
  BY BatchesAssumption, LenProperties
<1>4. /\ entries \in Seq(Entry) /\ Len(entries) = s.count /\ Elements(entries) = Contents(s.table)
      /\ Sorted(s.table, FALSE) => Ordered(entries, FALSE)
  BY <1>2, EntriesFacts DEF Sound
<1>5. most \in Nat /\ s.count <= most
  BY <1>2, <1>3
<1> HIDE DEF entries, most
<1>6. size \in Nat \ {0} /\ s.count <= size
  <2>1. size \in Nat /\ size >= 4 /\ size >= 2 * most
    BY <1>5, InitialSize
  <2> HIDE DEF size, s
  <2> QED
    BY <1>2, <1>5, <2>1
<1> HIDE DEF size
<1>7. /\ copy \in Table /\ Cardinality(Used(copy)) = s.count /\ Contents(copy) = Contents(s.table)
      /\ Sorted(s.table, FALSE) => Sorted(copy, FALSE)
  <2>1. Len(entries) <= s.count
    BY <1>2, <1>4
  <2>2. /\ copy \in Table /\ Cardinality(Used(copy)) = Len(entries)
        /\ Contents(copy) = Elements(entries)
        /\ Ordered(entries, FALSE) => Sorted(copy, FALSE)
    BY <1>2, <1>4, <1>6, <2>1, SpreadFacts
  <2> QED
    BY <1>4, <2>2
<1> HIDE DEF copy
<1>8. x.table = copy /\ x.count = s.count /\ x.fold = FALSE /\ x \in HashState
  BY <1>2, <1>7 DEF HashState
<1> HIDE DEF x
<1>9. Sound(x)
  BY <1>7, <1>8 DEF Sound
<1>10. InsertsAll(x, batch, y)
  BY <1>3, <1>9, InsertAllFacts
<1> HIDE DEF y
<1>11. keeps => InOrder(x)
  <2>1. ~s.fold => s.fold = FALSE
    BY <1>2
  <2>2. keeps => Sorted(s.table, FALSE)
    BY <1>2, <2>1 DEF InOrder
  <2> QED
    BY <1>7, <1>8, <2>2, Zenon DEF InOrder
<1>12. /\ Sound(y) /\ y.fold = x.fold
       /\ keeps => InOrder(y) /\ Contents(y.table) =
                                    Abstract!PutAll(Contents(x.table), batch, x.fold)
  BY <1>10, <1>11, Zenon DEF InsertsAll
<1>13. keeps \in BOOLEAN
  BY <1>2
<1> HIDE DEF keeps, s
<1>14. /\ HashInv'
       /\ FoldOf' = [FoldOf EXCEPT ![r] = y.fold] /\ kept' = [kept EXCEPT ![r] = keeps]
       /\ MapOf' = [MapOf EXCEPT ![r] = IF keeps THEN Contents(y.table) ELSE {}]
  BY <1>1, <1>12, <1>13, BecomesFacts
<1>15. keeps => Contents(y.table) = Abstract!PutAll(MapOf[h], batch, FALSE)
  <2>1. keeps => MapOf[h] = Contents(s.table)
    BY DEF MapOf, keeps, s
  <2> QED
    BY <1>7, <1>8, <1>12, <2>1, Zenon
<1>16. /\ FoldOf' = [FoldOf EXCEPT ![r] = FALSE]
       /\ MapOf' = [MapOf EXCEPT ![r] =
                        IF keeps THEN Abstract!PutAll(MapOf[h], batch, FALSE) ELSE {}]
  BY <1>8, <1>12, <1>14, <1>15
<1>17. FoldOf[h] = s.fold
  BY DEF FoldOf, s
<1>18. keeps = (kept[h] /\ ~FoldOf[h])
  BY <1>17 DEF keeps
<1>19. Abstract!PlusTags(r, h, batch)
  BY <1>14, <1>16, <1>18, Zenon DEF Abstract!PlusTags, Abstract!Becomes, FoldOf, MapOf, Contents
<1> QED
  BY <1>14, <1>19, MapSteps

(* Entries in order are put one by one: none has the key of another.       *)
LEMMA AllArePut ==
    ASSUME NEW es \in Seq(Entry), NEW folds, Ordered(es, folds)
    PROVE  Abstract!PutAll({}, es, folds) = Elements(es)
<1> DEFINE N == Len(es)
<1>1. PICK puts : PutsOnTheWay(puts, {}, es, folds) /\ Abstract!PutAll({}, es, folds) = puts[N]
  BY PutAllRuns
<1>2. /\ N \in Nat /\ puts[0] = {}
      /\ \A n \in 1 .. N : puts[n] = Abstract!Put(puts[n - 1], es[n], folds)
  BY <1>1, LenProperties DEF PutsOnTheWay
<1>3. \A a \in 1 .. N : Rank(es[a].key, folds) \in Nat
  BY ElementOfSeq, EntryIsNoHole, RankNat
<1>4. \A a, b \in 1 .. N : a < b => ~Same(es[a].key, es[b].key, folds)
  BY <1>3 DEF Ordered, Less, Same
<1> HIDE DEF N
<1> DEFINE First(n) == {es[a] : a \in 1 .. n}
           S == {n \in 0 .. N : puts[n] = First(n)}
<1>5. 0 \in S
  BY <1>2
<1>6. ASSUME NEW n \in 1 .. N, n - 1 \in S PROVE n \in S
  <2>1. n - 1 \in 0 .. N /\ n \in 0 .. N /\ 1 .. n = (1 .. n - 1) \cup {n}
    BY <1>2
  <2>2. Abstract!At(First(n - 1), es[n].key, folds) = {}
    <3>1. \A a \in 1 .. n - 1 : ~Same(es[a].key, es[n].key, folds)
      BY <1>2, <1>4
    <3> QED
      BY <3>1 DEF Abstract!At, Abstract!Same, Same, Rank
  <2>3. Abstract!Put(First(n - 1), es[n], folds) = First(n - 1) \cup {es[n]}
    BY <2>2, Zenon DEF Abstract!Put
  <2>4. First(n) = First(n - 1) \cup {es[n]}
    BY <2>1
  <2> QED
    BY <1>2, <1>6, <2>1, <2>3, <2>4
<1>7. \A n \in 0 .. N : n \in S
  <2> HIDE DEF S
  <2> QED
    BY <1>2, <1>5, <1>6, Turns
<1>8. puts[N] = First(N)
  BY <1>2, <1>7
<1> QED
  BY <1>1, <1>8 DEF Elements, N

(* g = h[*] *)
LEMMA HashDuplicateStep ==
    ASSUME HashInv, NEW h \in Hashes, NEW g \in Hashes, HashDuplicate(h, g)
    PROVE  HashInv' /\ MapStep
<1> DEFINE s == hash[h]
           entries == Entries(s.table)
           begin == NewHash(s.count, s.fold)
           y == InsertAll(begin, entries)
           keeps == kept[h]
<1>1. Becomes(g, y, keeps)
  BY Zenon DEF HashDuplicate
<1>2. /\ Sound(s) /\ s.table \in Table /\ s.count \in Nat /\ s.fold \in BOOLEAN
      /\ (keeps => InOrder(s)) /\ keeps \in BOOLEAN
  BY DEF HashInv, HashState
<1>3. /\ entries \in Seq(Entry) /\ Elements(entries) = Contents(s.table)
      /\ Sorted(s.table, s.fold) => Ordered(entries, s.fold)
  BY <1>2, EntriesFacts
<1> HIDE DEF entries
<1>4. Sound(begin) /\ InOrder(begin) /\ begin.fold = s.fold /\ Contents(begin.table) = {}
  BY <1>2, NewFacts
<1> HIDE DEF begin
<1>5. InsertsAll(begin, entries, y)
  BY <1>3, <1>4, InsertAllFacts
<1> HIDE DEF y, s
<1>6. /\ Sound(y) /\ y.fold = s.fold /\ InOrder(y)
      /\ Contents(y.table) = Abstract!PutAll({}, entries, s.fold)
  BY <1>4, <1>5 DEF InsertsAll
<1>7. keeps => Contents(y.table) = Contents(s.table)
  BY <1>2, <1>3, <1>6, AllArePut DEF InOrder
<1> HIDE DEF keeps
<1>8. /\ HashInv'
      /\ FoldOf' = [FoldOf EXCEPT ![g] = y.fold] /\ kept' = [kept EXCEPT ![g] = keeps]
      /\ MapOf' = [MapOf EXCEPT ![g] = IF keeps THEN Contents(y.table) ELSE {}]
  BY <1>1, <1>2, <1>6, BecomesFacts
<1>9. CASE keeps
  <2>1. MapOf[h] = Contents(s.table) /\ FoldOf[h] = s.fold
    BY <1>9 DEF MapOf, FoldOf, s, keeps
  <2>2. /\ FoldOf' = [FoldOf EXCEPT ![g] = FoldOf[h]] /\ kept' = [kept EXCEPT ![g] = TRUE]
        /\ MapOf' = [MapOf EXCEPT ![g] = MapOf[h]]
    BY <1>2, <1>6, <1>7, <1>8, <1>9, <2>1
  <2>3. Abstract!Copy(h, g)
    BY <2>2, Zenon DEF Abstract!Copy, Abstract!Becomes, FoldOf, MapOf, Contents
  <2> QED
    BY <1>8, <1>9, <2>3, MapSteps DEF keeps
<1>10. CASE ~keeps
  <2>1. /\ kept' = [kept EXCEPT ![g] = FALSE] /\ MapOf' = [MapOf EXCEPT ![g] = {}]
        /\ FoldOf' = [FoldOf EXCEPT ![g] = s.fold]
    BY <1>2, <1>6, <1>8, <1>10
  <2> QED
    BY <1>2, <1>8, <1>10, <2>1, UnknownStep DEF keeps
<1> QED
  BY <1>9, <1>10


-----------------------------------------------------------------------------
(* All behaviours *)

(* All hashes are empty at first, and so are the maps. *)
LEMMA Begins ==
    ASSUME Init
    PROVE  HashInv /\ Abstract!InitMap
<1> DEFINE new == NewHash(0, FALSE)
<1>1. hash = [h \in Hashes |-> new] /\ kept = [h \in Hashes |-> TRUE]
  BY DEF Init
<1>2. /\ Sound(new) /\ InOrder(new) /\ new.fold = FALSE /\ Contents(new.table) = {}
      /\ Size(new.table) = GetInitialTableSize(0)
  BY NewFacts
<1>3. Size(new.table) <= MaxSize
  BY <1>2, SmallestSize, BoundsAssumption
<1> HIDE DEF new
<1>4. new \in HashState
  BY <1>2 DEF Sound
<1>5. HashInv
  BY <1>1, <1>2, <1>3, <1>4 DEF HashInv
<1>6. FoldOf = [h \in Hashes |-> FALSE] /\ MapOf = [h \in Hashes |-> {}]
  BY <1>1, <1>2 DEF FoldOf, MapOf
<1>7. Abstract!InitMap
  BY <1>1, <1>6, Zenon DEF Abstract!InitMap, FoldOf, MapOf, Contents
<1> QED
  BY <1>5, <1>7

(* Nothing happens. *)
LEMMA StaysAsItIs ==
    ASSUME HashInv, UNCHANGED vars
    PROVE  HashInv' /\ MapStep
<1>1. hash' = hash /\ kept' = kept
  BY DEF vars
<1>2. HashInv'
  BY <1>1, Zenon DEF HashInv, Sound, InOrder, Size, Sorted, Used
<1>3. FoldOf' = FoldOf
  BY <1>1 DEF FoldOf
<1>4. MapOf' = MapOf
  BY <1>1 DEF MapOf, Contents, Used
<1> QED
  BY <1>1, <1>2, <1>3, <1>4, AbstractVars DEF MapStep

(* Every statement keeps the invariant, and is a step of the map.          *)
LEMMA EveryStatement ==
    ASSUME HashInv, Next
    PROVE  HashInv' /\ MapStep
<1>1. PICK h \in Hashes : Removal(h) \/ Insertion(h)
  BY Zenon DEF Next
<1>2. CASE Removal(h)
  <2>1. CASE RemoveAll(h)
    BY <2>1, RemoveAllStep
  <2>2. ASSUME NEW g \in Hashes, RemoveAllFun(h, g)
        PROVE  HashInv' /\ MapStep
    BY <2>2, RemoveAllFunStep
  <2>3. ASSUME NEW g \in Hashes, NEW batch \in Batches, RemoveKeysFun(h, g, batch)
        PROVE  HashInv' /\ MapStep
    BY <2>3, RemoveKeysFunStep
  <2>4. CASE RemoveAny(h)
    BY <2>4, RemoveAnyStep
  <2>5. ASSUME NEW k \in Keys, RemoveKey(h, k)
        PROVE  HashInv' /\ MapStep
    BY <2>5, RemoveKeyStep
  <2>6. ASSUME NEW batch \in Batches, RemoveKeys(h, batch)
        PROVE  HashInv' /\ MapStep
    BY <2>6, RemoveKeysStep
  <2> QED
    BY <1>2, <2>1, <2>2, <2>3, <2>4, <2>5, <2>6, Zenon DEF Removal
<1>3. CASE Insertion(h)
  <2>1. ASSUME NEW folds \in BOOLEAN, NEW batch \in Batches, HashCreate(h, folds, batch)
        PROVE  HashInv' /\ MapStep
    BY <2>1, HashCreateStep
  <2>2. ASSUME NEW e \in Assignments, Assign(h, e.key, e.value)
        PROVE  HashInv' /\ MapStep
    BY <2>2, AssignStep
  <2>3. ASSUME NEW batch \in Batches, AssignKeys(h, batch)
        PROVE  HashInv' /\ MapStep
    BY <2>3, AssignKeysStep
  <2>4. ASSUME NEW g \in Hashes, HashDuplicate(h, g)
        PROVE  HashInv' /\ MapStep
    BY <2>4, HashDuplicateStep
  <2>5. ASSUME NEW g \in Hashes, NEW r \in Hashes, PlusHash(r, h, g)
        PROVE  HashInv' /\ MapStep
    BY <2>5, PlusHashStep
  <2>6. ASSUME NEW g \in Hashes, NEW batch \in Batches, HashSubset(h, g, batch)
        PROVE  HashInv' /\ MapStep
    BY <2>6, HashSubsetStep
  <2>7. ASSUME NEW g \in Hashes, NEW batch \in Batches, PlusStruct(g, h, batch)
        PROVE  HashInv' /\ MapStep
    BY <2>7, PlusStructStep
  <2> QED
    BY <1>3, <2>1, <2>2, <2>3, <2>4, <2>5, <2>6, <2>7, Zenon DEF Insertion
<1> QED
  BY <1>1, <1>2, <1>3

(* The inductive invariant: the count of every table is that of its        *)
(* entries, its size is within the bound, and it is in the order of its    *)
(* bit if kept says so.                                                    *)
THEOREM TablesAreSound == Spec => []HashInv
<1>1. Init => HashInv
  BY Begins
<1>2. HashInv /\ [Next]_vars => HashInv'
  BY EveryStatement, StaysAsItIs
<1> QED
  BY <1>1, <1>2, PTL DEF Spec

(* TypeOK: a table is an array of entries and holes, of a size within the  *)
(* bound.                                                                  *)
THEOREM HashTypes == Spec => []TypeOK
<1>1. HashInv => TypeOK
  <2> SUFFICES ASSUME HashInv PROVE TypeOK
    OBVIOUS
  <2>1. ASSUME NEW h \in Hashes
        PROVE  /\ hash[h].count \in Nat /\ hash[h].fold \in BOOLEAN
               /\ \E n \in 1 .. MaxSize : hash[h].table \in [0 .. n - 1 -> Entry \cup {Free}]
    <3> DEFINE t == hash[h].table
               n == Size(t)
    <3>1. hash[h].count \in Nat /\ hash[h].fold \in BOOLEAN /\ t \in Table /\ n <= MaxSize
      BY DEF HashInv, HashState
    <3>2. n \in Nat \ {0} /\ t \in [0 .. n - 1 -> Entry \cup {Free}]
      BY <3>1, TableFacts
    <3> HIDE DEF n
    <3>3. n \in 1 .. MaxSize
      BY <3>1, <3>2, BoundsAssumption
    <3> QED
      BY <3>1, <3>2, <3>3
  <2> QED
    BY <2>1 DEF HashInv, TypeOK
<1> QED
  BY <1>1, TablesAreSound, PTL

(* SearchEnds: HashIndex returns, in a table in the wrong order too.       *)
THEOREM SearchesEnd == Spec => []SearchEnds
<1>1. HashInv => SearchEnds
  BY SearchFacts, Zenon DEF HashInv, HashState, SearchEnds, Search
<1> QED
  BY <1>1, TablesAreSound, PTL

(* AssertionsHold: in every table the count is that of the entries, an     *)
(* insertion finds a hole, and a search has an entry or a hole to look at. *)
THEOREM AssertionsNeverFail == Spec => []AssertionsHold
<1>1. HashInv => AssertionsHold
  <2> SUFFICES ASSUME HashInv, NEW h \in Hashes
               PROVE  /\ hash[h].count = Cardinality(Used(hash[h].table))
                      /\ Used(Grown(hash[h])) # DOMAIN Grown(hash[h])
                      /\ \A k \in Keys : Search(hash[h], k).at # "outside"
    BY DEF AssertionsHold
  <2>1. Sound(hash[h]) /\ hash[h].table \in Table
    BY DEF HashInv, HashState
  <2>2. \A k \in Keys : Search(hash[h], k).at \in {"found", "absent"}
    BY <2>1, SearchFacts, Zenon DEF Search
  <2> QED
    BY <2>1, <2>2, GrownFacts DEF Sound
<1> QED
  BY <1>1, TablesAreSound, PTL

(* KeysFound: bisection finds a key exactly if it is in the table, as long *)
(* as the table is in the order of its bit.                                *)
THEOREM EveryKeyIsFound == Spec => []KeysFound
<1>1. HashInv => KeysFound
  <2> SUFFICES ASSUME HashInv, NEW h \in Hashes, NEW k \in Keys, kept[h]
               PROVE  LET t == hash[h].table
                          found == Search(hash[h], k)
                          there == {i \in Used(t) : Same(k, t[i].key, hash[h].fold)}
                      IN IF found.at = "found" THEN found.ix \in there ELSE there = {}
    BY Zenon DEF KeysFound
  <2> DEFINE t == hash[h].table
             folds == hash[h].fold
             found == Search(hash[h], k)
             there == {i \in Used(t) : Same(k, t[i].key, folds)}
  <2>1. t \in Table /\ Sorted(t, folds) /\ folds \in BOOLEAN
    BY DEF HashInv, HashState, InOrder
  <2>2. found = HashIndex(t, k, folds)
    BY DEF Search
  <2> HIDE DEF t, folds, found
  <2>3. /\ found.at \in {"found", "absent"} /\ found.ix \in 0 .. Size(t)
        /\ found.at = "found" => found.ix \in Used(t) /\ Same(k, t[found.ix].key, folds)
        /\ found.at = "absent" => Between(t, k, folds, found.ix, found.ix)
    BY <2>1, <2>2, SearchFacts
  <2>4. CASE found.at = "found"
    BY <2>3, <2>4 DEF t, folds, found
  <2>5. CASE found.at = "absent"
    <3>1. ASSUME NEW i \in Used(t)
          PROVE  ~Same(k, t[i].key, folds)
      <4>1. Less(t[i].key, k, folds) \/ Less(k, t[i].key, folds)
        <5>1. i \in Nat /\ found.ix \in Nat
          BY <2>1, <2>3, TableFacts
        <5>2. i < found.ix \/ i >= found.ix
          BY <5>1
        <5> QED
          BY <2>3, <2>5, <5>2 DEF Between
      <4>2. Rank(k, folds) \in Nat /\ Rank(t[i].key, folds) \in Nat
        BY <2>1, TableFacts, RankNat
      <4> QED
        BY <4>1, <4>2 DEF Less, Same
    <3>2. there = {}
      BY <3>1
    <3> QED
      BY <2>5, <3>2 DEF t, folds, found
  <2> QED
    BY <2>3, <2>4, <2>5
<1> QED
  BY <1>1, TablesAreSound, PTL

(* The tables are maps: every statement does to what is in them what the   *)
(* same statement does to a map from keys to values.                       *)
THEOREM HashesAreMaps == Spec => ImplementsKeyMap
<1>1. Init => Abstract!InitMap
  BY Begins
<1>2. HashInv /\ [Next]_vars => [Abstract!NextMap]_(Abstract!mapVars)
  BY EveryStatement, StaysAsItIs DEF MapStep
<1> QED
  BY <1>1, <1>2, TablesAreSound, PTL DEF Spec, ImplementsKeyMap, Abstract!SpecMap
=============================================================================
