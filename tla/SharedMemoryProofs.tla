------------------------- MODULE SharedMemoryProofs -------------------------
(***************************************************************************)
(* Proofs about shared memory segments, for every set of processes, names  *)
(* and handles: the counts of variables, the memory below a segment, and   *)
(* the names (a process that has to destroy a segment unlinks that very    *)
(* segment, and nothing is left).                                          *)
(***************************************************************************)
EXTENDS SharedMemory, TLAPS, FiniteSetTheorems, WellFoundedInduction

Tables == [Names -> Segment \cup {NoSegment}]

With(f, i, e) == [f EXCEPT ![i] = e]

(* The variables of a process, whose data are at addresses w, that are at a. *)
On(w, a) == {v \in Vars : w[v] = a}

(* The segments of a table t are at addresses of their own, where there is *)
(* an object: m are the objects at the addresses.                          *)
Placed(t, m) ==
    /\ \A n \in Names : t[n] # NoSegment => t[n].addr \in Addrs /\ m[t[n].addr] # None
    /\ \A n, k \in Names :
        t[n] # NoSegment /\ t[k] # NoSegment /\ t[n].addr = t[k].addr => n = k

(* The counts of a table are one more at the address a than they should be. *)
Owed(t, w, a) ==
    \A n \in Names : t[n] # NoSegment =>
        t[n].refcount = Cardinality(On(w, t[n].addr)) + IF t[n].addr = a THEN 1 ELSE 0

Counted(t, w) ==
    \A n \in Names : t[n] # NoSegment => t[n].refcount = Cardinality(On(w, t[n].addr))

Covered(t, w) ==
    \A v \in Vars : w[v] # None => \E n \in Names : t[n] # NoSegment /\ t[n].addr = w[v]

TableInv(t, w, m) == Placed(t, m) /\ Counted(t, w) /\ Covered(t, w)

(* An object at an address has a size; one that was created has none yet,  *)
(* and is nobody else's; what is not in use has none.                      *)
SizeInv ==
    /\ \A p \in Processes, a \in Addrs : mapped[p][a] # None => size[mapped[p][a]] # 0
    /\ \A o \in Objects : o \notin InUse => size[o] = 0

CallInv ==
    /\ \A p \in Processes : call[p].at = "created" =>
        /\ call[p].object \in Objects
        /\ size[call[p].object] = 0
        /\ \A q \in Processes \ {p} : call[q].at = "created" => call[q].object # call[p].object
    /\ \A p \in Processes : call[p].at \in {"found", "short"} => call[p].object \in Objects
    /\ \A p \in Processes : call[p].at = "absent" => call[p].object = None

ShmInv ==
    /\ TypeOK
    /\ \A p \in Processes : TableInv(shmList[p], var[p], mapped[p])
    /\ Backed
    /\ SizeInv
    /\ CallInv

-----------------------------------------------------------------------------
(* Variables at an address *)

LEMMA OnIsFinite ==
    ASSUME NEW w, NEW a
    PROVE  IsFiniteSet(On(w, a)) /\ Cardinality(On(w, a)) \in Nat
<1>1. On(w, a) \subseteq Vars
  BY DEF On
<1> QED
  BY <1>1, VarsAssumption, FS_Subset, FS_CardinalityType

LEMMA NoneOn ==
    ASSUME NEW w, NEW a
    PROVE  Cardinality(On(w, a)) = 0 <=> \A v \in Vars : w[v] # a
BY OnIsFinite, FS_EmptySet DEF On

(* One variable is moved from an address to another one. *)
LEMMA Moved ==
    ASSUME NEW w \in [Vars -> Addrs \cup {None}], NEW v \in Vars, NEW b, NEW a
    PROVE  Cardinality(On(With(w, v, b), a)) + (IF a = w[v] THEN 1 ELSE 0)
            = Cardinality(On(w, a)) + (IF a = b THEN 1 ELSE 0)
<1> DEFINE x == With(w, v, b)
           rest == {u \in Vars \ {v} : w[u] = a}
<1>1. rest \subseteq Vars /\ v \notin rest
  OBVIOUS
<1>2. IsFiniteSet(rest) /\ Cardinality(rest) \in Nat
  BY <1>1, VarsAssumption, FS_Subset, FS_CardinalityType
<1>3. On(w, a) = (IF w[v] = a THEN rest \cup {v} ELSE rest)
  BY DEF On
<1>4. On(x, a) = (IF b = a THEN rest \cup {v} ELSE rest)
  BY DEF On, With
<1> HIDE DEF x, rest
<1>5. Cardinality(rest \cup {v}) = Cardinality(rest) + 1
  BY <1>1, <1>2, FS_AddElement
<1>6. Cardinality(On(w, a)) = Cardinality(rest) + (IF a = w[v] THEN 1 ELSE 0)
  BY <1>2, <1>3, <1>5
<1>7. Cardinality(On(x, a)) = Cardinality(rest) + (IF a = b THEN 1 ELSE 0)
  BY <1>2, <1>4, <1>5
<1>8. Cardinality(On(x, a)) + (IF a = w[v] THEN 1 ELSE 0)
            = Cardinality(On(w, a)) + (IF a = b THEN 1 ELSE 0)
  BY <1>2, <1>6, <1>7
<1> QED
  BY <1>8 DEF x

LEMMA Numbers ==
    /\ Addrs \subseteq Nat /\ None \notin Addrs
    /\ Objects \subseteq Nat /\ None \notin Objects
    /\ NoSegment.addr = None /\ NoCall.at = "none"
BY BoundsAssumption DEF Addrs, Objects, None, NoSegment, NoCall

LEMMA SegmentFacts ==
    ASSUME NEW seg \in Segment \cup {NoSegment}
    PROVE  seg # NoSegment =>
            /\ seg \in Segment
            /\ seg.refcount \in Nat /\ seg.length \in Nat \ {0} /\ seg.handle \in Handles
            /\ seg.destroy \in BOOLEAN /\ seg.pending \in BOOLEAN
BY SizesAssumption DEF Segment

LEMMA CallFacts ==
    ASSUME NEW c \in Call \cup {NoCall}
    PROVE  /\ c = NoCall <=> c.at = "none"
           /\ c # NoCall => c \in Call /\ c.handle \in Handles /\ c.object \in Objects \cup {None}
BY DEF Call, NoCall

-----------------------------------------------------------------------------
(* A reference is taken off *)

(* The one segment at a; with fewer references, or gone.                   *)
Less(seg) == [seg EXCEPT !.refcount = @ - 1]

LEMMA Taken ==
    ASSUME NEW t \in Tables, NEW m \in [Addrs -> Objects \cup {None}],
           NEW w \in [Vars -> Addrs \cup {None}], NEW n \in Names,
           t[n] # NoSegment, Placed(t, m), Owed(t, w, t[n].addr), Covered(t, w),
           NEW seg, seg = Less(t[n])
    PROVE  /\ seg \in Segment /\ seg.addr = t[n].addr /\ seg.length = t[n].length
           /\ With(t, n, seg) \in Tables
           /\ TableInv(With(t, n, seg), w, m)
           /\ seg.refcount < 1 =>
                TableInv(With(t, n, NoSegment), w, With(m, t[n].addr, None))
<1>1. t[n] \in Segment /\ t[n].addr \in Addrs /\ t[n].refcount \in Nat
  BY SegmentFacts DEF Tables, Placed
<1>2. t[n].refcount = Cardinality(On(w, t[n].addr)) + 1
  BY DEF Owed
<1>3. Cardinality(On(w, t[n].addr)) \in Nat
  BY OnIsFinite
<1>4. t[n].refcount - 1 = Cardinality(On(w, t[n].addr)) /\ t[n].refcount - 1 \in Nat
  BY <1>1, <1>2, <1>3
<1>5. /\ seg \in Segment /\ seg.addr = t[n].addr /\ seg.length = t[n].length
      /\ seg.refcount = t[n].refcount - 1
  BY <1>1, <1>4 DEF Segment, Less
<1>6. seg # NoSegment
  BY <1>1, <1>5, Numbers
<1>7. With(t, n, seg) \in Tables
  BY <1>5 DEF Tables, With
<1>8. \A k \in Names \ {n} : t[k] # NoSegment =>
        t[k].addr # t[n].addr /\ t[k].refcount = Cardinality(On(w, t[k].addr)) + 0
  BY DEF Owed, Placed
<1>9. \A k \in Names \ {n} : t[k] # NoSegment => t[k].refcount = Cardinality(On(w, t[k].addr))
  BY <1>8, OnIsFinite
<1>10. TableInv(With(t, n, seg), w, m)
  <2> DEFINE x == With(t, n, seg)
  <2>1. \A k \in Names : x[k] = IF k = n THEN seg ELSE t[k]
    BY DEF Tables, With
  <2> HIDE DEF x
  <2>2. \A k \in Names : (x[k] # NoSegment <=> t[k] # NoSegment)
                        /\ (x[k] # NoSegment => x[k].addr = t[k].addr)
    BY <2>1, <1>5, <1>6
  <2>3. Placed(x, m)
    BY <2>2 DEF Placed
  <2>4. Counted(x, w)
    BY <2>1, <1>4, <1>5, <1>9 DEF Counted
  <2>5. Covered(x, w)
    BY <2>2 DEF Covered
  <2> QED
    BY <2>3, <2>4, <2>5 DEF TableInv, x
<1>11. ASSUME seg.refcount < 1
       PROVE  TableInv(With(t, n, NoSegment), w, With(m, t[n].addr, None))
  <2> DEFINE x == With(t, n, NoSegment)
             y == With(m, t[n].addr, None)
  <2>1. \A k \in Names : x[k] = IF k = n THEN NoSegment ELSE t[k]
    BY DEF Tables, With
  <2>2. \A b \in Addrs : y[b] = IF b = t[n].addr THEN None ELSE m[b]
    BY DEF With
  <2>3. \A v \in Vars : w[v] # t[n].addr
    BY <1>11, <1>4, <1>5, NoneOn
  <2> HIDE DEF x, y
  <2>4. Placed(x, y)
    BY <2>1, <2>2, <1>8 DEF Placed
  <2>5. Counted(x, w)
    BY <2>1, <1>9 DEF Counted
  <2>6. Covered(x, w)
    BY <2>1, <2>3 DEF Covered
  <2> QED
    BY <2>4, <2>5, <2>6 DEF TableInv, x, y
<1> QED
  BY <1>5, <1>7, <1>10, <1>11

(* What a step on the segments of p may do to tables and addresses: the    *)
(* tables were list before the reference was taken off.                    *)
Loses(p, list) ==
    /\ shmList' \in [Processes -> Tables]
    /\ mapped' \in [Processes -> [Addrs -> Objects \cup {None}]]
    /\ named' \in [Handles -> Objects \cup {None}]
    /\ \A q \in Processes \ {p} : shmList'[q] = list[q] /\ mapped'[q] = mapped[q]
    /\ \A b \in Addrs : mapped'[p][b] \in {mapped[p][b], None}
    /\ \A n \in Names : shmList'[p][n] # NoSegment =>
        /\ list[p][n] # NoSegment
        /\ shmList'[p][n].addr = list[p][n].addr
        /\ shmList'[p][n].length = list[p][n].length

LEMMA Unreferences ==
    ASSUME TypeOK, NEW p \in Processes, NEW list \in [Processes -> Tables],
           NEW w \in [Vars -> Addrs \cup {None}], NEW a \in Addrs \cup {None},
           \A n \in Names : list[p][n] # NoSegment =>
                shmList[p][n] # NoSegment /\ shmList[p][n].addr = list[p][n].addr,
           Placed(list[p], mapped[p]), Owed(list[p], w, a), Covered(list[p], w),
           a # None => \E n \in Names : list[p][n] # NoSegment /\ list[p][n].addr = a,
           Unreference(p, a, list)
    PROVE  Loses(p, list) /\ TableInv(shmList'[p], w, mapped'[p])
<1> DEFINE at == {n \in Names : list[p][n].addr = a}
           n == CHOOSE n \in at : TRUE
           seg == [list[p][n] EXCEPT !.refcount = @ - 1]
<1>1. CASE a = None
  <2>1. shmList' = list /\ UNCHANGED <<mapped, named>>
    BY <1>1 DEF Unreference
  <2>2. Counted(list[p], w)
    <3> SUFFICES ASSUME NEW k \in Names, list[p][k] # NoSegment
                 PROVE  list[p][k].refcount = Cardinality(On(w, list[p][k].addr))
      BY DEF Counted
    <3>1. list[p][k].addr # a
      BY <1>1, Numbers DEF Placed
    <3>2. list[p][k].refcount = Cardinality(On(w, list[p][k].addr)) + 0
      BY <3>1 DEF Owed
    <3> QED
      BY <3>2, OnIsFinite
  <2>3. Loses(p, list)
    BY <2>1 DEF Loses, TypeOK
  <2>4. TableInv(list[p], w, mapped[p])
    BY <2>2 DEF TableInv
  <2> QED
    BY <2>1, <2>3, <2>4
<1>2. CASE a # None
  <2>1. n \in at /\ at # {}
    <3>1. at # {}
      BY <1>2
    <3> HIDE DEF at
    <3> QED
      BY <3>1
  <2>2. n \in Names /\ list[p][n] # NoSegment /\ list[p][n].addr = a
    BY <2>1, <1>2, Numbers
  <2>3. \/ /\ LastReference(seg)
           /\ shmList' = [list EXCEPT ![p][n] = NoSegment]
           /\ Unmapped(p, n)
        \/ shmList' = [list EXCEPT ![p][n] = seg] /\ UNCHANGED <<mapped, named>>
    BY <2>1, <1>2 DEF Unreference
  <2> HIDE DEF n, at
  <2>4. /\ list[p] \in Tables /\ mapped[p] \in [Addrs -> Objects \cup {None}]
        /\ Owed(list[p], w, list[p][n].addr)
        /\ seg = Less(list[p][n])
    BY <2>2 DEF TypeOK, Less
  <2> HIDE DEF seg
  <2>5. /\ seg \in Segment /\ seg.addr = list[p][n].addr /\ seg.length = list[p][n].length
        /\ With(list[p], n, seg) \in Tables
        /\ TableInv(With(list[p], n, seg), w, mapped[p])
        /\ seg.refcount < 1 =>
            TableInv(With(list[p], n, NoSegment), w, With(mapped[p], a, None))
    BY <2>2, <2>4, Taken
  <2>6. CASE /\ LastReference(seg)
             /\ shmList' = [list EXCEPT ![p][n] = NoSegment]
             /\ Unmapped(p, n)
    <3>1. shmList[p][n].addr = a /\ shmList[p][n] # NoSegment
      BY <2>2
    <3>2. shmList[p][n].handle \in Handles
      BY <3>1, <2>2, SegmentFacts DEF TypeOK
    <3>3. mapped' = [mapped EXCEPT ![p][a] = None]
      BY <2>6, <3>1 DEF Unmapped
    <3>4. named' \in [Handles -> Objects \cup {None}]
      BY <2>6, <3>2 DEF Unmapped, TypeOK
    <3>5. shmList'[p] = [list[p] EXCEPT ![n] = NoSegment]
      BY <2>6
    <3>6. mapped'[p] = [mapped[p] EXCEPT ![a] = None]
      BY <3>3 DEF TypeOK
    <3>7. TableInv(shmList'[p], w, mapped'[p])
      BY <3>5, <3>6, <2>5, <2>6 DEF LastReference, With
    <3>8. shmList' \in [Processes -> Tables]
      BY <2>6 DEF Tables
    <3>9. mapped' \in [Processes -> [Addrs -> Objects \cup {None}]]
      BY <3>3 DEF TypeOK
    <3>10. \A q \in Processes \ {p} : shmList'[q] = list[q] /\ mapped'[q] = mapped[q]
      BY <2>6, <3>3 DEF TypeOK
    <3>11. \A b \in Addrs : mapped'[p][b] \in {mapped[p][b], None}
      BY <3>6, <2>4
    <3>12. \A k \in Names : shmList'[p][k] # NoSegment => shmList'[p][k] = list[p][k]
      BY <3>5, <2>4 DEF Tables
    <3> QED
      BY <3>4, <3>7, <3>8, <3>9, <3>10, <3>11, <3>12 DEF Loses
  <2>7. CASE shmList' = [list EXCEPT ![p][n] = seg] /\ UNCHANGED <<mapped, named>>
    <3>1. shmList'[p] = [list[p] EXCEPT ![n] = seg]
      BY <2>7
    <3>2. TableInv(shmList'[p], w, mapped'[p])
      BY <3>1, <2>5, <2>7 DEF With
    <3>3. shmList' \in [Processes -> Tables]
      BY <2>5, <2>7 DEF Tables, With
    <3>4. \A q \in Processes \ {p} : shmList'[q] = list[q]
      BY <2>7
    <3>5. \A k \in Names : shmList'[p][k] = IF k = n THEN seg ELSE list[p][k]
      BY <3>1, <2>4 DEF Tables
    <3>6. \A k \in Names : shmList'[p][k] # NoSegment =>
            /\ list[p][k] # NoSegment
            /\ shmList'[p][k].addr = list[p][k].addr
            /\ shmList'[p][k].length = list[p][k].length
      BY <3>5, <2>2, <2>5
    <3> QED
      BY <3>2, <3>3, <3>4, <3>6, <2>7 DEF Loses, TypeOK
  <2> QED
    BY <2>3, <2>6, <2>7
<1> QED
  BY <1>1, <1>2

-----------------------------------------------------------------------------
(* Steps after which the system collects what is not in use *)

(* A step after which every process has some of its segments and calls.    *)
Shrinks ==
    /\ shmList' \in [Processes -> Tables]
    /\ mapped' \in [Processes -> [Addrs -> Objects \cup {None}]]
    /\ \A q \in Processes : /\ Placed(shmList'[q], mapped'[q])
                            /\ call'[q] \in {call[q], NoCall}
    /\ \A q \in Processes, b \in Addrs : mapped'[q][b] \in {mapped[q][b], None}
    /\ \A q \in Processes, n \in Names : shmList'[q][n] # NoSegment =>
        /\ shmList[q][n] # NoSegment
        /\ shmList'[q][n].addr = shmList[q][n].addr
        /\ shmList'[q][n].length = shmList[q][n].length

LEMMA InUseNext ==
    /\ \A h \in Handles : named'[h] \in InUse'
    /\ \A q \in Processes, b \in Addrs : mapped'[q][b] \in InUse'
    /\ \A q \in Processes : call'[q] # NoCall => call'[q].object \in InUse'
BY DEF InUse, Runs

LEMMA Collected ==
    ASSUME ShmInv, Shrinks, Collects
    PROVE  size' \in [Objects -> Sizes \cup {0}] /\ Backed' /\ SizeInv' /\ CallInv'
<1>1. /\ size' \in [Objects -> Sizes \cup {0}]
      /\ \A o \in Objects : o \in InUse' => size'[o] = size[o]
      /\ \A o \in Objects : o \notin InUse' => size'[o] = 0
  <2> DEFINE inUse == InUse'
  <2>1. size' = [o \in Objects |-> IF o \in inUse THEN size[o] ELSE 0]
    BY DEF Collects
  <2>2. size \in [Objects -> Sizes \cup {0}]
    BY DEF ShmInv, TypeOK
  <2> HIDE DEF inUse
  <2>3. /\ size' \in [Objects -> Sizes \cup {0}]
        /\ \A o \in Objects : o \in inUse => size'[o] = size[o]
        /\ \A o \in Objects : o \notin inUse => size'[o] = 0
    BY <2>1, <2>2
  <2> QED
    BY <2>3 DEF inUse
<1>2. \A q \in Processes, b \in Addrs : mapped'[q][b] # None =>
        /\ mapped'[q][b] = mapped[q][b] /\ mapped'[q][b] \in Objects
        /\ size'[mapped'[q][b]] = size[mapped[q][b]]
  BY <1>1, InUseNext DEF Shrinks
<1>3. \A q \in Processes : call'[q] # NoCall =>
        /\ call'[q] = call[q]
        /\ call'[q].object \in Objects => size'[call'[q].object] = size[call[q].object]
  BY <1>1, InUseNext DEF Shrinks
<1>4. Backed'
  <2> SUFFICES ASSUME NEW q \in Processes, NEW n \in Names, shmList'[q][n] # NoSegment
               PROVE  /\ mapped'[q][shmList'[q][n].addr] # None
                      /\ shmList'[q][n].length <= size'[mapped'[q][shmList'[q][n].addr]]
    BY DEF Backed, Listed
  <2>1. shmList'[q][n].addr \in Addrs /\ mapped'[q][shmList'[q][n].addr] # None
    BY DEF Shrinks, Placed
  <2>2. /\ shmList[q][n] # NoSegment
        /\ shmList'[q][n].addr = shmList[q][n].addr
        /\ shmList'[q][n].length = shmList[q][n].length
    BY DEF Shrinks
  <2>3. shmList[q][n].length <= size[mapped[q][shmList[q][n].addr]]
    BY <2>2 DEF ShmInv, Backed, Listed
  <2> QED
    BY <1>2, <2>1, <2>2, <2>3
<1>5. SizeInv'
  BY <1>1, <1>2 DEF SizeInv, ShmInv
<1>6. CallInv'
  <2>1. \A q \in Processes : call'[q].at # "none" => call'[q] # NoCall
    BY Numbers
  <2> QED
    BY <1>3, <2>1 DEF CallInv, ShmInv
<1> QED
  BY <1>1, <1>4, <1>5, <1>6

LEMMA TableFacts ==
    ASSUME ShmInv, NEW p \in Processes
    PROVE  /\ shmList \in [Processes -> Tables] /\ shmList[p] \in Tables
           /\ mapped[p] \in [Addrs -> Objects \cup {None}]
           /\ var[p] \in [Vars -> Addrs \cup {None}]
           /\ call[p] \in Call \cup {NoCall}
           /\ Placed(shmList[p], mapped[p])
           /\ Counted(shmList[p], var[p])
           /\ Covered(shmList[p], var[p])
BY DEF ShmInv, TypeOK, Tables, TableInv

(* The variables of p are at w, and a reference at a is taken off list.    *)
LEMMA ReferenceStep ==
    ASSUME ShmInv, NEW p \in Processes, NEW list \in [Processes -> Tables],
           NEW w \in [Vars -> Addrs \cup {None}], NEW a \in Addrs \cup {None},
           \A q \in Processes \ {p} : list[q] = shmList[q],
           \A n \in Names : /\ list[p][n] # NoSegment <=> shmList[p][n] # NoSegment
                           /\ list[p][n].addr = shmList[p][n].addr
                           /\ list[p][n].length = shmList[p][n].length,
           Owed(list[p], w, a), Covered(list[p], w),
           a # None => \E n \in Names : list[p][n] # NoSegment /\ list[p][n].addr = a,
           var' = [var EXCEPT ![p] = w],
           Unreference(p, a, list),
           UNCHANGED <<call, excuse>>,
           Collects
    PROVE  ShmInv' /\ Shrinks
<1>1. TypeOK /\ Placed(shmList[p], mapped[p])
  BY TableFacts DEF ShmInv
<1>2. Placed(list[p], mapped[p])
  BY <1>1 DEF Placed
<1>3. Loses(p, list) /\ TableInv(shmList'[p], w, mapped'[p])
  BY <1>1, <1>2, Unreferences
<1>4. var' \in [Processes -> [Vars -> Addrs \cup {None}]] /\ var'[p] = w
      /\ \A q \in Processes \ {p} : var'[q] = var[q]
  BY <1>1 DEF TypeOK
<1>5. \A q \in Processes : TableInv(shmList'[q], var'[q], mapped'[q])
  BY <1>3, <1>4 DEF Loses, ShmInv
<1>6. Shrinks
  <2>1. /\ shmList' \in [Processes -> Tables]
        /\ mapped' \in [Processes -> [Addrs -> Objects \cup {None}]]
    BY <1>3 DEF Loses
  <2>2. \A q \in Processes : Placed(shmList'[q], mapped'[q]) /\ call'[q] \in {call[q], NoCall}
    BY <1>5 DEF TableInv
  <2>3. \A q \in Processes, b \in Addrs : mapped'[q][b] \in {mapped[q][b], None}
    BY <1>3 DEF Loses
  <2>4. \A q \in Processes, n \in Names : shmList'[q][n] # NoSegment =>
            /\ shmList[q][n] # NoSegment
            /\ shmList'[q][n].addr = shmList[q][n].addr
            /\ shmList'[q][n].length = shmList[q][n].length
    BY <1>3 DEF Loses
  <2> QED
    BY <2>1, <2>2, <2>3, <2>4 DEF Shrinks
<1>7. TypeOK'
  BY <1>1, <1>3, <1>4, <1>6, Collected DEF TypeOK, Loses, Tables
<1> QED
  BY <1>5, <1>6, <1>7, Collected DEF ShmInv

LEMMA ShmVarStep ==
    ASSUME ShmInv, NEW p \in Processes, NEW n \in Names, NEW v \in Vars, ShmVar(p, n, v)
    PROVE  ShmInv' /\ Shrinks
<1> DEFINE b == shmList[p][n].addr
           seg == [shmList[p][n] EXCEPT !.refcount = @ + 1]
           list == [shmList EXCEPT ![p][n] = seg]
           w == With(var[p], v, b)
           a == var[p][v]
<1>1. /\ shmList[p][n] # NoSegment /\ shmList[p][n] \in Segment /\ b \in Addrs
      /\ shmList[p][n].refcount \in Nat
  BY TableFacts, SegmentFacts DEF ShmVar, Listed, Tables, Placed
<1>2. /\ seg \in Segment /\ seg.addr = b /\ seg.length = shmList[p][n].length
      /\ seg.refcount = shmList[p][n].refcount + 1 /\ seg # NoSegment
  BY <1>1, Numbers DEF Segment
<1>3. /\ var' = [var EXCEPT ![p] = w] /\ Unreference(p, a, list)
      /\ UNCHANGED <<call, excuse>> /\ Collects
  BY TableFacts DEF ShmVar, With
<1>4. w \in [Vars -> Addrs \cup {None}] /\ a \in Addrs \cup {None}
      /\ \A u \in Vars : w[u] = IF u = v THEN b ELSE var[p][u]
  BY <1>1, TableFacts DEF With
<1> HIDE DEF seg
<1>5. /\ list \in [Processes -> Tables]
      /\ \A q \in Processes \ {p} : list[q] = shmList[q]
      /\ \A k \in Names : list[p][k] = IF k = n THEN seg ELSE shmList[p][k]
  BY <1>2, TableFacts DEF Tables
<1> HIDE DEF list
<1>6. \A k \in Names : /\ list[p][k] # NoSegment <=> shmList[p][k] # NoSegment
                      /\ list[p][k].addr = shmList[p][k].addr
                      /\ list[p][k].length = shmList[p][k].length
  BY <1>1, <1>2, <1>5
<1>7. Owed(list[p], w, a)
  <2> SUFFICES ASSUME NEW k \in Names, list[p][k] # NoSegment
               PROVE  list[p][k].refcount = Cardinality(On(w, list[p][k].addr))
                                            + IF list[p][k].addr = a THEN 1 ELSE 0
    BY DEF Owed
  <2> DEFINE c == shmList[p][k].addr
  <2>1. shmList[p][k] # NoSegment /\ list[p][k].addr = c
    BY <1>6
  <2>2. shmList[p][k].refcount = Cardinality(On(var[p], c))
    BY <2>1, TableFacts DEF Counted
  <2>3. Cardinality(On(w, c)) + (IF c = a THEN 1 ELSE 0)
            = Cardinality(On(var[p], c)) + (IF c = b THEN 1 ELSE 0)
    BY TableFacts, Moved
  <2>4. c = b <=> k = n
    BY <1>1, <2>1, TableFacts DEF Placed
  <2>5. list[p][k].refcount = Cardinality(On(var[p], c)) + IF c = b THEN 1 ELSE 0
    BY <1>2, <1>5, <2>2, <2>4, OnIsFinite
  <2> QED
    BY <2>1, <2>3, <2>5
<1>8. Covered(list[p], w)
  BY <1>1, <1>4, <1>6, TableFacts DEF Covered
<1>9. a # None => \E k \in Names : list[p][k] # NoSegment /\ list[p][k].addr = a
  BY <1>6, TableFacts DEF Covered
<1> HIDE DEF w, a
<1> QED
  BY <1>3, <1>4, <1>5, <1>6, <1>7, <1>8, <1>9, ReferenceStep

LEMMA DeleteStep ==
    ASSUME ShmInv, NEW p \in Processes, NEW v \in Vars, Delete(p, v)
    PROVE  ShmInv' /\ Shrinks
<1> DEFINE w == With(var[p], v, None)
           a == var[p][v]
<1>1. /\ var' = [var EXCEPT ![p] = w] /\ Unreference(p, a, shmList)
      /\ UNCHANGED <<call, excuse>> /\ Collects
  BY TableFacts DEF Delete, With
<1>2. w \in [Vars -> Addrs \cup {None}] /\ a \in Addrs \cup {None}
      /\ \A u \in Vars : w[u] = IF u = v THEN None ELSE var[p][u]
  BY TableFacts DEF With
<1>3. Owed(shmList[p], w, a)
  <2> SUFFICES ASSUME NEW k \in Names, shmList[p][k] # NoSegment
               PROVE  shmList[p][k].refcount = Cardinality(On(w, shmList[p][k].addr))
                                               + IF shmList[p][k].addr = a THEN 1 ELSE 0
    BY DEF Owed
  <2> DEFINE c == shmList[p][k].addr
  <2>1. shmList[p][k].refcount = Cardinality(On(var[p], c))
    BY TableFacts DEF Counted
  <2>2. Cardinality(On(w, c)) + (IF c = a THEN 1 ELSE 0)
            = Cardinality(On(var[p], c)) + (IF c = None THEN 1 ELSE 0)
    BY TableFacts, Moved
  <2>3. c # None
    BY TableFacts, Numbers DEF Placed
  <2> QED
    BY <2>1, <2>2, <2>3, OnIsFinite
<1>4. Covered(shmList[p], w)
  BY <1>2, TableFacts DEF Covered
<1>5. a # None => \E k \in Names : shmList[p][k] # NoSegment /\ shmList[p][k].addr = a
  BY TableFacts DEF Covered
<1>6. shmList \in [Processes -> Tables]
  BY TableFacts
<1> HIDE DEF w, a
<1> QED
  BY <1>1, <1>2, <1>3, <1>4, <1>5, <1>6, ReferenceStep

LEMMA TemporaryStep ==
    ASSUME ShmInv, NEW p \in Processes, NEW v \in Vars, NEW u \in Vars, Temporary(p, v, u)
    PROVE  ShmInv' /\ Shrinks
<1> DEFINE x == With(var[p], v, None)
           b == var[p][v]
           w == With(x, u, b)
           a == var[p][u]
<1>1. /\ var' = [var EXCEPT ![p] = w] /\ Unreference(p, a, shmList)
      /\ UNCHANGED <<call, excuse>> /\ Collects /\ u # v
  BY TableFacts DEF Temporary, With
<1>2. /\ x \in [Vars -> Addrs \cup {None}] /\ b \in Addrs \cup {None}
      /\ a \in Addrs \cup {None} /\ x[u] = a
  BY <1>1, TableFacts DEF With
<1>3. w \in [Vars -> Addrs \cup {None}]
      /\ \A y \in Vars : w[y] = IF y = u THEN b ELSE IF y = v THEN None ELSE var[p][y]
  BY <1>2, TableFacts DEF With
<1>4. Owed(shmList[p], w, a)
  <2> SUFFICES ASSUME NEW k \in Names, shmList[p][k] # NoSegment
               PROVE  shmList[p][k].refcount = Cardinality(On(w, shmList[p][k].addr))
                                               + IF shmList[p][k].addr = a THEN 1 ELSE 0
    BY DEF Owed
  <2> DEFINE c == shmList[p][k].addr
  <2>1. shmList[p][k].refcount = Cardinality(On(var[p], c))
    BY TableFacts DEF Counted
  <2>2. Cardinality(On(x, c)) + (IF c = b THEN 1 ELSE 0)
            = Cardinality(On(var[p], c)) + (IF c = None THEN 1 ELSE 0)
    BY TableFacts, Moved
  <2>3. Cardinality(On(w, c)) + (IF c = a THEN 1 ELSE 0)
            = Cardinality(On(x, c)) + (IF c = b THEN 1 ELSE 0)
    <3> HIDE DEF x, b, a, c
    <3> QED
      BY <1>2, Moved
  <2>4. c # None
    BY TableFacts, Numbers DEF Placed
  <2> QED
    BY <2>1, <2>2, <2>3, <2>4, OnIsFinite
<1>5. Covered(shmList[p], w)
  BY <1>3, TableFacts DEF Covered
<1>6. a # None => \E k \in Names : shmList[p][k] # NoSegment /\ shmList[p][k].addr = a
  BY TableFacts DEF Covered
<1>7. shmList \in [Processes -> Tables]
  BY TableFacts
<1> HIDE DEF w, a
<1> QED
  BY <1>1, <1>2, <1>3, <1>4, <1>5, <1>6, <1>7, ReferenceStep

(* A step of p after which its table is t and its addresses are m.         *)
LEMMA ShrinkStep ==
    ASSUME ShmInv, NEW p \in Processes, NEW t \in Tables,
           NEW m \in [Addrs -> Objects \cup {None}], NEW w \in [Vars -> Addrs \cup {None}],
           NEW c \in {call[p], NoCall},
           \A n \in Names : t[n] # NoSegment =>
                /\ shmList[p][n] # NoSegment
                /\ t[n].addr = shmList[p][n].addr
                /\ t[n].length = shmList[p][n].length,
           \A b \in Addrs : m[b] \in {mapped[p][b], None},
           TableInv(t, w, m),
           shmList' = With(shmList, p, t),
           mapped' = With(mapped, p, m),
           var' = With(var, p, w),
           call' = With(call, p, c),
           named' \in [Handles -> Objects \cup {None}],
           excuse' \in Excuses,
           Collects
    PROVE  ShmInv' /\ Shrinks
<1>1. TypeOK /\ \A q \in Processes : TableInv(shmList[q], var[q], mapped[q])
  BY DEF ShmInv
<1>2. /\ shmList' \in [Processes -> Tables] /\ shmList'[p] = t
      /\ mapped' \in [Processes -> [Addrs -> Objects \cup {None}]] /\ mapped'[p] = m
      /\ var' \in [Processes -> [Vars -> Addrs \cup {None}]] /\ var'[p] = w
      /\ call' \in [Processes -> Call \cup {NoCall}] /\ call'[p] = c
  BY <1>1 DEF TypeOK, Tables, With
<1>3. \A q \in Processes \ {p} : /\ shmList'[q] = shmList[q] /\ mapped'[q] = mapped[q]
                                 /\ var'[q] = var[q] /\ call'[q] = call[q]
  BY <1>1 DEF TypeOK, With
<1>4. \A q \in Processes : TableInv(shmList'[q], var'[q], mapped'[q])
  BY <1>1, <1>2, <1>3
<1>5. Shrinks
  <2>1. \A q \in Processes : Placed(shmList'[q], mapped'[q]) /\ call'[q] \in {call[q], NoCall}
    BY <1>2, <1>3, <1>4 DEF TableInv
  <2>2. \A q \in Processes, b \in Addrs : mapped'[q][b] \in {mapped[q][b], None}
    BY <1>2, <1>3
  <2>3. \A q \in Processes, n \in Names : shmList'[q][n] # NoSegment =>
            /\ shmList[q][n] # NoSegment
            /\ shmList'[q][n].addr = shmList[q][n].addr
            /\ shmList'[q][n].length = shmList[q][n].length
    BY <1>2, <1>3
  <2> QED
    BY <1>2, <2>1, <2>2, <2>3 DEF Shrinks
<1>6. TypeOK'
  BY <1>2, <1>5, Collected DEF TypeOK, Tables
<1> QED
  BY <1>4, <1>5, <1>6, Collected DEF ShmInv

LEMMA ShmUnmapStep ==
    ASSUME ShmInv, NEW p \in Processes, NEW n \in Names, ShmUnmap(p, n)
    PROVE  ShmInv' /\ Shrinks
<1> DEFINE t == shmList[p]
           m == mapped[p]
           w == var[p]
           seg == [t[n] EXCEPT !.pending = TRUE]
<1>1. /\ t \in Tables /\ m \in [Addrs -> Objects \cup {None}]
      /\ w \in [Vars -> Addrs \cup {None}]
      /\ Placed(t, m) /\ Counted(t, w) /\ Covered(t, w)
  BY TableFacts
<1>2. /\ t[n] # NoSegment /\ t[n] \in Segment /\ t[n].addr \in Addrs
      /\ t[n].refcount \in Nat /\ t[n].handle \in Handles
  BY <1>1, SegmentFacts DEF ShmUnmap, Listed, Tables, Placed
<1>3. /\ seg \in Segment /\ seg # NoSegment
      /\ seg.addr = t[n].addr /\ seg.length = t[n].length /\ seg.refcount = t[n].refcount
  BY <1>2, Numbers DEF Segment
<1>4. /\ Collects /\ UNCHANGED <<var, call, excuse>> /\ excuse' \in Excuses
      /\ var' = With(var, p, w) /\ call' = With(call, p, call[p])
      /\ call[p] \in {call[p], NoCall}
  BY DEF ShmUnmap, With, ShmInv, TypeOK
<1>5. CASE Unreferenced(t[n])
  <2> DEFINE x == With(t, n, NoSegment)
             y == With(m, t[n].addr, None)
  <2>1. /\ shmList' = [shmList EXCEPT ![p][n] = NoSegment]
        /\ mapped' = [mapped EXCEPT ![p][t[n].addr] = None]
    BY <1>5 DEF ShmUnmap, Unmapped
  <2>2. shmList' = With(shmList, p, x) /\ mapped' = With(mapped, p, y)
    BY <2>1, TableFacts DEF With, Tables
  <2>3. named' \in [Handles -> Objects \cup {None}]
    BY <1>2, <1>5 DEF ShmUnmap, Unmapped, ShmInv, TypeOK
  <2>4. /\ x \in Tables
        /\ \A k \in Names : x[k] = IF k = n THEN NoSegment ELSE t[k]
    BY <1>1 DEF Tables, With
  <2>5. /\ y \in [Addrs -> Objects \cup {None}]
        /\ \A b \in Addrs : y[b] = IF b = t[n].addr THEN None ELSE m[b]
    BY <1>1 DEF With
  <2>6. \A v \in Vars : w[v] # t[n].addr
    BY <1>1, <1>2, <1>5, NoneOn DEF Counted, Unreferenced
  <2> HIDE DEF x, y
  <2>7. Placed(x, y)
    BY <1>1, <1>2, <2>4, <2>5 DEF Placed
  <2>8. Counted(x, w) /\ Covered(x, w)
    BY <1>1, <2>4, <2>6 DEF Counted, Covered
  <2>9. TableInv(x, w, y)
    BY <2>7, <2>8 DEF TableInv
  <2> QED
    BY <1>1, <1>4, <2>2, <2>3, <2>4, <2>5, <2>9, ShrinkStep
<1>6. CASE ~Unreferenced(t[n])
  <2> DEFINE x == With(t, n, seg)
  <2>1. shmList' = [shmList EXCEPT ![p][n] = seg] /\ UNCHANGED <<mapped, named>>
    BY <1>1, <1>6 DEF ShmUnmap, Tables
  <2>2. shmList' = With(shmList, p, x) /\ mapped' = With(mapped, p, m)
        /\ named' \in [Handles -> Objects \cup {None}]
    BY <2>1 DEF With, ShmInv, TypeOK
  <2> HIDE DEF seg
  <2>3. /\ x \in Tables
        /\ \A k \in Names : x[k] = IF k = n THEN seg ELSE t[k]
    BY <1>1, <1>3 DEF Tables, With
  <2> HIDE DEF x
  <2>4. \A k \in Names : /\ x[k] # NoSegment <=> t[k] # NoSegment
                        /\ x[k].addr = t[k].addr
                        /\ x[k].length = t[k].length
                        /\ x[k].refcount = t[k].refcount
    BY <1>2, <1>3, <2>3
  <2>5. Placed(x, m) /\ Counted(x, w) /\ Covered(x, w)
    BY <1>1, <2>4 DEF Placed, Counted, Covered
  <2>6. TableInv(x, w, m)
    BY <2>5 DEF TableInv
  <2> QED
    BY <1>1, <1>4, <2>2, <2>3, <2>4, <2>6, ShrinkStep
<1> QED
  BY <1>5, <1>6

LEMMA RebornStep ==
    ASSUME ShmInv, NEW p \in Processes, Reborn(p), Collects,
           named' \in [Handles -> Objects \cup {None}], excuse' \in Excuses
    PROVE  ShmInv' /\ Shrinks
<1> DEFINE t == [n \in Names |-> NoSegment]
           m == [a \in Addrs |-> None]
           w == [v \in Vars |-> None]
<1>1. /\ shmList' = With(shmList, p, t) /\ mapped' = With(mapped, p, m)
      /\ var' = With(var, p, w) /\ call' = With(call, p, NoCall)
  BY DEF Reborn, With
<1>2. /\ t \in Tables /\ m \in [Addrs -> Objects \cup {None}]
      /\ w \in [Vars -> Addrs \cup {None}]
      /\ \A n \in Names : t[n] = NoSegment
      /\ \A a \in Addrs : m[a] = None
      /\ \A v \in Vars : w[v] = None
  BY DEF Tables
<1> HIDE DEF t, m, w
<1>3. TableInv(t, w, m)
  BY <1>2 DEF TableInv, Placed, Counted, Covered
<1> QED
  BY <1>1, <1>2, <1>3, ShrinkStep

LEMMA EndSteps ==
    ASSUME ShmInv, NEW p \in Processes, Exit(p) \/ Die(p)
    PROVE  ShmInv' /\ Shrinks
<1>1. named' \in [Handles -> Objects \cup {None}]
  BY DEF Exit, Die, ShmInv, TypeOK
<1>2. excuse' \in Excuses
  BY DEF Exit, Die, ShmInv, TypeOK, Worse, Excuses
<1> QED
  BY <1>1, <1>2, RebornStep DEF Exit, Die

LEMMA TooShortStep ==
    ASSUME ShmInv, NEW p \in Processes, ShmMapTooShort(p)
    PROVE  ShmInv' /\ Shrinks
<1>1. /\ shmList' = With(shmList, p, shmList[p]) /\ mapped' = With(mapped, p, mapped[p])
      /\ var' = With(var, p, var[p]) /\ call' = With(call, p, NoCall)
  BY DEF ShmMapTooShort, With, ShmInv, TypeOK
<1>2. named' \in [Handles -> Objects \cup {None}] /\ excuse' \in Excuses /\ Collects
  BY TableFacts, CallFacts DEF ShmMapTooShort, ShmInv, TypeOK, Excuses, NoCall
<1>3. TableInv(shmList[p], var[p], mapped[p])
  BY DEF ShmInv
<1> QED
  BY <1>1, <1>2, <1>3, TableFacts, ShrinkStep

-----------------------------------------------------------------------------
(* SHMMAP *)

LEMMA FoundAbsentSteps ==
    ASSUME ShmInv, NEW p \in Processes, NEW h \in Handles,
           ShmMapFound(p, h) \/ ShmMapAbsent(p, h)
    PROVE  ShmInv'
<1>1. PICK c \in Call :
        /\ call[p] = NoCall /\ call' = [call EXCEPT ![p] = c]
        /\ UNCHANGED <<named, size, shmList, mapped, var, excuse>>
        /\ \/ c.at = "found" /\ c.object = named[h] /\ c.object \in Objects
           \/ c.at = "absent" /\ c.object = None
  <2>1. CASE ShmMapFound(p, h)
    <3> DEFINE c == [at |-> "found", handle |-> h, object |-> named[h]]
    <3>1. c \in Call /\ named[h] \in Objects
      BY <2>1 DEF ShmMapFound, ShmInv, TypeOK, Call
    <3> QED
      BY <2>1, <3>1 DEF ShmMapFound, Runs
  <2>2. CASE ShmMapAbsent(p, h)
    <3> DEFINE c == [at |-> "absent", handle |-> h, object |-> None]
    <3>1. c \in Call
      BY DEF Call
    <3> QED
      BY <2>2, <3>1 DEF ShmMapAbsent, Runs
  <2> QED
    BY <2>1, <2>2
<1>2. call' \in [Processes -> Call \cup {NoCall}] /\ call'[p] = c
      /\ \A q \in Processes \ {p} : call'[q] = call[q]
  BY <1>1 DEF ShmInv, TypeOK
<1>3. TypeOK'
  BY <1>1, <1>2 DEF ShmInv, TypeOK
<1>4. \A o \in Objects : o \notin InUse' => o \notin InUse
  <2> SUFFICES ASSUME NEW o \in Objects, o \in InUse PROVE o \in InUse'
    OBVIOUS
  <2>1. CASE \E i \in Handles : o = named[i]
    BY <2>1, <1>1, InUseNext
  <2>2. CASE \E q \in Processes, a \in Addrs : o = mapped[q][a]
    BY <2>2, <1>1, InUseNext
  <2>3. CASE \E q \in Processes : call[q] # NoCall /\ o = call[q].object
    BY <2>3, <1>1, <1>2, InUseNext
  <2> QED
    BY <2>1, <2>2, <2>3 DEF InUse, Runs
<1>5. SizeInv' /\ CallInv'
  <2>1. SizeInv'
    BY <1>1, <1>4 DEF ShmInv, SizeInv
  <2>2. CallInv'
    BY <1>1, <1>2 DEF ShmInv, CallInv
  <2> QED
    BY <2>1, <2>2
<1>6. Backed' /\ \A q \in Processes : TableInv(shmList[q], var[q], mapped[q])'
  BY <1>1 DEF ShmInv, Backed, Listed
<1> QED
  BY <1>1, <1>3, <1>5, <1>6 DEF ShmInv

(* An object gets an address, and a segment if the name has none.          *)
MapsAt(p, a, length) ==
    /\ mapped[p][a] = None
    /\ mapped' = [mapped EXCEPT ![p][a] = call[p].object]
    /\ shmList' \in [Processes -> Tables]
    /\ \A q \in Processes \ {p} : shmList'[q] = shmList[q]
    /\ TableInv(shmList'[p], var[p], mapped'[p])
    /\ \A k \in Names : shmList'[p][k] # NoSegment =>
        \/ shmList'[p][k] = shmList[p][k] /\ shmList[p][k].addr # a
        \/ shmList'[p][k].addr = a /\ shmList'[p][k].length = length
    /\ call' = [call EXCEPT ![p] = NoCall]
    /\ excuse' \in Excuses

LEMMA MapsFacts ==
    ASSUME ShmInv, NEW p \in Processes, NEW n \in Names, NEW length \in Sizes,
           NEW keyword, NEW creator \in BOOLEAN, Maps(p, n, length, keyword, creator),
           call[p] # NoCall, call[p].object \in Objects
    PROVE  \E a \in Addrs : MapsAt(p, a, length)
<1> DEFINE destroy == Destroys(keyword, creator)
           t == shmList[p]
           m == mapped[p]
           w == var[p]
           s == shmList'[p]
<1>1. PICK a \in Addrs :
        /\ mapped[p][a] = None
        /\ mapped' = [mapped EXCEPT ![p][a] = call[p].object]
        /\ shmList' = IF Listed(p, n) THEN shmList
                      ELSE [shmList EXCEPT ![p][n] =
                              [addr |-> a, handle |-> call[p].handle, length |-> length,
                               refcount |-> 0, destroy |-> destroy, pending |-> FALSE]]
  BY DEF Maps
<1>2. destroy \in BOOLEAN
  BY DEF Destroys
<1>3. excuse' \in Excuses /\ call' = [call EXCEPT ![p] = NoCall]
  BY <1>2 DEF Maps, Worse, ShmInv, TypeOK, Excuses
<1>4. /\ t \in Tables /\ m \in [Addrs -> Objects \cup {None}]
      /\ w \in [Vars -> Addrs \cup {None}]
      /\ Placed(t, m) /\ Counted(t, w) /\ Covered(t, w)
  BY TableFacts
<1>5. \A k \in Names : t[k] # NoSegment => t[k].addr # a
  BY <1>1, <1>4 DEF Placed
<1>6. mapped'[p] \in [Addrs -> Objects \cup {None}]
      /\ \A b \in Addrs : mapped'[p][b] = IF b = a THEN call[p].object ELSE m[b]
  BY <1>1 DEF ShmInv, TypeOK
<1>7. CASE Listed(p, n)
  <2>1. shmList' = shmList
    BY <1>1, <1>7
  <2>2. Placed(t, mapped'[p])
    BY <1>4, <1>5, <1>6 DEF Placed
  <2>3. TableInv(shmList'[p], w, mapped'[p])
    BY <1>4, <2>1, <2>2 DEF TableInv
  <2> QED
    BY <1>1, <1>3, <1>5, <2>1, <2>3, TableFacts DEF MapsAt
<1>8. CASE ~Listed(p, n)
  <2> DEFINE seg == [addr |-> a, handle |-> call[p].handle, length |-> length,
                     refcount |-> 0, destroy |-> destroy, pending |-> FALSE]
  <2>1. call[p].handle \in Handles
    BY TableFacts, CallFacts
  <2>2. /\ seg \in Segment /\ seg # NoSegment /\ seg.addr = a /\ seg.length = length
        /\ seg.refcount = 0
    BY <1>2, <2>1, Numbers DEF Segment
  <2>3. shmList' = [shmList EXCEPT ![p][n] = seg]
    BY <1>1, <1>8
  <2> HIDE DEF seg
  <2>4. /\ shmList' \in [Processes -> Tables]
        /\ \A q \in Processes \ {p} : shmList'[q] = shmList[q]
        /\ \A k \in Names : s[k] = IF k = n THEN seg ELSE t[k]
    BY <2>2, <2>3, TableFacts DEF Tables
  <2>5. t[n] = NoSegment
    BY <1>8 DEF Listed
  <2> HIDE DEF s, t, m, w
  <2>6. Placed(s, mapped'[p])
    <3>1. \A k \in Names : t[k] # NoSegment =>
            t[k].addr \in Addrs /\ t[k].addr # a /\ m[t[k].addr] # None
      BY <1>4, <1>5 DEF Placed
    <3>2. ASSUME NEW k \in Names, s[k] # NoSegment
          PROVE  s[k].addr \in Addrs /\ mapped'[p][s[k].addr] # None
      <4>1. CASE k = n
        BY <4>1, <1>6, <2>2, <2>4, Numbers
      <4>2. CASE k # n
        BY <4>2, <1>6, <2>4, <3>1, <3>2, Numbers
      <4> QED
        BY <4>1, <4>2
    <3>3. ASSUME NEW k \in Names, NEW l \in Names, s[k] # NoSegment, s[l] # NoSegment,
                 s[k].addr = s[l].addr
          PROVE  k = l
      BY <1>4, <2>2, <2>4, <3>1, <3>3 DEF Placed
    <3> QED
      BY <3>2, <3>3 DEF Placed
  <2>7. \A v \in Vars : w[v] # a
    BY <1>4, <1>5, Numbers DEF Covered
  <2>8. Counted(s, w)
    BY <1>4, <2>2, <2>4, <2>7, NoneOn DEF Counted
  <2>9. Covered(s, w)
    BY <1>4, <2>4, <2>5 DEF Covered
  <2>10. TableInv(shmList'[p], var[p], mapped'[p])
    BY <2>6, <2>8, <2>9 DEF TableInv, s, w
  <2>11. \A k \in Names : shmList'[p][k] # NoSegment =>
                \/ shmList'[p][k] = shmList[p][k] /\ shmList[p][k].addr # a
                \/ shmList'[p][k].addr = a /\ shmList'[p][k].length = length
    BY <1>5, <2>2, <2>4 DEF s, t
  <2> QED
    BY <1>1, <1>3, <2>4, <2>10, <2>11 DEF MapsAt
<1> QED
  BY <1>7, <1>8

LEMMA InUseKept ==
    ASSUME NEW p \in Processes, NEW a \in Addrs, mapped[p][a] = None,
           UNCHANGED named,
           \A q \in Processes, b \in Addrs :
                mapped'[q][b] = IF q = p /\ b = a THEN call[p].object ELSE mapped[q][b],
           \A q \in Processes : call'[q] = IF q = p THEN NoCall ELSE call[q]
    PROVE  \A x \in Objects : x \notin InUse' => x \notin InUse
<1>1. \A q \in Processes, b \in Addrs : mapped[q][b] # None => mapped[q][b] \in InUse'
  BY InUseNext
<1>2. call[p].object \in InUse'
  BY InUseNext
<1>3. \A q \in Processes : call[q] # NoCall => call[q].object \in InUse'
  BY <1>2, InUseNext
<1> QED
  BY <1>1, <1>3, InUseNext, Numbers DEF InUse, Runs

(* A segment of an object that is long enough is one more that is backed.  *)
LEMMA BackedGrows ==
    ASSUME ShmInv, NEW p \in Processes, NEW a \in Addrs, NEW o \in Objects,
           NEW length \in Nat, length <= size'[o], mapped[p][a] = None,
           \A q \in Processes, b \in Addrs :
                mapped'[q][b] = IF q = p /\ b = a THEN o ELSE mapped[q][b],
           \A q \in Processes, b \in Addrs :
                mapped[q][b] # None => size'[mapped[q][b]] = size[mapped[q][b]],
           \A q \in Processes \ {p} : shmList'[q] = shmList[q],
           \A k \in Names : shmList'[p][k] # NoSegment =>
                \/ shmList'[p][k] = shmList[p][k] /\ shmList[p][k].addr # a
                \/ shmList'[p][k].addr = a /\ shmList'[p][k].length = length
    PROVE  Backed'
<1>1. SUFFICES ASSUME NEW q \in Processes, NEW n \in Names, shmList'[q][n] # NoSegment
               PROVE  /\ mapped'[q][shmList'[q][n].addr] # None
                      /\ shmList'[q][n].length <= size'[mapped'[q][shmList'[q][n].addr]]
  BY DEF Backed, Listed
<1> DEFINE seg == shmList'[q][n]
<1>2. CASE q = p /\ seg.addr = a /\ seg.length = length
  BY <1>2, Numbers
<1>3. CASE seg = shmList[q][n] /\ (q = p => seg.addr # a)
  <2>1. seg # NoSegment
    BY <1>1
  <2>2. seg.addr \in Addrs /\ mapped[q][seg.addr] # None
    BY <1>3, <2>1, TableFacts DEF Placed
  <2>3. seg.length <= size[mapped[q][seg.addr]]
    BY <1>3, <2>1 DEF ShmInv, Backed, Listed
  <2>4. mapped'[q][seg.addr] = mapped[q][seg.addr]
    BY <1>3, <2>2
  <2> QED
    BY <2>2, <2>3, <2>4
<1> QED
  BY <1>1, <1>2, <1>3

LEMMA ExistingStep ==
    ASSUME ShmInv, NEW p \in Processes, NEW n \in Names, NEW length \in Sizes,
           NEW keyword, ShmMapExisting(p, n, length, keyword)
    PROVE  ShmInv'
<1> DEFINE o == call[p].object
<1>1. call[p] \in Call /\ call[p] # NoCall /\ call[p].at = "found" /\ o \in Objects
  BY TableFacts, CallFacts DEF ShmMapExisting, ShmInv, CallInv
<1>2. CASE LongEnough(o, length)
  <2>1. Maps(p, n, length, keyword, FALSE) /\ UNCHANGED <<named, size, var>>
    BY <1>2 DEF ShmMapExisting
  <2>2. length <= size[o] /\ size[o] # 0 /\ length \in Nat
    BY <1>1, <1>2, SizesAssumption DEF LongEnough, ShmInv, TypeOK
  <2>3. PICK a \in Addrs : MapsAt(p, a, length)
    BY <1>1, <2>1, MapsFacts
  <2>4. /\ mapped' \in [Processes -> [Addrs -> Objects \cup {None}]]
        /\ \A q \in Processes, b \in Addrs :
            mapped'[q][b] = IF q = p /\ b = a THEN o ELSE mapped[q][b]
    BY <1>1, <2>3 DEF ShmInv, TypeOK, MapsAt
  <2>5. /\ call' \in [Processes -> Call \cup {NoCall}]
        /\ \A q \in Processes : call'[q] = IF q = p THEN NoCall ELSE call[q]
    BY <2>3 DEF ShmInv, TypeOK, MapsAt
  <2>6. TypeOK'
    BY <2>1, <2>3, <2>4, <2>5 DEF ShmInv, TypeOK, Tables, MapsAt
  <2>7. \A q \in Processes : TableInv(shmList'[q], var'[q], mapped'[q])
    <3>1. \A q \in Processes \ {p} : mapped'[q] = mapped[q]
      BY <2>3 DEF ShmInv, TypeOK, MapsAt
    <3> QED
      BY <2>1, <2>3, <3>1 DEF ShmInv, MapsAt
  <2>8. \A x \in Objects : x \notin InUse' => x \notin InUse
    BY <1>1, <2>1, <2>3, <2>4, <2>5, InUseKept DEF MapsAt
  <2>9. SizeInv'
    BY <2>1, <2>2, <2>4, <2>8 DEF ShmInv, SizeInv
  <2>10. CallInv'
    BY <2>1, <2>5, Numbers DEF ShmInv, CallInv
  <2>11. Backed'
    BY <1>1, <2>1, <2>2, <2>3, <2>4, BackedGrows DEF MapsAt
  <2> QED
    BY <2>6, <2>7, <2>9, <2>10, <2>11 DEF ShmInv
<1>3. CASE ~LongEnough(o, length)
  <2>1. /\ call' = [call EXCEPT ![p].at = "short"]
        /\ UNCHANGED <<named, size, shmList, mapped, var, excuse>>
    BY <1>3 DEF ShmMapExisting
  <2>2. /\ call'[p] \in Call /\ call'[p] # NoCall
        /\ call'[p].at = "short" /\ call'[p].object = o
        /\ call' \in [Processes -> Call \cup {NoCall}]
        /\ \A q \in Processes \ {p} : call'[q] = call[q]
    BY <1>1, <2>1, Numbers DEF ShmInv, TypeOK, Call
  <2>3. TypeOK'
    BY <2>1, <2>2 DEF ShmInv, TypeOK
  <2>4. \A x \in Objects : x \notin InUse' => x \notin InUse
    <3>1. \A q \in Processes : call[q] # NoCall => call[q].object \in InUse'
      BY <2>2, InUseNext
    <3> QED
      BY <2>1, <3>1, InUseNext DEF InUse, Runs
  <2>5. SizeInv'
    BY <2>1, <2>4 DEF ShmInv, SizeInv
  <2>6. CallInv'
    BY <1>1, <2>1, <2>2 DEF ShmInv, CallInv
  <2>7. Backed' /\ \A q \in Processes : TableInv(shmList[q], var[q], mapped[q])'
    BY <2>1 DEF ShmInv, Backed, Listed
  <2> QED
    BY <2>1, <2>3, <2>5, <2>6, <2>7 DEF ShmInv
<1> QED
  BY <1>2, <1>3

(* The number of a new object is one that is not in use.                   *)
LEMMA Smallest ==
    ASSUME NEW S, S \subseteq Nat, S # {}
    PROVE  Min(S) \in S
<1> DEFINE Under == {pair \in Nat \X Nat : pair[1] < pair[2]}
<1>1. IsWellFoundedOn(Under, Nat)
  BY NatLessThanWellFounded, Zenon DEF OpToRel
<1>2. \A i, j \in Nat : i < j => <<i, j>> \in Under
  OBVIOUS
<1> HIDE DEF Under
<1>3. PICK m \in S : \A i \in S : ~(<<i, m>> \in Under)
  BY <1>1, WFMin
<1>4. \A i \in S : i \in Nat /\ m \in Nat /\ ~(i < m)
  BY <1>2, <1>3
<1>5. \A i \in S : m <= i
  BY <1>4
<1> QED
  BY <1>5 DEF Min

LEMMA CreateStep ==
    ASSUME ShmInv, NEW p \in Processes, ShmMapCreate(p)
    PROVE  ShmInv'
<1>1. /\ call[p] \in Call /\ call[p] # NoCall /\ call[p].at = "absent"
      /\ call[p].object = None /\ call[p].handle \in Handles
      /\ UNCHANGED <<size, shmList, mapped, var, excuse>>
  BY TableFacts, CallFacts DEF ShmMapCreate, ShmInv, CallInv
<1>2. Backed' /\ \A q \in Processes : TableInv(shmList[q], var[q], mapped[q])'
  BY <1>1 DEF ShmInv, Backed, Listed
<1>3. CASE named[call[p].handle] # None
  <2>1. call' = [call EXCEPT ![p] = NoCall] /\ UNCHANGED named
    BY <1>3 DEF ShmMapCreate
  <2>2. /\ call' \in [Processes -> Call \cup {NoCall}]
        /\ \A q \in Processes : call'[q] = IF q = p THEN NoCall ELSE call[q]
    BY <2>1 DEF ShmInv, TypeOK
  <2>3. TypeOK'
    BY <1>1, <2>1, <2>2 DEF ShmInv, TypeOK
  <2>4. \A x \in Objects : x \notin InUse' => x \notin InUse
    <3>1. \A q \in Processes : call[q] # NoCall /\ call[q].object # None =>
            call[q].object \in InUse'
      BY <1>1, <2>2, InUseNext
    <3> QED
      BY <1>1, <2>1, <3>1, InUseNext, Numbers DEF InUse, Runs
  <2>5. SizeInv'
    BY <1>1, <2>4 DEF ShmInv, SizeInv
  <2>6. CallInv'
    BY <1>1, <2>2, Numbers DEF ShmInv, CallInv
  <2> QED
    BY <1>2, <2>3, <2>5, <2>6 DEF ShmInv
<1>4. CASE named[call[p].handle] = None
  <2> DEFINE o == Min(Objects \ InUse)
  <2>1. /\ Objects \ InUse # {}
        /\ named' = [named EXCEPT ![call[p].handle] = o]
        /\ call' = [call EXCEPT ![p].at = "created", ![p].object = o]
    BY <1>4 DEF ShmMapCreate
  <2>2. o \in Objects /\ o \notin InUse
    <3>1. Objects \ InUse \subseteq Nat
      BY Numbers
    <3> HIDE DEF o
    <3> QED
      BY <2>1, <3>1, Smallest DEF o
  <2> HIDE DEF o
  <2>3. /\ call'[p] \in Call /\ call'[p].at = "created" /\ call'[p].object = o
        /\ call'[p] # NoCall
        /\ call' \in [Processes -> Call \cup {NoCall}]
        /\ \A q \in Processes \ {p} : call'[q] = call[q]
    BY <1>1, <2>1, <2>2, Numbers DEF ShmInv, TypeOK, Call
  <2>4. /\ named' \in [Handles -> Objects \cup {None}]
        /\ \A h \in Handles : named'[h] = IF h = call[p].handle THEN o ELSE named[h]
    BY <1>1, <2>1, <2>2 DEF ShmInv, TypeOK
  <2>5. TypeOK'
    BY <1>1, <2>3, <2>4 DEF ShmInv, TypeOK
  <2>6. \A x \in Objects : x \notin InUse' => x \notin InUse
    <3>1. \A q \in Processes : call[q] # NoCall /\ call[q].object # None =>
            call[q].object \in InUse'
      BY <1>1, <2>3, InUseNext
    <3>2. \A h \in Handles : named[h] # None => named[h] \in InUse'
      BY <1>4, <2>4, InUseNext
    <3> QED
      BY <1>1, <3>1, <3>2, InUseNext, Numbers DEF InUse, Runs
  <2>7. SizeInv'
    BY <1>1, <2>6 DEF ShmInv, SizeInv
  <2>8. size[o] = 0
    BY <2>2 DEF ShmInv, SizeInv
  <2>9. \A q \in Processes : call[q].at = "created" => call[q].object # o
    <3>1. \A q \in Processes : call[q] # NoCall => call[q].object \in InUse
      BY DEF InUse, Runs
    <3> QED
      BY <2>2, <3>1, Numbers
  <2>10. CallInv'
    <3>1. ASSUME NEW q \in Processes, call'[q].at = "created"
          PROVE  /\ call'[q].object \in Objects
                 /\ size'[call'[q].object] = 0
                 /\ \A r \in Processes \ {q} :
                        call'[r].at = "created" => call'[r].object # call'[q].object
      <4>1. CASE q = p
        BY <1>1, <2>2, <2>3, <2>8, <2>9, <4>1
      <4>2. CASE q # p
        BY <1>1, <2>3, <2>9, <3>1, <4>2 DEF ShmInv, CallInv
      <4> QED
        BY <4>1, <4>2
    <3>2. \A q \in Processes : call'[q].at \in {"found", "short"} => call'[q].object \in Objects
      BY <2>3 DEF ShmInv, CallInv
    <3>3. \A q \in Processes : call'[q].at = "absent" => call'[q].object = None
      BY <2>3 DEF ShmInv, CallInv
    <3> QED
      BY <3>1, <3>2, <3>3 DEF CallInv
  <2> QED
    BY <1>2, <2>5, <2>7, <2>10 DEF ShmInv
<1> QED
  BY <1>3, <1>4

LEMMA TruncateStep ==
    ASSUME ShmInv, NEW p \in Processes, NEW n \in Names, NEW length \in Sizes,
           NEW keyword, ShmMapTruncate(p, n, length, keyword)
    PROVE  ShmInv'
<1> DEFINE o == call[p].object
<1>1. call[p] \in Call /\ call[p] # NoCall /\ call[p].at = "created" /\ o \in Objects
      /\ size[o] = 0
      /\ \A q \in Processes \ {p} : call[q].at = "created" => call[q].object # o
  BY TableFacts, CallFacts DEF ShmMapTruncate, ShmInv, CallInv
<1>2. /\ Maps(p, n, length, keyword, TRUE) /\ UNCHANGED <<named, var>>
      /\ size' = [size EXCEPT ![o] = length]
  BY DEF ShmMapTruncate
<1>3. length \in Nat \ {0}
  BY SizesAssumption
<1>4. PICK a \in Addrs : MapsAt(p, a, length)
  BY <1>1, <1>2, MapsFacts
<1>5. /\ mapped' \in [Processes -> [Addrs -> Objects \cup {None}]]
      /\ \A q \in Processes, b \in Addrs :
            mapped'[q][b] = IF q = p /\ b = a THEN o ELSE mapped[q][b]
  BY <1>1, <1>4 DEF ShmInv, TypeOK, MapsAt
<1>6. /\ call' \in [Processes -> Call \cup {NoCall}]
      /\ \A q \in Processes : call'[q] = IF q = p THEN NoCall ELSE call[q]
  BY <1>4 DEF ShmInv, TypeOK, MapsAt
<1>7. /\ size' \in [Objects -> Sizes \cup {0}]
      /\ \A x \in Objects : size'[x] = IF x = o THEN length ELSE size[x]
  BY <1>1, <1>2 DEF ShmInv, TypeOK
<1>8. TypeOK'
  BY <1>2, <1>4, <1>5, <1>6, <1>7 DEF ShmInv, TypeOK, Tables, MapsAt
<1>9. \A q \in Processes : TableInv(shmList'[q], var'[q], mapped'[q])
  <2>1. \A q \in Processes \ {p} : mapped'[q] = mapped[q]
    BY <1>4 DEF ShmInv, TypeOK, MapsAt
  <2> QED
    BY <1>2, <1>4, <2>1 DEF ShmInv, MapsAt
<1>10. \A x \in Objects : x \notin InUse' => x \notin InUse
  BY <1>1, <1>2, <1>4, <1>5, <1>6, InUseKept DEF MapsAt
<1>11. \A q \in Processes, b \in Addrs : mapped[q][b] # None =>
        /\ mapped[q][b] \in Objects /\ mapped[q][b] # o /\ size[mapped[q][b]] # 0
        /\ size'[mapped[q][b]] = size[mapped[q][b]]
  BY <1>1, <1>7 DEF ShmInv, TypeOK, SizeInv
<1>12. SizeInv'
  <2>1. o \in InUse'
    BY <1>5, InUseNext
  <2>2. \A q \in Processes, b \in Addrs : mapped'[q][b] # None => size'[mapped'[q][b]] # 0
    BY <1>1, <1>3, <1>5, <1>7, <1>11
  <2>3. \A x \in Objects : x \notin InUse' => size'[x] = 0
    BY <1>7, <1>10, <2>1 DEF ShmInv, SizeInv
  <2> QED
    BY <2>2, <2>3 DEF SizeInv
<1>13. CallInv'
  <2>1. \A q \in Processes : call'[q].at # "none" => q # p /\ call'[q] = call[q]
    BY <1>6, Numbers
  <2> QED
    BY <1>1, <1>7, <2>1 DEF ShmInv, CallInv
<1>14. Backed'
  <2>1. length \in Nat /\ length <= size'[o]
    BY <1>1, <1>3, <1>7
  <2> QED
    BY <1>1, <1>4, <1>5, <1>11, <2>1, BackedGrows DEF MapsAt
<1> QED
  BY <1>8, <1>9, <1>12, <1>13, <1>14 DEF ShmInv

-----------------------------------------------------------------------------
(* The invariant *)

LEMMA ShmInvInit == Init => ShmInv
<1> SUFFICES ASSUME Init PROVE ShmInv
  OBVIOUS
<1>1. /\ \A p \in Processes, n \in Names : shmList[p][n] = NoSegment
      /\ \A p \in Processes, v \in Vars : var[p][v] = None
      /\ \A p \in Processes, a \in Addrs : mapped[p][a] = None
      /\ \A p \in Processes : call[p] = NoCall
      /\ \A o \in Objects : size[o] = 0
  BY DEF Init
<1>2. TypeOK
  BY DEF Init, TypeOK, Excuses
<1>3. \A p \in Processes : TableInv(shmList[p], var[p], mapped[p])
  BY <1>1 DEF TableInv, Placed, Counted, Covered
<1>4. Backed /\ SizeInv /\ CallInv
  BY <1>1, Numbers DEF Backed, Listed, SizeInv, CallInv
<1> QED
  BY <1>2, <1>3, <1>4 DEF ShmInv

LEMMA ShmInvStep == ShmInv /\ [Next]_vars => ShmInv'
<1> SUFFICES ASSUME ShmInv, [Next]_vars PROVE ShmInv'
  OBVIOUS
<1>1. ASSUME NEW p \in Processes,
             \/ \E h \in Handles : ShmMapFound(p, h) \/ ShmMapAbsent(p, h)
             \/ ShmMapTooShort(p) \/ ShmMapCreate(p)
      PROVE  ShmInv'
  BY <1>1, FoundAbsentSteps, TooShortStep, CreateStep
<1>2. ASSUME NEW p \in Processes, NEW n \in Names, NEW length \in Sizes,
             NEW keyword \in Keywords,
             \/ ShmMapExisting(p, n, length, keyword)
             \/ ShmMapTruncate(p, n, length, keyword)
      PROVE  ShmInv'
  BY <1>2, ExistingStep, TruncateStep
<1>3. ASSUME NEW p \in Processes,
             \/ \E n \in Names, v \in Vars : ShmVar(p, n, v)
             \/ \E v \in Vars : Delete(p, v)
             \/ \E v, w \in Vars : Temporary(p, v, w)
      PROVE  ShmInv'
  BY <1>3, ShmVarStep, DeleteStep, TemporaryStep
<1>4. ASSUME NEW p \in Processes, (\E n \in Names : ShmUnmap(p, n)) \/ Exit(p) \/ Die(p)
      PROVE  ShmInv'
  BY <1>4, ShmUnmapStep, EndSteps
<1>5. CASE UNCHANGED vars
  <2>1. TypeOK' /\ Backed' /\ SizeInv' /\ CallInv'
    BY <1>5 DEF vars, ShmInv, TypeOK, Backed, Listed, SizeInv, CallInv, InUse, Runs
  <2>2. \A p \in Processes : TableInv(shmList'[p], var'[p], mapped'[p])
    BY <1>5 DEF vars, ShmInv
  <2> QED
    BY <2>1, <2>2 DEF ShmInv
<1> QED
  BY <1>1, <1>2, <1>3, <1>4, <1>5 DEF Next

LEMMA ShmInvImplies == ShmInv => CountExact
<1> SUFFICES ASSUME ShmInv, NEW p \in Processes
             PROVE  /\ \A n \in Names : Listed(p, n) =>
                        shmList[p][n].refcount
                            = Cardinality({v \in Vars : var[p][v] = shmList[p][n].addr})
                    /\ \A v \in Vars : var[p][v] # None =>
                        \E n \in Names : Listed(p, n) /\ shmList[p][n].addr = var[p][v]
  BY DEF CountExact
<1> QED
  BY TableFacts DEF Counted, Covered, On, Listed

(* The state of the segments keeps its types, the counts above zero        *)
(* included, for every number of processes, names and variables (shm.cpp). *)
THEOREM ShmTypeCorrect == Spec => []TypeOK
<1>1. Spec => []ShmInv
  BY ShmInvInit, ShmInvStep, PTL DEF Spec
<1>2. ShmInv => TypeOK
  BY DEF ShmInv
<1> QED
  BY <1>1, <1>2, PTL

(* Whatever SHMVAR, assignments, TEMPORARY, SHMUNMAP and second uses of a  *)
(* name do, a segment's count is the number of variables on it, and no     *)
(* variable is on memory that was given back (shm_unreference).            *)
THEOREM CountsAreExact == Spec => []CountExact
<1>1. Spec => []ShmInv
  BY ShmInvInit, ShmInvStep, PTL DEF Spec
<1> QED
  BY <1>1, ShmInvImplies, PTL

(* No segment is longer than its object, although between the shm_open of  *)
(* a process and its ftruncate another one may find the object (SHMMAP).   *)
THEOREM SegmentsAreBacked == Spec => []Backed
<1>1. Spec => []ShmInv
  BY ShmInvInit, ShmInvStep, PTL DEF Spec
<1>2. ShmInv => Backed
  BY DEF ShmInv
<1> QED
  BY <1>1, <1>2, PTL

-----------------------------------------------------------------------------
(* The names of segments *)

Owns(p, n) == Listed(p, n) /\ shmList[p][n].destroy

(* An object has one name.                                                 *)
NamedOnce ==
    \A g, h \in Handles : named[g] = named[h] /\ named[h] # None => g = h

(* The OS handle of a segment that p has to destroy stands for its object, *)
(* and for none that another process has to destroy, or has just created.  *)
OwnersSound ==
    /\ \A p \in Processes, n \in Names : Owns(p, n) =>
        named[shmList[p][n].handle] = mapped[p][shmList[p][n].addr]
    /\ \A p, q \in Processes, n, k \in Names :
        Owns(p, n) /\ Owns(q, k) /\ shmList[p][n].handle = shmList[q][k].handle =>
            p = q /\ n = k
    /\ \A p \in Processes : call[p].at = "created" =>
        /\ named[call[p].handle] = call[p].object
        /\ \A q \in Processes, n \in Names :
            Owns(q, n) => shmList[q][n].handle # call[p].handle

NamesInv ==
    /\ NamedOnce
    /\ excuse # "lost" => OwnersSound
    /\ NothingLeft

-----------------------------------------------------------------------------
(* Steps that take names and segments away *)

LEMMA HandleFacts ==
    ASSUME ShmInv, NEW p \in Processes
    PROVE  /\ \A n \in Names : Owns(p, n) =>
                shmList[p][n].handle \in Handles /\ shmList[p][n].addr \in Addrs
           /\ call[p] # NoCall => call[p].handle \in Handles
           /\ call[p].at = "created" <=> call[p] # NoCall /\ call[p].at = "created"
<1>1. \A n \in Names : Owns(p, n) =>
        shmList[p][n].handle \in Handles /\ shmList[p][n].addr \in Addrs
  BY TableFacts, SegmentFacts DEF Owns, Listed, Tables, Placed
<1> QED
  BY <1>1, TableFacts, CallFacts, Numbers

(* What a step of p that gives up some of its segments does to names.      *)
Released(p, R) ==
    /\ \A h \in Handles : named'[h] = IF h \in R THEN None ELSE named[h]
    /\ \A q \in Processes, n \in Names : shmList'[q][n] # NoSegment =>
        /\ shmList'[q][n].handle = shmList[q][n].handle
        /\ shmList'[q][n].destroy = shmList[q][n].destroy
    /\ \A h \in R : \E n \in Names :
        Owns(p, n) /\ shmList[p][n].handle = h /\ shmList'[p][n] = NoSegment
    /\ \A q \in Processes, n \in Names :
        Owns(q, n) /\ shmList'[q][n] = NoSegment => shmList[q][n].handle \in R

(* The names R are taken away.  Unless something may be lost now, these    *)
(* are names of segments p had to destroy and has given up; if nothing may *)
(* be left, they are the names of all of those.                            *)
LEMMA ReleaseStep ==
    ASSUME ShmInv, ShmInv', NamesInv, Shrinks, NEW p \in Processes, NEW R \in SUBSET Handles,
           \A h \in Handles : named'[h] = IF h \in R THEN None ELSE named[h],
           \A q \in Processes, n \in Names : shmList'[q][n] # NoSegment =>
                /\ shmList'[q][n].handle = shmList[q][n].handle
                /\ shmList'[q][n].destroy = shmList[q][n].destroy,
           excuse' # "lost" =>
                /\ excuse # "lost"
                /\ \A h \in R : \E n \in Names :
                    Owns(p, n) /\ shmList[p][n].handle = h /\ shmList'[p][n] = NoSegment,
           excuse' = "nothing" =>
                /\ excuse = "nothing"
                /\ \A q \in Processes, n \in Names :
                    Owns(q, n) /\ shmList'[q][n] = NoSegment => shmList[q][n].handle \in R
                /\ \A q \in Processes : call[q].at = "created" => call'[q] = call[q]
    PROVE  NamesInv'
<1>1. NamedOnce'
  BY DEF NamesInv, NamedOnce
<1>2. \A q \in Processes, n \in Names : Owns(q, n)' =>
        /\ Owns(q, n)
        /\ shmList'[q][n].handle = shmList[q][n].handle
        /\ shmList'[q][n].addr = shmList[q][n].addr
        /\ shmList[q][n].handle \in Handles
        /\ mapped'[q][shmList[q][n].addr] = mapped[q][shmList[q][n].addr]
  <2> SUFFICES ASSUME NEW q \in Processes, NEW n \in Names, Owns(q, n)'
               PROVE  /\ Owns(q, n)
                      /\ shmList'[q][n].handle = shmList[q][n].handle
                      /\ shmList'[q][n].addr = shmList[q][n].addr
                      /\ shmList[q][n].handle \in Handles
                      /\ mapped'[q][shmList[q][n].addr] = mapped[q][shmList[q][n].addr]
    OBVIOUS
  <2>1. shmList'[q][n] # NoSegment /\ shmList'[q][n].destroy
    BY DEF Owns, Listed
  <2>2. /\ shmList[q][n] # NoSegment
        /\ shmList'[q][n].addr = shmList[q][n].addr
        /\ shmList'[q][n].addr \in Addrs
        /\ mapped'[q][shmList'[q][n].addr] # None
    BY <2>1 DEF Shrinks, Placed
  <2>3. mapped'[q][shmList[q][n].addr] \in {mapped[q][shmList[q][n].addr], None}
    BY <2>2 DEF Shrinks
  <2>4. Owns(q, n)
    BY <2>1, <2>2 DEF Owns, Listed
  <2> QED
    BY <2>1, <2>2, <2>3, <2>4, HandleFacts
<1>3. \A q \in Processes : call'[q].at = "created" => call'[q] = call[q]
  BY Numbers DEF Shrinks
<1>4. ASSUME excuse' # "lost" PROVE OwnersSound'
  <2>1. OwnersSound
    BY <1>4 DEF NamesInv
  <2>2. ASSUME NEW q \in Processes, NEW n \in Names, Owns(q, n)'
        PROVE  named'[shmList'[q][n].handle] = mapped'[q][shmList'[q][n].addr]
    <3>1. shmList[q][n].handle \notin R
      BY <1>2, <1>4, <2>1, <2>2 DEF OwnersSound, Owns, Listed
    <3>2. named[shmList[q][n].handle] = mapped[q][shmList[q][n].addr]
      BY <1>2, <2>1, <2>2 DEF OwnersSound
    <3> QED
      BY <1>2, <2>2, <3>1, <3>2
  <2>3. \A q, r \in Processes, n, k \in Names :
            Owns(q, n)' /\ Owns(r, k)' /\ shmList'[q][n].handle = shmList'[r][k].handle =>
                q = r /\ n = k
    BY <1>2, <2>1 DEF OwnersSound
  <2>4. ASSUME NEW q \in Processes, call'[q].at = "created"
        PROVE  /\ named'[call'[q].handle] = call'[q].object
               /\ \A r \in Processes, n \in Names :
                    Owns(r, n)' => shmList'[r][n].handle # call'[q].handle
    <3>1. /\ named[call[q].handle] = call[q].object
          /\ \A r \in Processes, n \in Names :
                Owns(r, n) => shmList[r][n].handle # call[q].handle
          /\ call[q].handle \in Handles /\ call'[q] = call[q]
      BY <1>3, <2>1, <2>4, HandleFacts DEF OwnersSound
    <3>2. call[q].handle \notin R
      BY <1>4, <3>1
    <3> QED
      BY <1>2, <3>1, <3>2
  <2> QED
    BY <2>2, <2>3, <2>4 DEF OwnersSound
<1>5. NothingLeft'
  <2> SUFFICES ASSUME excuse' = "nothing", NEW h \in Handles, named'[h] # None
               PROVE  \E q \in Processes :
                        \/ call'[q] # NoCall /\ call'[q].at = "created" /\ call'[q].object = named'[h]
                        \/ \E n \in Names : /\ shmList'[q][n] # NoSegment
                                            /\ shmList'[q][n].destroy
                                            /\ shmList'[q][n].handle = h
    BY DEF NothingLeft, Listed
  <2>1. h \notin R /\ named'[h] = named[h] /\ excuse = "nothing"
    OBVIOUS
  <2>2. PICK q \in Processes :
            \/ call[q] # NoCall /\ call[q].at = "created" /\ call[q].object = named[h]
            \/ \E n \in Names : Owns(q, n) /\ shmList[q][n].handle = h
    BY <2>1 DEF NamesInv, NothingLeft, Owns
  <2>3. CASE call[q] # NoCall /\ call[q].at = "created" /\ call[q].object = named[h]
    BY <2>1, <2>3
  <2>4. ASSUME NEW n \in Names, Owns(q, n), shmList[q][n].handle = h
        PROVE  /\ shmList'[q][n] # NoSegment
               /\ shmList'[q][n].destroy
               /\ shmList'[q][n].handle = h
    BY <2>1, <2>4 DEF Owns
  <2> QED
    BY <2>2, <2>3, <2>4
<1> QED
  BY <1>1, <1>4, <1>5 DEF NamesInv

LEMMA ReleasedStep ==
    ASSUME ShmInv, ShmInv', NamesInv, Shrinks, NEW p \in Processes, NEW R \in SUBSET Handles,
           Released(p, R), excuse' = excuse,
           \A q \in Processes : call[q].at = "created" => call'[q] = call[q]
    PROVE  NamesInv'
<1>1. CASE excuse = "lost"
  <2>1. \A h \in Handles : named'[h] = IF h \in R THEN None ELSE named[h]
    BY DEF Released
  <2>2. \A q \in Processes, n \in Names : shmList'[q][n] # NoSegment =>
                /\ shmList'[q][n].handle = shmList[q][n].handle
                /\ shmList'[q][n].destroy = shmList[q][n].destroy
    BY DEF Released
  <2>3. excuse' = "lost"
    BY <1>1
  <2> QED
    BY <2>1, <2>2, <2>3, ReleaseStep
<1>2. CASE excuse # "lost"
  BY <1>2, ReleaseStep DEF Released
<1> QED
  BY <1>1, <1>2

LEMMA KeptReleases ==
    ASSUME ShmInv, NEW p \in Processes, UNCHANGED named,
           \A q \in Processes, n \in Names :
                /\ shmList'[q][n] # NoSegment <=> shmList[q][n] # NoSegment
                /\ shmList'[q][n] # NoSegment =>
                    /\ shmList'[q][n].handle = shmList[q][n].handle
                    /\ shmList'[q][n].destroy = shmList[q][n].destroy
    PROVE  Released(p, {})
BY DEF Released, Owns, Listed

(* Another count or another flag makes no other segment.                   *)
LEMMA Recounted ==
    ASSUME NEW seg \in Segment, NEW r, NEW s,
           \/ s = [seg EXCEPT !.refcount = r]
           \/ s = [seg EXCEPT !.pending = r]
    PROVE  /\ s # NoSegment /\ s.addr = seg.addr
           /\ s.handle = seg.handle /\ s.destroy = seg.destroy
<1>1. DOMAIN NoSegment = {"addr"}
  BY DEF NoSegment
<1>2. "handle" \in DOMAIN s
  BY DEF Segment
<1>3. s.addr = seg.addr /\ s.handle = seg.handle /\ s.destroy = seg.destroy
  BY DEF Segment
<1> QED
  BY <1>1, <1>2, <1>3

LEMMA UnmappedReleases ==
    ASSUME ShmInv, NEW p \in Processes, NEW n \in Names, shmList[p][n] # NoSegment,
           Unmapped(p, n), shmList'[p][n] = NoSegment,
           \A q \in Processes, k \in Names : q # p \/ k # n =>
                /\ shmList'[q][k] # NoSegment <=> shmList[q][k] # NoSegment
                /\ shmList'[q][k] # NoSegment =>
                    /\ shmList'[q][k].handle = shmList[q][k].handle
                    /\ shmList'[q][k].destroy = shmList[q][k].destroy
    PROVE  \E R \in SUBSET Handles : Released(p, R)
<1> DEFINE R == {h \in Handles : Owns(p, n) /\ shmList[p][n].handle = h}
<1>1. \A h \in Handles : named'[h] = IF h \in R THEN None ELSE named[h]
  BY DEF Unmapped, Unlinks, Owns, Listed, ShmInv, TypeOK
<1>2. \A q \in Processes, k \in Names : shmList'[q][k] # NoSegment =>
        /\ shmList'[q][k].handle = shmList[q][k].handle
        /\ shmList'[q][k].destroy = shmList[q][k].destroy
  OBVIOUS
<1>3. \A h \in R : \E k \in Names :
        Owns(p, k) /\ shmList[p][k].handle = h /\ shmList'[p][k] = NoSegment
  OBVIOUS
<1>4. \A q \in Processes, k \in Names :
        Owns(q, k) /\ shmList'[q][k] = NoSegment => shmList[q][k].handle \in R
  BY HandleFacts DEF Owns, Listed
<1>5. R \in SUBSET Handles
  OBVIOUS
<1> HIDE DEF R
<1> QED
  BY <1>1, <1>2, <1>3, <1>4, <1>5 DEF Released

LEMMA UnreferenceReleases ==
    ASSUME ShmInv, NEW p \in Processes, NEW list \in [Processes -> Tables], NEW a,
           \A q \in Processes, n \in Names :
                /\ list[q][n] # NoSegment <=> shmList[q][n] # NoSegment
                /\ list[q][n].addr = shmList[q][n].addr
                /\ list[q][n] # NoSegment =>
                    /\ list[q][n].handle = shmList[q][n].handle
                    /\ list[q][n].destroy = shmList[q][n].destroy,
           Unreference(p, a, list)
    PROVE  \E R \in SUBSET Handles : Released(p, R)
<1> DEFINE at == {n \in Names : list[p][n].addr = a}
           n == CHOOSE n \in at : TRUE
           seg == [list[p][n] EXCEPT !.refcount = @ - 1]
<1>1. CASE a = None \/ at = {}
  <2>1. shmList' = list /\ UNCHANGED named
    BY <1>1 DEF Unreference
  <2> QED
    BY <2>1, KeptReleases
<1>2. CASE ~(a = None \/ at = {})
  <2>1. n \in at
    <3>1. at # {}
      BY <1>2
    <3> HIDE DEF at
    <3> QED
      BY <3>1
  <2>2. /\ n \in Names /\ list[p][n] # NoSegment /\ shmList[p][n] # NoSegment
        /\ list[p][n] \in Segment
    BY <2>1, <1>2, Numbers, SegmentFacts DEF Tables
  <2>3. \/ /\ shmList' = [list EXCEPT ![p][n] = NoSegment]
           /\ Unmapped(p, n)
        \/ shmList' = [list EXCEPT ![p][n] = seg] /\ UNCHANGED named
    BY <1>2 DEF Unreference
  <2>4. seg # NoSegment /\ seg.handle = list[p][n].handle /\ seg.destroy = list[p][n].destroy
    <3> DEFINE old == list[p][n]
               r == list[p][n].refcount - 1
    <3>1. old \in Segment /\ seg = [old EXCEPT !.refcount = r]
      BY <2>2
    <3> HIDE DEF seg, old, r
    <3>2. seg # NoSegment /\ seg.handle = old.handle /\ seg.destroy = old.destroy
      BY <3>1, Recounted
    <3> QED
      BY <3>2 DEF old
  <2> HIDE DEF n, at, seg
  <2>5. CASE /\ shmList' = [list EXCEPT ![p][n] = NoSegment]
             /\ Unmapped(p, n)
    <3>1. shmList'[p][n] = NoSegment
          /\ \A q \in Processes, k \in Names : q # p \/ k # n => shmList'[q][k] = list[q][k]
      BY <2>2, <2>5 DEF Tables
    <3> QED
      BY <2>2, <2>5, <3>1, UnmappedReleases
  <2>6. CASE shmList' = [list EXCEPT ![p][n] = seg] /\ UNCHANGED named
    <3>1. shmList'[p][n] = seg
          /\ \A q \in Processes, k \in Names : q # p \/ k # n => shmList'[q][k] = list[q][k]
      BY <2>2, <2>6 DEF Tables
    <3>2. \A q \in Processes, k \in Names :
            /\ shmList'[q][k] # NoSegment <=> shmList[q][k] # NoSegment
            /\ shmList'[q][k] # NoSegment =>
                /\ shmList'[q][k].handle = shmList[q][k].handle
                /\ shmList'[q][k].destroy = shmList[q][k].destroy
      BY <2>2, <2>4, <3>1
    <3> QED
      BY <2>6, <3>2, KeptReleases
  <2> QED
    BY <2>3, <2>5, <2>6
<1> QED
  BY <1>1, <1>2

LEMMA VariableNames ==
    ASSUME ShmInv, ShmInv', NamesInv, Shrinks, NEW p \in Processes,
           \/ \E n \in Names, v \in Vars : ShmVar(p, n, v)
           \/ \E v \in Vars : Delete(p, v)
           \/ \E v, w \in Vars : Temporary(p, v, w)
    PROVE  NamesInv'
<1>1. UNCHANGED <<call, excuse>>
  BY DEF ShmVar, Delete, Temporary
<1>2. \E R \in SUBSET Handles : Released(p, R)
  <2>1. ASSUME NEW n \in Names, NEW v \in Vars, ShmVar(p, n, v)
        PROVE  \E R \in SUBSET Handles : Released(p, R)
    <3> DEFINE seg == [shmList[p][n] EXCEPT !.refcount = @ + 1]
               list == [shmList EXCEPT ![p][n] = seg]
    <3>1. /\ shmList[p][n] # NoSegment /\ shmList[p][n] \in Segment
          /\ shmList[p][n].refcount \in Nat
      BY <2>1, TableFacts, SegmentFacts DEF ShmVar, Listed, Tables
    <3>2. Unreference(p, var[p][v], list)
      BY <2>1, TableFacts DEF ShmVar, Tables
    <3>3. seg \in Segment
      BY <3>1 DEF Segment
    <3>4. /\ seg # NoSegment /\ seg.addr = shmList[p][n].addr
          /\ seg.handle = shmList[p][n].handle /\ seg.destroy = shmList[p][n].destroy
      <4>1. seg = [shmList[p][n] EXCEPT !.refcount = shmList[p][n].refcount + 1]
        OBVIOUS
      <4> HIDE DEF seg
      <4> QED
        BY <3>1, <4>1, Recounted
    <3> HIDE DEF seg
    <3>5. /\ list \in [Processes -> Tables]
          /\ \A q \in Processes, k \in Names :
                list[q][k] = IF q = p /\ k = n THEN seg ELSE shmList[q][k]
      BY <3>3, TableFacts DEF Tables
    <3> HIDE DEF list
    <3> QED
      BY <3>1, <3>2, <3>4, <3>5, UnreferenceReleases
  <2>2. ASSUME NEW a, Unreference(p, a, shmList)
        PROVE  \E R \in SUBSET Handles : Released(p, R)
    BY <2>2, TableFacts, UnreferenceReleases
  <2> QED
    BY <2>1, <2>2 DEF Delete, Temporary
<1> QED
  BY <1>1, <1>2, ReleasedStep

LEMMA UnmapNames ==
    ASSUME ShmInv, ShmInv', NamesInv, Shrinks, NEW p \in Processes, NEW n \in Names, ShmUnmap(p, n)
    PROVE  NamesInv'
<1>1. UNCHANGED <<call, excuse>> /\ shmList[p][n] # NoSegment /\ shmList[p][n] \in Segment
  BY TableFacts, SegmentFacts DEF ShmUnmap, Listed, Tables
<1>2. CASE Unreferenced(shmList[p][n])
  <2>1. /\ Unmapped(p, n) /\ shmList'[p][n] = NoSegment
        /\ \A q \in Processes, k \in Names : q # p \/ k # n => shmList'[q][k] = shmList[q][k]
    BY <1>2, TableFacts DEF ShmUnmap, Tables
  <2>2. \E R \in SUBSET Handles : Released(p, R)
    BY <1>1, <2>1, UnmappedReleases
  <2> QED
    BY <1>1, <2>2, ReleasedStep
<1>3. CASE ~Unreferenced(shmList[p][n])
  <2> DEFINE seg == [shmList[p][n] EXCEPT !.pending = TRUE]
  <2>0. UNCHANGED named /\ shmList' = [shmList EXCEPT ![p][n] = seg]
    BY <1>3, TableFacts DEF ShmUnmap, Tables
  <2>1. /\ shmList'[p][n] = seg
        /\ \A q \in Processes, k \in Names : q # p \/ k # n => shmList'[q][k] = shmList[q][k]
    <3> HIDE DEF seg
    <3> QED
      BY <2>0, TableFacts DEF Tables
  <2>2. seg = [shmList[p][n] EXCEPT !.pending = TRUE]
    OBVIOUS
  <2> HIDE DEF seg
  <2>3. /\ seg # NoSegment
        /\ seg.handle = shmList[p][n].handle /\ seg.destroy = shmList[p][n].destroy
    BY <1>1, <2>2, Recounted
  <2>4. \A q \in Processes, k \in Names :
                /\ shmList'[q][k] # NoSegment <=> shmList[q][k] # NoSegment
                /\ shmList'[q][k] # NoSegment =>
                    /\ shmList'[q][k].handle = shmList[q][k].handle
                    /\ shmList'[q][k].destroy = shmList[q][k].destroy
    BY <1>1, <2>1, <2>3
  <2>5. Released(p, {})
    BY <2>0, <2>4, KeptReleases
  <2> QED
    BY <1>1, <2>5, ReleasedStep
<1> QED
  BY <1>2, <1>3

LEMMA EndNames ==
    ASSUME ShmInv, ShmInv', NamesInv, Shrinks, NEW p \in Processes, Exit(p) \/ Die(p)
    PROVE  NamesInv'
<1>1. /\ \A n \in Names : shmList'[p][n] = NoSegment
      /\ \A q \in Processes \ {p}, n \in Names : shmList'[q][n] = shmList[q][n]
      /\ call'[p] = NoCall /\ \A q \in Processes \ {p} : call'[q] = call[q]
  BY DEF Exit, Die, Reborn, ShmInv, TypeOK
<1>2. CASE Exit(p)
  <2>1. \A h \in Handles : named'[h] = IF h \in Tidied(p) THEN None ELSE named[h]
    BY <1>2 DEF Exit
  <2>2. Tidied(p) = {shmList[p][n].handle : n \in {k \in Names : Owns(p, k)}}
    BY DEF Tidied, Unlinks, Owns
  <2>3. Released(p, Tidied(p))
    BY <1>1, <2>1, <2>2 DEF Released, Owns, Listed
  <2>4. Tidied(p) \in SUBSET Handles
    BY <2>2, HandleFacts
  <2>5. excuse' = excuse /\ \A q \in Processes : call[q].at = "created" => call'[q] = call[q]
    BY <1>1, <1>2, Numbers DEF Exit, Runs
  <2> QED
    BY <2>3, <2>4, <2>5, ReleasedStep
<1>3. CASE Die(p)
  <2> DEFINE R == {}
  <2>1. /\ \A h \in Handles : named'[h] = IF h \in R THEN None ELSE named[h]
        /\ R \in SUBSET Handles /\ \A h \in R : FALSE
    BY <1>3 DEF Die
  <2>2. excuse' # "nothing" /\ (excuse' # "lost" => excuse # "lost")
    BY <1>3 DEF Die, Worse
  <2>3. \A q \in Processes, n \in Names : shmList'[q][n] # NoSegment =>
                /\ shmList'[q][n].handle = shmList[q][n].handle
                /\ shmList'[q][n].destroy = shmList[q][n].destroy
    BY <1>1
  <2> HIDE DEF R
  <2> QED
    BY <2>1, <2>2, <2>3, ReleaseStep
<1> QED
  BY <1>2, <1>3

LEMMA TooShortNames ==
    ASSUME ShmInv, ShmInv', NamesInv, Shrinks, NEW p \in Processes, ShmMapTooShort(p)
    PROVE  NamesInv'
<1> DEFINE R == {h \in Handles : h = call[p].handle}
<1>1. \A h \in Handles : named'[h] = IF h \in R THEN None ELSE named[h]
  BY DEF ShmMapTooShort, ShmInv, TypeOK
<1>2. excuse' = "lost" /\ shmList' = shmList /\ R \in SUBSET Handles
  BY DEF ShmMapTooShort
<1> HIDE DEF R
<1> QED
  BY <1>1, <1>2, ReleaseStep

-----------------------------------------------------------------------------
(* SHMMAP *)

(* Neither a name, nor a segment, nor what was created has changed.        *)
LEMMA SameNames ==
    ASSUME NamesInv, UNCHANGED <<named, shmList, mapped, excuse>>,
           \A q \in Processes : call[q].at = "created" \/ call'[q].at = "created" => call'[q] = call[q]
    PROVE  NamesInv'
<1>1. NamedOnce'
  BY DEF NamesInv, NamedOnce
<1>2. excuse' # "lost" => OwnersSound'
  BY DEF NamesInv, OwnersSound, Owns, Listed
<1>3. NothingLeft'
  <2> SUFFICES ASSUME excuse' = "nothing", NEW h \in Handles, named'[h] # None
               PROVE  \E q \in Processes :
                        \/ call'[q] # NoCall /\ call'[q].at = "created" /\ call'[q].object = named'[h]
                        \/ \E n \in Names : /\ shmList'[q][n] # NoSegment
                                            /\ shmList'[q][n].destroy
                                            /\ shmList'[q][n].handle = h
    BY DEF NothingLeft, Listed
  <2>1. PICK q \in Processes :
            \/ call[q] # NoCall /\ call[q].at = "created" /\ call[q].object = named[h]
            \/ \E n \in Names : /\ shmList[q][n] # NoSegment
                                /\ shmList[q][n].destroy
                                /\ shmList[q][n].handle = h
    BY DEF NamesInv, NothingLeft, Listed
  <2> QED
    BY <2>1
<1> QED
  BY <1>1, <1>2, <1>3 DEF NamesInv

LEMMA FoundAbsentNames ==
    ASSUME ShmInv, NamesInv, NEW p \in Processes, NEW h \in Handles,
           ShmMapFound(p, h) \/ ShmMapAbsent(p, h)
    PROVE  NamesInv'
<1>1. /\ call[p].at # "created" /\ call'[p].at # "created"
      /\ \A q \in Processes \ {p} : call'[q] = call[q]
      /\ UNCHANGED <<named, shmList, mapped, excuse>>
  BY Numbers DEF ShmMapFound, ShmMapAbsent, Runs, ShmInv, TypeOK
<1> QED
  BY <1>1, SameNames

LEMMA CreateNames ==
    ASSUME ShmInv, NamesInv, NEW p \in Processes, ShmMapCreate(p)
    PROVE  NamesInv'
<1>1. /\ call[p] \in Call /\ call[p].at = "absent" /\ call[p].handle \in Handles
      /\ UNCHANGED <<size, shmList, mapped, var, excuse>>
  BY TableFacts, CallFacts DEF ShmMapCreate
<1>2. CASE named[call[p].handle] # None
  <2>1. /\ call'[p].at # "created" /\ UNCHANGED named
        /\ \A q \in Processes \ {p} : call'[q] = call[q]
    BY <1>2, Numbers DEF ShmMapCreate, ShmInv, TypeOK
  <2> QED
    BY <1>1, <2>1, SameNames
<1>3. CASE named[call[p].handle] = None
  <2> DEFINE o == Min(Objects \ InUse)
             g == call[p].handle
  <2>1. /\ Objects \ InUse # {}
        /\ named' = [named EXCEPT ![g] = o]
        /\ call' = [call EXCEPT ![p].at = "created", ![p].object = o]
    BY <1>3 DEF ShmMapCreate
  <2>2. o \in Objects /\ o \notin InUse
    <3>1. Objects \ InUse \subseteq Nat
      BY Numbers
    <3> HIDE DEF o
    <3> QED
      BY <2>1, <3>1, Smallest DEF o
  <2> HIDE DEF o
  <2>3. /\ call'[p].at = "created" /\ call'[p].object = o /\ call'[p].handle = g
        /\ call'[p] # NoCall
        /\ \A q \in Processes \ {p} : call'[q] = call[q]
    BY <1>1, <2>1, Numbers DEF ShmInv, TypeOK, Call
  <2>4. /\ \A h \in Handles : named'[h] = IF h = g THEN o ELSE named[h]
        /\ \A h \in Handles : named[h] # o
        /\ named[g] = None /\ g \in Handles
    BY <1>1, <1>3, <2>1, <2>2 DEF ShmInv, TypeOK, InUse
  <2> HIDE DEF g
  <2>5. NamedOnce'
    BY <2>4 DEF NamesInv, NamedOnce
  <2>6. ASSUME excuse' # "lost" PROVE OwnersSound'
    <3>1. OwnersSound
      BY <1>1, <2>6 DEF NamesInv
    <3>2. \A q \in Processes, n \in Names : Owns(q, n)' <=> Owns(q, n)
      BY <1>1 DEF Owns, Listed
    <3>3. \A q \in Processes, n \in Names : Owns(q, n) =>
            /\ shmList[q][n].handle \in Handles
            /\ shmList[q][n].handle # g
            /\ named[shmList[q][n].handle] = mapped[q][shmList[q][n].addr]
      BY <2>4, <3>1, HandleFacts, TableFacts DEF OwnersSound, Owns, Listed, Placed
    <3>4. \A q \in Processes, n \in Names : Owns(q, n)' =>
            named'[shmList'[q][n].handle] = mapped'[q][shmList'[q][n].addr]
      BY <1>1, <2>4, <3>2, <3>3
    <3>5. ASSUME NEW q \in Processes, call'[q].at = "created"
          PROVE  /\ named'[call'[q].handle] = call'[q].object
                 /\ \A r \in Processes, n \in Names :
                        Owns(r, n)' => shmList'[r][n].handle # call'[q].handle
      <4>1. CASE q = p
        BY <1>1, <2>3, <2>4, <3>2, <3>3, <4>1
      <4>2. CASE q # p
        <5>1. call'[q] = call[q] /\ call[q].handle \in Handles /\ call[q].object # None
          BY <2>3, <3>5, <4>2, HandleFacts, Numbers DEF ShmInv, CallInv
        <5>2. named[call[q].handle] = call[q].object
          BY <3>1, <3>5, <5>1 DEF OwnersSound
        <5>3. named'[call[q].handle] = named[call[q].handle]
          BY <2>4, <5>1, <5>2
        <5> QED
          BY <1>1, <3>1, <3>2, <3>5, <5>1, <5>2, <5>3 DEF OwnersSound
      <4> QED
        BY <4>1, <4>2
    <3> QED
      BY <1>1, <3>1, <3>2, <3>4, <3>5 DEF OwnersSound
  <2>7. NothingLeft'
    <3> SUFFICES ASSUME excuse' = "nothing", NEW h \in Handles, named'[h] # None
                 PROVE  \E q \in Processes :
                        \/ call'[q] # NoCall /\ call'[q].at = "created" /\ call'[q].object = named'[h]
                        \/ \E n \in Names : /\ shmList'[q][n] # NoSegment
                                            /\ shmList'[q][n].destroy
                                            /\ shmList'[q][n].handle = h
      BY DEF NothingLeft, Listed
    <3>1. CASE h = g
      BY <2>3, <2>4, <3>1
    <3>2. CASE h # g
      <4>1. PICK q \in Processes :
            \/ call[q] # NoCall /\ call[q].at = "created" /\ call[q].object = named[h]
            \/ \E n \in Names : /\ shmList[q][n] # NoSegment
                                /\ shmList[q][n].destroy
                                /\ shmList[q][n].handle = h
        BY <1>1, <2>4, <3>2 DEF NamesInv, NothingLeft, Listed
      <4> QED
        BY <1>1, <2>3, <2>4, <3>2, <4>1
    <3> QED
      BY <3>1, <3>2
  <2> QED
    BY <2>5, <2>6, <2>7 DEF NamesInv
<1> QED
  BY <1>2, <1>3

LEMMA MapsNames ==
    ASSUME ShmInv, NamesInv, NEW p \in Processes, NEW n \in Names, NEW length \in Sizes,
           NEW keyword, NEW creator \in BOOLEAN, Maps(p, n, length, keyword, creator),
           UNCHANGED named, call[p] # NoCall, call[p].object \in Objects,
           creator <=> call[p].at = "created",
           creator \/ ~Listed(p, n)
    PROVE  NamesInv'
<1> DEFINE destroy == Destroys(keyword, creator)
           new == ~Listed(p, n) /\ destroy
           g == call[p].handle
<1>1. PICK a \in Addrs :
        /\ mapped[p][a] = None
        /\ mapped' = [mapped EXCEPT ![p][a] = call[p].object]
        /\ shmList' = IF Listed(p, n) THEN shmList
                      ELSE [shmList EXCEPT ![p][n] =
                              [addr |-> a, handle |-> g, length |-> length,
                               refcount |-> 0, destroy |-> destroy, pending |-> FALSE]]
  BY DEF Maps
<1>2. /\ destroy \in BOOLEAN /\ g \in Handles
      /\ \A q \in Processes : call'[q] = IF q = p THEN NoCall ELSE call[q]
  BY HandleFacts DEF Destroys, Maps, ShmInv, TypeOK
<1>3. /\ excuse' # "lost" => excuse # "lost" /\ (destroy => creator)
      /\ excuse' = "nothing" => excuse = "nothing" /\ ~Listed(p, n) /\ (creator => destroy)
  BY <1>2 DEF Maps, Worse, ShmInv, TypeOK, Excuses
<1>4. \A q \in Processes, b \in Addrs :
        mapped'[q][b] = IF q = p /\ b = a THEN call[p].object ELSE mapped[q][b]
  BY <1>1 DEF ShmInv, TypeOK
<1>5. \A q \in Processes, k \in Names :
        shmList'[q][k] = IF q = p /\ k = n /\ ~Listed(p, n)
                         THEN [addr |-> a, handle |-> g, length |-> length,
                               refcount |-> 0, destroy |-> destroy, pending |-> FALSE]
                         ELSE shmList[q][k]
  BY <1>1, TableFacts DEF Tables
<1>6. \A q \in Processes, k \in Names : Owns(q, k)' <=>
        Owns(q, k) \/ (q = p /\ k = n /\ new)
  <2>1. [addr |-> a, handle |-> g, length |-> length,
         refcount |-> 0, destroy |-> destroy, pending |-> FALSE] # NoSegment
    BY Numbers
  <2> HIDE DEF destroy
  <2> QED
    BY <1>5, <2>1 DEF Owns, Listed
<1>7. \A q \in Processes, k \in Names : Owns(q, k) =>
        /\ shmList'[q][k] = shmList[q][k]
        /\ shmList[q][k].handle \in Handles
        /\ mapped[q][shmList[q][k].addr] # None
        /\ mapped'[q][shmList[q][k].addr] = mapped[q][shmList[q][k].addr]
  <2> SUFFICES ASSUME NEW q \in Processes, NEW k \in Names, Owns(q, k)
               PROVE  /\ shmList'[q][k] = shmList[q][k]
                      /\ shmList[q][k].handle \in Handles
                      /\ mapped[q][shmList[q][k].addr] # None
                      /\ mapped'[q][shmList[q][k].addr] = mapped[q][shmList[q][k].addr]
    OBVIOUS
  <2>1. mapped[q][shmList[q][k].addr] # None
    BY TableFacts DEF Owns, Listed, Placed
  <2>2. shmList'[q][k] = shmList[q][k]
    BY <1>5 DEF Owns, Listed
  <2> QED
    BY <1>1, <1>4, <2>1, <2>2, HandleFacts
<1>8. new => /\ shmList'[p][n].handle = g /\ shmList'[p][n].addr = a
             /\ mapped'[p][a] = call[p].object
  BY <1>4, <1>5
<1> HIDE DEF g, new, destroy
<1>9. NamedOnce'
  BY DEF NamesInv, NamedOnce
<1>10. ASSUME excuse' # "lost" PROVE OwnersSound'
  <2>1. OwnersSound
    BY <1>3, <1>10 DEF NamesInv
  <2>2. new => /\ named[g] = call[p].object
               /\ \A q \in Processes, k \in Names : Owns(q, k) => shmList[q][k].handle # g
    BY <1>3, <1>10, <2>1 DEF OwnersSound, new, g
  <2>3. \A q \in Processes, k \in Names : Owns(q, k)' =>
            named'[shmList'[q][k].handle] = mapped'[q][shmList'[q][k].addr]
    BY <1>6, <1>7, <1>8, <2>1, <2>2 DEF OwnersSound
  <2>4. \A q, r \in Processes, k, l \in Names :
            Owns(q, k)' /\ Owns(r, l)' /\ shmList'[q][k].handle = shmList'[r][l].handle =>
                q = r /\ k = l
    BY <1>6, <1>7, <1>8, <2>1, <2>2 DEF OwnersSound
  <2>5. ASSUME NEW q \in Processes, call'[q].at = "created"
        PROVE  /\ named'[call'[q].handle] = call'[q].object
               /\ \A r \in Processes, k \in Names :
                    Owns(r, k)' => shmList'[r][k].handle # call'[q].handle
    <3>1. q # p /\ call'[q] = call[q]
      BY <1>2, <2>5, Numbers
    <3>2. /\ named[call[q].handle] = call[q].object
          /\ \A r \in Processes, k \in Names :
                Owns(r, k) => shmList[r][k].handle # call[q].handle
      BY <2>1, <2>5, <3>1 DEF OwnersSound
    <3>3. ASSUME new PROVE call[q].handle # g
      <4>1. call[p].at = "created"
        BY <1>3, <1>10, <3>3 DEF new
      <4>2. call[p].object # call[q].object
        BY <2>5, <3>1, <4>1 DEF ShmInv, CallInv
      <4> QED
        BY <2>2, <3>2, <3>3, <4>2
    <3> QED
      BY <1>6, <1>7, <1>8, <3>1, <3>2, <3>3
  <2> QED
    BY <2>3, <2>4, <2>5 DEF OwnersSound
<1>11. NothingLeft'
  <2> SUFFICES ASSUME excuse' = "nothing", NEW h \in Handles, named[h] # None
               PROVE  \E q \in Processes :
                        \/ call'[q] # NoCall /\ call'[q].at = "created" /\ call'[q].object = named[h]
                        \/ \E k \in Names : Owns(q, k)' /\ shmList'[q][k].handle = h
    BY DEF NothingLeft, Owns
  <2>1. PICK q \in Processes :
            \/ call[q] # NoCall /\ call[q].at = "created" /\ call[q].object = named[h]
            \/ \E k \in Names : Owns(q, k) /\ shmList[q][k].handle = h
    BY <1>3 DEF NamesInv, NothingLeft, Owns
  <2>2. CASE \E k \in Names : Owns(q, k) /\ shmList[q][k].handle = h
    BY <1>6, <1>7, <2>2
  <2>3. CASE call[q] # NoCall /\ call[q].at = "created" /\ call[q].object = named[h] /\ q # p
    BY <1>2, <2>3
  <2>4. CASE call[p].at = "created" /\ call[p].object = named[h]
    <3>1. OwnersSound /\ NamedOnce /\ new
      BY <1>3, <2>4 DEF NamesInv, new
    <3>2. named[g] = named[h]
      BY <2>4, <3>1 DEF OwnersSound, g
    <3>3. g = h
      BY <1>2, <3>1, <3>2 DEF NamedOnce
    <3> QED
      BY <1>6, <1>8, <3>1, <3>3
  <2> QED
    BY <2>1, <2>2, <2>3, <2>4
<1> QED
  BY <1>9, <1>10, <1>11 DEF NamesInv

LEMMA ExistingTruncateNames ==
    ASSUME ShmInv, NamesInv, NEW p \in Processes, NEW n \in Names, NEW length \in Sizes, NEW keyword,
           \/ ShmMapExisting(p, n, length, keyword)
           \/ ShmMapTruncate(p, n, length, keyword)
    PROVE  NamesInv'
<1>1. CASE ShmMapExisting(p, n, length, keyword) /\ LongEnough(call[p].object, length)
  <2>1. /\ Maps(p, n, length, keyword, FALSE) /\ UNCHANGED named /\ ~Listed(p, n)
        /\ call[p].at = "found" /\ call[p] # NoCall /\ call[p].object \in Objects
    BY <1>1, Numbers DEF ShmMapExisting, ShmInv, CallInv
  <2> QED
    BY <2>1, MapsNames
<1>2. CASE ShmMapExisting(p, n, length, keyword) /\ ~LongEnough(call[p].object, length)
  <2>1. /\ UNCHANGED <<named, shmList, mapped, excuse>>
        /\ call[p].at # "created" /\ call'[p].at # "created"
        /\ \A q \in Processes \ {p} : call'[q] = call[q]
    <3>1. call[p] \in Call
      BY <1>2, TableFacts, CallFacts, Numbers DEF ShmMapExisting
    <3> QED
      BY <1>2, <3>1 DEF ShmMapExisting, ShmInv, TypeOK, Call
  <2> QED
    BY <2>1, SameNames
<1>3. CASE ShmMapTruncate(p, n, length, keyword)
  <2>1. /\ Maps(p, n, length, keyword, TRUE) /\ UNCHANGED named
        /\ call[p].at = "created" /\ call[p] # NoCall /\ call[p].object \in Objects
    BY <1>3, Numbers DEF ShmMapTruncate, ShmInv, CallInv
  <2> QED
    BY <2>1, MapsNames
<1> QED
  BY <1>1, <1>2, <1>3

-----------------------------------------------------------------------------
(* The invariant *)

LEMMA NamesInvInit == Init => NamesInv
<1> SUFFICES ASSUME Init PROVE NamesInv
  OBVIOUS
<1>1. /\ \A h \in Handles : named[h] = None
      /\ \A p \in Processes, n \in Names : ~Listed(p, n)
      /\ \A p \in Processes : call[p].at # "created"
  BY Numbers DEF Init, Listed
<1> QED
  BY <1>1 DEF NamesInv, NamedOnce, OwnersSound, Owns, NothingLeft

LEMMA NamesInvStep == ShmInv /\ NamesInv /\ [Next]_vars => NamesInv'
<1> SUFFICES ASSUME ShmInv, NamesInv, [Next]_vars PROVE NamesInv'
  OBVIOUS
<1>1. ShmInv'
  BY ShmInvStep
<1>2. ASSUME NEW p \in Processes,
             \/ \E h \in Handles : ShmMapFound(p, h) \/ ShmMapAbsent(p, h)
             \/ ShmMapTooShort(p) \/ ShmMapCreate(p)
      PROVE  NamesInv'
  BY <1>1, <1>2, FoundAbsentNames, TooShortStep, TooShortNames, CreateNames
<1>3. ASSUME NEW p \in Processes, NEW n \in Names, NEW length \in Sizes,
             NEW keyword \in Keywords,
             \/ ShmMapExisting(p, n, length, keyword)
             \/ ShmMapTruncate(p, n, length, keyword)
      PROVE  NamesInv'
  BY <1>3, ExistingTruncateNames
<1>4. ASSUME NEW p \in Processes,
             \/ \E n \in Names, v \in Vars : ShmVar(p, n, v)
             \/ \E v \in Vars : Delete(p, v)
             \/ \E v, w \in Vars : Temporary(p, v, w)
      PROVE  NamesInv'
  <2>1. Shrinks
    BY <1>4, ShmVarStep, DeleteStep, TemporaryStep
  <2> QED
    BY <1>1, <1>4, <2>1, VariableNames
<1>5. ASSUME NEW p \in Processes, (\E n \in Names : ShmUnmap(p, n)) \/ Exit(p) \/ Die(p)
      PROVE  NamesInv'
  <2>1. Shrinks
    BY <1>5, ShmUnmapStep, EndSteps
  <2> QED
    BY <1>1, <1>5, <2>1, UnmapNames, EndNames
<1>6. CASE UNCHANGED vars
  BY <1>6, SameNames DEF vars
<1> QED
  BY <1>2, <1>3, <1>4, <1>5, <1>6 DEF Next

LEMMA Invariants == Spec => [](ShmInv /\ NamesInv)
<1>1. Init => ShmInv /\ NamesInv
  BY ShmInvInit, NamesInvInit
<1>2. ShmInv /\ NamesInv /\ [Next]_vars => (ShmInv /\ NamesInv)'
  BY ShmInvStep, NamesInvStep
<1> QED
  BY <1>1, <1>2, PTL DEF Spec

(* As long as no SHMMAP has found an object too short, or has asked to     *)
(* destroy what another process made, the OS handle of a segment that a    *)
(* process has to destroy stands for that segment: an unlink, by name, at  *)
(* SHMUNMAP or in shm_tidy never hits another process's segment.           *)
THEOREM OwnersKeepNames == Spec => []OwnerKeepsName
<1>1. ShmInv /\ NamesInv => OwnerKeepsName
  BY DEF NamesInv, OwnersSound, Owns, OwnerKeepsName
<1> QED
  BY <1>1, Invariants, PTL

(* And without DESTROY_SEGMENT=0, a death or a second use of a name, every *)
(* object that has a name has a process that will unlink it.               *)
THEOREM NoObjectIsLeft == Spec => []NothingLeft
<1>1. ShmInv /\ NamesInv => NothingLeft
  BY DEF NamesInv
<1> QED
  BY <1>1, Invariants, PTL

=============================================================================
