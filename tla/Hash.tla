-------------------------------- MODULE Hash --------------------------------
(***************************************************************************)
(* The tables of HASH (hash.cpp): an array of entries in the order of the  *)
(* keys, with holes.  A key is found by bisection; it is inserted by       *)
(* shifting its neighbours into a hole; the table doubles at 80%.          *)
(*                                                                         *)
(* A statement is one step: one thread runs it, and what the interpreter   *)
(* may do in between (CLEANUP of a value that is replaced) is left out.    *)
(* The table keeps the order that the FOLD_CASE bit names unless entries   *)
(* came from a table of the other order: kept says that they never did.    *)
(*                                                                         *)
(* Raw and Folded rank the keys as HashCompare does, with and without      *)
(* regard to case, equal ranks meaning equal keys.  NaN as a key, and the  *)
(* loss of a long integer's digits when it is compared with a double,      *)
(* which make HashCompare no order, are left out; so are values that are   *)
(* HASHes and nested subscripts.                                           *)
(***************************************************************************)
EXTENDS Integers, Sequences, FiniteSets, FiniteSetsExt, SequencesExt

CONSTANTS
    Hashes,         \* variables that hold a HASH
    Keys,
    Values,
    Raw, Folded,    \* the rank of every key
    Assignments,    \* keys with the values they are set to one by one
    Batches,        \* keys with values: arguments, tags of a structure
    MaxSize,        \* bound: the size of a table
    MaxEntries,     \* bound: entries of all hashes, when more are to come
    MaxMixed        \* bound: the same when a table is in the wrong order

Entry == [key : Keys, value : Values]

ASSUME RanksAssumption == Raw \in [Keys -> Nat] /\ Folded \in [Keys -> Nat]
ASSUME BatchesAssumption == Assignments \subseteq Entry /\ Batches \subseteq Seq(Entry)
ASSUME BoundsAssumption == MaxSize \in Nat /\ MaxSize >= 4 /\ MaxEntries \in Nat /\ MaxMixed \in Nat

Free == [key |-> {}]                            \* pKEY is 0

VARIABLES
    hash,           \* TABLE_DATA, TABLE_COUNT and the bit FOLD_CASE
    kept            \* history: the table is in the order of its bit

vars == <<hash, kept>>

Size(t) == Cardinality(DOMAIN t)

Used(t) == {i \in DOMAIN t : t[i] # Free}

TypeOK ==
    /\ DOMAIN hash = Hashes
    /\ \A h \in Hashes :
        /\ hash[h].count \in Nat
        /\ hash[h].fold \in BOOLEAN
        /\ \E n \in 1 .. MaxSize : hash[h].table \in [0 .. n - 1 -> Entry \cup {Free}]
    /\ kept \in [Hashes -> BOOLEAN]

Empty(n) == [i \in 0 .. n - 1 |-> Free]

(* At least 50% of the table is free. *)
GetInitialTableSize(nEntries) ==
    LET size[i \in 0 .. nEntries] == IF i = 0 THEN 4 ELSE 2 * size[i - 1]
    IN Min({s \in {size[i] : i \in 0 .. nEntries} : s >= 2 * nEntries})

NewHash(nEntries, folds) ==
    [table |-> Empty(GetInitialTableSize(nEntries)), count |-> 0, fold |-> folds]

Init ==
    /\ hash = [h \in Hashes |-> NewHash(0, FALSE)]
    /\ kept = [h \in Hashes |-> TRUE]

Rank(k, folds) == IF folds THEN Folded[k] ELSE Raw[k]

Same(k, c, folds) == Rank(k, folds) = Rank(c, folds)

Less(k, c, folds) == Rank(k, folds) < Rank(c, folds)        \* HashCompare is -1

-----------------------------------------------------------------------------
(* HashIndex *)

\* Plausible error: a hole is passed upwards only.
CandidatesAbove(t, lo, hi) ==
    LET mid == (lo + hi) \div 2 IN {i \in Used(t) : i >= mid /\ i < hi}

(* The entry in the middle, or the nearest one below, or above. *)
Candidates(t, lo, hi) ==
    LET mid == (lo + hi) \div 2
        below == {i \in Used(t) : lo <= i /\ i <= mid}
    IN IF below # {} THEN {Max(below)} ELSE {i \in Used(t) : mid < i /\ i < hi}

\* Plausible error: the entry that is too small is not passed.
AfterItself(p) == p

After(p) == p + 1

(* One turn of the loop: ix is where the key is or where it would be       *)
(* inserted.  In an empty interval that stands on a hole the loop would    *)
(* look above for the interval's end and miss it.                          *)
Turn(t, k, folds, w) ==
    LET found == Candidates(t, w.lo, w.hi)
        p == Min(found)
        c == t[p].key
        Ends(at, ix) == [w EXCEPT !.at = at, !.ix = ix]
    IN CASE w.at # "search" -> w
         [] w.at = "search" /\ found = {} ->
                IF w.lo = w.hi THEN Ends("outside", w.lo)
                               ELSE Ends("absent", (w.lo + w.hi) \div 2)
         [] OTHER ->
                CASE Same(k, c, folds) -> Ends("found", p)
                  [] ~Same(k, c, folds) /\ w.lo = w.hi -> Ends("absent", w.lo)
                  [] ~Same(k, c, folds) /\ w.lo # w.hi /\ Less(k, c, folds) ->
                        IF p = w.lo THEN Ends("absent", p) ELSE [w EXCEPT !.hi = p]
                  [] OTHER ->
                        IF After(p) >= Size(t) THEN Ends("absent", Size(t))
                                               ELSE [w EXCEPT !.lo = After(p)]

(* A search that has not ended after as many turns as there are places     *)
(* never will.                                                             *)
HashIndex(t, k, folds) ==
    LET turn[n \in 0 .. Size(t) + 1] ==
            IF n = 0 THEN [at |-> "search", ix |-> 0, lo |-> 0, hi |-> Size(t)]
                     ELSE Turn(t, k, folds, turn[n - 1])
    IN turn[Size(t) + 1]

Search(s, k) == HashIndex(s.table, k, s.fold)

Has(s, k) == Search(s, k).at = "found"

-----------------------------------------------------------------------------
(* InsertIntoHashTable *)

(* The entries of a table, from the lowest. *)
Entries(t) ==
    LET upTo[n \in 0 .. Size(t)] ==
            IF n = 0 THEN <<>>
            ELSE IF t[n - 1] = Free THEN upTo[n - 1] ELSE Append(upTo[n - 1], t[n - 1])
    IN upTo[Size(t)]

(* entries in a table of n places, as if there were c of them. *)
Spread(entries, n, c) ==
    [i \in 0 .. n - 1 |->
        LET at == {e \in DOMAIN entries : ((e - 1) * n) \div c = i}
        IN IF at = {} THEN Free ELSE entries[Min(at)]]

\* Plausible error: 8 / 10 for 10 / 8.
IsCrowdedLate(n, c) == n <= (c * 8) \div 10

IsCrowded(n, c) == n <= (c * 10) \div 8

(* GrowHashTable, when it is time. *)
Grown(s) ==
    IF IsCrowded(Size(s.table), s.count)
    THEN Spread(Entries(s.table), 2 * Size(s.table), s.count)
    ELSE s.table

\* Plausible error: a value stays where its key was.
ShiftedKeys(t, from, to, step) ==
    [i \in DOMAIN t |-> IF i \in from .. to
        THEN IF t[i] = Free THEN t[i + step] ELSE [t[i] EXCEPT !.key = t[i + step].key]
        ELSE t[i]]

(* from .. to takes what is one step further. *)
Shifted(t, from, to, step) ==
    [i \in DOMAIN t |-> IF i \in from .. to THEN t[i + step] ELSE t[i]]

(* A hole at or above the position is filled from below; if there is none, *)
(* the nearest hole below is filled from above.                            *)
Inserted(t, pos, entry) ==
    LET holes == DOMAIN t \ Used(t)
        above == {i \in holes : i >= pos}
    IN CASE above # {} -> [Shifted(t, pos + 1, Min(above), -1) EXCEPT ![pos] = entry]
         [] above = {} /\ holes # {} ->
                [Shifted(t, Max(holes), pos - 2, 1) EXCEPT ![pos - 1] = entry]
         [] OTHER -> t

(* An empty table is not searched; a key that is there gets the value. *)
InsertIntoHashTable(s, entry) ==
    LET t == Grown(s)
        found == HashIndex(t, entry.key, s.fold)
    IN CASE s.count = 0 -> [s EXCEPT !.table[Size(t) \div 2] = entry, !.count = 1]
         [] s.count # 0 /\ found.at = "found" ->
                [s EXCEPT !.table = [t EXCEPT ![found.ix].value = entry.value]]
         [] OTHER -> [s EXCEPT !.table = Inserted(t, found.ix, entry), !.count = @ + 1]

InsertAll(s, batch) ==
    LET upTo[n \in 0 .. Len(batch)] ==
            IF n = 0 THEN s ELSE InsertIntoHashTable(upTo[n - 1], batch[n])
    IN upTo[Len(batch)]

(* RemoveFromHashTable leaves a hole at i. *)
Removed(s, i) == [s EXCEPT !.table[i] = Free, !.count = @ - 1]

-----------------------------------------------------------------------------
(* Statements *)

(* Bounds: what a statement begins with, and that an entry is set or       *)
(* removed while only that hash has any.                                   *)
Room == MapThenSumSet(LAMBDA h : hash[h].count, Hashes) <=
    IF \A h \in Hashes : kept[h] THEN MaxEntries ELSE MaxMixed

Alone(h) == \A g \in Hashes \ {h} : hash[g].count = 0

Becomes(h, s, keeps) ==
    /\ Size(s.table) <= MaxSize
    /\ hash' = [hash EXCEPT ![h] = s]
    /\ kept' = [kept EXCEPT ![h] = keeps]

Sets(h, s) == Becomes(h, s, kept[h])

(* h = HASH(keys, values, FOLD_CASE = folds) *)
HashCreate(h, folds, batch) ==
    Becomes(h, InsertAll(NewHash(Len(batch), folds), batch), TRUE)

(* h[k] = v, h.SET: no growth when the key is there. *)
Assign(h, k, v) ==
    LET found == Search(hash[h], k)
    IN IF found.at = "found"
       THEN Sets(h, [hash[h] EXCEPT !.table[found.ix].value = v])
       ELSE Sets(h, InsertIntoHashTable(hash[h], [key |-> k, value |-> v]))

(* h[keys] = values *)
AssignKeys(h, batch) ==
    Sets(h, InsertAll(hash[h], batch))

(* A new HASH of the entries of s whose keys are in batch. *)
SubsetOne(s, x, e) ==
    LET found == Search(s, e.key)
    IN IF found.at # "found" THEN x
       ELSE InsertIntoHashTable(x, [e EXCEPT !.value = s.table[found.ix].value])

Subset(s, batch) ==
    LET upTo[n \in 0 .. Len(batch)] ==
            IF n = 0 THEN NewHash(Len(batch), s.fold) ELSE SubsetOne(s, upTo[n - 1], batch[n])
    IN upTo[Len(batch)]

(* g = h[keys] *)
HashSubset(h, g, batch) ==
    /\ Len(batch) > 1
    /\ Becomes(g, Subset(hash[h], batch), kept[h])

(* h.REMOVE(k) *)
RemoveKey(h, k) ==
    /\ Has(hash[h], k)
    /\ Sets(h, Removed(hash[h], Search(hash[h], k).ix))

\* Plausible error: an empty table is not looked for.
LastUsedOrFirst(t) == IF Used(t) = {} THEN {0} ELSE {Max(Used(t))}

LastUsed(t) == IF Used(t) = {} THEN {} ELSE {Max(Used(t))}

(* h.REMOVE() *)
RemoveAny(h) == \E i \in LastUsed(hash[h].table) : Sets(h, Removed(hash[h], i))

(* Keys are removed one by one, up to one that is not there: an error. *)
RemoveOne(x, e) ==
    LET found == Search(x.hash, e.key)
    IN IF x.ok /\ found.at = "found"
       THEN [x EXCEPT !.hash = Removed(@, found.ix),
                      !.taken = Append(@, [e EXCEPT !.value = x.hash.table[found.ix].value])]
       ELSE [x EXCEPT !.ok = FALSE]

RemoveEach(s, batch) ==
    LET upTo[n \in 0 .. Len(batch)] ==
            IF n = 0 THEN [hash |-> s, taken |-> <<>>, ok |-> TRUE]
                     ELSE RemoveOne(upTo[n - 1], batch[n])
    IN upTo[Len(batch)]

(* h.REMOVE, keys *)
RemoveKeys(h, batch) == Sets(h, RemoveEach(hash[h], batch).hash)

(* g = h.REMOVE(keys): the new HASH, whose TABLE_BITS are zero, holds what *)
(* was removed; after an error g is not assigned, as in RemoveKeys.        *)
RemoveKeysFun(h, g, batch) ==
    LET x == RemoveEach(hash[h], batch)
        new == InsertAll(NewHash(Len(batch), FALSE), x.taken)
    IN /\ g # h
       /\ Len(batch) > 1
       /\ x.ok
       /\ Size(new.table) <= MaxSize
       /\ hash' = [hash EXCEPT ![h] = x.hash, ![g] = new]
       /\ kept' = [kept EXCEPT ![g] = kept[h]]

(* h.REMOVE, /ALL; g = h.REMOVE(/ALL) makes a HASH of the old table, whose *)
(* TABLE_BITS are zero.                                                    *)
RemoveAll(h) == Becomes(h, NewHash(0, hash[h].fold), TRUE)

RemoveAllFun(h, g) ==
    /\ g # h
    /\ hash' = [hash EXCEPT ![h] = NewHash(0, @.fold), ![g] = [hash[h] EXCEPT !.fold = FALSE]]
    /\ kept' = [kept EXCEPT ![h] = TRUE, ![g] = kept[h] /\ ~hash[h].fold]

(* The next of two sequences of entries; of equal keys the right one. *)
MergeOne(l, r, w) ==
    LET leftIsNext == w.i <= Len(l) /\ (w.j <= Len(r) => Less(l[w.i].key, r[w.j].key, FALSE))
        both == w.i <= Len(l) /\ w.j <= Len(r) /\ Same(l[w.i].key, r[w.j].key, FALSE)
    IN CASE leftIsNext -> [i |-> w.i + 1, j |-> w.j, out |-> Append(w.out, l[w.i])]
         [] ~leftIsNext /\ w.j <= Len(r) ->
                [i |-> IF both THEN w.i + 1 ELSE w.i, j |-> w.j + 1,
                 out |-> Append(w.out, r[w.j])]
         [] OTHER -> w

Merge(l, r) ==
    LET walk[n \in 0 .. Len(l) + Len(r)] ==
            IF n = 0 THEN [i |-> 1, j |-> 1, out |-> <<>>] ELSE MergeOne(l, r, walk[n - 1])
    IN walk[Len(l) + Len(r)].out

(* r = h + g *)
PlusHash(r, h, g) ==
    LET merged == Merge(Entries(hash[h].table), Entries(hash[g].table))
        most == hash[h].count + hash[g].count
    IN Becomes(r, [table |-> Spread(merged, GetInitialTableSize(most), most),
                   count |-> Len(merged), fold |-> FALSE],
            kept[h] /\ kept[g] /\ ~hash[h].fold /\ ~hash[g].fold)

(* r = h + structure, or structure + h: a copy into which the tags go. *)
PlusStruct(r, h, batch) ==
    LET s == hash[h]
        copy == Spread(Entries(s.table), GetInitialTableSize(s.count + Len(batch)), s.count)
    IN /\ Len(batch) > 0
       /\ Becomes(r, InsertAll([table |-> copy, count |-> s.count, fold |-> FALSE], batch),
            kept[h] /\ ~s.fold)

(* g = h[*]: the entries are inserted one by one. *)
HashDuplicate(h, g) ==
    Becomes(g, InsertAll(NewHash(hash[h].count, hash[h].fold), Entries(hash[h].table)), kept[h])

Removal(h) ==
    \/ RemoveAll(h)
    \/ \E g \in Hashes : RemoveAllFun(h, g) \/ \E batch \in Batches : RemoveKeysFun(h, g, batch)
    \/ /\ Alone(h)
       /\ \/ RemoveAny(h)
          \/ \E k \in Keys : RemoveKey(h, k)
          \/ \E batch \in Batches : RemoveKeys(h, batch)

Insertion(h) ==
    \/ \E folds \in BOOLEAN, batch \in Batches : HashCreate(h, folds, batch)
    \/ /\ Alone(h)
       /\ \/ \E e \in Assignments : Assign(h, e.key, e.value)
          \/ \E batch \in Batches : AssignKeys(h, batch)
    \/ \E g \in Hashes :
        \/ HashDuplicate(h, g)
        \/ \E r \in Hashes : PlusHash(r, h, g)
        \/ \E batch \in Batches : HashSubset(h, g, batch) \/ PlusStruct(g, h, batch)

Next == \E h \in Hashes : Removal(h) \/ (Room /\ Insertion(h))

Spec == Init /\ [][Next]_vars

-----------------------------------------------------------------------------
(* What a HASH promises *)

(* HashIndex finds a key exactly if it is in the table, however many       *)
(* insertions, removals, shifts and growths made it what it is: as long    *)
(* as no entries came from a table of the other order.                     *)
KeysFound ==
    \A h \in Hashes, k \in Keys : kept[h] =>
        LET t == hash[h].table
            found == Search(hash[h], k)
            there == {i \in Used(t) : Same(k, t[i].key, hash[h].fold)}
        IN IF found.at = "found" THEN found.ix \in there ELSE there = {}

(* The assertions of hash.cpp hold in every table, in whatever order: the  *)
(* count is that of the entries (a walk over so many stays in the table,   *)
(* 614), an insertion finds a hole (581), and the interval of a search     *)
(* always holds an entry or a hole (213).                                  *)
AssertionsHold ==
    \A h \in Hashes :
        /\ hash[h].count = Cardinality(Used(hash[h].table))
        /\ Used(Grown(hash[h])) # DOMAIN Grown(hash[h])
        /\ \A k \in Keys : Search(hash[h], k).at # "outside"

(* Every search ends, in a table in the wrong order too. *)
SearchEnds == \A h \in Hashes, k \in Keys : Search(hash[h], k).at # "search"

(* The tables implement maps. *)
Abstract == INSTANCE KeyMap WITH
    fold <- [h \in Hashes |-> hash[h].fold],
    known <- kept,
    map <- [h \in Hashes |->
        IF kept[h] THEN {hash[h].table[i] : i \in Used(hash[h].table)} ELSE {}]

ImplementsKeyMap == Abstract!SpecMap
=============================================================================
