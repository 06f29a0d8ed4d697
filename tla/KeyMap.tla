------------------------------- MODULE KeyMap -------------------------------
(***************************************************************************)
(* What a HASH promises (hash.cpp): a map from keys to values, where two   *)
(* strings that differ in case are one key if it was made with FOLD_CASE.  *)
(*                                                                         *)
(* A HASH got from one with FOLD_CASE by REMOVE(/ALL) or + does not fold   *)
(* case, and what is in it is not known: known is FALSE, and nothing is    *)
(* promised of it until the variable holds another HASH.                   *)
(***************************************************************************)
EXTENDS Integers, Sequences

CONSTANTS Hashes, Keys, Values, Raw, Folded, Batches

VARIABLES fold, known, map

mapVars == <<fold, known, map>>

Same(k, c, folds) == IF folds THEN Folded[k] = Folded[c] ELSE Raw[k] = Raw[c]

InitMap ==
    /\ fold = [h \in Hashes |-> FALSE]
    /\ known = [h \in Hashes |-> TRUE]
    /\ map = [h \in Hashes |-> {}]

(* The pairs of m with the key k or one that is the same. *)
At(m, k, folds) == {e \in m : Same(e.key, k, folds)}

(* The key of a pair stays when its value is replaced. *)
Put(m, e, folds) ==
    LET old == At(m, e.key, folds)
    IN (m \ old) \cup (IF old = {} THEN {e} ELSE {[o EXCEPT !.value = e.value] : o \in old})

PutAll(m, batch, folds) ==
    LET upTo[n \in 0 .. Len(batch)] ==
            IF n = 0 THEN m ELSE Put(upTo[n - 1], batch[n], folds)
    IN upTo[Len(batch)]

(* h holds m from now on; of what is not known nothing is recorded. *)
Becomes(h, folds, knows, m) ==
    /\ fold' = [fold EXCEPT ![h] = folds]
    /\ known' = [known EXCEPT ![h] = knows]
    /\ map' = [map EXCEPT ![h] = IF knows THEN m ELSE {}]

New(h, folds, batch) == Becomes(h, folds, TRUE, PutAll({}, batch, folds))

SetAll(h, batch) ==
    /\ map' = [map EXCEPT ![h] = PutAll(@, batch, fold[h])]
    /\ UNCHANGED <<fold, known>>

RemoveOne(h, k) ==
    /\ map' = [map EXCEPT ![h] = @ \ At(@, k, fold[h])]
    /\ UNCHANGED <<fold, known>>

(* Of several keys those before the first that is not there: that is an    *)
(* error, and what was removed is lost.  Otherwise g holds it.             *)
Present(m, batch, n, folds) ==
    \A i \in 1 .. n : At(m, batch[i].key, folds) # {} /\
        \A j \in 1 .. i - 1 : ~Same(batch[i].key, batch[j].key, folds)

(* A pair of batch with what m has for its key. *)
Got(m, e, folds) == [e EXCEPT !.value = (CHOOSE o \in At(m, e.key, folds) : TRUE).value]

From(m, batch, folds) == [i \in DOMAIN batch |-> Got(m, batch[i], folds)]

RemoveSome(h, batch) ==
    /\ \E n \in 0 .. Len(batch) :
        /\ Present(map[h], batch, n, fold[h])
        /\ n < Len(batch) => ~Present(map[h], batch, n + 1, fold[h])
        /\ map' = [map EXCEPT ![h] =
                {e \in @ : \A i \in 1 .. n : ~Same(e.key, batch[i].key, fold[h])}]
    /\ UNCHANGED <<fold, known>>

MoveSome(h, g, batch) ==
    /\ g # h
    /\ Present(map[h], batch, Len(batch), fold[h])
    /\ fold' = [fold EXCEPT ![g] = FALSE]
    /\ known' = [known EXCEPT ![g] = TRUE]
    /\ map' = [map EXCEPT ![g] = PutAll({}, From(map[h], batch, fold[h]), FALSE), ![h] =
            {e \in @ : \A i \in DOMAIN batch : ~Same(e.key, batch[i].key, fold[h])}]

(* h.REMOVE, /ALL *)
Clear(h) == Becomes(h, fold[h], TRUE, {})

(* g = h.REMOVE(/ALL) *)
MoveAll(h, g) ==
    /\ g # h
    /\ fold' = [fold EXCEPT ![g] = FALSE]
    /\ known' = [known EXCEPT ![h] = TRUE, ![g] = known[h] /\ ~fold[h]]
    /\ map' = [map EXCEPT ![h] = {}, ![g] = IF known[h] /\ ~fold[h] THEN map[h] ELSE {}]

(* r = h + g: of two values of a key the right one counts. *)
Plus(r, h, g) ==
    Becomes(r, FALSE, known[h] /\ known[g] /\ ~fold[h] /\ ~fold[g],
        map[g] \cup {e \in map[h] : At(map[g], e.key, FALSE) = {}})

(* r = h + structure *)
PlusTags(r, h, batch) == Becomes(r, FALSE, known[h] /\ ~fold[h], PutAll(map[h], batch, FALSE))

(* g = h[*] *)
Copy(h, g) == Becomes(g, fold[h], TRUE, map[h])

(* g = h[keys]: of the keys those that are there. *)
ThereOne(m, x, e, folds) == IF At(m, e.key, folds) = {} THEN x ELSE Put(x, Got(m, e, folds), folds)

There(m, batch, folds) ==
    LET upTo[n \in 0 .. Len(batch)] ==
            IF n = 0 THEN {} ELSE ThereOne(m, upTo[n - 1], batch[n], folds)
    IN upTo[Len(batch)]

Subset(h, g, batch) == Becomes(g, fold[h], TRUE, There(map[h], batch, fold[h]))

(* g is got from a hash of which nothing is known. *)
Unknown(g) ==
    /\ \E h \in Hashes : ~known[h]
    /\ \E folds \in BOOLEAN : Becomes(g, folds, FALSE, {})

NextMap ==
    \E h, g \in Hashes :
        \/ \E batch \in Batches :
            \/ \E folds \in BOOLEAN : New(h, folds, batch)
            \/ known[h] /\ (SetAll(h, batch) \/ RemoveSome(h, batch) \/ MoveSome(h, g, batch))
            \/ known[h] /\ Subset(h, g, batch)
            \/ PlusTags(g, h, batch)
        \/ \E k \in Keys :
            \/ known[h] /\ RemoveOne(h, k)
            \/ \E v \in Values : known[h] /\ SetAll(h, <<[key |-> k, value |-> v]>>)
        \/ known[h] /\ Copy(h, g)
        \/ Clear(h)
        \/ MoveAll(h, g)
        \/ Unknown(g)
        \/ \E r \in Hashes : Plus(r, h, g)

SpecMap == InitMap /\ [][NextMap]_mapVars
=============================================================================
