---------------------------- MODULE HeapLifeProofs ----------------------------
(***************************************************************************)
(* The heap implements the life cycle of objects (ObjLife), for every set  *)
(* of variables, every bound and every vocabulary of statements.  From the *)
(* same invariant follows, at the end, what HEAP_GC does not free.         *)
(***************************************************************************)
EXTENDS HeapLife, HeapSweep, HeapProofs

(* Activations whose object is on the heap *)
Called == {"code", "base", "baseAt", "baseCatch", "envt"}

(* What frame i says of its object: it is there until its removal, SELF holds
   it, it has a CLEANUP method; and where HEAP_GC stands, and what it sweeps *)
FrameSound(i) ==
    /\ stack[i].at \in Called => stack[i].ref \in live
    /\ stack[i].at \in Freed => stack[i].ref \notin live
    /\ stack[i].at \in {"code", "baseCatch"} => HasCleanup(stack[i].ref)
    /\ stack[i].at = "envt" => holds[Tmp(i)] = stack[i].ref
    /\ stack[i].at \in Sweeps => stack[i - 1].at \in {"main", "code"}
    /\ stack[i].at = "gcPtr" => stack[i].todo \subseteq Ptrs

(* Between inProgress.erase and FreeObjHeap, EnvT::ObjCleanup waits for the
   destructor of SELF, which may start the CLEANUP of the same object again.
   No other call of ObjCleanup can be there for it. *)
FreeSound(i) ==
    stack[i].at = "envtFree" =>
        /\ \A j \in 1..(i - 1) :
              stack[j].at \in Calls => stack[j].ref # stack[i].ref
        /\ \/ i = Depth /\ stack[i].ref \notin inProgress
           \/ /\ i + 1 = Depth /\ stack[i + 1].at = "drop"
              /\ holds[Tmp(i + 1)] = stack[i].ref /\ stack[i].ref \notin inProgress
           \/ /\ i + 1 <= Depth /\ stack[i + 1].at \in {"base", "baseEnd"}
              /\ stack[i + 1].ref = stack[i].ref

(* What is marked and gone has a call that will remove the mark. *)
MarkedKnown ==
    \A o \in inProgress : o \notin live =>
        \E i \in 1..Depth : stack[i].at \in Freed /\ stack[i].ref = o

(* Nothing knows the identifiers that are still to be given. *)
Unborn ==
    \A o \in Objs : o[2] >= heapIx =>
        /\ o \notin live /\ o \notin inProgress
        /\ \A i \in 1..Depth : stack[i].at = "envtFree" => stack[i].ref # o

LifeInv ==
    /\ CleanupInv /\ MarkedKnown /\ Unborn
    /\ \A i \in 1..Depth : FrameSound(i) /\ FreeSound(i)

-----------------------------------------------------------------------------
(* What a step may do to the phases: one object moves. *)
Moves(o, from, to) ==
    \/ to = from
    \/ from = "absent" /\ to = "alive"
    \/ from \in {"alive", "cleaned"} /\ to = "cleaning" /\ HasCleanup(o)
    \/ from = "cleaning" /\ to \in {"cleaned", "failed", "stuck"}
    \/ from = "alive" /\ to = "cleaned" /\ ~HasCleanup(o)
    \/ to = "absent" /\ from \in IF HasCleanup(o) THEN {"cleaned", "failed"}
                                                  ELSE {"alive", "cleaned"}
OneMoves ==
    \/ \A o \in Objs : Phase(o)' = Phase(o)
    \/ \E r \in Objs : /\ Moves(r, Phase(r), Phase(r)')
                       /\ \A o \in Objs \ {r} : Phase(o)' = Phase(o)

LEMMA LifeMoves ==
    ASSUME OneMoves
    PROVE  [Life!Next]_([o \in Objs |-> Phase(o)])
<1> DEFINE phase == [o \in Objs |-> Phase(o)]
           phasePrimed == [o \in Objs |-> Phase(o)']
<1>1. CASE \A o \in Objs : Phase(o)' = Phase(o)
  BY <1>1
<1>2. CASE \E r \in Objs : /\ Moves(r, Phase(r), Phase(r)')
                           /\ \A o \in Objs \ {r} : Phase(o)' = Phase(o)
  <2>1. PICK r \in Objs : /\ Moves(r, Phase(r), Phase(r)')
                          /\ \A o \in Objs \ {r} : Phase(o)' = Phase(o)
    BY <1>2
  <2>2. phase[r] = Phase(r) /\ phasePrimed = [phase EXCEPT ![r] = Phase(r)']
    BY <2>1
  <2>3. \/ phasePrimed = phase
        \/ Life!Create(r) \/ Life!CleanupBegins(r) \/ Life!CleanupReturns(r)
        \/ Life!CleanupFails(r) \/ Life!SkipCleanup(r) \/ Life!Remove(r)
    <3> HIDE DEF phase, phasePrimed
    <3>1. r \in {o \in Objs : o[2] \in CleanupIds} <=> HasCleanup(r)
      BY DEF HasCleanup
    <3>2. CASE Phase(r)' = Phase(r)
      BY <2>2, <3>2 DEF phase
    <3> QED
      BY <2>1, <2>2, <3>1, <3>2
         DEF Moves, Life!Create, Life!CleanupBegins, Life!CleanupReturns,
             Life!CleanupFails, Life!SkipCleanup, Life!Remove, Life!Move, phase,
             phasePrimed
  <2> QED
    BY <2>1, <2>3 DEF Life!Next
<1> QED
  BY <1>1, <1>2 DEF OneMoves

-----------------------------------------------------------------------------
(* When a step that keeps the k lowest frames keeps the invariant *)
FramesSound(k) == \A i \in 1..Len(stack') : i > k => FrameSound(i)'
FreesSound(k) == \A i \in 1..Len(stack') : i >= k => FreeSound(i)'
BelowSound(k) ==
    \A i \in 1..k :
        /\ stack[i].at \in Called => stack[i].ref \in live'
        /\ stack[i].at \in Freed => stack[i].ref \notin live'
        /\ holds'[Tmp(i)] = holds[Tmp(i)]

LEMMA KeptFacts ==
    ASSUME TypeInv, NEW k, Keeps(stack, stack', k)
    PROVE  /\ Depth = Len(stack) /\ Depth' = Len(stack') /\ Depth >= 1
           /\ k \in Nat /\ Depth \in Nat /\ Len(stack') \in Nat
           /\ k <= Depth /\ k <= Len(stack')
           /\ \A i \in 1..k : /\ i \in 1..Depth /\ i \in 1..Len(stack')
                              /\ stack'[i] = stack[i]
           /\ \A i \in 1..Len(stack') : i > k \/ i \in 1..k
BY StackFacts DEF Keeps, Depth

LEMMA FramesKept ==
    ASSUME LifeInv, TypeInv', NEW k, Keeps(stack, stack', k), FramesSound(k),
           BelowSound(k)
    PROVE  \A i \in 1..Len(stack') : FrameSound(i)'
<1>1. /\ Depth = Len(stack) /\ Depth' = Len(stack') /\ k \in Nat
      /\ k <= Depth /\ k <= Len(stack')
      /\ \A i \in 1..k : /\ i \in 1..Depth /\ i \in 1..Len(stack')
                         /\ stack'[i] = stack[i]
      /\ \A i \in 1..Len(stack') : i > k \/ i \in 1..k
  BY KeptFacts DEF LifeInv, CleanupInv
<1>2. \A i \in 1..k : i = 1 \/ i - 1 \in 1..k
  BY <1>1
<1>3. stack[1].at = "main"
  BY DEF LifeInv, CleanupInv, TypeInv, ShapeOf
<1>4. ASSUME NEW i \in 1..k PROVE FrameSound(i)'
  <2>1. FrameSound(i) /\ stack'[i] = stack[i]
    BY <1>1 DEF LifeInv
  <2>2. stack[i].at \in Sweeps => stack'[i - 1] = stack[i - 1]
    BY <1>1, <1>2, <1>3 DEF Sweeps
  <2> QED
    BY <2>1, <2>2 DEF FrameSound, BelowSound
<1> QED
  BY <1>1, <1>4 DEF FramesSound

LEMMA FreesKept ==
    ASSUME LifeInv, TypeInv', NEW k, Keeps(stack, stack', k), FreesSound(k),
           k < Depth \/ Top.at # "drop"
    PROVE  \A i \in 1..Len(stack') : FreeSound(i)'
<1>1. /\ Depth = Len(stack) /\ Depth' = Len(stack') /\ k \in Nat /\ Depth \in Nat
      /\ k <= Depth /\ k <= Len(stack') /\ Len(stack') \in Nat
      /\ \A i \in 1..k : /\ i \in 1..Depth /\ i \in 1..Len(stack')
                         /\ stack'[i] = stack[i]
  BY KeptFacts DEF LifeInv, CleanupInv
<1>2. Top = stack[Depth]
  BY DEF Top
<1>3. ASSUME NEW i \in 1..Len(stack'), i < k PROVE FreeSound(i)'
  <2>1. i \in 1..k /\ i + 1 \in 1..k /\ FreeSound(i)
    BY <1>1, <1>3 DEF LifeInv
  <2>2. stack'[i] = stack[i] /\ stack'[i + 1] = stack[i + 1]
    BY <1>1, <2>1
  <2>3. \A j \in 1..(i - 1) : stack'[j] = stack[j]
    BY <1>1, <1>3
  <2>4. i # Depth /\ i + 1 <= Len(stack')
    BY <1>1, <2>1
  <2>5. ~(i + 1 = Depth /\ stack[i + 1].at = "drop")
    BY <1>1, <1>2, <2>1
  <2> QED
    BY <1>1, <2>1, <2>2, <2>3, <2>4, <2>5 DEF FreeSound
<1>4. \A i \in 1..Len(stack') : i < k \/ i >= k
  BY <1>1
<1> QED
  BY <1>3, <1>4 DEF FreesSound

LEMMA LifeKept ==
    ASSUME LifeInv, CleanupInv', NEW k, Keeps(stack, stack', k), FramesSound(k),
           FreesSound(k), BelowSound(k), k < Depth \/ Top.at # "drop",
           MarkedKnown', Unborn'
    PROVE  LifeInv'
<1>1. TypeInv'
  BY DEF CleanupInv
<1>2. \A i \in 1..Len(stack') : FrameSound(i)' /\ FreeSound(i)'
  BY <1>1, FramesKept, FreesKept
<1>3. Depth' = Len(stack')
  BY DEF Depth
<1> QED
  BY <1>2, <1>3 DEF LifeInv

LEMMA MarksKept ==
    ASSUME LifeInv, NEW k, Keeps(stack, stack', k),
           inProgress' \subseteq inProgress \union live',
           \A i \in 1..Depth : i > k /\ stack[i].at \in Freed
                                  => stack[i].ref \notin inProgress',
           \A o \in live \ live' : o \in inProgress' =>
              \E i \in 1..Len(stack') : stack'[i].at \in Freed /\ stack'[i].ref = o
    PROVE  MarkedKnown'
<1>1. /\ Depth = Len(stack) /\ Depth' = Len(stack') /\ k \in Nat /\ Depth \in Nat
      /\ \A i \in 1..k : /\ i \in 1..Len(stack') /\ stack'[i] = stack[i]
  BY KeptFacts DEF LifeInv, CleanupInv
<1>2. \A i \in 1..Depth : i > k \/ i \in 1..k
  BY <1>1
<1> SUFFICES ASSUME NEW o \in inProgress', o \notin live'
             PROVE  \E i \in 1..Len(stack') : stack'[i].at \in Freed
                                                 /\ stack'[i].ref = o
  BY <1>1 DEF MarkedKnown
<1>3. CASE o \in live
  BY <1>3
<1>4. CASE o \notin live
  <2>1. PICK i \in 1..Depth : stack[i].at \in Freed /\ stack[i].ref = o
    BY <1>4 DEF LifeInv, MarkedKnown
  <2> QED
    BY <2>1, <1>1, <1>2
<1> QED
  BY <1>3, <1>4

LEMMA UnbornKept ==
    ASSUME LifeInv, TypeInv', NEW k, Keeps(stack, stack', k), heapIx' >= heapIx,
           \A o \in (live' \ live) \intersect Objs : o[2] < heapIx',
           inProgress' \subseteq inProgress \union live',
           \A i \in 1..Len(stack') : i > k /\ stack'[i].at = "envtFree"
                                        => stack'[i].ref \in inProgress
    PROVE  Unborn'
<1>1. /\ Depth = Len(stack) /\ Depth' = Len(stack') /\ k \in Nat
      /\ \A i \in 1..k : i \in 1..Depth /\ stack'[i] = stack[i]
      /\ \A i \in 1..Len(stack') : i > k \/ i \in 1..k
  BY KeptFacts DEF LifeInv, CleanupInv
<1>2. heapIx \in Nat /\ heapIx' \in Nat
  BY DEF LifeInv, CleanupInv, TypeInv, TypeOK
<1> SUFFICES ASSUME NEW o \in Objs, o[2] >= heapIx'
             PROVE  /\ o \notin live' /\ o \notin inProgress'
                    /\ \A i \in 1..Len(stack') : stack'[i].at = "envtFree"
                                                    => stack'[i].ref # o
  BY <1>1 DEF Unborn
<1>3. o[2] \in Nat /\ o[2] >= heapIx /\ ~(o[2] < heapIx')
  <2>1. o[2] \in Nat
    BY MaxIxAssumption DEF Objs, Ix
  <2> QED
    BY <2>1, <1>2
<1>4. /\ o \notin live /\ o \notin inProgress
      /\ \A i \in 1..Depth : stack[i].at = "envtFree" => stack[i].ref # o
  BY <1>3 DEF LifeInv, Unborn
<1>5. o \notin live'
  BY <1>3, <1>4
<1> QED
  BY <1>1, <1>4, <1>5

-----------------------------------------------------------------------------
(* When a step leaves the phase of an object *)
Activations == Called \union {"envtFree"}
NoneOf(s, k, o) ==
    \A i \in 1..Len(s) : i > k /\ s[i].at \in Activations => s[i].ref # o

LEMMA FramesIn ==
    ASSUME NEW places, NEW o
    PROVE  Frames(places, o) # {}
             <=> \E i \in 1..Depth : stack[i].at \in places /\ stack[i].ref = o
BY DEF Frames

LEMMA PhaseKept ==
    ASSUME TypeInv, NEW k, Keeps(stack, stack', k), NEW o \in Objs,
           o \in live' <=> o \in live,
           o \in live => /\ o \in inProgress' <=> o \in inProgress
                         /\ NoneOf(stack, k, o) /\ NoneOf(stack', k, o)
    PROVE  Phase(o)' = Phase(o)
<1>1. /\ Depth = Len(stack) /\ Depth' = Len(stack') /\ k \in Nat /\ Depth \in Nat
      /\ \A i \in 1..k : /\ i \in 1..Depth /\ i \in 1..Len(stack')
                         /\ stack'[i] = stack[i]
      /\ \A i \in 1..Len(stack') : i > k \/ i \in 1..k
      /\ \A i \in 1..Depth : i > k \/ i \in 1..k
  BY KeptFacts
<1>2. CASE o \notin live
  BY <1>2 DEF Phase
<1>3. CASE o \in live
  <2>1. ASSUME NEW places \in SUBSET Activations
        PROVE  (Frames(places, o) = {})' <=> Frames(places, o) = {}
    <3>1. (Frames(places, o) # {})'
            <=> \E i \in 1..Len(stack') : stack'[i].at \in places /\ stack'[i].ref = o
      BY <1>1 DEF Frames
    <3>2. \A i \in 1..Len(stack') :
             stack'[i].at \in places /\ stack'[i].ref = o => i \in 1..k
      BY <1>1, <1>3 DEF NoneOf
    <3>3. \A i \in 1..Depth :
             stack[i].at \in places /\ stack[i].ref = o => i \in 1..k
      BY <1>1, <1>3 DEF NoneOf
    <3> QED
      BY <1>1, <3>1, <3>2, <3>3, FramesIn
  <2>2. /\ (Frames({"code"}, o) = {})' <=> Frames({"code"}, o) = {}
        /\ (Frames({"base", "baseAt", "envt", "envtFree"}, o) = {})'
              <=> Frames({"base", "baseAt", "envt", "envtFree"}, o) = {}
        /\ (Frames({"baseCatch"}, o) = {})' <=> Frames({"baseCatch"}, o) = {}
    <3>1. /\ {"code"} \subseteq Activations /\ {"baseCatch"} \subseteq Activations
          /\ {"base", "baseAt", "envt", "envtFree"} \subseteq Activations
      BY DEF Activations, Called
    <3> QED
      BY <2>1, <3>1
  <2> QED
    BY <1>3, <2>2 DEF Phase
<1> QED
  BY <1>2, <1>3

-----------------------------------------------------------------------------
(* A step that calls no ObjCleanup, ends none, and removes no object *)
LifeStep == LifeInv' /\ OneMoves

SweepsSound(k) ==
    \A i \in 1..Len(stack') : i > k =>
        /\ stack'[i].at \in Sweeps => stack'[i - 1].at \in {"main", "code"}
        /\ stack'[i].at = "gcPtr" => stack'[i].todo \subseteq Ptrs
SameObjects == live' \intersect Objs = live \intersect Objs /\ inProgress' = inProgress

(* what the frame below the changed ones must be if it waits for SELF *)
WaitsBelow(k) ==
    stack[k].at = "envtFree" => Len(stack') = k /\ stack[k].ref \notin inProgress

LEMMA CallRefs ==
    ASSUME LifeInv
    PROVE  /\ \A i \in 1..Depth : stack[i].at \in ObjCleanup => stack[i].ref \in Objs
           /\ \A i \in 1..Depth : stack[i].at \in Calls => stack[i].ref \in inProgress
           /\ ObjCleanup = Called \union Freed \union {"envtFree"}
           /\ Calls \subseteq ObjCleanup
<1>1. /\ Depth = Len(stack) /\ Depth \in Nat /\ stack[1].at = "main"
      /\ \A i \in 2..Len(stack) : StandsOn(stack[i], stack[i - 1])
  BY StackFacts DEF LifeInv, CleanupInv, TypeInv, ShapeOf
<1>2. \A i \in 1..Depth : stack[i].at \in ObjCleanup => i \in 2..Len(stack)
  BY <1>1 DEF ObjCleanup
<1>3. \A i \in 1..Depth : stack[i].at \in ObjCleanup => stack[i].ref \in Objs
  BY <1>1, <1>2 DEF StandsOn
<1>4. \A i \in 1..Depth : stack[i].at \in Calls => stack[i].ref \in inProgress
  BY <1>1 DEF LifeInv, CleanupInv, CallsMarked
<1> QED
  BY <1>3, <1>4 DEF ObjCleanup, Called, Freed, Calls

LEMMA QuietLives ==
    ASSUME LifeInv, CleanupInv', NEW k, Keeps(stack, stack', k), SameObjects,
           heapIx' >= heapIx,
           NoneAbove(stack, k, ObjCleanup), NoneAbove(stack', k, ObjCleanup),
           SweepsSound(k), \A i \in 1..k : holds'[Tmp(i)] = holds[Tmp(i)],
           k < Depth \/ Top.at # "drop", k >= 1, WaitsBelow(k)
    PROVE  LifeStep
<1>1. /\ Depth = Len(stack) /\ Depth' = Len(stack') /\ k \in Nat /\ Depth \in Nat
      /\ Len(stack') \in Nat /\ k <= Depth /\ k <= Len(stack')
      /\ \A i \in 1..k : /\ i \in 1..Depth /\ i \in 1..Len(stack')
                         /\ stack'[i] = stack[i]
      /\ \A i \in 1..Len(stack') : i > k \/ i \in 1..k
      /\ TypeInv /\ TypeInv'
  BY KeptFacts DEF LifeInv, CleanupInv
<1>2. /\ \A i \in 1..Depth : stack[i].at \in ObjCleanup => stack[i].ref \in Objs
      /\ ObjCleanup = Called \union Freed \union {"envtFree"}
  BY CallRefs
<1>3. \A i \in 1..Len(stack') : i > k => /\ stack'[i].at \notin Called
                                         /\ stack'[i].at \notin Freed
                                         /\ stack'[i].at # "envtFree"
  BY <1>2 DEF NoneAbove
<1>4. \A i \in 1..Depth : i > k => /\ stack[i].at \notin Called
                                   /\ stack[i].at \notin Freed
                                   /\ stack[i].at # "envtFree"
  BY <1>1, <1>2 DEF NoneAbove
<1>5. FramesSound(k)
  BY <1>3 DEF FramesSound, FrameSound, SweepsSound, Called
<1>6. BelowSound(k)
  <2> SUFFICES ASSUME NEW i \in 1..k
               PROVE  /\ stack[i].at \in Called => stack[i].ref \in live'
                      /\ stack[i].at \in Freed => stack[i].ref \notin live'
    BY DEF BelowSound
  <2>1. FrameSound(i) /\ (stack[i].at \in Called \union Freed => stack[i].ref \in Objs)
    BY <1>1, <1>2 DEF LifeInv
  <2> QED
    BY <2>1 DEF FrameSound, SameObjects
<1>7. FreesSound(k)
  <2> SUFFICES ASSUME NEW i \in 1..Len(stack'), i >= k, stack'[i].at = "envtFree"
               PROVE  FreeSound(i)'
    BY DEF FreesSound, FreeSound
  <2>1. i = k /\ stack'[i] = stack[i] /\ k \in 1..Depth
    BY <1>1, <1>3
  <2>2. i = Len(stack') /\ stack[i].ref \notin inProgress' /\ FreeSound(i)
    BY <2>1 DEF WaitsBelow, SameObjects, LifeInv
  <2>3. \A j \in 1..(i - 1) : stack'[j] = stack[j]
    BY <2>1, <1>1
  <2> QED
    BY <2>1, <2>2, <2>3, <1>1 DEF FreeSound
<1>8. MarkedKnown'
  <2>1. \A o \in inProgress : o \in Objs
    BY <1>1 DEF TypeInv, TypeOK
  <2> QED
    BY <1>4, <2>1, MarksKept DEF SameObjects
<1>9. Unborn'
  <2>1. \A o \in (live' \ live) \intersect Objs : o[2] < heapIx'
    BY DEF SameObjects
  <2> QED
    BY <1>1, <1>3, <2>1, UnbornKept DEF SameObjects
<1>10. \A o \in Objs : Phase(o)' = Phase(o)
  <2> SUFFICES ASSUME NEW o \in Objs PROVE Phase(o)' = Phase(o)
    OBVIOUS
  <2>1. (o \in live' <=> o \in live) /\ (o \in inProgress' <=> o \in inProgress)
    BY DEF SameObjects
  <2>2. NoneOf(stack, k, o) /\ NoneOf(stack', k, o)
    BY <1>1, <1>3, <1>4 DEF NoneOf, Activations
  <2> QED
    BY <1>1, <2>1, <2>2, PhaseKept
<1> QED
  BY <1>5, <1>6, <1>7, <1>8, <1>9, <1>10, LifeKept DEF LifeStep, OneMoves

(* Nothing of it changes. *)
LEMMA SameLives ==
    ASSUME LifeInv, CleanupInv', UNCHANGED <<holds, stack>>, SameObjects,
           heapIx' >= heapIx
    PROVE  LifeStep
<1>1. /\ Depth = Len(stack) /\ Depth' = Depth /\ Depth \in Nat /\ TypeInv /\ TypeInv'
      /\ Keeps(stack, stack', Depth)
  BY StackFacts DEF LifeInv, CleanupInv, Depth
<1>2. \A i \in 1..Depth : FrameSound(i)'
  <2> SUFFICES ASSUME NEW i \in 1..Depth PROVE FrameSound(i)'
    OBVIOUS
  <2>1. FrameSound(i) /\ (stack[i].at \in Called \union Freed => stack[i].ref \in Objs)
    BY CallRefs DEF LifeInv
  <2> QED
    BY <2>1 DEF FrameSound, SameObjects
<1>3. \A i \in 1..Depth : FreeSound(i)'
  <2> SUFFICES ASSUME NEW i \in 1..Depth PROVE FreeSound(i)'
    OBVIOUS
  <2>1. FreeSound(i)
    BY DEF LifeInv
  <2> QED
    BY <1>1, <2>1 DEF FreeSound, SameObjects
<1>4. MarkedKnown'
  <2>1. \A o \in inProgress : o \in Objs
    BY <1>1 DEF TypeInv, TypeOK
  <2>2. \A i \in 1..Depth : ~(i > Depth)
    BY <1>1
  <2> QED
    BY <1>1, <2>1, <2>2, MarksKept DEF SameObjects
<1>5. Unborn'
  <2>1. \A o \in (live' \ live) \intersect Objs : o[2] < heapIx'
    BY DEF SameObjects
  <2>2. \A i \in 1..Len(stack') : ~(i > Depth)
    BY <1>1
  <2> QED
    BY <1>1, <2>1, <2>2, UnbornKept DEF SameObjects
<1>6. \A o \in Objs : Phase(o)' = Phase(o)
  <2> SUFFICES ASSUME NEW o \in Objs PROVE Phase(o)' = Phase(o)
    OBVIOUS
  <2>1. (o \in live' <=> o \in live) /\ (o \in inProgress' <=> o \in inProgress)
    BY DEF SameObjects
  <2>2. NoneOf(stack, Depth, o) /\ NoneOf(stack', Depth, o)
    BY <1>1 DEF NoneOf
  <2> QED
    BY <1>1, <2>1, <2>2, PhaseKept
<1> QED
  BY <1>1, <1>2, <1>3, <1>4, <1>5, <1>6 DEF LifeStep, LifeInv, OneMoves

-----------------------------------------------------------------------------
(* Statements *)
LEMMA TopCode ==
    ASSUME TypeInv, Top.at \in {"main", "code"}
    PROVE  /\ Depth >= 1 /\ Depth \in Nat /\ stack[Depth] = Top
           /\ Top.at # "drop" /\ WaitsBelow(Depth)
           /\ NoneAbove(stack, Depth, ObjCleanup)
<1>1. Depth >= 1 /\ Depth \in Nat /\ stack[Depth] = Top /\ Len(stack) = Depth
  BY StackFacts
<1> QED
  BY <1>1 DEF WaitsBelow, NoneAbove

LEMMA PushLives ==
    ASSUME LifeInv, CleanupInv', Room(2), Top.at \in {"main", "code"},
           NEW f \in FrameType, f.at \in Assigning, NEW s,
           stack' = stack \o <<f, Drop(s)>>, SameObjects, heapIx' >= heapIx,
           \A i \in 1..Depth : holds'[Tmp(i)] = holds[Tmp(i)]
    PROVE  LifeStep
<1>1. TypeInv
  BY DEF LifeInv, CleanupInv
<1>2. /\ Keeps(stack, stack', Depth) /\ Len(stack') = Depth + 2
      /\ stack'[Depth + 1] = f /\ stack'[Depth + 2] = Drop(s)
      /\ Drop(s).at \in {"drop", "dropAt"} /\ Depth \in Nat
  BY <1>1, OverwriteFrames
<1>3. \A i \in 1..Len(stack') : i > Depth => i = Depth + 1 \/ i = Depth + 2
  BY <1>2
<1>4. NoneAbove(stack', Depth, ObjCleanup) /\ SweepsSound(Depth)
  BY <1>2, <1>3 DEF NoneAbove, SweepsSound, ObjCleanup, Sweeps, Assigning
<1> QED
  BY <1>1, <1>2, <1>4, TopCode, QuietLives

(* the temporaries of the frames below stay *)
LEMMA OverwriteTmps ==
    ASSUME TypeInv, NEW s \in VarSlots \union Refs, NEW new,
           holds' = [holds EXCEPT ![s] = Null, ![Tmp(Depth + 1)] = new,
                                  ![Tmp(Depth + 2)] = holds[s]]
    PROVE  \A i \in 1..Depth : holds'[Tmp(i)] = holds[Tmp(i)]
<1> SUFFICES ASSUME NEW i \in 1..Depth PROVE holds'[Tmp(i)] = holds[Tmp(i)]
  OBVIOUS
<1>1. /\ i \in 1..MaxDepth /\ i # Depth + 1 /\ i # Depth + 2
      /\ holds \in [Slots -> Refs \union {Null}]
  BY StackFacts, MaxDepthAssumption DEF TypeInv, TypeOK
<1>2. /\ Tmp(i) \in Slots /\ Tmp(i) # s /\ Tmp(i) # Tmp(Depth + 1)
      /\ Tmp(i) # Tmp(Depth + 2)
  BY <1>1, SlotFacts
<1> QED
  BY <1>1, <1>2

LEMMA SlotsOverwritten ==
    ASSUME LifeInv, CleanupInv', CodeRuns, Room(2), NEW s \in VarSlots \union Refs,
           NEW f \in FrameType, f.at \in Assigning,
           NEW new, stack' = stack \o <<f, Drop(s)>>,
           holds' = [holds EXCEPT ![s] = Null, ![Tmp(Depth + 1)] = new,
                                  ![Tmp(Depth + 2)] = holds[s]],
           SameObjects, heapIx' = heapIx
    PROVE  LifeStep
<1>1. TypeInv /\ heapIx \in Nat /\ Top.at \in {"main", "code"}
  BY DEF LifeInv, CleanupInv, TypeInv, TypeOK, CodeRuns
<1>2. \A i \in 1..Depth : holds'[Tmp(i)] = holds[Tmp(i)]
  BY <1>1, OverwriteTmps
<1>3. heapIx' >= heapIx
  BY <1>1
<1> QED
  BY <1>1, <1>2, <1>3, PushLives

LEMMA AssigningFrame ==
    ASSUME NEW s \in Slots
    PROVE  /\ [Frame("store") EXCEPT !.ref = s] \in FrameType
           /\ [Frame("store") EXCEPT !.ref = s].at \in Assigning
           /\ \A b \in Slots :
                 LET f == [[Frame("copy") EXCEPT !.src = b] EXCEPT !.ref = s]
                 IN  f \in FrameType /\ f.at \in Assigning
BY AssigningFrames DEF Assigning

LEMMA AssignLives ==
    ASSUME LifeInv, CleanupInv', NEW a \in Lvalues, NEW b \in Lvalues \union Self,
           Assign(a, b)
    PROVE  LifeStep
<1> DEFINE f == [[Frame("copy") EXCEPT !.src = b] EXCEPT !.ref = a]
<1>1. TypeInv /\ CodeRuns
  BY DEF LifeInv, CleanupInv, Assign, May
<1>2. a \in VarSlots \union Refs /\ a \in Slots /\ b \in Slots
  BY <1>1, LvalueFacts DEF CodeRuns
<1>3. f \in FrameType /\ f.at \in Assigning
  BY <1>2, AssigningFrame
<1>4. /\ stack' = stack \o <<f, Drop(a)>> /\ Room(2) /\ heapIx' = heapIx
      /\ holds' = [holds EXCEPT ![a] = Null, ![Tmp(Depth + 1)] = Null,
                                ![Tmp(Depth + 2)] = holds[a]]
      /\ SameObjects
  BY DEF Assign, Overwrite, SameObjects
<1> HIDE DEF f
<1> QED
  BY <1>1, <1>2, <1>3, <1>4, SlotsOverwritten

(* the statements that store a new value *)
LEMMA StoreLives ==
    ASSUME LifeInv, CleanupInv', CodeRuns, Room(2), NEW s \in VarSlots \union Refs,
           NEW new, Overwrite(Frame("store"), s, new), SameObjects, heapIx' = heapIx
    PROVE  LifeStep
<1> DEFINE f == [Frame("store") EXCEPT !.ref = s]
<1>1. f \in FrameType /\ f.at \in Assigning
  BY SlotFacts, AssigningFrame
<1>2. /\ stack' = stack \o <<f, Drop(s)>>
      /\ holds' = [holds EXCEPT ![s] = Null, ![Tmp(Depth + 1)] = new,
                                ![Tmp(Depth + 2)] = holds[s]]
  BY DEF Overwrite
<1> HIDE DEF f
<1> QED
  BY <1>1, <1>2, SlotsOverwritten

LEMMA ClearLives ==
    ASSUME LifeInv, CleanupInv', NEW a \in VarSlots \union Members, Clear(a)
    PROVE  LifeStep
<1>1. a \in VarSlots \union Refs
  BY LvalueFacts DEF LifeInv, CleanupInv
<1>2. /\ CodeRuns /\ Room(2) /\ Overwrite(Frame("store"), a, Null) /\ SameObjects
      /\ heapIx' = heapIx
  BY DEF Clear, May, SameObjects
<1> QED
  BY <1>1, <1>2, StoreLives

LEMMA AssignMemberLives ==
    ASSUME LifeInv, CleanupInv', NEW a \in VarSlots \union Members, NEW b,
           AssignMember(a, b)
    PROVE  LifeStep
<1>1. a \in VarSlots \union Refs
  BY LvalueFacts DEF LifeInv, CleanupInv
<1>2. /\ CodeRuns /\ Room(2) /\ Overwrite(Frame("store"), a, holds[b]) /\ SameObjects
      /\ heapIx' = heapIx
  BY DEF AssignMember, May, SameObjects
<1> QED
  BY <1>1, <1>2, StoreLives

LEMMA PtrNewLives ==
    ASSUME LifeInv, CleanupInv', NEW v \in Vars, NEW b, PtrNew(v, b)
    PROVE  LifeStep
<1> DEFINE f == [Frame("store") EXCEPT !.ref = Var(v)]
           r == Ptr(heapIx)
<1>1. /\ TypeInv /\ CodeRuns /\ heapIx \in Nat /\ heapIx \in Ix /\ Room(2)
      /\ holds \in [Slots -> Refs \union {Null}] /\ Top.at \in {"main", "code"}
  BY DEF LifeInv, CleanupInv, TypeInv, TypeOK, PtrNew, May, Ix, CodeRuns
<1>2. Var(v) \in Slots /\ Var(v) \in VarSlots /\ r \in Ptrs /\ r \notin Objs
  BY <1>1, SlotFacts
<1>3. f \in FrameType /\ f.at \in Assigning /\ Drop(Var(v)) = Frame("drop")
  BY <1>2, AssigningFrame, SlotFacts DEF Drop
<1>4. /\ stack' = stack \o <<f, Drop(Var(v))>> /\ heapIx' = heapIx + 1
      /\ live' = live \union {r} /\ inProgress' = inProgress
  BY <1>3 DEF PtrNew
<1>5. SameObjects
  BY <1>2, <1>4 DEF SameObjects
<1>6. \A i \in 1..Depth : holds'[Tmp(i)] = holds[Tmp(i)]
  <2> SUFFICES ASSUME NEW i \in 1..Depth PROVE holds'[Tmp(i)] = holds[Tmp(i)]
    OBVIOUS
  <2>1. i \in 1..MaxDepth /\ i # Depth + 1 /\ i # Depth + 2
    BY <1>1, StackFacts, MaxDepthAssumption DEF TypeInv, TypeOK
  <2>2. /\ Tmp(i) \in Slots /\ Tmp(i) # Var(v) /\ Tmp(i) # Tmp(Depth + 1)
        /\ Tmp(i) # Tmp(Depth + 2) /\ Tmp(i) # r
    BY <2>1, <1>2, SlotFacts
  <2>3. \E c : holds' = [holds EXCEPT ![r] = c, ![Var(v)] = Null,
                                      ![Tmp(Depth + 1)] = r,
                                      ![Tmp(Depth + 2)] = holds[Var(v)]]
    BY DEF PtrNew
  <2> HIDE DEF r
  <2> QED
    BY <1>1, <2>2, <2>3
<1> HIDE DEF f, r
<1>7. heapIx' >= heapIx
  BY <1>1, <1>4
<1> QED
  BY <1>1, <1>3, <1>4, <1>5, <1>6, <1>7, PushLives

(* A new object, with nothing of ObjCleanup or HEAP_GC put on the stack *)
LEMMA CreateLives ==
    ASSUME LifeInv, CleanupInv', Top.at \in {"main", "code"}, heapIx \in Ix,
           Keeps(stack, stack', Depth), NoneAbove(stack', Depth, ObjCleanup),
           NoneAbove(stack', Depth, Sweeps),
           live' = live \union {Obj(heapIx)}, heapIx' = heapIx + 1,
           inProgress' = inProgress,
           \A i \in 1..Depth : holds'[Tmp(i)] = holds[Tmp(i)]
    PROVE  LifeStep
<1> DEFINE k == Depth
<1>1. /\ TypeInv /\ TypeInv' /\ heapIx \in Nat /\ k \in Nat /\ Depth = Len(stack)
      /\ Depth' = Len(stack') /\ k >= 1
      /\ \A i \in 1..k : i \in 1..Len(stack') /\ stack'[i] = stack[i]
      /\ \A i \in 1..Len(stack') : i > k \/ i \in 1..k
  BY KeptFacts DEF LifeInv, CleanupInv, Ix
<1>2. PICK r \in Objs : r = Obj(heapIx) /\ r[2] = heapIx
  BY SlotFacts DEF Obj
<1>3. /\ r \notin live /\ r \notin inProgress
      /\ \A i \in 1..k : stack[i].at = "envtFree" => stack[i].ref # r
  BY <1>1, <1>2 DEF LifeInv, Unborn
<1>4. /\ ObjCleanup = Called \union Freed \union {"envtFree"}
      /\ \A i \in 1..k : stack[i].at \in Freed => stack[i].ref # r
      /\ \A i \in 1..k : FrameSound(i)
  BY <1>3, CallRefs DEF Freed, Calls, LifeInv
<1> HIDE DEF k
<1>5. live' = live \union {r}
  BY <1>2
<1>6. \A i \in 1..k : stack[i].at \in Called => stack[i].ref # r
  BY <1>3, <1>4 DEF FrameSound
<1>7. \A i \in 1..Len(stack') : i > k =>
         /\ stack'[i].at \notin Called /\ stack'[i].at \notin Freed
         /\ stack'[i].at # "envtFree" /\ stack'[i].at \notin Sweeps
  BY <1>4 DEF NoneAbove, k
<1>8. FramesSound(k)
  BY <1>7 DEF FramesSound, FrameSound, Called, Sweeps
<1>9. BelowSound(k)
  BY <1>4, <1>5 DEF BelowSound, FrameSound, k
<1>10. FreesSound(k)
  <2> SUFFICES ASSUME NEW i \in 1..Len(stack'), i >= k, stack'[i].at = "envtFree"
               PROVE  FALSE
    BY DEF FreesSound, FreeSound
  <2>1. i = k /\ stack'[i] = Top
    BY <1>1, <1>7 DEF k, Top
  <2> QED
    BY <2>1
<1>11. MarkedKnown'
  <2>1. \A i \in 1..Depth : ~(i > k)
    BY <1>1 DEF k
  <2> QED
    BY <1>1, <1>5, <2>1, MarksKept DEF k
<1>12. Unborn'
  <2>1. \A o \in (live' \ live) \intersect Objs : o[2] < heapIx'
    BY <1>1, <1>2, <1>5
  <2>2. heapIx' >= heapIx
    BY <1>1
  <2> QED
    BY <1>1, <1>5, <1>7, <2>1, <2>2, UnbornKept DEF k
<1>13. ASSUME NEW o \in Objs \ {r} PROVE Phase(o)' = Phase(o)
  <2>1. NoneOf(stack, k, o) /\ NoneOf(stack', k, o)
    BY <1>1, <1>7 DEF NoneOf, Activations, k
  <2> QED
    BY <1>1, <1>5, <2>1, PhaseKept DEF k
<1>14. Phase(r) = "absent" /\ Phase(r)' = "alive"
  <2>1. ASSUME NEW places \in SUBSET Activations PROVE (Frames(places, r) = {})'
    <3>1. \A i \in 1..Len(stack') :
             stack'[i].at \in Activations => stack'[i].ref # r
      BY <1>1, <1>3, <1>6, <1>7 DEF Activations
    <3> QED
      BY <3>1, <1>1 DEF Frames
  <2>2. /\ {"code"} \subseteq Activations /\ {"baseCatch"} \subseteq Activations
        /\ {"base", "baseAt", "envt", "envtFree"} \subseteq Activations
    BY DEF Activations, Called
  <2>3. /\ (Frames({"code"}, r) = {})' /\ (Frames({"baseCatch"}, r) = {})'
        /\ (Frames({"base", "baseAt", "envt", "envtFree"}, r) = {})'
    BY <2>1, <2>2
  <2> QED
    BY <1>3, <1>5, <2>3 DEF Phase
<1>15. OneMoves
  BY <1>2, <1>13, <1>14 DEF OneMoves, Moves
<1> QED
  BY <1>8, <1>9, <1>10, <1>11, <1>12, <1>15, LifeKept DEF LifeStep, k

LEMMA ObjNewLives ==
    ASSUME LifeInv, CleanupInv', NEW v \in Vars, ObjNew(v)
    PROVE  LifeStep
<1> DEFINE f == [Frame("store") EXCEPT !.ref = Var(v)]
<1>1. /\ TypeInv /\ heapIx \in Ix /\ Room(2) /\ Top.at \in {"main", "code"}
  BY DEF LifeInv, CleanupInv, TypeInv, TypeOK, ObjNew, May, Ix, CodeRuns
<1>2. Var(v) \in Slots /\ Var(v) \in VarSlots
  BY SlotFacts
<1>3. f \in FrameType /\ f.at \in Assigning
  BY <1>2, AssigningFrame
<1>4. /\ stack' = stack \o <<f, Drop(Var(v))>> /\ heapIx' = heapIx + 1
      /\ live' = live \union {Obj(heapIx)} /\ inProgress' = inProgress
      /\ holds' = [holds EXCEPT ![Var(v)] = Null, ![Tmp(Depth + 1)] = Obj(heapIx),
                                ![Tmp(Depth + 2)] = holds[Var(v)]]
  BY DEF ObjNew, Overwrite
<1> HIDE DEF f
<1>5. /\ Keeps(stack, stack', Depth) /\ Len(stack') = Depth + 2
      /\ stack'[Depth + 1] = f /\ stack'[Depth + 2] = Drop(Var(v))
      /\ Drop(Var(v)).at \in {"drop", "dropAt"} /\ Depth \in Nat
  BY <1>1, <1>3, <1>4, OverwriteFrames
<1>6. NoneAbove(stack', Depth, ObjCleanup) /\ NoneAbove(stack', Depth, Sweeps)
  BY <1>3, <1>5, NoneBeyond DEF ObjCleanup, Sweeps, Assigning
<1>7. \A i \in 1..Depth : holds'[Tmp(i)] = holds[Tmp(i)]
  BY <1>1, <1>2, <1>4, OverwriteTmps
<1> QED
  BY <1>1, <1>4, <1>5, <1>6, <1>7, CreateLives

LEMMA ObjNewRejectedLives ==
    ASSUME LifeInv, CleanupInv', ObjNewRejected
    PROVE  LifeStep
<1>1. /\ TypeInv /\ heapIx \in Ix /\ Top.at \in {"main", "code"}
      /\ holds \in [Slots -> Refs \union {Null}]
  BY DEF LifeInv, CleanupInv, TypeInv, TypeOK, ObjNewRejected, May, Ix, CodeRuns
<1>2. /\ stack' = stack /\ heapIx' = heapIx + 1 /\ inProgress' = inProgress
      /\ live' = live \union {Obj(heapIx)}
      /\ holds' = [holds EXCEPT ![<<"leak", heapIx>>] = Obj(heapIx)]
  BY DEF ObjNewRejected
<1>3. Keeps(stack, stack', Depth) /\ Depth \in Nat /\ Len(stack') = Depth
  BY <1>1, <1>2, StackFacts
<1>4. NoneAbove(stack', Depth, ObjCleanup) /\ NoneAbove(stack', Depth, Sweeps)
  BY <1>3, NoneBeyond
<1>5. \A i \in 1..Depth : holds'[Tmp(i)] = holds[Tmp(i)]
  <2> SUFFICES ASSUME NEW i \in 1..Depth PROVE holds'[Tmp(i)] = holds[Tmp(i)]
    OBVIOUS
  <2>1. i \in 1..MaxDepth
    BY <1>1, StackFacts, MaxDepthAssumption DEF TypeInv, TypeOK
  <2>2. Tmp(i) \in Slots /\ Tmp(i) # <<"leak", heapIx>>
    BY <1>1, <2>1, SlotFacts
  <2> QED
    BY <1>1, <1>2, <2>2
<1> QED
  BY <1>1, <1>2, <1>3, <1>4, <1>5, CreateLives

(* a heap variable leaves the heap, above the frames of the stack *)
LEMMA ErasedTmps ==
    ASSUME TypeInv, NEW r \in Refs, NEW i \in Nat, Erase(r, i),
           NEW k \in Nat, k <= Depth, k < i
    PROVE  \A j \in 1..k : holds'[Tmp(j)] = holds[Tmp(j)]
<1> SUFFICES ASSUME NEW j \in 1..k PROVE holds'[Tmp(j)] = holds[Tmp(j)]
  OBVIOUS
<1>1. j \in 1..MaxDepth /\ j # i /\ holds \in [Slots -> Refs \union {Null}]
  BY StackFacts, MaxDepthAssumption DEF TypeInv, TypeOK
<1>2. Tmp(j) \in Slots /\ Tmp(j) # r /\ Tmp(j) # Tmp(i)
  BY <1>1, SlotFacts
<1> QED
  BY <1>1, <1>2 DEF Erase

LEMMA PtrFreeLives ==
    ASSUME LifeInv, CleanupInv', NEW v \in Vars, PtrFree(v)
    PROVE  LifeStep
<1> DEFINE r == holds[Var(v)]
           g == Frame("drop")
<1>1. /\ TypeInv /\ Top.at \in {"main", "code"} /\ r \in Ptrs /\ r \in Refs
      /\ r \notin Objs /\ Erase(r, Depth + 1) /\ heapIx' = heapIx /\ heapIx \in Nat
      /\ inProgress' = inProgress /\ stack' = Append(stack, g)
  BY SlotFacts DEF LifeInv, CleanupInv, TypeInv, TypeOK, PtrFree, May, CodeRuns
<1>2. g \in FrameType /\ g.at = "drop"
  BY QuietFrames DEF Frame
<1> HIDE DEF r, g
<1>3. stack \in Seq(FrameType) /\ Len(stack) = Depth /\ Depth \in Nat
  BY <1>1, StackFacts
<1>4. Keeps(stack, stack', Depth) /\ Len(stack') = Depth + 1 /\ stack'[Depth + 1] = g
  BY <1>1, <1>2, <1>3, PushKeeps
<1>5. \A i \in 1..Len(stack') : i > Depth => i = Depth + 1
  BY <1>3, <1>4
<1>6. NoneAbove(stack', Depth, ObjCleanup) /\ SweepsSound(Depth)
  BY <1>2, <1>4, <1>5 DEF NoneAbove, SweepsSound, ObjCleanup, Sweeps
<1>7. \A i \in 1..Depth : holds'[Tmp(i)] = holds[Tmp(i)]
  <2>1. Depth + 1 \in Nat /\ Depth < Depth + 1 /\ Depth <= Depth
    BY <1>3
  <2> QED
    BY <1>1, <1>3, <2>1, ErasedTmps
<1>8. SameObjects
  BY <1>1 DEF SameObjects, Erase
<1>9. heapIx' >= heapIx
  BY <1>1
<1> QED
  BY <1>1, <1>4, <1>6, <1>7, <1>8, <1>9, TopCode, QuietLives

-----------------------------------------------------------------------------
(* Steps of C++ that take the top away or replace it *)
LEMMA UnderTop ==
    ASSUME LifeInv, Depth > 1, stack[Depth - 1].at = "envtFree"
    PROVE  \/ /\ Top.at = "drop" /\ Dropped = stack[Depth - 1].ref
              /\ stack[Depth - 1].ref \notin inProgress
           \/ Top.at \in {"base", "baseEnd"} /\ Top.ref = stack[Depth - 1].ref
<1>1. Depth \in Nat /\ Top = stack[Depth] /\ Depth - 1 \in 1..Depth
  BY StackFacts DEF LifeInv, CleanupInv
<1>2. FreeSound(Depth - 1) /\ Depth - 1 # Depth /\ Depth - 1 + 1 = Depth
  BY <1>1 DEF LifeInv
<1> QED
  BY <1>1, <1>2 DEF FreeSound, Dropped

LEMMA TopFrame ==
    ASSUME LifeInv, Top.at # "main"
    PROVE  /\ Depth > 1 /\ Depth \in Nat /\ Len(stack) = Depth /\ TypeInv
           /\ stack[Depth] = Top /\ Top \in FrameType /\ StandsOn(Top, stack[Depth - 1])
           /\ Depth - 1 < Depth /\ Depth - 1 >= 1 /\ Depth - 1 \in 1..Depth
           /\ FrameSound(Depth) /\ FreeSound(Depth) /\ heapIx \in Nat
           /\ holds \in [Slots -> Refs \union {Null}]
<1>1. TypeInv
  BY DEF LifeInv, CleanupInv
<1>2. /\ Depth > 1 /\ Depth \in Nat /\ Len(stack) = Depth
      /\ stack[Depth] = Top /\ Top \in FrameType /\ StandsOn(Top, stack[Depth - 1])
  BY <1>1, StackFacts, TopFacts
<1>3. Depth \in 1..Depth /\ Depth - 1 \in 1..Depth
  BY <1>2
<1>4. FrameSound(Depth) /\ FreeSound(Depth)
  BY <1>3 DEF LifeInv
<1> QED
  BY <1>1, <1>2, <1>3, <1>4 DEF TypeInv, TypeOK

LEMMA PopLives ==
    ASSUME LifeInv, CleanupInv', Top.at # "main", Top.at \notin ObjCleanup,
           stack' = Pop, SameObjects, heapIx' = heapIx,
           \A i \in 1..(Depth - 1) : holds'[Tmp(i)] = holds[Tmp(i)]
    PROVE  LifeStep
<1> DEFINE k == Depth - 1
<1>1. /\ k < Depth /\ k >= 1 /\ k \in Nat /\ Depth = k + 1 /\ Len(stack) = k + 1
      /\ stack[k + 1] = Top /\ TypeInv /\ heapIx' >= heapIx
  BY TopFrame
<1>2. Keeps(stack, stack', k) /\ Len(stack') = k
  BY <1>1, PopKeeps
<1>3. WaitsBelow(k)
  BY <1>1, <1>2, UnderTop DEF WaitsBelow, ObjCleanup
<1> HIDE DEF k
<1>4. /\ NoneAbove(stack, k, ObjCleanup) /\ NoneAbove(stack', k, ObjCleanup)
      /\ SweepsSound(k)
  BY <1>1, <1>2 DEF NoneAbove, SweepsSound
<1>5. \A i \in 1..k : holds'[Tmp(i)] = holds[Tmp(i)]
  BY DEF k
<1> QED
  BY <1>1, <1>2, <1>3, <1>4, <1>5, QuietLives

LEMMA BecomePushed ==
    ASSUME TypeInv, NEW f \in FrameType, NEW g \in FrameType,
           stack' = Append(Become(f), g)
    PROVE  /\ Keeps(stack, stack', Depth - 1) /\ Len(stack') = Depth + 1
           /\ stack'[Depth] = f /\ stack'[Depth + 1] = g
BY BecomePushKeeps

LEMMA BecomeFrames ==
    ASSUME TypeInv, NEW f \in FrameType,
           stack' = Become(f) \/ stack' = Append(Become(f), Frame("drop"))
    PROVE  /\ Keeps(stack, stack', Depth - 1) /\ Len(stack') \in {Depth, Depth + 1}
           /\ stack'[Depth] = f
           /\ Len(stack') = Depth + 1 => stack'[Depth + 1] = Frame("drop")
<1> DEFINE g == Frame("drop")
<1>1. g \in FrameType /\ Depth \in Nat
  BY QuietFrames, StackFacts
<1> HIDE DEF g
<1>2. CASE stack' = Become(f)
  BY <1>1, <1>2, BecomeKeeps
<1>3. CASE stack' = Append(Become(f), g)
  <2>1. /\ Keeps(stack, stack', Depth - 1) /\ Len(stack') = Depth + 1
        /\ stack'[Depth] = f /\ stack'[Depth + 1] = g
    BY <1>1, <1>3, BecomePushed
  <2> QED
    BY <2>1 DEF g
<1> QED
  BY <1>2, <1>3 DEF g

LEMMA BecomeLives ==
    ASSUME LifeInv, CleanupInv', Top.at # "main", Top.at \notin ObjCleanup,
           Top.at = "drop" => Dropped \notin Objs,
           NEW f \in FrameType, f.at \notin ObjCleanup,
           stack' = Become(f) \/ stack' = Append(Become(f), Frame("drop")),
           f.at \in Sweeps => stack[Depth - 1].at \in {"main", "code"},
           f.at = "gcPtr" => f.todo \subseteq Ptrs,
           SameObjects, heapIx' = heapIx,
           \A i \in 1..(Depth - 1) : holds'[Tmp(i)] = holds[Tmp(i)]
    PROVE  LifeStep
<1> DEFINE k == Depth - 1
           g == Frame("drop")
<1>1. /\ k < Depth /\ k >= 1 /\ k \in Nat /\ Depth = k + 1 /\ Len(stack) = k + 1
      /\ stack[k + 1] = Top /\ TypeInv /\ heapIx' >= heapIx
  BY TopFrame
<1>2. g \in FrameType /\ g.at = "drop"
  BY QuietFrames DEF Frame
<1> HIDE DEF g
<1>3. /\ Keeps(stack, stack', k) /\ Len(stack') \in {k + 1, k + 2}
      /\ stack'[k + 1] = f /\ (Len(stack') = k + 2 => stack'[k + 2] = g)
  <2>1. /\ Keeps(stack, stack', Depth - 1) /\ Len(stack') \in {Depth, Depth + 1}
        /\ stack'[Depth] = f
        /\ Len(stack') = Depth + 1 => stack'[Depth + 1] = Frame("drop")
    BY <1>1, BecomeFrames
  <2> QED
    BY <1>1, <2>1 DEF g
<1>4. WaitsBelow(k)
  <2>1. stack[k].at # "envtFree"
    <3> SUFFICES ASSUME stack[k].at = "envtFree" PROVE FALSE
      OBVIOUS
    <3>1. Top.at = "drop" /\ Dropped = stack[k].ref
      BY <1>1, UnderTop DEF ObjCleanup
    <3>2. k \in 1..Depth
      BY <1>1
    <3>3. stack[k].ref \in Objs
      BY <3>2, CallRefs DEF ObjCleanup
    <3> QED
      BY <3>1, <3>3
  <2> QED
    BY <2>1 DEF WaitsBelow
<1>5. f.at \in Sweeps => stack[k].at \in {"main", "code"}
  OBVIOUS
<1> HIDE DEF k
<1>6. stack[k] = stack'[k]
  <2>1. k \in 1..k
    BY <1>1
  <2> QED
    BY <2>1, <1>3 DEF Keeps
<1>7. \A i \in 1..Len(stack') : i > k => i = k + 1 \/ (i = k + 2 /\ stack'[i] = g)
  BY <1>1, <1>3
<1>8. /\ NoneAbove(stack, k, ObjCleanup) /\ NoneAbove(stack', k, ObjCleanup)
      /\ SweepsSound(k)
  <2>1. NoneAbove(stack, k, ObjCleanup)
    BY <1>1, NoneBeyond
  <2>2. g.at \notin ObjCleanup /\ g.at \notin Sweeps /\ g.at # "gcPtr"
    BY <1>2 DEF ObjCleanup, Sweeps
  <2>3. NoneAbove(stack', k, ObjCleanup)
    BY <1>3, <1>7, <2>2 DEF NoneAbove
  <2>4. k + 1 - 1 = k
    BY <1>1
  <2>5. SweepsSound(k)
    <3> SUFFICES ASSUME NEW i \in 1..Len(stack'), i > k
                 PROVE  /\ stack'[i].at \in Sweeps
                              => stack'[i - 1].at \in {"main", "code"}
                        /\ stack'[i].at = "gcPtr" => stack'[i].todo \subseteq Ptrs
      BY DEF SweepsSound
    <3>1. CASE i = k + 1
      <4>1. stack'[i] = f /\ stack'[i - 1] = stack[k]
        BY <3>1, <1>1, <1>3, <1>6, <2>4
      <4> QED
        BY <4>1, <1>5
    <3>2. CASE stack'[i] = g
      BY <3>2, <2>2
    <3> QED
      BY <3>1, <3>2, <1>7
  <2> QED
    BY <2>1, <2>3, <2>5
<1>9. \A i \in 1..k : holds'[Tmp(i)] = holds[Tmp(i)]
  BY DEF k
<1> QED
  BY <1>1, <1>3, <1>4, <1>8, <1>9, QuietLives

LEMMA BelowTmp ==
    ASSUME TypeInv, NEW i \in 1..(Depth - 1)
    PROVE  /\ Tmp(i) \in Slots /\ Tmp(i) # Tmp(Depth)
           /\ \A s \in VarSlots \union Refs : Tmp(i) # s
<1>1. i \in 1..MaxDepth /\ i # Depth
  BY StackFacts, MaxDepthAssumption DEF TypeInv, TypeOK
<1> QED
  BY <1>1, SlotFacts

LEMMA EndLives ==
    ASSUME LifeInv, CleanupInv', CopyEnd \/ StoreEnd \/ DropOne
    PROVE  LifeStep
<1>1. /\ Top.at # "main" /\ Top.at \notin ObjCleanup /\ stack' = Pop
      /\ SameObjects /\ heapIx' = heapIx
  BY DEF CopyEnd, StoreEnd, DropOne, Dropping, ObjCleanup, SameObjects
<1>2. /\ TypeInv /\ StandsOn(Top, stack[Depth - 1])
      /\ holds \in [Slots -> Refs \union {Null}]
  BY <1>1, TopFrame
<1>3. ASSUME NEW i \in 1..(Depth - 1) PROVE holds'[Tmp(i)] = holds[Tmp(i)]
  <2>1. /\ Tmp(i) \in Slots /\ Tmp(i) # Tmp(Depth)
        /\ \A s \in VarSlots \union Refs : Tmp(i) # s
    BY <1>2, BelowTmp
  <2>2. Top.at \in Assigning => Tmp(i) # Top.ref
    BY <1>2, <2>1 DEF StandsOn
  <2> QED
    BY <1>2, <2>1, <2>2 DEF CopyEnd, StoreEnd, DropOne, Assigning
<1> QED
  BY <1>1, <1>3, PopLives

LEMMA DropLastPtrLives ==
    ASSUME LifeInv, CleanupInv', DropLastPtr
    PROVE  LifeStep
<1> DEFINE g == Frame("drop")
<1>1. /\ Top.at # "main" /\ Top.at \notin ObjCleanup /\ stack' = Become(g)
      /\ heapIx' = heapIx /\ Dropped \in Ptrs /\ Erase(Dropped, Depth)
      /\ inProgress' = inProgress
  BY DEF DropLastPtr, Dropping, ObjCleanup
<1>2. g \in FrameType /\ g.at = "drop"
  BY QuietFrames DEF Frame
<1>3. g.at \notin ObjCleanup /\ g.at \notin Sweeps /\ g.at # "gcPtr"
  BY <1>2 DEF ObjCleanup, Sweeps
<1>4. Dropped \notin Objs /\ Dropped \in Refs
  BY <1>1, SlotFacts
<1>5. SameObjects
  BY <1>1, <1>4 DEF Erase, SameObjects
<1>6. \A i \in 1..(Depth - 1) : holds'[Tmp(i)] = holds[Tmp(i)]
  <2>1. /\ TypeInv /\ Depth \in Nat /\ Depth - 1 \in Nat /\ Depth - 1 < Depth
        /\ Depth - 1 <= Depth
    BY <1>1, TopFrame
  <2> QED
    BY <1>1, <1>4, <2>1, ErasedTmps
<1> HIDE DEF g
<1> QED
  BY <1>1, <1>2, <1>3, <1>4, <1>5, <1>6, BecomeLives

-----------------------------------------------------------------------------
(* A step that changes one object and the frames of its calls *)
Others(r) == \A o \in Objs \ {r} : /\ o \in live' <=> o \in live
                                   /\ o \in inProgress' <=> o \in inProgress
OnlyOf(s, k, r) ==
    \A i \in 1..Len(s) : i > k /\ s[i].at \in ObjCleanup => s[i].ref = r
Uncalled(k, r) == \A i \in 1..k : stack[i].at \in Called => stack[i].ref # r
Gone(r) == \E i \in 1..Len(stack') : stack'[i].at \in Freed /\ stack'[i].ref = r

LEMMA OneLives ==
    ASSUME LifeInv, CleanupInv', NEW r \in Objs, r[2] < heapIx, heapIx' = heapIx,
           NEW k, Keeps(stack, stack', k), k < Depth \/ Top.at # "drop",
           Others(r), OnlyOf(stack, k, r), OnlyOf(stack', k, r),
           r \in live' => r \in live, FramesSound(k), FreesSound(k),
           \A i \in 1..k : holds'[Tmp(i)] = holds[Tmp(i)],
           r \in live' \/ Uncalled(k, r), r \in inProgress' => r \in live' \/ Gone(r),
           Moves(r, Phase(r), Phase(r)')
    PROVE  LifeStep
<1>1. /\ Depth = Len(stack) /\ Depth' = Len(stack') /\ k \in Nat /\ Depth \in Nat
      /\ \A i \in 1..k : /\ i \in 1..Depth /\ i \in 1..Len(stack')
                         /\ stack'[i] = stack[i]
      /\ \A i \in 1..Len(stack') : i > k \/ i \in 1..k
      /\ \A i \in 1..Depth : i > k \/ i \in 1..k
      /\ TypeInv /\ TypeInv'
  BY KeptFacts DEF LifeInv, CleanupInv
<1>2. /\ \A i \in 1..Depth : stack[i].at \in ObjCleanup => stack[i].ref \in Objs
      /\ ObjCleanup = Called \union Freed \union {"envtFree"}
  BY CallRefs
<1>3. BelowSound(k)
  <2> SUFFICES ASSUME NEW i \in 1..k
               PROVE  /\ stack[i].at \in Called => stack[i].ref \in live'
                      /\ stack[i].at \in Freed => stack[i].ref \notin live'
    BY DEF BelowSound
  <2>1. FrameSound(i) /\ (stack[i].at \in Called \union Freed => stack[i].ref \in Objs)
    BY <1>1, <1>2 DEF LifeInv
  <2>2. CASE stack[i].ref = r
    BY <2>1, <2>2 DEF FrameSound, Uncalled
  <2>3. CASE stack[i].ref # r
    BY <2>1, <2>3 DEF FrameSound, Others
  <2> QED
    BY <2>2, <2>3
<1>4. MarkedKnown'
  <2> SUFFICES ASSUME NEW o \in inProgress', o \notin live'
               PROVE  \E i \in 1..Len(stack') : stack'[i].at \in Freed
                                                   /\ stack'[i].ref = o
    BY <1>1 DEF MarkedKnown
  <2>1. o \in Objs
    BY <1>1 DEF TypeInv, TypeOK
  <2>2. CASE o = r
    BY <2>2 DEF Gone
  <2>3. CASE o # r
    <3>1. o \in inProgress /\ o \notin live
      BY <2>1, <2>3 DEF Others
    <3>2. PICK i \in 1..Depth : stack[i].at \in Freed /\ stack[i].ref = o
      BY <3>1 DEF LifeInv, MarkedKnown
    <3>3. i \in 1..k
      BY <3>2, <2>3, <1>1, <1>2 DEF OnlyOf
    <3> QED
      BY <3>2, <3>3, <1>1
  <2> QED
    BY <2>2, <2>3
<1>5. Unborn'
  <2> SUFFICES ASSUME NEW o \in Objs, o[2] >= heapIx
               PROVE  /\ o \notin live' /\ o \notin inProgress'
                      /\ \A i \in 1..Len(stack') : stack'[i].at = "envtFree"
                                                      => stack'[i].ref # o
    BY <1>1 DEF Unborn
  <2>1. o # r
    <3>1. r[2] \in Nat /\ heapIx \in Nat
      BY <1>1, MaxIxAssumption DEF Objs, Ix, TypeInv, TypeOK
    <3> QED
      BY <3>1
  <2>2. /\ o \notin live /\ o \notin inProgress
        /\ \A i \in 1..Depth : stack[i].at = "envtFree" => stack[i].ref # o
    BY DEF LifeInv, Unborn
  <2>3. \A i \in 1..Len(stack') : stack'[i].at = "envtFree" => stack'[i].ref # o
    BY <1>1, <1>2, <2>1, <2>2 DEF OnlyOf
  <2> QED
    BY <2>1, <2>2, <2>3 DEF Others
<1>6. ASSUME NEW o \in Objs \ {r} PROVE Phase(o)' = Phase(o)
  <2>1. NoneOf(stack, k, o) /\ NoneOf(stack', k, o)
    BY <1>1, <1>2 DEF NoneOf, Activations, OnlyOf
  <2> QED
    BY <1>1, <2>1, PhaseKept DEF Others
<1> QED
  BY <1>3, <1>4, <1>5, <1>6, LifeKept DEF LifeStep, OneMoves

LEMMA Born ==
    ASSUME LifeInv, NEW o \in Objs,
           \/ o \in live \union inProgress
           \/ \E i \in 1..Depth : stack[i].at = "envtFree" /\ stack[i].ref = o
    PROVE  o[2] < heapIx
<1>1. o[2] \in Nat /\ heapIx \in Nat
  BY MaxIxAssumption DEF Objs, Ix, LifeInv, CleanupInv, TypeInv, TypeOK
<1>2. ~(o[2] >= heapIx)
  BY DEF LifeInv, Unborn
<1> QED
  BY <1>1, <1>2

(* the phase of an object, from the frames of stack s *)
Shows(s, places, o) == \E i \in 1..Len(s) : s[i].at \in places /\ s[i].ref = o
Rests == {"base", "baseAt", "envt", "envtFree"}
PhaseIn(s, l, p, o) ==
    IF o \notin l THEN "absent"
    ELSE IF Shows(s, {"code"}, o) THEN "cleaning"
    ELSE IF Shows(s, Rests, o) THEN "cleaned"
    ELSE IF Shows(s, {"baseCatch"}, o) THEN "failed"
    ELSE IF o \in p THEN "stuck"
    ELSE "alive"

LEMMA PhaseRead ==
    ASSUME NEW o
    PROVE  /\ Phase(o) = PhaseIn(stack, live, inProgress, o)
           /\ Phase(o)' = PhaseIn(stack', live', inProgress', o)
<1>1. ASSUME NEW places
      PROVE  /\ Frames(places, o) # {} <=> Shows(stack, places, o)
             /\ (Frames(places, o) # {})' <=> Shows(stack', places, o)
  BY DEF Frames, Shows, Depth
<1>2. Phase(o) = PhaseIn(stack, live, inProgress, o)
  BY <1>1 DEF Phase, PhaseIn, Rests
<1>3. Phase(o)' = PhaseIn(stack', live', inProgress', o)
  BY <1>1 DEF Phase, PhaseIn, Rests
<1> QED
  BY <1>2, <1>3

(* a call of ObjCleanup is the only one of its object *)
LEMMA CallAlone ==
    ASSUME LifeInv, NEW i \in 1..Depth, stack[i].at \in Calls, NEW j \in 1..Depth,
           stack[j].ref = stack[i].ref
    PROVE  /\ stack[j].at \in Calls => j = i
           /\ stack[j].at = "code" => j = i + 1
<1>1. /\ Depth = Len(stack) /\ Depth \in Nat /\ stack[1].at = "main"
      /\ \A n \in 2..Len(stack) : StandsOn(stack[n], stack[n - 1])
  BY StackFacts DEF LifeInv, CleanupInv, TypeInv, ShapeOf
<1>2. ASSUME NEW n \in 1..Depth, stack[n].ref = stack[i].ref, stack[n].at \in Calls
      PROVE  n = i
  BY <1>1, <1>2 DEF LifeInv, CleanupInv, CallsMarked
<1>3. stack[j].at = "code" => j = i + 1
  <2> SUFFICES ASSUME stack[j].at = "code" PROVE j = i + 1
    OBVIOUS
  <2>1. j \in 2..Len(stack) /\ j - 1 \in 1..Depth
    BY <1>1
  <2>2. stack[j - 1].at \in Calls /\ stack[j - 1].ref = stack[i].ref
    BY <1>1, <2>1 DEF StandsOn, Calls
  <2>3. j - 1 = i
    BY <1>2, <2>1, <2>2
  <2> QED
    BY <1>1, <2>3
<1> QED
  BY <1>2, <1>3

(* an object no call is marked for *)
LEMMA Unmarked ==
    ASSUME LifeInv, NEW r, r \notin inProgress
    PROVE  \A i \in 1..Depth : stack[i].ref = r
              => stack[i].at \notin Calls /\ stack[i].at # "code"
<1>1. /\ Depth = Len(stack) /\ Depth \in Nat /\ stack[1].at = "main"
      /\ \A n \in 2..Len(stack) : StandsOn(stack[n], stack[n - 1])
  BY StackFacts DEF LifeInv, CleanupInv, TypeInv, ShapeOf
<1>2. ASSUME NEW n \in 1..Depth, stack[n].ref = r PROVE stack[n].at \notin Calls
  BY <1>1, <1>2 DEF LifeInv, CleanupInv, CallsMarked
<1>3. ASSUME NEW n \in 1..Depth, stack[n].ref = r PROVE stack[n].at # "code"
  <2> SUFFICES ASSUME stack[n].at = "code" PROVE FALSE
    OBVIOUS
  <2>1. n \in 2..Len(stack) /\ n - 1 \in 1..Depth
    BY <1>1
  <2>2. stack[n - 1].at \in Calls /\ stack[n - 1].ref = r
    BY <1>1, <1>3, <2>1 DEF StandsOn, Calls
  <2> QED
    BY <1>2, <2>1, <2>2
<1> QED
  BY <1>2, <1>3

(* what stands on a frame that waits for the destructor of SELF *)
LEMMA OverWaiting ==
    ASSUME LifeInv, NEW i \in 1..Depth, i < Depth - 1, stack[i].at = "envtFree"
    PROVE  /\ stack[i + 1].at \in {"base", "baseEnd"}
           /\ stack[i + 1].ref = stack[i].ref /\ stack[i + 1].at \in Calls
<1>1. Depth \in Nat
  BY StackFacts DEF LifeInv, CleanupInv
<1>2. FreeSound(i) /\ i # Depth /\ i + 1 # Depth
  BY <1>1 DEF LifeInv
<1> QED
  BY <1>2 DEF FreeSound, Calls

-----------------------------------------------------------------------------
(* Steps of ObjCleanup *)
LEMMA CallTop ==
    ASSUME LifeInv, Top.at \in ObjCleanup
    PROVE  /\ Top.ref \in Objs /\ Top.ref[2] < heapIx
           /\ OnlyOf(stack, Depth - 1, Top.ref)
           /\ Top.at \in Calls \/ Top.ref \notin inProgress =>
                 /\ Uncalled(Depth - 1, Top.ref)
                 /\ \A i \in 1..(Depth - 1) : stack[i].at = "code" => stack[i].ref # Top.ref
           /\ stack[Depth - 1].at = "envtFree" =>
                 /\ Top.at \in {"base", "baseEnd"} /\ stack[Depth - 1].ref = Top.ref
                 /\ \A i \in 1..(Depth - 2) :
                       stack[i].at \in Calls => stack[i].ref # Top.ref
           /\ Top.at = "envtFree" => Top.ref \notin inProgress
<1>1. /\ Depth > 1 /\ Depth \in Nat /\ Len(stack) = Depth /\ stack[Depth] = Top
      /\ Depth \in 1..Depth /\ Depth - 1 \in 1..Depth
      /\ FrameSound(Depth) /\ FreeSound(Depth)
  <2>1. Top.at # "main"
    BY DEF ObjCleanup
  <2> QED
    BY <2>1, TopFrame
<1>2. Top.ref \in Objs
  BY <1>1, CallRefs
<1>3. Top.at \in Calls => Top.ref \in inProgress
  BY <1>1, CallRefs
<1>4. Top.ref[2] < heapIx
  <2>1. Top.ref \in live \union inProgress \/ Top.at = "envtFree"
    BY <1>1, <1>3 DEF FrameSound, ObjCleanup, Called, Calls
  <2> QED
    BY <1>1, <1>2, <2>1, Born
<1>5. OnlyOf(stack, Depth - 1, Top.ref)
  <2>1. \A i \in 1..Len(stack) : i > Depth - 1 => i = Depth
    BY <1>1
  <2> QED
    BY <1>1, <2>1 DEF OnlyOf
<1>6. ASSUME Top.at \in Calls \/ Top.ref \notin inProgress,
             NEW i \in 1..(Depth - 1), stack[i].ref = Top.ref
      PROVE  stack[i].at \notin Calls /\ stack[i].at # "code"
  <2>1. i \in 1..Depth /\ i # Depth /\ i # Depth + 1
    BY <1>1
  <2>2. CASE Top.at \in Calls
    BY <2>1, <2>2, <1>1, <1>6, CallAlone
  <2>3. CASE Top.ref \notin inProgress
    BY <2>1, <2>3, <1>6, Unmarked
  <2> QED
    BY <1>6, <2>2, <2>3
<1>7. stack[Depth - 1].at = "envtFree" =>
         /\ Top.at \in {"base", "baseEnd"} /\ stack[Depth - 1].ref = Top.ref
         /\ \A i \in 1..(Depth - 2) : stack[i].at \in Calls => stack[i].ref # Top.ref
  <2> SUFFICES ASSUME stack[Depth - 1].at = "envtFree"
               PROVE  /\ Top.at \in {"base", "baseEnd"}
                      /\ stack[Depth - 1].ref = Top.ref
                      /\ \A i \in 1..(Depth - 2) :
                            stack[i].at \in Calls => stack[i].ref # Top.ref
    OBVIOUS
  <2>1. Top.at \in {"base", "baseEnd"} /\ Top.ref = stack[Depth - 1].ref
    BY <1>1, UnderTop DEF ObjCleanup
  <2>2. FreeSound(Depth - 1) /\ Depth - 1 - 1 = Depth - 2
    BY <1>1 DEF LifeInv
  <2> QED
    BY <2>1, <2>2 DEF FreeSound
<1>8. Top.at = "envtFree" => Top.ref \notin inProgress
  <2>1. ~(Depth + 1 = Depth) /\ ~(Depth + 1 <= Depth)
    BY <1>1
  <2> QED
    BY <1>1, <2>1 DEF FreeSound
<1>9. Top.at \in Calls \/ Top.ref \notin inProgress =>
         /\ Uncalled(Depth - 1, Top.ref)
         /\ \A i \in 1..(Depth - 1) : stack[i].at = "code" => stack[i].ref # Top.ref
  BY <1>6 DEF Uncalled, Called, Calls
<1> QED
  BY <1>2, <1>4, <1>5, <1>7, <1>8, <1>9

LEMMA BaseEndLives ==
    ASSUME LifeInv, CleanupInv', BaseEnd
    PROVE  LifeStep
<1> DEFINE k == Depth - 1
<1>1. /\ Top.at = "baseEnd" /\ stack' = Pop /\ live' = live /\ heapIx' = heapIx
      /\ inProgress' = inProgress \ {Top.ref}
      /\ holds' = [holds EXCEPT ![Tmp(Depth)] = Null]
  BY DEF BaseEnd, Unmark
<1>2. /\ k < Depth /\ k \in Nat /\ k >= 1 /\ Depth = k + 1 /\ TypeInv
      /\ FrameSound(Depth) /\ stack[Depth] = Top
      /\ holds \in [Slots -> Refs \union {Null}]
  BY <1>1, TopFrame
<1>3. Keeps(stack, stack', k) /\ Len(stack') = k
  BY <1>1, <1>2, PopKeeps
<1>4. Top.ref \notin live
  BY <1>1, <1>2 DEF FrameSound, Freed
<1>5. \A i \in 1..k : holds'[Tmp(i)] = holds[Tmp(i)]
  BY <1>1, <1>2, BelowTmp
<1>6. /\ Top.ref \in Objs /\ Top.ref[2] < heapIx /\ OnlyOf(stack, k, Top.ref)
      /\ Uncalled(k, Top.ref)
      /\ stack[k].at = "envtFree" =>
            /\ stack[k].ref = Top.ref
            /\ \A i \in 1..(k - 1) : stack[i].at \in Calls => stack[i].ref # Top.ref
  <2>1. Top.at \in ObjCleanup /\ Top.at \in Calls /\ Depth - 2 = k - 1
    BY <1>1, <1>2 DEF ObjCleanup, Calls
  <2> QED
    BY <2>1, CallTop
<1>7. PICK r \in Objs : r = Top.ref
  BY <1>6
<1> HIDE DEF k
<1>8. FramesSound(k) /\ OnlyOf(stack', k, r)
  BY <1>2, <1>3 DEF FramesSound, OnlyOf
<1>9. FreesSound(k)
  <2> SUFFICES ASSUME NEW i \in 1..Len(stack'), i >= k, stack'[i].at = "envtFree"
               PROVE  FreeSound(i)'
    BY DEF FreesSound, FreeSound
  <2>1. i = k /\ \A j \in 1..k : stack'[j] = stack[j]
    BY <1>2, <1>3 DEF Keeps
  <2>2. /\ stack'[i].ref = r /\ stack'[i].ref \notin inProgress' /\ i = Depth'
    BY <1>1, <1>2, <1>3, <1>6, <1>7, <2>1 DEF Depth
  <2>3. \A j \in 1..(i - 1) : stack'[j].at \in Calls => stack'[j].ref # r
    BY <1>2, <1>6, <1>7, <2>1
  <2> QED
    BY <2>2, <2>3 DEF FreeSound
<1>10. Others(r) /\ r \notin live' /\ r \notin inProgress'
  BY <1>1, <1>4, <1>7 DEF Others
<1>11. Phase(r) = "absent" /\ Phase(r)' = "absent"
  BY <1>4, <1>7, <1>10 DEF Phase
<1>12. Moves(r, Phase(r), Phase(r)')
  BY <1>11 DEF Moves
<1> QED
  BY <1>1, <1>2, <1>3, <1>5, <1>6, <1>7, <1>8, <1>9, <1>10, <1>12, OneLives

LEMMA BaseThrowLives ==
    ASSUME LifeInv, CleanupInv', BaseThrow
    PROVE  LifeStep
<1> DEFINE k == Depth - 2
           a == stack[Depth - 1].ref
<1>1. /\ Top.at = "baseThrow" /\ stack' = SubSeq(stack, 1, k) /\ live' = live
      /\ heapIx' = heapIx /\ inProgress' = inProgress \ {Top.ref}
      /\ holds' = [holds EXCEPT ![Tmp(Depth)] = Null, ![Tmp(Depth - 1)] = Null,
                                ![a] = IF Alive(a) THEN Top.ref ELSE @]
  BY DEF BaseThrow, Unmark
<1>2. /\ k < Depth /\ k \in Nat /\ k >= 1 /\ Depth = k + 2 /\ TypeInv
      /\ FrameSound(Depth) /\ stack[Depth] = Top /\ Len(stack) = Depth
      /\ holds \in [Slots -> Refs \union {Null}] /\ k \in 1..Depth
      /\ stack[k + 1].at = "store" /\ a \in VarSlots \union Refs
  <2>1. Top.at # "main" /\ Top.at \in AssignAt
    BY <1>1 DEF AssignAt
  <2> QED
    BY <2>1, TopFrame, UnderAssignAt
<1>3. Keeps(stack, stack', k) /\ Len(stack') = k
  <2>1. k \in 0..Depth
    BY <1>2
  <2> QED
    BY <2>1, <1>1, <1>2, CutKeeps
<1>4. Top.ref \notin live
  BY <1>1, <1>2 DEF FrameSound, Freed
<1>5. ASSUME NEW i \in 1..k PROVE holds'[Tmp(i)] = holds[Tmp(i)]
  <2>1. i \in 1..(Depth - 1) /\ i # Depth - 1 /\ i \in 1..MaxDepth
    BY <1>2, MaxDepthAssumption DEF TypeInv, TypeOK
  <2>2. Tmp(i) \in Slots /\ Tmp(i) # Tmp(Depth) /\ Tmp(i) # a
    BY <1>2, <2>1, BelowTmp
  <2>3. Tmp(i) # Tmp(Depth - 1)
    BY <2>1, SlotFacts
  <2> QED
    BY <1>1, <1>2, <2>2, <2>3
<1>6. Top.ref \in Objs /\ Top.ref[2] < heapIx /\ Uncalled(Depth - 1, Top.ref)
  <2>1. Top.at \in ObjCleanup /\ Top.at \in Calls
    BY <1>1 DEF ObjCleanup, Calls
  <2> QED
    BY <2>1, CallTop
<1>7. PICK r \in Objs : r = Top.ref
  BY <1>6
<1>8. stack[k].at # "envtFree"
  <2>1. k < Depth - 1 /\ stack[k + 1].at \notin {"base", "baseEnd"}
    BY <1>2
  <2> QED
    BY <1>2, <2>1, OverWaiting
<1>9. Uncalled(k, r)
  <2>1. \A i \in 1..k : i \in 1..(Depth - 1)
    BY <1>2
  <2> QED
    BY <1>6, <1>7, <2>1 DEF Uncalled
<1> HIDE DEF k, a
<1>10. OnlyOf(stack, k, r)
  <2>1. \A i \in 1..Len(stack) : i > k => i = k + 1 \/ i = Depth
    BY <1>2
  <2> QED
    BY <1>2, <1>7, <2>1 DEF OnlyOf, ObjCleanup
<1>11. FramesSound(k) /\ OnlyOf(stack', k, r)
  BY <1>2, <1>3 DEF FramesSound, OnlyOf
<1>12. FreesSound(k)
  <2>1. \A i \in 1..Len(stack') : i >= k => stack'[i] = stack[k]
    BY <1>2, <1>3 DEF Keeps
  <2> QED
    BY <1>8, <2>1 DEF FreesSound, FreeSound
<1>13. Others(r) /\ r \notin live' /\ r \notin inProgress'
  BY <1>1, <1>4, <1>7 DEF Others
<1>14. Phase(r) = "absent" /\ Phase(r)' = "absent"
  BY <1>4, <1>7, <1>13 DEF Phase
<1>15. Moves(r, Phase(r), Phase(r)')
  BY <1>14 DEF Moves
<1> QED
  BY <1>1, <1>2, <1>3, <1>5, <1>6, <1>7, <1>9, <1>10, <1>11, <1>12, <1>13, <1>15,
     OneLives

(* CLEANUP has returned or failed: the object goes. *)
LEMMA BaseFreeLives ==
    ASSUME LifeInv, CleanupInv', BaseFree
    PROVE  LifeStep
<1> DEFINE k == Depth - 1
           at == IF Top.at = "baseCatch" THEN "baseThrow" ELSE "baseEnd"
           f == [Top EXCEPT !.at = at]
           g == Frame("drop")
<1>1. /\ Top.at \in {"base", "baseAt", "baseCatch"} /\ heapIx' = heapIx
      /\ inProgress' = inProgress
  BY DEF BaseFree
<1>2. /\ k < Depth /\ k \in Nat /\ k >= 1 /\ Depth = k + 1 /\ TypeInv
      /\ FrameSound(Depth) /\ stack[Depth] = Top /\ Top \in FrameType
      /\ holds \in [Slots -> Refs \union {Null}] /\ Len(stack) = Depth
  BY <1>1, TopFrame
<1>3. /\ Top.ref \in live /\ Top.ref \in Objs /\ Top.ref[2] < heapIx
      /\ OnlyOf(stack, k, Top.ref) /\ Uncalled(k, Top.ref)
      /\ \A i \in 1..k : stack[i].at = "code" => stack[i].ref # Top.ref
      /\ stack[k].at = "envtFree" =>
            /\ Top.at = "base" /\ stack[k].ref = Top.ref
            /\ \A i \in 1..(k - 1) : stack[i].at \in Calls => stack[i].ref # Top.ref
  <2>1. /\ Top.at \in ObjCleanup /\ Top.at \in Calls /\ Depth - 2 = k - 1
        /\ Top.at \in Called /\ Top.at # "baseEnd"
    BY <1>1, <1>2 DEF ObjCleanup, Calls, Called
  <2>2. Top.ref \in live
    BY <1>2, <2>1 DEF FrameSound
  <2> QED
    BY <2>1, <2>2, CallTop
<1>4. /\ Erase(Top.ref, Depth + 1) /\ stack' = Append(Become(f), g)
  BY <1>3 DEF BaseFree
<1>5. /\ f \in FrameType /\ f.ref = Top.ref /\ f.at \in Freed
      /\ Top.at = "base" => f.at = "baseEnd"
  BY <1>1, <1>2 DEF FrameType, Places, Freed
<1> HIDE DEF f
<1>6. /\ Keeps(stack, stack', k) /\ Len(stack') = k + 2 /\ stack'[k + 1] = f
      /\ stack'[k + 2].at = "drop"
  <2>1. g.at = "drop"
    BY QuietFrames DEF Frame
  <2> HIDE DEF g
  <2>2. g \in FrameType
    BY QuietFrames DEF g
  <2>3. /\ Keeps(stack, stack', Depth - 1) /\ Len(stack') = Depth + 1
        /\ stack'[Depth] = f /\ stack'[Depth + 1] = g
    BY <1>2, <1>4, <1>5, <2>2, BecomePushed
  <2> QED
    BY <1>2, <2>1, <2>3
<1>7. \A i \in 1..k : holds'[Tmp(i)] = holds[Tmp(i)]
  <2>1. Depth + 1 \in Nat /\ k < Depth + 1 /\ k <= Depth /\ Top.ref \in Refs
    BY <1>2, <1>3, SlotFacts
  <2> QED
    BY <1>2, <1>4, <2>1, ErasedTmps
<1>8. PICK r \in Objs : r = Top.ref
  BY <1>3
<1>9. live' = live \ {r}
  BY <1>4, <1>8 DEF Erase
<1> HIDE DEF k
<1>10. \A i \in 1..Len(stack') : i > k =>
          (i = k + 1 /\ stack'[i] = f) \/ stack'[i].at = "drop"
  BY <1>2, <1>6
<1>11. FramesSound(k)
  BY <1>5, <1>8, <1>9, <1>10 DEF FramesSound, FrameSound, Freed, Called, Sweeps
<1>12. OnlyOf(stack', k, r)
  BY <1>5, <1>8, <1>10 DEF OnlyOf, ObjCleanup
<1>13. FreesSound(k)
  <2> SUFFICES ASSUME NEW i \in 1..Len(stack'), i >= k, stack'[i].at = "envtFree"
               PROVE  FreeSound(i)'
    BY DEF FreesSound, FreeSound
  <2>1. i = k /\ \A j \in 1..k : stack'[j] = stack[j]
    BY <1>2, <1>5, <1>6, <1>10 DEF Keeps, Freed
  <2>2. k \in 1..k /\ stack'[i] = stack[k] /\ stack[k].at = "envtFree"
    BY <1>2, <2>1
  <2>3. /\ stack[k].ref = r /\ Top.at = "base"
        /\ \A j \in 1..(k - 1) : stack[j].at \in Calls => stack[j].ref # r
    BY <1>3, <1>8, <2>2
  <2>4. \A j \in 1..(i - 1) : stack'[j].at \in Calls => stack'[j].ref # r
    BY <1>2, <2>1, <2>3
  <2>5. i + 1 <= Depth' /\ stack'[i + 1].at = "baseEnd" /\ stack'[i + 1].ref = r
    BY <1>2, <1>5, <1>6, <1>8, <2>1, <2>3 DEF Depth
  <2> QED
    BY <2>2, <2>3, <2>4, <2>5 DEF FreeSound
<1>14. Others(r) /\ r \notin live' /\ Uncalled(k, r) /\ OnlyOf(stack, k, r)
  BY <1>1, <1>3, <1>8, <1>9 DEF Others
<1>15. Gone(r)
  <2>1. k + 1 \in 1..Len(stack')
    BY <1>2, <1>6
  <2> QED
    BY <2>1, <1>5, <1>6, <1>8 DEF Gone
<1>16. Moves(r, Phase(r), Phase(r)')
  <2>1. Phase(r)' = "absent"
    BY <1>9, PhaseRead DEF PhaseIn
  <2>2. ~Shows(stack, {"code"}, r)
    <3>1. \A i \in 1..Len(stack) : i \in 1..k \/ stack[i] = Top
      BY <1>2
    <3> QED
      BY <3>1, <1>1, <1>3, <1>8 DEF Shows
  <2>3. /\ Top.at \in {"base", "baseAt"} => Shows(stack, Rests, r)
        /\ Top.at = "baseCatch" => Shows(stack, {"baseCatch"}, r)
    <3>1. Depth \in 1..Len(stack)
      BY <1>2
    <3> QED
      BY <3>1, <1>2, <1>8 DEF Shows, Rests
  <2>4. Top.at = "baseCatch" => HasCleanup(r)
    BY <1>2, <1>8 DEF FrameSound
  <2>5. Phase(r) = "cleaned" \/ (Phase(r) = "failed" /\ HasCleanup(r))
    BY <1>1, <1>3, <1>8, <2>2, <2>3, <2>4, PhaseRead DEF PhaseIn
  <2> QED
    BY <2>1, <2>5 DEF Moves
<1> QED
  BY <1>1, <1>2, <1>3, <1>6, <1>7, <1>8, <1>9, <1>11, <1>12, <1>13, <1>14, <1>15,
     <1>16, OneLives

LEMMA CleanupReturnsLives ==
    ASSUME LifeInv, CleanupInv', CleanupReturns
    PROVE  LifeStep
<1> DEFINE k == Depth - 1
<1>1. /\ Top.at = "code" /\ stack' = Pop
      /\ UNCHANGED <<live, holds, heapIx, inProgress>>
  BY DEF CleanupReturns
<1>2. /\ k < Depth /\ k \in Nat /\ k >= 1 /\ Depth = k + 1 /\ TypeInv
      /\ FrameSound(Depth) /\ stack[Depth] = Top /\ Len(stack) = Depth
      /\ k \in 1..Depth /\ Depth \in 1..Depth
      /\ stack[k].at \in {"base", "baseAt", "envt"} /\ stack[k].ref = Top.ref
  BY <1>1, TopFrame DEF StandsOn
<1>3. Keeps(stack, stack', k) /\ Len(stack') = k
  BY <1>1, <1>2, PopKeeps
<1>4. /\ Top.ref \in Objs /\ Top.ref \in live /\ Top.ref[2] < heapIx
      /\ OnlyOf(stack, k, Top.ref)
  <2>1. Top.at \in ObjCleanup /\ stack[k].at \in Called
    BY <1>1, <1>2 DEF ObjCleanup, Called
  <2>2. Top.ref \in live
    <3>1. FrameSound(k)
      BY <1>2 DEF LifeInv
    <3> QED
      BY <3>1, <2>1, <1>2 DEF FrameSound
  <2> QED
    BY <2>1, <2>2, CallTop
<1>5. PICK r \in Objs : r = Top.ref
  BY <1>4
<1> HIDE DEF k
<1>6. FramesSound(k) /\ OnlyOf(stack', k, r)
  BY <1>2, <1>3 DEF FramesSound, OnlyOf
<1>7. FreesSound(k)
  <2>1. \A i \in 1..Len(stack') : i >= k => stack'[i] = stack[k]
    BY <1>2, <1>3 DEF Keeps
  <2> QED
    BY <1>2, <2>1 DEF FreesSound, FreeSound
<1>8. Others(r)
  BY <1>1 DEF Others
<1>9. Moves(r, Phase(r), Phase(r)')
  <2>1. Phase(r) = "cleaning"
    <3>1. Shows(stack, {"code"}, r)
      BY <1>1, <1>2, <1>5 DEF Shows
    <3> QED
      BY <3>1, <1>4, <1>5, PhaseRead DEF PhaseIn
  <2>2. ~Shows(stack', {"code"}, r)
    <3> SUFFICES ASSUME NEW i \in 1..k, stack[i].at = "code", stack[i].ref = r
                 PROVE  FALSE
      BY <1>3 DEF Shows, Keeps
    <3>1. i \in 1..Depth /\ stack[k].at \in Calls /\ i # k + 1
      BY <1>2 DEF Calls
    <3> QED
      BY <3>1, <1>2, <1>5, CallAlone
  <2>3. Shows(stack', Rests, r)
    <3>1. k \in 1..Len(stack') /\ stack'[k] = stack[k]
      BY <1>2, <1>3 DEF Keeps
    <3> QED
      BY <3>1, <1>2, <1>5 DEF Shows, Rests
  <2>4. Phase(r)' = "cleaned"
    BY <1>1, <1>4, <1>5, <2>2, <2>3, PhaseRead DEF PhaseIn
  <2> QED
    BY <2>1, <2>4 DEF Moves
<1> QED
  BY <1>1, <1>2, <1>3, <1>4, <1>5, <1>6, <1>7, <1>8, <1>9, OneLives

LEMMA EnvTReturnLives ==
    ASSUME LifeInv, CleanupInv', EnvTReturn
    PROVE  LifeStep
<1> DEFINE k == Depth - 1
           f == [Top EXCEPT !.at = "envtFree"]
           g == Frame("drop")
<1>1. /\ Top.at = "envt" /\ Room(1) /\ stack' = Append(Become(f), g)
      /\ live' = live /\ heapIx' = heapIx /\ inProgress' = inProgress \ {Top.ref}
      /\ holds' = [holds EXCEPT ![Tmp(Depth)] = Null,
                                ![Tmp(Depth + 1)] = holds[Tmp(Depth)]]
  BY DEF EnvTReturn, Unmark
<1>2. /\ k < Depth /\ k \in Nat /\ k >= 1 /\ Depth = k + 1 /\ TypeInv
      /\ FrameSound(Depth) /\ stack[Depth] = Top /\ Top \in FrameType
      /\ holds \in [Slots -> Refs \union {Null}] /\ Len(stack) = Depth
      /\ Depth \in Nat
  BY <1>1, TopFrame
<1>3. /\ Top.ref \in live /\ Top.ref \in Objs /\ Top.ref[2] < heapIx
      /\ holds[Tmp(Depth)] = Top.ref
      /\ OnlyOf(stack, k, Top.ref) /\ Uncalled(k, Top.ref)
      /\ \A i \in 1..k : stack[i].at = "code" => stack[i].ref # Top.ref
      /\ stack[k].at # "envtFree"
  <2>1. /\ Top.at \in ObjCleanup /\ Top.at \in Calls /\ Top.at \in Called
        /\ Top.at \notin {"base", "baseEnd"}
    BY <1>1, <1>2 DEF ObjCleanup, Calls, Called
  <2>2. Top.ref \in live /\ holds[Tmp(Depth)] = Top.ref
    BY <1>1, <1>2, <2>1 DEF FrameSound
  <2> QED
    BY <2>1, <2>2, CallTop
<1>4. f \in FrameType /\ f.ref = Top.ref /\ f.at = "envtFree"
  BY <1>2 DEF FrameType, Places
<1> HIDE DEF f
<1>5. /\ Keeps(stack, stack', k) /\ Len(stack') = k + 2 /\ stack'[k + 1] = f
      /\ stack'[k + 2].at = "drop"
  <2>1. g.at = "drop"
    BY QuietFrames DEF Frame
  <2> HIDE DEF g
  <2>2. g \in FrameType
    BY QuietFrames DEF g
  <2>3. /\ Keeps(stack, stack', Depth - 1) /\ Len(stack') = Depth + 1
        /\ stack'[Depth] = f /\ stack'[Depth + 1] = g
    BY <1>1, <1>2, <1>4, <2>2, BecomePushed
  <2> QED
    BY <1>2, <2>1, <2>3
<1>6. Tmp(Depth) \in Slots /\ Tmp(Depth + 1) \in Slots
  BY <1>1, <1>2, RoomFacts, SlotFacts, MaxDepthAssumption DEF TypeInv, TypeOK
<1>7. ASSUME NEW i \in 1..k PROVE holds'[Tmp(i)] = holds[Tmp(i)]
  <2>1. Tmp(i) \in Slots /\ Tmp(i) # Tmp(Depth) /\ i # Depth + 1
    BY <1>2, BelowTmp
  <2>2. Tmp(i) # Tmp(Depth + 1)
    BY <2>1, SlotFacts
  <2> QED
    BY <1>1, <1>2, <2>1, <2>2
<1>8. holds'[Tmp(Depth + 1)] = Top.ref
  BY <1>1, <1>2, <1>3, <1>6
<1>9. PICK r \in Objs : r = Top.ref
  BY <1>3
<1>10. holds'[Tmp(k + 2)] = r /\ r \notin inProgress'
  <2>1. Depth + 1 = k + 2
    BY <1>2
  <2> QED
    BY <1>1, <1>8, <1>9, <2>1
<1> HIDE DEF k
<1>11. \A i \in 1..Len(stack') : i > k =>
          (i = k + 1 /\ stack'[i] = f) \/ (i = k + 2 /\ stack'[i].at = "drop")
  BY <1>2, <1>5
<1>12. FramesSound(k)
  BY <1>4, <1>11 DEF FramesSound, FrameSound, Freed, Called, Sweeps
<1>13. OnlyOf(stack', k, r)
  BY <1>4, <1>9, <1>11 DEF OnlyOf, ObjCleanup
<1>14. FreesSound(k)
  <2> SUFFICES ASSUME NEW i \in 1..Len(stack'), i >= k, stack'[i].at = "envtFree"
               PROVE  FreeSound(i)'
    BY DEF FreesSound, FreeSound
  <2>1. k \in 1..k /\ \A j \in 1..k : stack'[j] = stack[j]
    BY <1>2, <1>5 DEF Keeps
  <2>2. i = k + 1 /\ stack'[i] = f
    <3>1. i # k
      BY <2>1, <1>3 DEF k
    <3> QED
      BY <3>1, <1>2, <1>11
  <2>3. \A j \in 1..k : stack[j].at \in Calls => stack[j].ref # r
    <3> SUFFICES ASSUME NEW j \in 1..k, stack[j].at \in Calls, stack[j].ref = r
                 PROVE  FALSE
      OBVIOUS
    <3>1. j \in 1..Depth /\ Depth \in 1..Depth /\ j # Depth
      BY <1>2
    <3> QED
      BY <3>1, <1>1, <1>2, <1>9, CallAlone DEF Calls
  <2>4. \A j \in 1..(i - 1) : stack'[j].at \in Calls => stack'[j].ref # r
    <3>1. i - 1 = k
      BY <1>2, <2>2
    <3> QED
      BY <3>1, <2>1, <2>3
  <2>5. i + 1 = k + 2 /\ Depth' = k + 2
    BY <1>2, <1>5, <2>2 DEF Depth
  <2>6. /\ i + 1 = Depth' /\ stack'[i + 1].at = "drop"
        /\ holds'[Tmp(i + 1)] = r
    BY <1>5, <1>10, <2>5
  <2>7. stack'[i].ref = r
    BY <1>4, <1>9, <2>2
  <2> QED
    BY <1>10, <2>4, <2>6, <2>7 DEF FreeSound
<1>15. Others(r) /\ r \in live' /\ OnlyOf(stack, k, r)
  BY <1>1, <1>3, <1>9 DEF Others
<1>16. Moves(r, Phase(r), Phase(r)')
  <2>1. ~Shows(stack, {"code"}, r)
    <3>1. \A i \in 1..Len(stack) : i \in 1..k \/ stack[i] = Top
      BY <1>2
    <3> QED
      BY <3>1, <1>1, <1>3, <1>9 DEF Shows, k
  <2>2. Shows(stack, Rests, r)
    <3>1. Depth \in 1..Len(stack)
      BY <1>2
    <3> QED
      BY <3>1, <1>1, <1>2, <1>9 DEF Shows, Rests
  <2>3. Phase(r) = "cleaned"
    BY <1>3, <1>9, <2>1, <2>2, PhaseRead DEF PhaseIn
  <2>4. ~Shows(stack', {"code"}, r)
    <3>1. \A i \in 1..Len(stack') : i \in 1..k \/ stack'[i].at # "code"
      BY <1>2, <1>4, <1>5
    <3>2. \A i \in 1..k : stack'[i] = stack[i]
      BY <1>5 DEF Keeps
    <3> QED
      BY <3>1, <3>2, <1>3, <1>9 DEF Shows, k
  <2>5. Shows(stack', Rests, r)
    <3>1. k + 1 \in 1..Len(stack')
      BY <1>2, <1>5
    <3> QED
      BY <3>1, <1>4, <1>5, <1>9 DEF Shows, Rests
  <2>6. Phase(r)' = "cleaned"
    BY <1>15, <2>4, <2>5, PhaseRead DEF PhaseIn
  <2> QED
    BY <2>3, <2>6 DEF Moves
<1> QED
  BY <1>1, <1>2, <1>3, <1>5, <1>7, <1>9, <1>12, <1>13, <1>14, <1>15, <1>16, OneLives

(* EnvT::ObjCleanup removes the object, unless it is gone with SELF. *)
LEMMA EnvTFreeLives ==
    ASSUME LifeInv, CleanupInv', EnvTFree
    PROVE  LifeStep
<1> DEFINE k == Depth - 1
           g == Frame("drop")
<1>1. /\ Top.at = "envtFree" /\ heapIx' = heapIx /\ inProgress' = inProgress
  BY DEF EnvTFree
<1>2. /\ k < Depth /\ k \in Nat /\ k >= 1 /\ Depth = k + 1 /\ TypeInv
      /\ stack[Depth] = Top /\ Len(stack) = Depth /\ Depth \in Nat
  BY <1>1, TopFrame
<1>3. /\ Top.ref \in Objs /\ Top.ref[2] < heapIx /\ Top.ref \notin inProgress
      /\ OnlyOf(stack, k, Top.ref) /\ Uncalled(k, Top.ref)
      /\ \A i \in 1..k : stack[i].at = "code" => stack[i].ref # Top.ref
      /\ stack[k].at # "envtFree"
  <2>1. Top.at \in ObjCleanup /\ Top.at \notin {"base", "baseEnd"}
    BY <1>1 DEF ObjCleanup
  <2> QED
    BY <1>1, <2>1, CallTop
<1>4. g \in FrameType /\ g.at = "drop"
  BY QuietFrames DEF Frame
<1>5. PICK r \in Objs : r = Top.ref
  BY <1>3
<1>6. \/ r \in live /\ Erase(r, Depth) /\ stack' = Become(g)
      \/ r \notin live /\ UNCHANGED <<live, holds>> /\ stack' = Pop
  BY <1>5 DEF EnvTFree, Kept
<1> HIDE DEF g
<1>7. /\ Keeps(stack, stack', k) /\ Len(stack') \in {k, k + 1}
      /\ \A i \in 1..Len(stack') : i > k => stack'[i].at = "drop"
  <2>1. CASE stack' = Become(g)
    <3>1. Keeps(stack, stack', k) /\ Len(stack') = k + 1 /\ stack'[k + 1] = g
      BY <1>2, <1>4, <2>1, BecomeKeeps
    <3>2. \A i \in 1..Len(stack') : i > k => i = k + 1
      BY <1>2, <3>1
    <3> QED
      BY <1>4, <3>1, <3>2
  <2>2. CASE stack' = Pop
    BY <1>2, <2>2, PopKeeps
  <2> QED
    BY <1>6, <2>1, <2>2
<1>8. \A i \in 1..k : holds'[Tmp(i)] = holds[Tmp(i)]
  <2>1. CASE Erase(r, Depth)
    <3>1. k <= Depth /\ r \in Refs
      BY <1>2, SlotFacts
    <3> QED
      BY <1>2, <2>1, <3>1, ErasedTmps
  <2> QED
    BY <1>6, <2>1
<1>9. live' = live \ {r}
  BY <1>6 DEF Erase
<1> HIDE DEF k
<1>10. FramesSound(k) /\ OnlyOf(stack', k, r)
  BY <1>7 DEF FramesSound, FrameSound, Freed, Called, Sweeps, OnlyOf, ObjCleanup
<1>11. FreesSound(k)
  <2>1. \A i \in 1..Len(stack') : i >= k => i > k \/ stack'[i] = stack[k]
    BY <1>2, <1>7 DEF Keeps
  <2> QED
    BY <1>3, <1>7, <2>1 DEF FreesSound, FreeSound, k
<1>12. Others(r) /\ r \notin live' /\ r \notin inProgress'
  BY <1>1, <1>3, <1>5, <1>9 DEF Others
<1>13. Moves(r, Phase(r), Phase(r)')
  <2>1. Phase(r)' = "absent"
    BY <1>12, PhaseRead DEF PhaseIn
  <2>2. ~Shows(stack, {"code"}, r)
    <3>1. \A i \in 1..Len(stack) : i \in 1..k \/ stack[i] = Top
      BY <1>2
    <3> QED
      BY <3>1, <1>1, <1>3, <1>5 DEF Shows, k
  <2>3. Shows(stack, Rests, r)
    <3>1. Depth \in 1..Len(stack)
      BY <1>2
    <3> QED
      BY <3>1, <1>1, <1>2, <1>5 DEF Shows, Rests
  <2>4. Phase(r) \in {"cleaned", "absent"}
    BY <2>2, <2>3, PhaseRead DEF PhaseIn
  <2> QED
    BY <2>1, <2>4 DEF Moves
<1> QED
  BY <1>1, <1>2, <1>3, <1>5, <1>7, <1>8, <1>10, <1>11, <1>12, <1>13, OneLives

(* what the phase of an object can be before a new call for it *)
LEMMA Callable ==
    ASSUME LifeInv, NEW r \in Objs, r \in live, r \notin inProgress
    PROVE  Phase(r) \in {"alive", "cleaned"}
<1>1. ~Shows(stack, {"code"}, r) /\ ~Shows(stack, {"baseCatch"}, r)
  <2>1. Depth = Len(stack)
    BY StackFacts DEF LifeInv, CleanupInv
  <2> QED
    BY <2>1, Unmarked DEF Shows, Calls
<1> QED
  BY <1>1, PhaseRead DEF PhaseIn

LEMMA DropLastObjLives ==
    ASSUME LifeInv, CleanupInv', DropLastObj
    PROVE  LifeStep
<1> DEFINE k == Depth - 1
           f == [Frame(IF Top.at = "drop" THEN "base" ELSE "baseAt") EXCEPT !.ref = Dropped]
           code == [Frame("code") EXCEPT !.ref = Dropped]
<1>1. /\ Top.at \in {"drop", "dropAt"} /\ Dropped \in Objs /\ Dropped \in live
      /\ Dropped \notin inProgress /\ live' = live /\ heapIx' = heapIx
      /\ inProgress' = inProgress \union {Dropped}
      /\ holds' = holds \/ holds' = [holds EXCEPT ![Tmp(Depth)] = Null]
  BY DEF DropLastObj, Dropping
<1>2. /\ k < Depth /\ k \in Nat /\ k >= 1 /\ Depth = k + 1 /\ TypeInv
      /\ stack[Depth] = Top /\ Len(stack) = Depth /\ Depth \in Nat
      /\ holds \in [Slots -> Refs \union {Null}]
  BY <1>1, TopFrame
<1>3. /\ f \in FrameType /\ f.ref = Dropped
      /\ f.at = (IF Top.at = "drop" THEN "base" ELSE "baseAt")
      /\ code \in FrameType /\ code.at = "code" /\ code.ref = Dropped
  <2>1. Dropped \in Slots
    BY <1>1, SlotFacts
  <2> QED
    BY <2>1 DEF Frame, FrameType, Places
<1>4. stack' = IF HasCleanup(Dropped) THEN Append(Become(f), code) ELSE Become(f)
  BY DEF DropLastObj
<1> HIDE DEF f, code
<1>5. /\ Keeps(stack, stack', Depth - 1) /\ stack'[Depth] = f
      /\ HasCleanup(Dropped) => Len(stack') = Depth + 1 /\ stack'[Depth + 1] = code
      /\ ~HasCleanup(Dropped) => Len(stack') = Depth
  <2>1. CASE ~HasCleanup(Dropped)
    BY <2>1, <1>2, <1>3, <1>4, BecomeKeeps
  <2>2. CASE HasCleanup(Dropped)
    <3>1. stack' = Append(Become(f), code)
      BY <2>2, <1>4
    <3>2. /\ Keeps(stack, stack', Depth - 1) /\ Len(stack') = Depth + 1
          /\ stack'[Depth] = f /\ stack'[Depth + 1] = code
      BY <3>1, <1>2, <1>3, BecomePushed
    <3> QED
      BY <2>2, <3>2
  <2> QED
    BY <2>1, <2>2
<1>6. \A i \in 1..k : holds'[Tmp(i)] = holds[Tmp(i)]
  BY <1>1, <1>2, BelowTmp
<1>7. stack[k].at = "envtFree" =>
         /\ Top.at = "drop" /\ stack[k].ref = Dropped
         /\ \A i \in 1..(k - 1) : stack[i].at \in Calls => stack[i].ref # Dropped
  <2> SUFFICES ASSUME stack[k].at = "envtFree"
               PROVE  /\ Top.at = "drop" /\ stack[k].ref = Dropped
                      /\ \A i \in 1..(k - 1) :
                            stack[i].at \in Calls => stack[i].ref # Dropped
    OBVIOUS
  <2>1. Top.at = "drop" /\ stack[k].ref = Dropped
    BY <1>1, <1>2, UnderTop
  <2>2. FreeSound(k)
    BY <1>2 DEF LifeInv
  <2> QED
    BY <2>1, <2>2 DEF FreeSound
<1>8. PICK r \in Objs : r = Dropped
  BY <1>1
<1>9. /\ Keeps(stack, stack', k) /\ stack'[k + 1] = f
      /\ HasCleanup(r) => Len(stack') = k + 2 /\ stack'[k + 2] = code
      /\ ~HasCleanup(r) => Len(stack') = k + 1
  BY <1>2, <1>5, <1>8
<1>10. /\ f.ref = r /\ f.at \in {"base", "baseAt"} /\ code.at = "code" /\ code.ref = r
       /\ Top.at = "drop" => f.at = "base"
  BY <1>3, <1>8
<1> HIDE DEF k
<1>11. \A i \in 1..Len(stack') : i > k =>
          (i = k + 1 /\ stack'[i] = f) \/ (HasCleanup(r) /\ stack'[i] = code)
  BY <1>2, <1>9
<1>12. FramesSound(k)
  <2>1. ASSUME NEW i \in 1..Len(stack'), i > k PROVE FrameSound(i)'
    <3>1. r \in live'
      BY <1>1, <1>8
    <3>2. /\ stack'[i].at \in {"base", "baseAt"} \/ (stack'[i].at = "code" /\ HasCleanup(r))
          /\ stack'[i].ref = r
      BY <2>1, <1>10, <1>11
    <3> QED
      BY <3>1, <3>2 DEF FrameSound, Freed, Sweeps, HasCleanup
  <2> QED
    BY <2>1 DEF FramesSound
<1>13. OnlyOf(stack', k, r)
  BY <1>10, <1>11 DEF OnlyOf
<1>14. OnlyOf(stack, k, r)
  <2>1. \A i \in 1..Len(stack) : i > k => stack[i] = Top
    BY <1>2
  <2> QED
    BY <1>1, <2>1 DEF OnlyOf, ObjCleanup
<1>15. FreesSound(k)
  <2> SUFFICES ASSUME NEW i \in 1..Len(stack'), i >= k, stack'[i].at = "envtFree"
               PROVE  FreeSound(i)'
    BY DEF FreesSound, FreeSound
  <2>1. k \in 1..k /\ \A j \in 1..k : stack'[j] = stack[j]
    BY <1>2, <1>9 DEF Keeps
  <2>2. i = k /\ stack'[i] = stack[k]
    BY <1>2, <1>10, <1>11, <2>1
  <2>3. /\ stack[k].ref = r /\ Top.at = "drop"
        /\ \A j \in 1..(k - 1) : stack[j].at \in Calls => stack[j].ref # r
    BY <1>7, <1>8, <2>2
  <2>4. \A j \in 1..(i - 1) : stack'[j].at \in Calls => stack'[j].ref # r
    BY <1>2, <2>1, <2>2, <2>3
  <2>5. i + 1 <= Depth' /\ stack'[i + 1].at = "base" /\ stack'[i + 1].ref = r
    BY <1>2, <1>9, <1>10, <2>2, <2>3 DEF Depth
  <2> QED
    BY <2>2, <2>3, <2>4, <2>5 DEF FreeSound
<1>16. Others(r) /\ r \in live' /\ r \in live /\ r[2] < heapIx
  BY <1>1, <1>8, Born DEF Others
<1>17. Moves(r, Phase(r), Phase(r)')
  <2>1. Phase(r) \in {"alive", "cleaned"}
    BY <1>1, <1>8, Callable
  <2>2. CASE HasCleanup(r)
    <3>1. k + 2 \in 1..Len(stack') /\ stack'[k + 2] = code
      BY <2>2, <1>2, <1>9
    <3>2. Shows(stack', {"code"}, r)
      BY <3>1, <1>10 DEF Shows
    <3>3. Phase(r)' = "cleaning"
      BY <3>2, <1>16, PhaseRead DEF PhaseIn
    <3> QED
      BY <2>1, <2>2, <3>3 DEF Moves
  <2>3. CASE ~HasCleanup(r)
    <3>1. k + 1 \in 1..Len(stack')
      BY <2>3, <1>2, <1>9
    <3>2. Shows(stack', Rests, r)
      BY <3>1, <1>9, <1>10 DEF Shows, Rests
    <3>3. ~Shows(stack', {"code"}, r)
      <4> SUFFICES ASSUME NEW i \in 1..k, stack[i].at = "code", stack[i].ref = r
                   PROVE  FALSE
        BY <2>3, <1>2, <1>9, <1>10, <1>11 DEF Shows, Keeps
      <4>1. i \in 1..Depth
        BY <1>2
      <4> QED
        BY <4>1, <1>1, <1>8, Unmarked
    <3>4. Phase(r)' = "cleaned"
      BY <3>2, <3>3, <1>16, PhaseRead DEF PhaseIn
    <3> QED
      BY <2>1, <2>3, <3>4 DEF Moves
  <2> QED
    BY <2>2, <2>3
<1> QED
  BY <1>1, <1>2, <1>6, <1>8, <1>9, <1>12, <1>13, <1>14, <1>15, <1>16, <1>17, OneLives

(* the CLEANUP method that runs *)
LEMMA CodeTop ==
    ASSUME LifeInv, Top.at = "code"
    PROVE  /\ Top.ref \in Objs /\ Top.ref \in live /\ Top.ref \in inProgress
           /\ Top.ref[2] < heapIx /\ HasCleanup(Top.ref) /\ Phase(Top.ref) = "cleaning"
           /\ stack[Depth - 1].ref = Top.ref
           /\ stack[Depth - 1].at \in {"base", "baseAt", "envt"}
           /\ \A i \in 1..(Depth - 2) : stack[i].ref = Top.ref =>
                 /\ stack[i].at \notin Calls /\ stack[i].at # "code"
                 /\ stack[Depth - 1].at # "base" => stack[i].at # "envtFree"
<1>1. /\ Depth > 2 /\ Depth \in Nat /\ Len(stack) = Depth /\ stack[Depth] = Top
      /\ Depth \in 1..Depth /\ Depth - 1 \in 1..Depth /\ Top.ref \in Objs
      /\ stack[Depth - 1].ref = Top.ref
      /\ stack[Depth - 1].at \in {"base", "baseAt", "envt"}
      /\ FrameSound(Depth) /\ FrameSound(Depth - 1)
  <2>1. Top.at # "main" /\ TypeInv
    BY DEF LifeInv, CleanupInv
  <2>2. Depth > 2 /\ Depth \in Nat /\ Depth - 1 \in 1..Depth /\ FrameSound(Depth)
    BY <2>1, TopFrame, UnderCode
  <2> QED
    BY <2>1, <2>2, TopFrame, UnderCode DEF LifeInv
<1>2. stack[Depth - 1].at \in Calls /\ stack[Depth - 1].at \in Called
  BY <1>1 DEF Calls, Called
<1>3. Top.ref \in live /\ Top.ref \in inProgress /\ HasCleanup(Top.ref)
  <2>1. Top.ref \in live /\ HasCleanup(Top.ref)
    BY <1>1, <1>2 DEF FrameSound
  <2>2. Top.ref \in inProgress
    BY <1>1, <1>2, CallRefs
  <2> QED
    BY <2>1, <2>2
<1>4. Top.ref[2] < heapIx
  BY <1>1, <1>3, Born
<1>5. Phase(Top.ref) = "cleaning"
  <2>1. Shows(stack, {"code"}, Top.ref)
    BY <1>1 DEF Shows
  <2> QED
    BY <1>3, <2>1, PhaseRead DEF PhaseIn
<1>6. ASSUME NEW i \in 1..(Depth - 2), stack[i].ref = Top.ref
      PROVE  /\ stack[i].at \notin Calls /\ stack[i].at # "code"
             /\ stack[Depth - 1].at # "base" => stack[i].at # "envtFree"
  <2>1. i \in 1..Depth /\ i # Depth - 1 /\ i # Depth /\ i < Depth - 1
        /\ i + 1 \in 1..Depth
    BY <1>1
  <2>2. stack[i].at \notin Calls /\ stack[i].at # "code"
    <3>1. i # Depth - 1 + 1
      BY <1>1, <2>1
    <3> QED
      BY <1>1, <1>2, <1>6, <2>1, <3>1, CallAlone
  <2>3. stack[i].at = "envtFree" => stack[Depth - 1].at = "base"
    <3> SUFFICES ASSUME stack[i].at = "envtFree" PROVE stack[Depth - 1].at = "base"
      OBVIOUS
    <3>1. /\ stack[i + 1].at \in {"base", "baseEnd"} /\ stack[i + 1].ref = Top.ref
          /\ stack[i + 1].at \in Calls
      BY <1>6, <2>1, OverWaiting
    <3>2. i + 1 = Depth - 1
      BY <1>1, <1>2, <2>1, <3>1, CallAlone
    <3> QED
      BY <1>1, <3>1, <3>2
  <2> QED
    BY <2>2, <2>3
<1> QED
  BY <1>1, <1>3, <1>4, <1>5, <1>6

(* the frames of CLEANUP and of its call go, those of other calls do not *)
LEMMA CodeOnly ==
    ASSUME LifeInv, Top.at = "code", NEW k \in Nat, k <= Depth - 2,
           \A i \in 1..(Depth - 2) : i > k => stack[i].at \notin ObjCleanup
    PROVE  OnlyOf(stack, k, Top.ref)
<1>1. /\ Depth \in Nat /\ Len(stack) = Depth /\ stack[Depth] = Top
      /\ stack[Depth - 1].ref = Top.ref
  BY CodeTop, TopFrame
<1>2. \A i \in 1..Len(stack) : i \in 1..(Depth - 2) \/ i = Depth - 1 \/ i = Depth
  BY <1>1
<1> QED
  BY <1>1, <1>2 DEF OnlyOf

(* EnvBaseT::ObjCleanup in AssignAt catches the error. *)
LEMMA CaughtLives ==
    ASSUME LifeInv, CleanupInv', CleanupThrows, stack[Depth - 1].at = "baseAt"
    PROVE  LifeStep
<1> DEFINE k == Depth - 2
           f == [stack[Depth - 1] EXCEPT !.at = "baseCatch"]
<1>1. /\ Top.at = "code" /\ stack' = [Pop EXCEPT ![Depth - 1].at = "baseCatch"]
      /\ UNCHANGED <<live, holds, heapIx, inProgress>>
  BY DEF CleanupThrows
<1>2. /\ Top.ref \in Objs /\ Top.ref \in live /\ Top.ref \in inProgress
      /\ Top.ref[2] < heapIx /\ HasCleanup(Top.ref) /\ Phase(Top.ref) = "cleaning"
      /\ stack[Depth - 1].ref = Top.ref
      /\ \A i \in 1..k : stack[i].ref = Top.ref =>
            stack[i].at \notin Calls /\ stack[i].at # "code" /\ stack[i].at # "envtFree"
  BY <1>1, CodeTop
<1>3. /\ k < Depth /\ k \in Nat /\ k >= 1 /\ Depth = k + 2 /\ TypeInv
      /\ Len(stack) = Depth /\ Depth \in Nat /\ Depth - 1 = k + 1
      /\ stack[Depth - 1] \in FrameType
  <2>1. TypeInv /\ Top.at # "main"
    BY <1>1 DEF LifeInv, CleanupInv
  <2> QED
    BY <1>1, <2>1, TopFrame, UnderCode
<1>4. f \in FrameType /\ f.at = "baseCatch" /\ f.ref = Top.ref
  BY <1>2, <1>3 DEF FrameType, Places
<1>5. stack[k].at # "envtFree"
  <2>1. k \in 1..Depth /\ k < Depth - 1 /\ stack[k + 1].at \notin {"base", "baseEnd"}
    BY <1>3
  <2> QED
    BY <2>1, OverWaiting
<1>6. OnlyOf(stack, k, Top.ref)
  <2>1. k <= Depth - 2 /\ \A i \in 1..(Depth - 2) : ~(i > k)
    BY <1>3
  <2> QED
    BY <1>1, <1>3, <2>1, CodeOnly
<1>7. stack' = [Pop EXCEPT ![k + 1] = f] /\ Len(Pop) = k + 1 /\ Pop \in Seq(FrameType)
      /\ \A i \in 1..(k + 1) : Pop[i] = stack[i]
  <2>1. /\ Pop \in Seq(FrameType) /\ Len(Pop) = k + 1
        /\ \A i \in 1..(k + 1) : Pop[i] = stack[i]
    BY <1>3, PopKeeps DEF Keeps
  <2>2. Pop[k + 1] = stack[Depth - 1]
    BY <1>3, <2>1
  <2> QED
    BY <1>1, <1>3, <2>1, <2>2
<1> HIDE DEF f
<1>8. PICK r \in Objs : r = Top.ref
  BY <1>2
<1> HIDE DEF k
<1>9. Keeps(stack, stack', k) /\ Len(stack') = k + 1 /\ stack'[k + 1] = f
  BY <1>3, <1>4, <1>7 DEF Keeps
<1>10. \A i \in 1..Len(stack') : i > k => i = k + 1 /\ stack'[i] = f
  BY <1>3, <1>9
<1>11. FramesSound(k)
  <2>1. ASSUME NEW i \in 1..Len(stack'), i > k PROVE FrameSound(i)'
    <3>1. stack'[i].at = "baseCatch" /\ stack'[i].ref = r
      BY <2>1, <1>4, <1>8, <1>10
    <3>2. r \in live' /\ HasCleanup(r)
      BY <1>1, <1>2, <1>8
    <3> QED
      BY <3>1, <3>2 DEF FrameSound, Freed, Sweeps, HasCleanup
  <2> QED
    BY <2>1 DEF FramesSound
<1>12. OnlyOf(stack', k, r)
  BY <1>4, <1>8, <1>10 DEF OnlyOf
<1>13. FreesSound(k)
  <2>1. \A i \in 1..Len(stack') : i >= k => stack'[i] = f \/ stack'[i] = stack[k]
    BY <1>3, <1>9 DEF Keeps
  <2> QED
    BY <1>4, <1>5, <2>1 DEF FreesSound, FreeSound
<1>14. Others(r) /\ r \in live'
  BY <1>1, <1>2, <1>8 DEF Others
<1>15. Moves(r, Phase(r), Phase(r)')
  <2>1. ASSUME NEW i \in 1..Len(stack'), stack'[i].ref = r
        PROVE  stack'[i].at # "code" /\ stack'[i].at \notin Rests
    <3>1. CASE i \in 1..k
      BY <2>1, <3>1, <1>2, <1>8, <1>9 DEF Keeps, Calls, Rests, k
    <3>2. CASE stack'[i] = f
      BY <3>2, <1>4 DEF Rests
    <3> QED
      BY <3>1, <3>2, <1>3, <1>10
  <2>2. Shows(stack', {"baseCatch"}, r)
    <3>1. k + 1 \in 1..Len(stack')
      BY <1>3, <1>9
    <3> QED
      BY <3>1, <1>4, <1>8, <1>9 DEF Shows
  <2>3. Phase(r)' = "failed"
    BY <1>14, <2>1, <2>2, PhaseRead DEF PhaseIn, Shows
  <2> QED
    BY <2>3, <1>2, <1>8 DEF Moves
<1> QED
  BY <1>1, <1>2, <1>3, <1>6, <1>8, <1>9, <1>11, <1>12, <1>13, <1>14, <1>15, OneLives

(* Under EnvT::ObjCleanup the error leaves the object marked for ever. *)
LEMMA StuckLives ==
    ASSUME LifeInv, CleanupInv', CleanupThrows, stack[Depth - 1].at = "envt"
    PROVE  LifeStep
<1> DEFINE m == IF stack[Depth - 2].at = "gcObj" THEN Depth - 3 ELSE Depth - 2
<1>1. /\ Top.at = "code" /\ stack' = SubSeq(stack, 1, m)
      /\ UNCHANGED <<live, heapIx, inProgress>>
      /\ holds' = [holds EXCEPT ![Tmp(Depth - 1)] = Null]
  BY DEF CleanupThrows
<1>2. /\ Top.ref \in Objs /\ Top.ref \in live /\ Top.ref \in inProgress
      /\ Top.ref[2] < heapIx /\ Phase(Top.ref) = "cleaning"
      /\ \A i \in 1..(Depth - 2) : stack[i].ref = Top.ref =>
            stack[i].at \notin Calls /\ stack[i].at # "code" /\ stack[i].at # "envtFree"
  BY <1>1, CodeTop
<1>3. /\ TypeInv /\ Len(stack) = Depth /\ Depth \in Nat /\ Depth > 2
      /\ stack[Depth - 2].at = "gcObj" => Depth > 3
      /\ holds \in [Slots -> Refs \union {Null}]
  <2>1. TypeInv /\ Top.at # "main"
    BY <1>1 DEF LifeInv, CleanupInv
  <2> QED
    BY <1>1, <2>1, TopFrame, UnderCode
<1>4. PICK k \in Nat : k = m
  BY <1>3
<1>5. /\ k >= 1 /\ k <= Depth - 2 /\ k < Depth /\ k \in 0..Depth /\ k \in 1..Depth
      /\ k < Depth - 1 /\ stack[k + 1].at \in {"envt", "gcObj"}
      /\ \A i \in 1..(Depth - 2) : i > k => stack[i].at = "gcObj"
  <2>1. CASE stack[Depth - 2].at = "gcObj"
    <3>1. k = Depth - 3 /\ Depth > 3 /\ k + 1 = Depth - 2
      BY <2>1, <1>3, <1>4
    <3>2. \A i \in 1..(Depth - 2) : i > k => i = Depth - 2
      BY <3>1, <1>3
    <3> QED
      BY <2>1, <3>1, <3>2, <1>3
  <2>2. CASE stack[Depth - 2].at # "gcObj"
    <3>1. k = Depth - 2 /\ k + 1 = Depth - 1
      BY <2>2, <1>3, <1>4
    <3> QED
      BY <2>2, <3>1, <1>3
  <2> QED
    BY <2>1, <2>2
<1> HIDE DEF m
<1>6. Keeps(stack, stack', k) /\ Len(stack') = k
  BY <1>1, <1>3, <1>4, <1>5, CutKeeps
<1>7. stack[k].at # "envtFree"
  BY <1>5, OverWaiting
<1>8. OnlyOf(stack, k, Top.ref)
  <2>1. \A i \in 1..(Depth - 2) : i > k => stack[i].at \notin ObjCleanup
    BY <1>5 DEF ObjCleanup
  <2> QED
    BY <1>1, <1>5, <2>1, CodeOnly
<1>9. ASSUME NEW i \in 1..k PROVE holds'[Tmp(i)] = holds[Tmp(i)]
  <2>1. i \in 1..MaxDepth /\ i # Depth - 1
    BY <1>3, <1>5, MaxDepthAssumption DEF TypeInv, TypeOK
  <2>2. Tmp(i) \in Slots /\ Tmp(i) # Tmp(Depth - 1)
    BY <2>1, SlotFacts
  <2> QED
    BY <1>1, <1>3, <2>2
<1>10. PICK r \in Objs : r = Top.ref
  BY <1>2
<1>11. FramesSound(k) /\ OnlyOf(stack', k, r)
  BY <1>5, <1>6 DEF FramesSound, OnlyOf
<1>12. FreesSound(k)
  <2>1. \A i \in 1..Len(stack') : i >= k => stack'[i] = stack[k]
    BY <1>5, <1>6 DEF Keeps
  <2> QED
    BY <1>7, <2>1 DEF FreesSound, FreeSound
<1>13. Others(r) /\ r \in live' /\ r \in inProgress'
  BY <1>1, <1>2, <1>10 DEF Others
<1>14. Moves(r, Phase(r), Phase(r)')
  <2>1. ASSUME NEW i \in 1..Len(stack'), stack'[i].ref = r
        PROVE  stack'[i].at # "code" /\ stack'[i].at \notin Rests
                 /\ stack'[i].at # "baseCatch"
    <3>1. i \in 1..k /\ i \in 1..(Depth - 2)
      BY <1>3, <1>5, <1>6
    <3> QED
      BY <2>1, <3>1, <1>2, <1>6, <1>10 DEF Keeps, Calls, Rests
  <2>2. Phase(r)' = "stuck"
    BY <1>13, <2>1, PhaseRead DEF PhaseIn, Shows
  <2> QED
    BY <2>2, <1>2, <1>10 DEF Moves
<1> QED
  BY <1>1, <1>2, <1>5, <1>6, <1>8, <1>9, <1>10, <1>11, <1>12, <1>13, <1>14, OneLives

LEMMA CleanupThrowsLives ==
    ASSUME LifeInv, CleanupInv', CleanupThrows
    PROVE  LifeStep
<1>1. CASE stack[Depth - 1].at = "base"
  <2>1. UNCHANGED <<holds, stack, live, inProgress, heapIx>>
    BY <1>1 DEF CleanupThrows
  <2>2. SameObjects /\ heapIx' >= heapIx
    <3>1. heapIx \in Nat
      BY DEF LifeInv, CleanupInv, TypeInv, TypeOK
    <3> QED
      BY <2>1, <3>1 DEF SameObjects
  <2> QED
    BY <2>1, <2>2, SameLives
<1> QED
  <2>1. stack[Depth - 1].at \in {"base", "baseAt", "envt"}
    BY DEF CleanupThrows
  <2> QED
    BY <1>1, <2>1, CaughtLives, StuckLives

-----------------------------------------------------------------------------
(* EnvT::ObjCleanup, called by OBJ_DESTROY or by HEAP_GC, whose frame then is
   the top of below *)
Caller(below, k) ==
    /\ below \in Seq(FrameType) /\ k \in Nat /\ Keeps(stack, below, k)
    /\ \/ Len(below) = k
       \/ /\ Len(below) = k + 1 /\ below[k + 1].at = "gcObj"
          /\ k >= 1 /\ stack[k].at \in {"main", "code"}

LEMMA CallerFrames ==
    ASSUME LifeInv, NEW below, NEW k, Caller(below, k), NEW n \in Nat, n >= Len(below),
           Keeps(below, stack', Len(below)), Len(stack') = n
    PROVE  /\ Keeps(stack, stack', k)
           /\ \A i \in 1..n : i > k =>
                 \/ /\ i = k + 1 /\ stack'[i].at = "gcObj"
                    /\ stack'[i - 1].at \in {"main", "code"}
                 \/ i > Len(below)
<1>1. /\ k \in Nat /\ Len(below) \in Nat /\ k <= Len(below)
      /\ \A i \in 1..k : stack'[i] = stack[i] /\ below[i] = stack[i]
  BY DEF Caller, Keeps
<1>2. Keeps(stack, stack', k)
  BY <1>1 DEF Caller, Keeps
<1>3. ASSUME NEW i \in 1..n, i > k, i <= Len(below)
      PROVE  /\ i = k + 1 /\ stack'[i].at = "gcObj"
             /\ stack'[i - 1].at \in {"main", "code"}
  <2>1. /\ i = k + 1 /\ below[i].at = "gcObj" /\ i - 1 = k /\ k \in 1..k
        /\ stack[k].at \in {"main", "code"} /\ i \in 1..Len(below)
    BY <1>1, <1>3 DEF Caller
  <2>2. stack'[i] = below[i] /\ stack'[k] = stack[k]
    BY <1>1, <2>1 DEF Keeps
  <2> QED
    BY <2>1, <2>2
<1>4. \A i \in 1..n : i <= Len(below) \/ i > Len(below)
  BY <1>1
<1> QED
  BY <1>2, <1>3, <1>4

LEMMA CalledLives ==
    ASSUME LifeInv, CleanupInv', NEW r \in Objs, r \in live, r \notin inProgress,
           NEW below, NEW k, Caller(below, k), k < Depth \/ Top.at # "drop",
           k \in 1..Depth => stack[k].at # "envtFree", NoneAbove(stack, k, ObjCleanup),
           HasCleanup(r), EnvTCleanup(r, below), heapIx' = heapIx
    PROVE  LifeStep
<1> DEFINE n == Len(below)
           f == [Frame("envt") EXCEPT !.ref = r]
           code == [Frame("code") EXCEPT !.ref = r]
<1>1. /\ n + 2 <= MaxDepth /\ stack' = below \o <<f, code>> /\ live' = live
      /\ holds' = [holds EXCEPT ![Tmp(n + 1)] = r]
      /\ inProgress' = inProgress \union {r}
  <2>1. n + 1 + 1 <= MaxDepth
    BY DEF EnvTCleanup
  <2>2. n + 1 + 1 = n + 2
    BY DEF Caller
  <2> QED
    BY <2>1, <2>2 DEF EnvTCleanup
<1>2. /\ f \in FrameType /\ f.ref = r /\ f.at = "envt"
      /\ code \in FrameType /\ code.at = "code" /\ code.ref = r
  <2>1. r \in Slots
    BY SlotFacts
  <2> QED
    BY <2>1 DEF Frame, FrameType, Places
<1> HIDE DEF f, code
<1>3. /\ Keeps(below, stack', n) /\ Len(stack') = n + 2
      /\ stack'[n + 1] = f /\ stack'[n + 2] = code /\ n \in Nat /\ k \in Nat /\ k <= n
  BY <1>1, <1>2, Push2Keeps DEF Caller, Keeps
<1>4. /\ Keeps(stack, stack', k)
      /\ \A i \in 1..(n + 2) : i > k =>
            \/ /\ i = k + 1 /\ stack'[i].at = "gcObj"
               /\ stack'[i - 1].at \in {"main", "code"}
            \/ i > n
  <2>1. n + 2 \in Nat /\ n + 2 >= n
    BY <1>3
  <2> QED
    BY <1>3, <2>1, CallerFrames
<1>5. holds \in [Slots -> Refs \union {Null}] /\ MaxDepth \in Nat /\ Depth = Len(stack)
  BY StackFacts, MaxDepthAssumption DEF LifeInv, CleanupInv, TypeInv, TypeOK
<1>6. \A i \in 1..n : holds'[Tmp(i)] = holds[Tmp(i)]
  <2> SUFFICES ASSUME NEW i \in 1..n PROVE holds'[Tmp(i)] = holds[Tmp(i)]
    OBVIOUS
  <2>1. i \in 1..MaxDepth /\ i # n + 1
    BY <1>1, <1>3, <1>5
  <2>2. Tmp(i) \in Slots /\ Tmp(i) # Tmp(n + 1)
    BY <2>1, SlotFacts
  <2> QED
    BY <1>1, <1>5, <2>2
<1>7. holds'[Tmp(n + 1)] = r
  <2>1. n + 1 \in 1..MaxDepth
    BY <1>1, <1>3, <1>5
  <2>2. Tmp(n + 1) \in Slots
    BY <2>1, SlotFacts
  <2> QED
    BY <1>1, <1>5, <2>2
<1>8. \A i \in 1..k : holds'[Tmp(i)] = holds[Tmp(i)]
  BY <1>3, <1>6
<1> HIDE DEF n
<1>9. \A i \in 1..Len(stack') : i > k =>
         \/ stack'[i].at = "gcObj" /\ stack'[i - 1].at \in {"main", "code"}
         \/ i = n + 1 /\ stack'[i] = f
         \/ stack'[i] = code
  BY <1>3, <1>4
<1>10. FramesSound(k)
  <2>1. ASSUME NEW i \in 1..Len(stack'), i > k PROVE FrameSound(i)'
    <3>1. r \in live' /\ HasCleanup(r)
      BY <1>1
    <3>2. CASE stack'[i].at = "gcObj" /\ stack'[i - 1].at \in {"main", "code"}
      BY <3>2 DEF FrameSound, Called, Freed
    <3>3. CASE i = n + 1 /\ stack'[i] = f
      BY <3>1, <3>3, <1>2, <1>7 DEF FrameSound, Freed, Sweeps
    <3>4. CASE stack'[i] = code
      BY <3>1, <3>4, <1>2 DEF FrameSound, Freed, Sweeps, HasCleanup
    <3> QED
      BY <2>1, <3>2, <3>3, <3>4, <1>9
  <2> QED
    BY <2>1 DEF FramesSound
<1>11. OnlyOf(stack', k, r)
  BY <1>2, <1>9 DEF OnlyOf, ObjCleanup
<1>12. OnlyOf(stack, k, r)
  BY DEF OnlyOf, NoneAbove
<1>13. FreesSound(k)
  <2>1. \A i \in 1..Len(stack') : i >= k =>
           i > k \/ (i = k /\ i \in 1..Depth /\ stack'[i] = stack[i])
    BY <1>3, <1>4, <1>5 DEF Keeps
  <2>2. \A i \in 1..Len(stack') : i > k => stack'[i].at # "envtFree"
    BY <1>2, <1>9
  <2> QED
    BY <2>1, <2>2 DEF FreesSound, FreeSound
<1>14. Others(r) /\ r \in live' /\ r[2] < heapIx
  BY <1>1, Born DEF Others
<1>15. Moves(r, Phase(r), Phase(r)')
  <2>1. n + 2 \in 1..Len(stack')
    BY <1>3
  <2>2. Shows(stack', {"code"}, r)
    BY <2>1, <1>2, <1>3 DEF Shows
  <2>3. Phase(r)' = "cleaning"
    BY <2>2, <1>14, PhaseRead DEF PhaseIn
  <2> QED
    BY <2>3, Callable DEF Moves
<1> QED
  BY <1>4, <1>8, <1>10, <1>11, <1>12, <1>13, <1>14, <1>15, OneLives

(* without a CLEANUP method the object goes at once *)
LEMMA ErasedLives ==
    ASSUME LifeInv, CleanupInv', NEW r \in Objs, r \in live, r \notin inProgress,
           NEW below, NEW k, Caller(below, k), k <= Depth, k < Depth \/ Top.at # "drop",
           k \in 1..Depth => stack[k].at # "envtFree", NoneAbove(stack, k, ObjCleanup),
           ~HasCleanup(r), EnvTCleanup(r, below), heapIx' = heapIx
    PROVE  LifeStep
<1> DEFINE n == Len(below)
           g == Frame("drop")
<1>1. /\ stack' = Append(below, g) /\ Erase(r, n + 1) /\ inProgress' = inProgress
  BY DEF EnvTCleanup
<1>2. g \in FrameType /\ g.at = "drop"
  BY QuietFrames DEF Frame
<1> HIDE DEF g
<1>3. /\ Keeps(below, stack', n) /\ Len(stack') = n + 1 /\ stack'[n + 1] = g
      /\ n \in Nat /\ k \in Nat /\ k <= n
  BY <1>1, <1>2, PushKeeps DEF Caller, Keeps
<1>4. /\ Keeps(stack, stack', k)
      /\ \A i \in 1..(n + 1) : i > k =>
            \/ /\ i = k + 1 /\ stack'[i].at = "gcObj"
               /\ stack'[i - 1].at \in {"main", "code"}
            \/ i > n
  <2>1. n + 1 \in Nat /\ n + 1 >= n
    BY <1>3
  <2> QED
    BY <1>3, <2>1, CallerFrames
<1>5. TypeInv /\ Depth = Len(stack) /\ r \in Refs
  BY StackFacts, SlotFacts DEF LifeInv, CleanupInv
<1>6. \A i \in 1..k : holds'[Tmp(i)] = holds[Tmp(i)]
  <2>1. n + 1 \in Nat /\ k < n + 1
    BY <1>3
  <2> QED
    BY <1>1, <1>3, <1>5, <2>1, ErasedTmps
<1> HIDE DEF n
<1>7. \A i \in 1..Len(stack') : i > k =>
         \/ stack'[i].at = "gcObj" /\ stack'[i - 1].at \in {"main", "code"}
         \/ stack'[i].at = "drop"
  BY <1>2, <1>3, <1>4
<1>8. FramesSound(k)
  BY <1>7 DEF FramesSound, FrameSound, Called, Freed, Sweeps
<1>9. OnlyOf(stack', k, r)
  BY <1>7 DEF OnlyOf, ObjCleanup
<1>10. OnlyOf(stack, k, r)
  BY DEF OnlyOf, NoneAbove
<1>11. FreesSound(k)
  <2>1. \A i \in 1..Len(stack') : i >= k =>
           i > k \/ (i = k /\ i \in 1..Depth /\ stack'[i] = stack[i])
    BY <1>3, <1>4, <1>5 DEF Keeps
  <2>2. \A i \in 1..Len(stack') : i > k => stack'[i].at # "envtFree"
    BY <1>7
  <2> QED
    BY <2>1, <2>2 DEF FreesSound, FreeSound
<1>12. live' = live \ {r}
  BY <1>1 DEF Erase
<1>13. Others(r) /\ r \notin live' /\ r \notin inProgress' /\ r[2] < heapIx
  BY <1>1, <1>12, Born DEF Others
<1>14. Uncalled(k, r)
  <2>1. \A i \in 1..k : i \in 1..Depth
    BY <1>4, <1>5 DEF Keeps
  <2> QED
    BY <2>1, Unmarked DEF Uncalled, Called, Calls
<1>15. Moves(r, Phase(r), Phase(r)')
  <2>1. Phase(r)' = "absent"
    BY <1>13, PhaseRead DEF PhaseIn
  <2> QED
    BY <2>1, Callable DEF Moves
<1> QED
  BY <1>4, <1>6, <1>8, <1>9, <1>10, <1>11, <1>13, <1>14, <1>15, OneLives

LEMMA EnvTCleanupLives ==
    ASSUME LifeInv, CleanupInv', NEW r \in Objs, r \in live, r \notin inProgress,
           NEW below, NEW k, Caller(below, k), k <= Depth, k < Depth \/ Top.at # "drop",
           k \in 1..Depth => stack[k].at # "envtFree", NoneAbove(stack, k, ObjCleanup),
           EnvTCleanup(r, below), heapIx' = heapIx
    PROVE  LifeStep
BY CalledLives, ErasedLives

LEMMA ObjDestroyLives ==
    ASSUME LifeInv, CleanupInv', NEW v \in Vars, ObjDestroy(v)
    PROVE  LifeStep
<1> DEFINE r == holds[Var(v)]
<1>1. /\ Top.at \in {"main", "code"} /\ r \in Objs /\ r \in live /\ r \notin inProgress
      /\ EnvTCleanup(r, stack) /\ heapIx' = heapIx /\ TypeInv
  BY DEF ObjDestroy, Cleanable, May, CodeRuns, LifeInv, CleanupInv
<1> HIDE DEF r
<1>2. /\ stack \in Seq(FrameType) /\ Len(stack) = Depth /\ Depth \in Nat
      /\ Keeps(stack, stack, Depth) /\ stack[Depth] = Top
  BY <1>1, StackFacts
<1>3. Caller(stack, Depth) /\ NoneAbove(stack, Depth, ObjCleanup)
  BY <1>2, NoneBeyond DEF Caller
<1> QED
  BY <1>1, <1>2, <1>3, EnvTCleanupLives

-----------------------------------------------------------------------------
(* HEAP_GC *)
LEMMA HeapGCLives ==
    ASSUME LifeInv, CleanupInv', NEW mode \in GCModes, HeapGC(mode)
    PROVE  LifeStep
<1> DEFINE f == Sweep(mode)
<1>1. /\ TypeInv /\ Top.at \in {"main", "code"} /\ heapIx \in Nat
      /\ stack' = Append(stack, f) /\ UNCHANGED <<live, holds, heapIx, inProgress>>
  BY DEF HeapGC, May, CodeRuns, LifeInv, CleanupInv, TypeInv, TypeOK
<1>2. f \in FrameType /\ f.at = "gcObj"
  BY <1>1, SweepFacts, GCModesAssumption
<1> HIDE DEF f
<1>3. stack \in Seq(FrameType) /\ Len(stack) = Depth /\ Depth \in Nat
  BY <1>1, StackFacts
<1>4. Keeps(stack, stack', Depth) /\ Len(stack') = Depth + 1 /\ stack'[Depth + 1] = f
  BY <1>1, <1>2, <1>3, PushKeeps
<1>5. Depth >= 1 /\ stack'[Depth] = Top
  BY <1>1, <1>3, <1>4, TopCode DEF Keeps
<1>6. \A i \in 1..Len(stack') : i > Depth => i = Depth + 1 /\ i - 1 = Depth
  BY <1>3, <1>4
<1>7. NoneAbove(stack', Depth, ObjCleanup) /\ SweepsSound(Depth)
  BY <1>1, <1>2, <1>4, <1>5, <1>6 DEF NoneAbove, SweepsSound, ObjCleanup, Sweeps
<1>8. SameObjects /\ heapIx' >= heapIx /\ \A i \in 1..Depth : holds'[Tmp(i)] = holds[Tmp(i)]
  BY <1>1 DEF SameObjects
<1> QED
  BY <1>1, <1>4, <1>7, <1>8, TopCode, QuietLives

(* the frame of HEAP_GC stands on interpreted code *)
LEMMA SweepTop ==
    ASSUME LifeInv, Top.at \in Sweeps
    PROVE  /\ Top.at # "main" /\ Top.at \notin ObjCleanup /\ Top.at # "drop"
           /\ stack[Depth - 1].at \in {"main", "code"}
           /\ Top.at = "gcPtr" => Top.todo \subseteq Ptrs
           /\ TypeInv /\ Top \in FrameType /\ Top.todo \subseteq Refs
           /\ Depth > 1 /\ Depth \in Nat /\ Len(stack) = Depth /\ stack[Depth] = Top
<1>1. Top.at # "main" /\ Top.at \notin ObjCleanup /\ Top.at # "drop"
  BY DEF Sweeps, ObjCleanup
<1>2. /\ FrameSound(Depth) /\ stack[Depth] = Top /\ TypeInv /\ Top \in FrameType
      /\ Depth > 1 /\ Depth \in Nat /\ Len(stack) = Depth
  BY <1>1, TopFrame
<1>3. Top.todo \subseteq Refs
  BY <1>2, FrameFacts
<1> QED
  BY <1>1, <1>2, <1>3 DEF FrameSound

LEMMA GCSweepLives ==
    ASSUME LifeInv, CleanupInv', GCObjEnd \/ GCAgain
    PROVE  LifeStep
<1>1. Top.at \in Sweeps /\ UNCHANGED <<live, holds, heapIx, inProgress>>
  BY DEF GCObjEnd, GCAgain, Sweeps
<1>2. /\ Top.at # "main" /\ Top.at \notin ObjCleanup /\ Top.at # "drop"
      /\ stack[Depth - 1].at \in {"main", "code"}
      /\ TypeInv /\ Top \in FrameType
  BY <1>1, SweepTop
<1>3. PICK f \in FrameType : /\ stack' = Become(f) /\ f.at \in Sweeps
                             /\ f.at = "gcPtr" => f.todo \subseteq Ptrs
  <2>1. Top.mode \in SUBSET {"ptr", "obj"}
    BY <1>2, FrameFacts
  <2>2. CASE GCObjEnd
    <3> DEFINE f == [Frame("gcPtr") EXCEPT
                       !.mode = Top.mode,
                       !.todo = IF "ptr" \in Top.mode
                                THEN (live \intersect Ptrs) \ Top.keep ELSE {}]
    <3>1. live \intersect Ptrs \subseteq Refs
      BY SlotFacts
    <3>2. f \in FrameType /\ f.at = "gcPtr" /\ f.todo \subseteq Ptrs
      BY <2>1, <3>1 DEF Frame, FrameType, Places
    <3>3. stack' = Become(f)
      BY <2>2 DEF GCObjEnd
    <3> HIDE DEF f
    <3> QED
      BY <3>2, <3>3 DEF Sweeps
  <2>3. CASE GCAgain
    <3>1. stack' = Become(Sweep(Top.mode))
      BY <2>3 DEF GCAgain
    <3>2. Sweep(Top.mode) \in FrameType /\ Sweep(Top.mode).at = "gcObj"
      BY <2>1, <1>2, SweepFacts
    <3> QED
      BY <3>1, <3>2 DEF Sweeps
  <2> QED
    BY <2>2, <2>3
<1>4. f.at \notin ObjCleanup
  BY <1>3 DEF Sweeps, ObjCleanup
<1>5. SameObjects
  BY <1>1 DEF SameObjects
<1> QED
  BY <1>1, <1>2, <1>3, <1>4, <1>5, BecomeLives

(* what is left to sweep, without its first *)
LEMMA RestFrame ==
    ASSUME NEW f \in FrameType, NEW r
    PROVE  LET g == [f EXCEPT !.todo = @ \ {r}]
           IN  g \in FrameType /\ g.at = f.at /\ g.todo \subseteq f.todo
BY DEF FrameType

LEMMA GCPtrLives ==
    ASSUME LifeInv, CleanupInv', GCPtr
    PROVE  LifeStep
<1> DEFINE r == First(Top.todo)
           f == [Top EXCEPT !.todo = @ \ {r}]
<1>1. Top.at = "gcPtr" /\ Top.todo # {} /\ heapIx' = heapIx /\ inProgress' = inProgress
  BY DEF GCPtr
<1>2. /\ Top.at # "main" /\ Top.at \notin ObjCleanup /\ Top.at # "drop"
      /\ stack[Depth - 1].at \in {"main", "code"} /\ Top.todo \subseteq Ptrs
      /\ TypeInv /\ Top \in FrameType /\ Top.todo \subseteq Refs
      /\ Depth > 1 /\ Depth \in Nat
  BY <1>1, SweepTop DEF Sweeps
<1>3. r \in Ptrs /\ r \in Refs /\ r \notin Objs
  <2>1. r \in Top.todo
    BY <1>1, <1>2, FirstFacts
  <2> QED
    BY <2>1, <1>2, SlotFacts
<1>4. f \in FrameType /\ f.at = "gcPtr" /\ f.todo \subseteq Ptrs
  <2>1. f \in FrameType /\ f.at = Top.at /\ f.todo \subseteq Top.todo
    BY <1>2, RestFrame
  <2> QED
    BY <2>1, <1>1, <1>2
<1>5. \/ /\ Erase(r, Depth + 1) /\ stack' = Append(Become(f), Frame("drop"))
      \/ UNCHANGED <<live, holds>> /\ stack' = Become(f)
  BY DEF GCPtr, Kept
<1> HIDE DEF f, r
<1>6. SameObjects
  BY <1>1, <1>3, <1>5 DEF SameObjects, Erase
<1>7. \A i \in 1..(Depth - 1) : holds'[Tmp(i)] = holds[Tmp(i)]
  <2>1. CASE Erase(r, Depth + 1)
    <3>1. /\ Depth + 1 \in Nat /\ Depth - 1 \in Nat /\ Depth - 1 <= Depth
          /\ Depth - 1 < Depth + 1
      BY <1>2
    <3> QED
      BY <2>1, <3>1, <1>2, <1>3, ErasedTmps
  <2> QED
    BY <2>1, <1>5
<1>8. f.at \notin ObjCleanup
  BY <1>4 DEF ObjCleanup
<1> QED
  BY <1>1, <1>2, <1>4, <1>5, <1>6, <1>7, <1>8, BecomeLives

LEMMA GCObjLives ==
    ASSUME LifeInv, CleanupInv', GCObj
    PROVE  LifeStep
<1> DEFINE r == First(Top.todo)
           f == [Top EXCEPT !.todo = @ \ {r}]
           next == Become(f)
<1>1. Top.at = "gcObj" /\ heapIx' = heapIx
  BY DEF GCObj
<1>2. /\ Top.at # "main" /\ Top.at \notin ObjCleanup /\ Top.at # "drop"
      /\ stack[Depth - 1].at \in {"main", "code"}
      /\ TypeInv /\ Top \in FrameType /\ Depth > 1 /\ Depth \in Nat
      /\ Len(stack) = Depth /\ stack[Depth] = Top
  BY <1>1, SweepTop DEF Sweeps
<1>3. f \in FrameType /\ f.at = "gcObj"
  BY <1>1, <1>2, RestFrame
<1>4. CASE ~Cleanable(r)
  <2>1. stack' = Become(f) /\ UNCHANGED <<live, holds, inProgress>>
    BY <1>4 DEF GCObj, Kept
  <2>2. SameObjects
    BY <2>1 DEF SameObjects
  <2>3. f.at \notin ObjCleanup /\ f.at # "gcPtr"
    BY <1>3 DEF ObjCleanup
  <2> HIDE DEF f
  <2> QED
    BY <1>1, <1>2, <1>3, <2>1, <2>2, <2>3, BecomeLives
<1>5. CASE Cleanable(r)
  <2>1. r \in Objs /\ r \in live /\ r \notin inProgress /\ EnvTCleanup(r, next)
    BY <1>5 DEF GCObj, Cleanable
  <2> HIDE DEF r, f
  <2>2. /\ next \in Seq(FrameType) /\ Len(next) = Depth
        /\ Keeps(stack, next, Depth - 1) /\ next[Depth] = f
    BY <1>2, <1>3, BecomeKeeps
  <2> HIDE DEF next
  <2> DEFINE k == Depth - 1
  <2>3. /\ Caller(next, k) /\ k <= Depth /\ k < Depth /\ stack[k].at # "envtFree"
    <3>1. Depth = k + 1 /\ k >= 1 /\ k \in Nat
      BY <1>2
    <3> QED
      BY <3>1, <1>2, <1>3, <2>2 DEF Caller
  <2>4. NoneAbove(stack, k, ObjCleanup)
    <3>1. Len(stack) = k + 1 /\ stack[k + 1].at \notin ObjCleanup /\ k \in Nat
      BY <1>2
    <3> HIDE DEF k
    <3> QED
      BY <3>1, NoneBeyond
  <2> HIDE DEF k
  <2> QED
    BY <1>1, <2>1, <2>3, <2>4, EnvTCleanupLives
<1> QED
  BY <1>4, <1>5

(* With an empty heap HEAP_GC runs in $MAIN$, and no CLEANUP runs. *)
LEMMA EmptyHeap ==
    ASSUME LifeInv, Top.at = "gcPtr", live = {}
    PROVE  Depth = 2 /\ stack[1].at = "main" /\ inProgress = {}
<1>1. /\ TypeInv /\ stack[Depth - 1].at \in {"main", "code"}
      /\ Depth > 1 /\ Depth \in Nat /\ Len(stack) = Depth /\ stack[Depth] = Top
  BY SweepTop DEF Sweeps
<1>2. stack[1].at = "main" /\ \A i \in 2..Len(stack) : stack[i].at # "main"
  BY <1>1 DEF TypeInv, ShapeOf, StandsOn
<1>3. stack[Depth - 1].at = "main"
  <2>1. Depth - 1 \in 1..Depth
    BY <1>1
  <2>2. FrameSound(Depth - 1)
    BY <2>1 DEF LifeInv
  <2> QED
    BY <1>1, <2>2 DEF FrameSound, Called
<1>4. Depth = 2
  <2>1. Depth - 1 \notin 2..Len(stack)
    BY <1>2, <1>3
  <2> QED
    BY <2>1, <1>1
<1>5. \A i \in 1..Depth : stack[i].at \notin Freed
  <2>1. \A i \in 1..Depth : i = 1 \/ i = Depth
    BY <1>4
  <2> QED
    BY <2>1, <1>1, <1>2 DEF Freed
<1>6. inProgress = {}
  BY <1>5 DEF LifeInv, MarkedKnown
<1> QED
  BY <1>2, <1>4, <1>6

LEMMA GCEndLives ==
    ASSUME LifeInv, CleanupInv', GCEnd
    PROVE  LifeStep
<1>1. /\ Top.at = "gcPtr" /\ stack' = Pop /\ UNCHANGED <<live, holds, inProgress>>
      /\ live # {} => heapIx' = heapIx
  BY DEF GCEnd, ResetIfEmpty
<1>2. TypeInv /\ Top.at # "main" /\ Top.at \notin ObjCleanup
  BY <1>1, SweepTop DEF Sweeps
<1>3. CASE live # {}
  <2>1. SameObjects /\ heapIx' = heapIx
    BY <1>1, <1>3 DEF SameObjects
  <2> QED
    BY <1>1, <1>2, <2>1, PopLives
<1>4. CASE live = {}
  <2>1. Depth = 2 /\ stack[1].at = "main" /\ inProgress = {}
    BY <1>1, <1>4, EmptyHeap
  <2>2. Keeps(stack, stack', 1) /\ Len(stack') = 1
    <3>1. Depth - 1 = 1
      BY <2>1
    <3> QED
      BY <3>1, <1>1, <1>2, PopKeeps
  <2>3. \A i \in 1..Len(stack') : stack'[i].at = "main"
    BY <2>1, <2>2 DEF Keeps
  <2>4. Depth' = Len(stack') /\ live' = {} /\ inProgress' = {}
    BY <1>1, <1>4, <2>1 DEF Depth
  <2>5. \A i \in 1..Depth' : FrameSound(i)' /\ FreeSound(i)'
    BY <2>3, <2>4 DEF FrameSound, FreeSound, Called, Freed, Sweeps
  <2>6. MarkedKnown' /\ Unborn'
    BY <2>3, <2>4 DEF MarkedKnown, Unborn
  <2>7. LifeInv'
    BY <2>5, <2>6 DEF LifeInv
  <2>8. \A o \in Objs : Phase(o) = "absent" /\ Phase(o)' = "absent"
    BY <1>4, <2>4 DEF Phase
  <2> QED
    BY <2>7, <2>8 DEF LifeStep, OneMoves
<1> QED
  BY <1>3, <1>4

(* HEAP_GC within a CLEANUP method: the object of that method is there. *)
LEMMA HeapGCNestedLives ==
    ASSUME LifeInv, CleanupInv', HeapGCNested
    PROVE  LifeStep
<1>1. /\ Top.at \in {"main", "code"} /\ gcPass # 0
      /\ UNCHANGED <<live, holds, inProgress, stack>>
      /\ live # {} => heapIx' = heapIx
  <2>1. gcPass > 0 /\ gcPass \in 0..2
    BY DEF HeapGCNested, LifeInv, CleanupInv, TypeInv, TypeOK
  <2> QED
    BY <2>1 DEF HeapGCNested, May, CodeRuns, ResetIfEmpty
<1>2. Len(stack) = Depth /\ Depth \in Nat /\ Depth >= 1 /\ Top = stack[Depth]
  BY StackFacts DEF LifeInv, CleanupInv
<1>3. PICK i \in 1..Len(stack) : stack[i].at \in Sweeps
  BY <1>1 DEF LifeInv, CleanupInv, SweepFlagged
<1>4. Top.at # "main"
  <2> SUFFICES ASSUME Top.at = "main" PROVE FALSE
    OBVIOUS
  <2>1. stack[1].at = "main" /\ \A j \in 2..Len(stack) : stack[j].at # "main"
    BY DEF LifeInv, CleanupInv, TypeInv, ShapeOf, StandsOn
  <2>2. Depth \notin 2..Len(stack)
    BY <1>2, <2>1
  <2>3. i = 1
    BY <1>2, <2>2
  <2> QED
    BY <1>3, <2>1, <2>3 DEF Sweeps
<1>5. Top.ref \in live
  BY <1>1, <1>4, CodeTop
<1>6. SameObjects /\ heapIx' >= heapIx
  <2>1. heapIx \in Nat
    BY DEF LifeInv, CleanupInv, TypeInv, TypeOK
  <2> QED
    BY <1>1, <1>5, <2>1 DEF SameObjects
<1> QED
  BY <1>1, <1>6, SameLives

(* steps that change no object and no frame *)
LEMMA StillLives ==
    ASSUME LifeInv, CleanupInv',
           \/ ObjNewFailed \/ UseAfterFree \/ DropAsserts
           \/ \E v \in Vars : TouchDying(v) \/ \E on \in BOOLEAN : HeapRefcount(v, on)
    PROVE  LifeStep
<1>1. /\ UNCHANGED <<live, holds, inProgress, stack>>
      /\ heapIx' = heapIx \/ heapIx' = heapIx + 1
  BY DEF ObjNewFailed, UseAfterFree, DropAsserts, TouchDying, HeapRefcount
<1>2. SameObjects /\ heapIx' >= heapIx
  <2>1. heapIx \in Nat
    BY DEF LifeInv, CleanupInv, TypeInv, TypeOK
  <2> QED
    BY <1>1, <2>1 DEF SameObjects
<1> QED
  BY <1>1, <1>2, SameLives

LEMMA StatementLives ==
    ASSUME LifeInv, CleanupInv', Statement
    PROVE  LifeStep
<1>1. CASE \E v \in Vars :
              \/ \E b \in Lvalues \union {Null} : PtrNew(v, b)
              \/ ObjNew(v) \/ PtrFree(v) \/ ObjDestroy(v) \/ TouchDying(v)
              \/ \E on \in BOOLEAN : HeapRefcount(v, on)
  BY <1>1, PtrNewLives, ObjNewLives, PtrFreeLives, ObjDestroyLives, StillLives
<1>2. CASE \E a \in Lvalues, b \in Lvalues \union Self : Assign(a, b)
  BY <1>2, AssignLives
<1>3. CASE \/ \E a \in Members, b \in VarSlots \union Self : AssignMember(a, b)
           \/ \E a \in VarSlots, b \in Members : AssignMember(a, b)
           \/ \E a \in VarSlots \union Members : Clear(a)
  BY <1>3, AssignMemberLives, ClearLives
<1>4. CASE ObjNewRejected \/ ObjNewFailed \/ HeapGCNested
              \/ \E mode \in GCModes : HeapGC(mode)
  BY <1>4, ObjNewRejectedLives, StillLives, HeapGCNestedLives, HeapGCLives
<1> QED
  BY <1>1, <1>2, <1>3, <1>4 DEF Statement

LEMMA CppStepLives ==
    ASSUME LifeInv, CleanupInv', CppStep
    PROVE  LifeStep
<1>1. CASE CopyEnd \/ StoreEnd \/ UseAfterFree \/ DropOne \/ DropAsserts
              \/ DropLastPtr \/ DropLastObj
  BY <1>1, EndLives, StillLives, DropLastPtrLives, DropLastObjLives
<1>2. CASE BaseFree \/ BaseEnd \/ BaseThrow \/ EnvTReturn \/ EnvTFree
  BY <1>2, BaseFreeLives, BaseEndLives, BaseThrowLives, EnvTReturnLives, EnvTFreeLives
<1>3. CASE GCObj \/ GCObjEnd \/ GCPtr \/ GCAgain \/ GCEnd
  BY <1>3, GCObjLives, GCSweepLives, GCPtrLives, GCEndLives
<1> QED
  BY <1>1, <1>2, <1>3 DEF CppStep

LEMMA LifeNext == LifeInv /\ [Next]_vars => LifeStep
<1> SUFFICES ASSUME LifeInv, [Next]_vars PROVE LifeStep
  OBVIOUS
<1>1. CleanupInv'
  BY CleanupNext DEF LifeInv
<1>2. CASE UNCHANGED vars
  <2>1. UNCHANGED <<holds, stack>> /\ SameObjects /\ heapIx' >= heapIx
    <3>1. heapIx \in Nat
      BY DEF LifeInv, CleanupInv, TypeInv, TypeOK
    <3> QED
      BY <1>2, <3>1 DEF vars, SameObjects
  <2> QED
    BY <1>1, <2>1, SameLives
<1> QED
  BY <1>1, <1>2, StatementLives, CppStepLives, CleanupReturnsLives, CleanupThrowsLives
     DEF Next, CleanupEnds, Halted

LEMMA LifeInit == Init => LifeInv
<1> SUFFICES ASSUME Init PROVE LifeInv
  OBVIOUS
<1>1. CleanupInv
  BY CleanupInit
<1>2. live = {} /\ inProgress = {} /\ stack = <<Frame("main")>>
  BY DEF Init
<1>3. Depth = 1 /\ \A i \in 1..Depth : stack[i].at = "main"
  BY <1>2 DEF Depth, Frame
<1>4. \A i \in 1..Depth : FrameSound(i) /\ FreeSound(i)
  BY <1>3 DEF FrameSound, FreeSound, Called, Freed, Sweeps
<1>5. MarkedKnown /\ Unborn
  BY <1>2, <1>3 DEF MarkedKnown, Unborn
<1> QED
  BY <1>1, <1>4, <1>5 DEF LifeInv

(* Every behaviour of the heap follows the life cycle of objects: no path
   through the two ObjCleanup, FreeObjHeap, DecRefObj and HeapGC, however the
   calls nest, removes an object whose CLEANUP runs or has not run, or calls
   CLEANUP of an object again that a failure has left. *)
THEOREM ObjectsFollowLife == Spec => ObjectsLive
<1>1. Init => LifeInv
  BY LifeInit
<1>2. Init => Life!Init
  <2> SUFFICES ASSUME Init PROVE Life!Init
    OBVIOUS
  <2>1. \A o \in Objs : Phase(o) = "absent"
    BY DEF Init, Phase
  <2> QED
    BY <2>1 DEF Life!Init
<1>3. LifeInv /\ [Next]_vars => [Life!Next]_([o \in Objs |-> Phase(o)])
  BY LifeNext, LifeMoves DEF LifeStep
<1>4. LifeInv /\ [Next]_vars => LifeInv'
  BY LifeNext DEF LifeStep
<1> QED
  BY <1>1, <1>2, <1>3, <1>4, PTL DEF Spec, ObjectsLive, Life!Spec

-----------------------------------------------------------------------------
(* What HEAP_GC spares *)
(* CLEANUP methods that neither create nor pass on references *)
LettingGo == {"clear", "ptr_free", "obj_destroy", "heap_refcount", "heap_gc", "error"}
OnlyLetGo == CleanupOps \subseteq LettingGo

(* SELF keeps the object of every CLEANUP method that runs. *)
SelfHeld ==
    \A i \in 1..Depth : stack[i].at = "code" => holds[Tmp(i - 1)] = stack[i].ref

(* What the HEAP_GC of frame g must not remove: a set that holds whatever can
   be named and is closed under contents, of which its marks miss no pointer. *)
Spared(A, g) ==
    /\ \A r \in A : holds[r] \in live => holds[r] \in A
    /\ \A s \in VarSlots : holds[s] \in live => holds[s] \in A
    /\ \A i \in 1..g : stack[i].at = "code" /\ stack[i].ref \in live => stack[i].ref \in A
    /\ A \intersect doomed = {}
    /\ stack[g].at = "gcObj" => (A \intersect live) \intersect Ptrs \subseteq stack[g].keep
    /\ stack[g].at = "gcPtr" => stack[g].todo \intersect A = {}
Marked(g) == \E A \in SUBSET Refs : Spared(A, g)

(* an assignment that brings nothing *)
LetsGo(i) ==
    /\ stack[i].at # "copy"
    /\ stack[i].at = "store" => holds[Tmp(i)] \notin live

MarkInv ==
    /\ LifeInv /\ SelfHeld
    /\ gcPass = 0 => doomed = {}
    /\ \A g \in 1..Depth : stack[g].at \in Sweeps =>
          Marked(g) /\ \A i \in 1..Depth : i > g => LetsGo(i)

-----------------------------------------------------------------------------
(* When a step that keeps the k lowest frames keeps the marks true *)
Marking == \E g \in 1..Depth : stack[g].at \in Sweeps

(* HEAP_GC forgets what it has to sweep only as it sweeps it. *)
Alike(f, h) == /\ h.at = f.at /\ h.ref = f.ref /\ h.keep = f.keep
               /\ h.todo \subseteq f.todo
KeepsAlike(s, t, k) ==
    /\ k \in Nat /\ Len(s) \in Nat /\ Len(t) \in Nat /\ k <= Len(s) /\ k <= Len(t)
    /\ \A i \in 1..k : Alike(s[i], t[i])

Releases ==
    /\ live' \subseteq live
    /\ \A s \in VarSlots \union Refs : holds'[s] = holds[s] \/ holds'[s] \notin live'
NewFrames(k) ==
    \A i \in 1..Len(stack') : i > k =>
        /\ stack'[i].at \notin Sweeps
        /\ stack'[i].at = "code" => holds'[Tmp(i - 1)] = stack'[i].ref
TmpsKept(k) == \A i \in 1..k : holds'[Tmp(i)] = holds[Tmp(i)]
NewLetsGo(k) == \A i \in 1..Len(stack') : i > k => LetsGo(i)'

LetsGoAbove(k) ==
    /\ KeepsAlike(stack, stack', k) /\ TmpsKept(k) /\ NewFrames(k)
    /\ Marking => Releases /\ NewLetsGo(k)

LEMMA SparedKept ==
    ASSUME TypeInv, NEW A \in SUBSET Refs, NEW g \in 1..Depth, Spared(A, g),
           KeepsAlike(stack, stack', g), Releases, doomed' \subseteq doomed
    PROVE  Spared(A, g)'
<1>1. /\ g \in Nat /\ g \in 1..g
      /\ \A i \in 1..g : Alike(stack[i], stack'[i])
  BY StackFacts DEF KeepsAlike
<1>2. Alike(stack[g], stack'[g])
  BY <1>1
<1>3. \A r \in A : r \in VarSlots \union Refs
  OBVIOUS
<1>4. /\ \A r \in A : holds'[r] \in live' => holds'[r] \in A
      /\ \A s \in VarSlots : holds'[s] \in live' => holds'[s] \in A
  BY <1>3 DEF Releases, Spared
<1>5. \A i \in 1..g : stack'[i].at = "code" /\ stack'[i].ref \in live'
                         => stack'[i].ref \in A
  BY <1>1 DEF Releases, Spared, Alike
<1>6. /\ A \intersect doomed' = {}
      /\ stack'[g].at = "gcObj"
           => (A \intersect live') \intersect Ptrs \subseteq stack'[g].keep
      /\ stack'[g].at = "gcPtr" => stack'[g].todo \intersect A = {}
  BY <1>2 DEF Releases, Spared, Alike
<1> QED
  BY <1>4, <1>5, <1>6 DEF Spared

LEMMA SelfKept ==
    ASSUME TypeInv, TypeInv', SelfHeld, NEW k, KeepsAlike(stack, stack', k), TmpsKept(k),
           \A i \in 1..Len(stack') : i > k =>
               (stack'[i].at = "code" => holds'[Tmp(i - 1)] = stack'[i].ref)
    PROVE  SelfHeld'
<1>1. /\ Depth = Len(stack) /\ Depth' = Len(stack') /\ k \in Nat /\ Depth' \in Nat
      /\ k <= Depth /\ k <= Depth' /\ Depth \in Nat
      /\ \A i \in 1..k : Alike(stack[i], stack'[i])
  BY StackFacts DEF KeepsAlike, Depth
<1> SUFFICES ASSUME NEW i \in 1..Depth', stack'[i].at = "code"
             PROVE  holds'[Tmp(i - 1)] = stack'[i].ref
  BY DEF SelfHeld
<1>2. CASE i > k
  BY <1>1, <1>2
<1>3. CASE i <= k
  <2>1. i \in 1..k /\ i \in 1..Depth
    BY <1>1, <1>3
  <2>2. stack[i].at = "code" /\ stack'[i].ref = stack[i].ref
    BY <1>1, <2>1 DEF Alike
  <2>3. i # 1
    BY <2>2 DEF TypeInv, ShapeOf
  <2>4. i - 1 \in 1..k
    BY <1>1, <2>1, <2>3
  <2> QED
    BY <2>1, <2>2, <2>4 DEF SelfHeld, TmpsKept
<1> QED
  BY <1>1, <1>2, <1>3

LEMMA MarkKept ==
    ASSUME MarkInv, LifeInv', NEW k, LetsGoAbove(k), doomed' \subseteq doomed,
           gcPass' = 0 => doomed' = {}
    PROVE  MarkInv'
<1>1. TypeInv /\ TypeInv'
  BY DEF MarkInv, LifeInv, CleanupInv
<1>2. /\ Depth = Len(stack) /\ Depth' = Len(stack') /\ k \in Nat /\ Depth' \in Nat
      /\ k <= Depth /\ k <= Depth' /\ Depth \in Nat
      /\ \A i \in 1..k : Alike(stack[i], stack'[i])
  BY <1>1, StackFacts DEF LetsGoAbove, KeepsAlike, Depth
<1>3. SelfHeld'
  BY <1>1, SelfKept DEF MarkInv, LetsGoAbove, NewFrames
<1>4. ASSUME NEW g \in 1..Depth', stack'[g].at \in Sweeps
      PROVE  Marked(g)' /\ \A i \in 1..Depth' : i > g => LetsGo(i)'
  <2>1. g \in 1..k /\ g \in 1..Depth
    BY <1>2, <1>4 DEF LetsGoAbove, NewFrames
  <2>2. stack[g].at \in Sweeps
    BY <1>2, <1>4, <2>1 DEF Alike
  <2>3. /\ Marked(g) /\ \A i \in 1..Depth : i > g => LetsGo(i)
        /\ Releases /\ NewLetsGo(k)
    BY <2>1, <2>2 DEF MarkInv, Marking, LetsGoAbove
  <2>4. Marked(g)'
    <3>1. PICK A \in SUBSET Refs : Spared(A, g)
      BY <2>3 DEF Marked
    <3>2. KeepsAlike(stack, stack', g)
      BY <1>2, <2>1 DEF KeepsAlike
    <3>3. Spared(A, g)'
      BY <1>1, <2>1, <2>3, <3>1, <3>2, SparedKept
    <3> QED
      BY <3>3 DEF Marked
  <2>5. ASSUME NEW i \in 1..Depth', i > g PROVE LetsGo(i)'
    <3>1. CASE i > k
      BY <1>2, <2>3, <3>1 DEF NewLetsGo
    <3>2. CASE i <= k
      <4>1. i \in 1..k /\ i \in 1..Depth /\ LetsGo(i)
        BY <1>2, <2>3, <2>5, <3>2
      <4>2. Alike(stack[i], stack'[i]) /\ holds'[Tmp(i)] = holds[Tmp(i)]
        BY <1>2, <4>1 DEF LetsGoAbove, TmpsKept
      <4> QED
        BY <2>3, <4>1, <4>2 DEF LetsGo, Alike, Releases
    <3> QED
      BY <1>2, <3>1, <3>2
  <2> QED
    BY <2>4, <2>5
<1> QED
  BY <1>3, <1>4 DEF MarkInv

-----------------------------------------------------------------------------
(* Steps above frame k *)
Active == {"code", "copy", "store"} \union Sweeps

LEMMA AlikeKept ==
    ASSUME NEW s, NEW t, NEW k, Keeps(s, t, k)
    PROVE  KeepsAlike(s, t, k)
BY DEF Keeps, KeepsAlike, Alike

LEMMA QuietGoes ==
    ASSUME NEW k, Keeps(stack, stack', k), NoneAbove(stack', k, Active), TmpsKept(k),
           Marking => Releases
    PROVE  LetsGoAbove(k)
<1>1. KeepsAlike(stack, stack', k)
  BY AlikeKept
<1>2. NewFrames(k) /\ NewLetsGo(k)
  BY DEF NoneAbove, Active, NewFrames, NewLetsGo, LetsGo
<1> QED
  BY <1>1, <1>2 DEF LetsGoAbove

(* a CLEANUP method is called by frame k + 1 *)
LEMMA CallGoes ==
    ASSUME NEW k, KeepsAlike(stack, stack', k), Len(stack') = k + 2,
           stack'[k + 1].at \notin Active, stack'[k + 2].at = "code",
           holds'[Tmp(k + 1)] = stack'[k + 2].ref, TmpsKept(k), Marking => Releases
    PROVE  LetsGoAbove(k)
<1>1. /\ k \in Nat /\ k + 2 - 1 = k + 1
      /\ \A i \in 1..Len(stack') : i > k => i = k + 1 \/ i = k + 2
  BY DEF KeepsAlike
<1>2. /\ stack'[k + 1].at \notin Sweeps /\ stack'[k + 2].at \notin Sweeps
      /\ stack'[k + 1].at \notin {"code", "copy", "store"}
      /\ stack'[k + 2].at \notin {"copy", "store"}
  BY DEF Active, Sweeps
<1>3. NewFrames(k)
  <2> SUFFICES ASSUME NEW i \in 1..Len(stack'), i > k
               PROVE  /\ stack'[i].at \notin Sweeps
                      /\ stack'[i].at = "code" => holds'[Tmp(i - 1)] = stack'[i].ref
    BY DEF NewFrames
  <2>1. CASE i = k + 1
    BY <1>2, <2>1
  <2>2. CASE i = k + 2
    BY <1>1, <1>2, <2>2
  <2> QED
    BY <1>1, <2>1, <2>2
<1>4. NewLetsGo(k)
  BY <1>1, <1>2 DEF NewLetsGo, LetsGo
<1> QED
  BY <1>3, <1>4 DEF LetsGoAbove

LEMMA MainAlone ==
    ASSUME TypeInv, Top.at = "main"
    PROVE  Depth = 1 /\ stack[1].at = "main" /\ Len(stack) = 1
<1>1. Depth \in Nat /\ Depth >= 1 /\ Top = stack[Depth] /\ Len(stack) = Depth
  BY StackFacts
<1>2. stack[1].at = "main" /\ \A i \in 2..Len(stack) : stack[i].at # "main"
  BY DEF TypeInv, ShapeOf, StandsOn
<1> QED
  BY <1>1, <1>2

(* In $MAIN$ no HEAP_GC runs: a statement that starts neither a CLEANUP method
   nor HEAP_GC may do anything to the heap. *)
LEMMA MainGoes ==
    ASSUME TypeInv, TypeInv', Top.at = "main",
           \A i \in 1..Len(stack') : stack'[i].at \notin {"code"} \union Sweeps
    PROVE  LetsGoAbove(0)
<1>1. ~Marking
  <2>1. Depth = 1 /\ stack[1].at = "main"
    BY MainAlone
  <2> QED
    BY <2>1 DEF Marking, Sweeps
<1>2. Len(stack) \in Nat /\ Len(stack') \in Nat
  BY DEF TypeInv, ShapeOf
<1>3. KeepsAlike(stack, stack', 0)
  BY <1>2 DEF KeepsAlike
<1> QED
  BY <1>1, <1>3 DEF LetsGoAbove, TmpsKept, NewFrames

LEMMA MarkingTop ==
    ASSUME MarkInv, Marking, Top.at \notin Sweeps
    PROVE  LetsGo(Depth) /\ Top.at # "main"
<1>1. /\ TypeInv /\ Depth \in Nat /\ Top = stack[Depth] /\ Depth \in 1..Depth
  BY StackFacts DEF MarkInv, LifeInv, CleanupInv
<1>2. PICK g \in 1..Depth : stack[g].at \in Sweeps
  BY DEF Marking
<1>3. Depth > g
  BY <1>1, <1>2
<1>4. Top.at # "main"
  <2>1. stack[1].at = "main" /\ 1 # Depth
    BY <1>1, <1>2, <1>3 DEF TypeInv, ShapeOf, Sweeps
  <2> QED
    BY <1>1, <2>1, TopFacts DEF TypeInv, ShapeOf, StandsOn
<1> QED
  BY <1>1, <1>2, <1>3, <1>4 DEF MarkInv

LEMMA EraseReleases ==
    ASSUME TypeInv, NEW r \in Refs, NEW i, Erase(r, i)
    PROVE  Releases
<1>1. /\ live \subseteq Refs /\ holds \in [Slots -> Refs \union {Null}]
      /\ live' \subseteq live /\ Null \notin live'
  BY SlotFacts DEF TypeInv, TypeOK, Erase
<1>2. ASSUME NEW s \in VarSlots \union Refs
      PROVE  holds'[s] = holds[s] \/ holds'[s] \notin live'
  <2>1. s \in Slots /\ s # Tmp(i)
    BY SlotFacts
  <2> QED
    BY <1>1, <2>1 DEF Erase
<1> QED
  BY <1>1, <1>2 DEF Releases

LEMMA KeptReleases ==
    ASSUME UNCHANGED <<live, holds>>
    PROVE  Releases
BY DEF Releases

-----------------------------------------------------------------------------
(* Statements *)
(* The statements that create a reference or pass one on *)
LEMMA MainStatementFrames ==
    ASSUME MarkInv, TypeInv', OnlyLetGo,
           \/ \E v \in Vars : ObjNew(v) \/ \E b \in Lvalues \union {Null} : PtrNew(v, b)
           \/ \E a \in Lvalues, b \in Lvalues \union Self : Assign(a, b)
           \/ \E a \in VarSlots \union Members : \E b : AssignMember(a, b)
           \/ ObjNewRejected
    PROVE  /\ Top.at = "main"
           /\ \A i \in 1..Len(stack') : stack'[i].at \notin ObjCleanup \union Sweeps
<1>1. TypeInv /\ Top.at = "main"
  BY DEF MarkInv, LifeInv, CleanupInv, OnlyLetGo, LettingGo, ObjNew, PtrNew, Assign,
         AssignMember, ObjNewRejected, May, CodeRuns
<1>2. Depth = 1 /\ stack[1].at = "main" /\ Len(stack) = 1
  BY <1>1, MainAlone
<1>3. \/ stack' = stack
      \/ /\ Room(2)
         /\ \E f \in FrameType : \E s :
               f.at \in Assigning /\ stack' = stack \o <<f, Drop(s)>>
  <2>1. ASSUME NEW s \in VarSlots \union Refs
        PROVE  /\ [Frame("store") EXCEPT !.ref = s] \in FrameType
               /\ [Frame("store") EXCEPT !.ref = s].at \in Assigning
               /\ \A b \in Slots :
                    LET f == [[Frame("copy") EXCEPT !.src = b] EXCEPT !.ref = s]
                    IN  f \in FrameType /\ f.at \in Assigning
    BY SlotFacts, AssigningFrame
  <2>2. /\ \A v \in Vars : Var(v) \in VarSlots /\ Drop(Var(v)) = Frame("drop")
        /\ \A a \in Lvalues \union Members \union VarSlots : a \in VarSlots \union Refs
        /\ \A b \in Lvalues \union Self : b \in Slots
    BY <1>1, SlotFacts, LvalueFacts DEF Drop
  <2>3. CASE \E v \in Vars : ObjNew(v) \/ \E b \in Lvalues \union {Null} : PtrNew(v, b)
    BY <2>1, <2>2, <2>3 DEF ObjNew, PtrNew, Overwrite
  <2>4. CASE \E a \in Lvalues, b \in Lvalues \union Self : Assign(a, b)
    <3>1. PICK a \in Lvalues, b \in Lvalues \union Self : Assign(a, b)
      BY <2>4
    <3>2. a \in VarSlots \union Refs /\ b \in Slots
      BY <2>2
    <3> QED
      BY <2>1, <3>1, <3>2 DEF Assign, Overwrite
  <2>5. CASE \E a \in VarSlots \union Members : \E b : AssignMember(a, b)
    <3>1. PICK a \in VarSlots \union Members : \E b : AssignMember(a, b)
      BY <2>5
    <3>2. a \in VarSlots \union Refs
      BY <2>2
    <3> QED
      BY <2>1, <3>1, <3>2 DEF AssignMember, Overwrite
  <2>6. CASE ObjNewRejected
    BY <2>6 DEF ObjNewRejected
  <2> QED
    BY <2>3, <2>4, <2>5, <2>6
<1>4. \A i \in 1..Len(stack') : stack'[i].at \notin ObjCleanup \union Sweeps
  <2>1. CASE stack' = stack
    <3>1. Len(stack') = 1
      BY <1>2, <2>1
    <3>2. \A i \in 1..Len(stack') : i = 1
      BY <3>1
    <3>3. stack'[1].at = "main"
      BY <1>2, <2>1
    <3> QED
      BY <3>2, <3>3 DEF ObjCleanup, Sweeps
  <2>2. ASSUME Room(2), NEW f \in FrameType, NEW s, f.at \in Assigning,
               stack' = stack \o <<f, Drop(s)>>
        PROVE  \A i \in 1..Len(stack') : stack'[i].at \notin ObjCleanup \union Sweeps
    <3>1. /\ Keeps(stack, stack', 1) /\ Len(stack') = 3
          /\ stack'[2] = f /\ stack'[3] = Drop(s) /\ Drop(s).at \in {"drop", "dropAt"}
      BY <1>1, <1>2, <2>2, OverwriteFrames
    <3>2. \A i \in 1..Len(stack') : i = 1 \/ i = 2 \/ i = 3
      BY <3>1
    <3>3. stack'[1].at = "main"
      BY <1>2, <3>1 DEF Keeps
    <3> QED
      BY <2>2, <3>1, <3>2, <3>3 DEF Assigning, ObjCleanup, Sweeps
  <2> QED
    BY <1>3, <2>1, <2>2
<1> QED
  BY <1>1, <1>4

LEMMA MainStatementGoes ==
    ASSUME MarkInv, TypeInv', OnlyLetGo,
           \/ \E v \in Vars : ObjNew(v) \/ \E b \in Lvalues \union {Null} : PtrNew(v, b)
           \/ \E a \in Lvalues, b \in Lvalues \union Self : Assign(a, b)
           \/ \E a \in VarSlots \union Members : \E b : AssignMember(a, b)
           \/ ObjNewRejected
    PROVE  LetsGoAbove(0)
<1>1. TypeInv /\ Top.at = "main"
  BY MainStatementFrames DEF MarkInv, LifeInv, CleanupInv
<1>2. \A i \in 1..Len(stack') : stack'[i].at \notin {"code"} \union Sweeps
  BY MainStatementFrames DEF ObjCleanup
<1> QED
  BY <1>1, <1>2, MainGoes

LEMMA SameGoes ==
    ASSUME TypeInv, UNCHANGED <<live, holds, stack>>
    PROVE  LetsGoAbove(Depth)
<1>1. Keeps(stack, stack', Depth) /\ NoneAbove(stack', Depth, Active)
  BY StackFacts DEF NoneAbove
<1> QED
  BY <1>1, KeptReleases, QuietGoes DEF TmpsKept

LEMMA ClearGoes ==
    ASSUME TypeInv, NEW a \in VarSlots \union Members, Clear(a)
    PROVE  LetsGoAbove(Depth)
<1> DEFINE f == [Frame("store") EXCEPT !.ref = a]
<1>1. a \in VarSlots \union Refs /\ a \in Slots /\ Room(2)
  BY LvalueFacts DEF Clear
<1>2. f \in FrameType /\ f.at = "store"
  BY <1>1, AssignFrames
<1>3. /\ stack' = stack \o <<f, Drop(a)>> /\ live' = live
      /\ holds' = [holds EXCEPT ![a] = Null, ![Tmp(Depth + 1)] = Null,
                                ![Tmp(Depth + 2)] = holds[a]]
  BY DEF Clear, Overwrite
<1> HIDE DEF f
<1>4. /\ Keeps(stack, stack', Depth) /\ Len(stack') = Depth + 2 /\ Depth \in Nat
      /\ stack'[Depth + 1] = f /\ stack'[Depth + 2] = Drop(a)
      /\ Drop(a).at \in {"drop", "dropAt"}
      /\ Depth + 1 \in 1..MaxDepth /\ Depth + 2 \in 1..MaxDepth
  BY <1>1, <1>2, <1>3, OverwriteFrames
<1>5. /\ live \subseteq Refs /\ holds \in [Slots -> Refs \union {Null}]
      /\ Null \notin live
  BY SlotFacts DEF TypeInv, TypeOK
<1>6. TmpsKept(Depth)
  BY <1>1, <1>3, OverwriteTmps DEF TmpsKept
<1>7. holds'[Tmp(Depth + 1)] = Null
  <2>1. /\ Tmp(Depth + 1) \in Slots /\ Tmp(Depth + 1) # Tmp(Depth + 2)
    BY <1>4, SlotFacts
  <2> QED
    BY <1>3, <1>5, <2>1
<1>8. Releases
  <2> SUFFICES ASSUME NEW s \in VarSlots \union Refs
               PROVE  holds'[s] = holds[s] \/ holds'[s] \notin live'
    BY <1>3 DEF Releases
  <2>1. s \in Slots /\ s # Tmp(Depth + 1) /\ s # Tmp(Depth + 2)
    BY SlotFacts
  <2> QED
    BY <1>3, <1>5, <2>1
<1>9. \A i \in 1..Len(stack') : i > Depth => i = Depth + 1 \/ i = Depth + 2
  BY <1>4
<1>10. ASSUME NEW i \in 1..Len(stack'), i > Depth
       PROVE  stack'[i].at \notin {"code", "copy"} \union Sweeps /\ LetsGo(i)'
  <2>1. CASE i = Depth + 1
    <3>1. stack'[i].at = "store" /\ holds'[Tmp(i)] \notin live'
      BY <1>2, <1>3, <1>4, <1>5, <1>7, <2>1
    <3> QED
      BY <3>1 DEF LetsGo, Sweeps
  <2>2. CASE i = Depth + 2
    BY <1>4, <2>2 DEF LetsGo, Sweeps
  <2> QED
    BY <1>9, <1>10, <2>1, <2>2
<1>11. NewFrames(Depth) /\ NewLetsGo(Depth)
  BY <1>10 DEF NewFrames, NewLetsGo
<1> QED
  BY <1>4, <1>6, <1>8, <1>11, AlikeKept DEF LetsGoAbove

LEMMA PtrFreeGoes ==
    ASSUME TypeInv, NEW v \in Vars, PtrFree(v)
    PROVE  LetsGoAbove(Depth)
<1> DEFINE g == Frame("drop")
           r == holds[Var(v)]
<1>1. r \in Refs /\ Erase(r, Depth + 1) /\ stack' = Append(stack, g)
  BY SlotFacts DEF PtrFree
<1>2. g \in FrameType /\ g.at \notin Active
  BY QuietFrames DEF Frame, Active, Sweeps
<1>3. /\ stack \in Seq(FrameType) /\ Len(stack) = Depth /\ Depth \in Nat
  BY StackFacts
<1> HIDE DEF g, r
<1>4. Keeps(stack, stack', Depth) /\ Len(stack') = Depth + 1 /\ stack'[Depth + 1] = g
  BY <1>1, <1>2, <1>3, PushKeeps
<1>5. NoneAbove(stack', Depth, Active)
  BY <1>2, <1>3, <1>4, NoneBeyond
<1>6. TmpsKept(Depth)
  <2>1. Depth + 1 \in Nat /\ Depth < Depth + 1 /\ Depth <= Depth
    BY <1>3
  <2> QED
    BY <1>1, <1>3, <2>1, ErasedTmps DEF TmpsKept
<1> QED
  BY <1>1, <1>4, <1>5, <1>6, EraseReleases, QuietGoes

-----------------------------------------------------------------------------
(* Steps of C++ *)
LEMMA CutGoes ==
    ASSUME TypeInv, NEW k \in 0..Depth, stack' = SubSeq(stack, 1, k), TmpsKept(k),
           Marking => Releases
    PROVE  LetsGoAbove(k)
<1>1. Keeps(stack, stack', k) /\ Len(stack') = k
  BY CutKeeps
<1>2. NoneAbove(stack', k, Active)
  BY <1>1 DEF NoneAbove
<1> QED
  BY <1>1, <1>2, QuietGoes

LEMMA PopGoes ==
    ASSUME TypeInv, stack' = Pop, TmpsKept(Depth - 1), Marking => Releases
    PROVE  LetsGoAbove(Depth - 1)
<1>1. Depth - 1 \in 0..Depth
  BY StackFacts
<1> QED
  BY <1>1, CutGoes DEF Pop

LEMMA BecomeGoes ==
    ASSUME TypeInv, NEW f \in FrameType, f.at \notin Active,
           stack' = Become(f) \/ stack' = Append(Become(f), Frame("drop")),
           TmpsKept(Depth - 1), Marking => Releases
    PROVE  LetsGoAbove(Depth - 1)
<1> DEFINE k == Depth - 1
<1>1. k \in Nat /\ Depth = k + 1
  BY StackFacts
<1>2. /\ Keeps(stack, stack', k) /\ Len(stack') \in {k + 1, k + 2} /\ stack'[k + 1] = f
      /\ Len(stack') = k + 2 => stack'[k + 2] = Frame("drop")
  <2>1. /\ Keeps(stack, stack', Depth - 1) /\ Len(stack') \in {Depth, Depth + 1}
        /\ stack'[Depth] = f
        /\ Len(stack') = Depth + 1 => stack'[Depth + 1] = Frame("drop")
    BY BecomeFrames
  <2> QED
    BY <1>1, <2>1
<1>3. Frame("drop").at \notin Active
  BY DEF Frame, Active, Sweeps
<1> HIDE DEF k
<1>4. NoneAbove(stack', k, Active)
  BY <1>1, <1>2, <1>3, NoneBeyond
<1>5. LetsGoAbove(k)
  <2>1. TmpsKept(k)
    BY DEF k
  <2> QED
    BY <1>2, <1>4, <2>1, QuietGoes
<1> QED
  BY <1>5 DEF k

LEMMA EndGoes ==
    ASSUME MarkInv, CopyEnd \/ StoreEnd \/ DropOne
    PROVE  LetsGoAbove(Depth - 1)
<1>1. /\ Top.at # "main" /\ Top.at \notin Sweeps /\ stack' = Pop /\ live' = live
  BY DEF CopyEnd, StoreEnd, DropOne, Dropping, Sweeps
<1>2. /\ TypeInv /\ StandsOn(Top, stack[Depth - 1]) /\ stack[Depth] = Top
      /\ holds \in [Slots -> Refs \union {Null}] /\ live \subseteq Refs
      /\ Null \notin live /\ Depth \in Nat
  BY <1>1, TopFrame, SlotFacts DEF MarkInv, TypeInv, TypeOK
<1>3. Top.at \in Assigning => Top.ref \in VarSlots \union Refs
  BY <1>2 DEF StandsOn
<1>4. TmpsKept(Depth - 1)
  <2> SUFFICES ASSUME NEW i \in 1..(Depth - 1) PROVE holds'[Tmp(i)] = holds[Tmp(i)]
    BY DEF TmpsKept
  <2>1. /\ Tmp(i) \in Slots /\ Tmp(i) # Tmp(Depth)
        /\ \A s \in VarSlots \union Refs : Tmp(i) # s
    BY <1>2, BelowTmp
  <2>2. Top.at \in Assigning => Tmp(i) # Top.ref
    BY <1>3, <2>1
  <2> QED
    BY <1>2, <2>1, <2>2 DEF CopyEnd, StoreEnd, DropOne, Assigning
<1>5. ASSUME Marking PROVE Releases
  <2>1. Top.at # "copy" /\ (Top.at = "store" => holds[Tmp(Depth)] \notin live)
    BY <1>1, <1>2, <1>5, MarkingTop DEF LetsGo
  <2>2. \A s \in VarSlots \union Refs : s # Tmp(Depth) /\ s \in Slots
    BY SlotFacts
  <2>3. CASE StoreEnd
    BY <1>1, <1>2, <2>1, <2>2, <2>3 DEF StoreEnd, Releases
  <2>4. CASE DropOne
    BY <1>1, <1>2, <2>2, <2>4 DEF DropOne, Releases
  <2> QED
    BY <2>1, <2>3, <2>4 DEF CopyEnd
<1> QED
  BY <1>1, <1>2, <1>4, <1>5, PopGoes

(* Erase by the frame at the top, or by one above it *)
LEMMA ErasedBelow ==
    ASSUME TypeInv, NEW r \in Refs, NEW i \in {Depth, Depth + 1}, Erase(r, i)
    PROVE  Releases /\ TmpsKept(Depth - 1) /\ (i = Depth + 1 => TmpsKept(Depth))
<1>1. Depth \in Nat /\ Depth >= 1
  BY StackFacts
<1>2. /\ i \in Nat /\ Depth - 1 \in Nat /\ Depth - 1 <= Depth /\ Depth - 1 < i
      /\ i = Depth + 1 => Depth < i
  BY <1>1
<1>3. TmpsKept(Depth - 1)
  BY <1>2, ErasedTmps DEF TmpsKept
<1>4. i = Depth + 1 => TmpsKept(Depth)
  BY <1>1, <1>2, ErasedTmps DEF TmpsKept
<1> QED
  BY <1>3, <1>4, EraseReleases

LEMMA DropLastPtrGoes ==
    ASSUME TypeInv, DropLastPtr
    PROVE  LetsGoAbove(Depth - 1)
<1> DEFINE g == Frame("drop")
<1>1. stack' = Become(g) /\ Dropped \in Refs /\ Erase(Dropped, Depth)
  BY SlotFacts DEF DropLastPtr
<1>2. g \in FrameType /\ g.at \notin Active
  BY QuietFrames DEF Frame, Active, Sweeps
<1> HIDE DEF g
<1>3. Releases /\ TmpsKept(Depth - 1)
  BY <1>1, ErasedBelow
<1> QED
  BY <1>1, <1>2, <1>3, BecomeGoes

LEMMA DropLastObjGoes ==
    ASSUME TypeInv, DropLastObj
    PROVE  LetsGoAbove(Depth - 1)
<1> DEFINE k == Depth - 1
           r == Dropped
           f == [Frame(IF Top.at = "drop" THEN "base" ELSE "baseAt") EXCEPT !.ref = r]
           code == [Frame("code") EXCEPT !.ref = r]
<1>1. r \in Objs /\ r \in Slots /\ live' = live /\ r = holds[Tmp(Depth)]
  BY SlotFacts DEF DropLastObj, Dropped
<1>2. /\ f \in FrameType /\ f.at \in {"base", "baseAt"}
      /\ code \in FrameType /\ code.at = "code" /\ code.ref = r
  BY <1>1 DEF Frame, FrameType, Places
<1>3. /\ k \in Nat /\ Depth = k + 1 /\ f.at \notin Active
      /\ holds \in [Slots -> Refs \union {Null}] /\ live \subseteq Refs
      /\ Null \notin live
  BY <1>2, StackFacts, SlotFacts DEF Active, Sweeps, TypeInv, TypeOK
<1>4. \/ stack' = Append(Become(f), code) /\ holds' = holds
      \/ stack' = Become(f) /\ holds' = [holds EXCEPT ![Tmp(Depth)] = Null]
  BY DEF DropLastObj
<1> HIDE DEF f, code, r
<1>5. TmpsKept(Depth - 1) /\ Releases
  <2>1. \A s \in VarSlots \union Refs : s # Tmp(Depth) /\ s \in Slots
    BY SlotFacts
  <2>2. \A i \in 1..(Depth - 1) : Tmp(i) \in Slots /\ Tmp(i) # Tmp(Depth)
    BY BelowTmp
  <2> QED
    BY <1>1, <1>3, <1>4, <2>1, <2>2 DEF TmpsKept, Releases
<1>6. CASE stack' = Append(Become(f), code) /\ holds' = holds
  <2>1. /\ Keeps(stack, stack', Depth - 1) /\ Len(stack') = Depth + 1
        /\ stack'[Depth] = f /\ stack'[Depth + 1] = code
    BY <1>2, <1>6, BecomePushed
  <2>2. /\ Len(stack') = k + 2 /\ stack'[k + 1] = f /\ stack'[k + 2] = code
        /\ KeepsAlike(stack, stack', k) /\ holds'[Tmp(k + 1)] = r
    BY <1>1, <1>3, <1>6, <2>1, AlikeKept
  <2>3. TmpsKept(k)
    BY <1>5
  <2> HIDE DEF k
  <2>4. LetsGoAbove(k)
    BY <1>2, <1>3, <1>5, <2>2, <2>3, CallGoes
  <2> QED
    BY <2>4 DEF k
<1>7. CASE stack' = Become(f)
  BY <1>2, <1>3, <1>5, <1>7, BecomeGoes
<1> QED
  BY <1>4, <1>6, <1>7

LEMMA BaseFreeGoes ==
    ASSUME TypeInv, BaseFree
    PROVE  LetsGoAbove(Depth - 1)
<1> DEFINE at == IF Top.at = "baseCatch" THEN "baseThrow" ELSE "baseEnd"
           f == [Top EXCEPT !.at = at]
<1>1. /\ Top.at \in ObjCleanup /\ Top \in FrameType
      /\ f \in FrameType /\ f.at \in {"baseThrow", "baseEnd"}
  <2>1. Top \in FrameType /\ Top.at \in ObjCleanup
    BY TopFacts DEF BaseFree, ObjCleanup
  <2>2. at \in Places /\ at \in {"baseThrow", "baseEnd"}
    BY DEF Places
  <2> HIDE DEF at
  <2>3. f \in FrameType /\ f.at = at
    BY <2>1, <2>2, FrameFacts DEF FrameType
  <2> QED
    BY <2>1, <2>2, <2>3
<1>2. f.at \notin Active
  BY <1>1 DEF Active, Sweeps
<1>3. Top.ref \in Refs
  BY <1>1, TopFacts, SlotFacts DEF StandsOn, ObjCleanup
<1>4. \/ stack' = Append(Become(f), Frame("drop")) /\ Erase(Top.ref, Depth + 1)
      \/ stack' = Become(f) /\ Kept
  BY DEF BaseFree
<1> HIDE DEF f
<1>5. TmpsKept(Depth - 1) /\ Releases
  BY <1>3, <1>4, ErasedBelow, KeptReleases DEF Kept, TmpsKept
<1> QED
  BY <1>1, <1>2, <1>4, <1>5, BecomeGoes

LEMMA BaseEndGoes ==
    ASSUME TypeInv, BaseEnd
    PROVE  LetsGoAbove(Depth - 1)
<1>1. /\ stack' = Pop /\ live' = live
      /\ holds' = [holds EXCEPT ![Tmp(Depth)] = Null]
      /\ holds \in [Slots -> Refs \union {Null}]
  BY DEF BaseEnd, TypeInv, TypeOK
<1>2. \A s \in VarSlots \union Refs : s # Tmp(Depth) /\ s \in Slots
  BY SlotFacts
<1>3. \A i \in 1..(Depth - 1) : Tmp(i) \in Slots /\ Tmp(i) # Tmp(Depth)
  BY BelowTmp
<1>4. TmpsKept(Depth - 1) /\ Releases
  BY <1>1, <1>2, <1>3 DEF TmpsKept, Releases
<1> QED
  BY <1>1, <1>4, PopGoes

(* The target gets its old value back, which is gone. *)
LEMMA BaseThrowGoes ==
    ASSUME LifeInv, BaseThrow
    PROVE  LetsGoAbove(Depth - 2)
<1> DEFINE a == stack[Depth - 1].ref
           t == Tmp(Depth - 1)
           u == Tmp(Depth)
           w == Top.ref
           ok == Alive(a)
<1>1. /\ Top.at = "baseThrow" /\ stack' = SubSeq(stack, 1, Depth - 2) /\ live' = live
      /\ holds' = [holds EXCEPT ![u] = Null, ![t] = Null,
                                ![a] = IF ok THEN w ELSE @]
  BY DEF BaseThrow
<1>2. /\ TypeInv /\ FrameSound(Depth) /\ stack[Depth] = Top
      /\ holds \in [Slots -> Refs \union {Null}] /\ Null \notin live
  BY <1>1, TopFrame, SlotFacts DEF TypeInv, TypeOK
<1>3. Depth > 2 /\ Depth \in Nat /\ a \in VarSlots \union Refs
  BY <1>1, <1>2, StackFacts, UnderAssignAt DEF AssignAt
<1>4. w \notin live /\ ok \in BOOLEAN
  BY <1>1, <1>2 DEF FrameSound, Freed, Alive
<1>5. /\ Depth - 2 \in 0..Depth
      /\ \A i \in 1..(Depth - 2) : i \in 1..(Depth - 1) /\ i # Depth - 1
  BY <1>3
<1>6. \A s \in VarSlots \union Refs : s # u /\ s # t /\ s \in Slots
  BY SlotFacts
<1>7. \A i \in 1..(Depth - 2) : /\ Tmp(i) \in Slots /\ Tmp(i) # u /\ Tmp(i) # t
                                /\ Tmp(i) # a
  BY <1>2, <1>3, <1>5, BelowTmp, SlotFacts
<1> HIDE DEF a, t, u, w, ok
<1>8. TmpsKept(Depth - 2)
  BY <1>1, <1>2, <1>7 DEF TmpsKept
<1>9. Releases
  <2> SUFFICES ASSUME NEW s \in VarSlots \union Refs
               PROVE  holds'[s] = holds[s] \/ holds'[s] \notin live'
    BY <1>1 DEF Releases
  <2>1. CASE s # a
    BY <1>1, <1>2, <1>6, <2>1
  <2>2. CASE s = a /\ ok
    BY <1>1, <1>2, <1>4, <1>6, <2>2
  <2>3. CASE s = a /\ ~ok
    BY <1>1, <1>2, <1>6, <2>3
  <2> QED
    BY <1>4, <2>1, <2>2, <2>3
<1> QED
  BY <1>1, <1>2, <1>5, <1>8, <1>9, CutGoes

LEMMA EnvTReturnGoes ==
    ASSUME TypeInv, EnvTReturn
    PROVE  LetsGoAbove(Depth - 1)
<1> DEFINE f == [Top EXCEPT !.at = "envtFree"]
<1>1. /\ Top \in FrameType /\ f \in FrameType /\ f.at = "envtFree"
      /\ f.at \notin Active
  BY TopFacts DEF FrameType, Places, Active, Sweeps
<1>2. /\ stack' = Append(Become(f), Frame("drop")) /\ live' = live
      /\ holds' = [holds EXCEPT ![Tmp(Depth)] = Null, ![Tmp(Depth + 1)] = holds[Tmp(Depth)]]
      /\ holds \in [Slots -> Refs \union {Null}]
  BY DEF EnvTReturn, TypeInv, TypeOK
<1> HIDE DEF f
<1>3. \A s \in VarSlots \union Refs : s # Tmp(Depth) /\ s # Tmp(Depth + 1) /\ s \in Slots
  BY SlotFacts
<1>4. \A i \in 1..(Depth - 1) : /\ Tmp(i) \in Slots /\ Tmp(i) # Tmp(Depth)
                                /\ Tmp(i) # Tmp(Depth + 1)
  <2> SUFFICES ASSUME NEW i \in 1..(Depth - 1)
               PROVE  /\ Tmp(i) \in Slots /\ Tmp(i) # Tmp(Depth) /\ Tmp(i) # Tmp(Depth + 1)
    OBVIOUS
  <2>1. i # Depth + 1
    BY StackFacts
  <2> QED
    BY <2>1, BelowTmp, SlotFacts
<1>5. TmpsKept(Depth - 1) /\ Releases
  BY <1>2, <1>3, <1>4 DEF TmpsKept, Releases
<1> QED
  BY <1>1, <1>2, <1>5, BecomeGoes

LEMMA EnvTFreeGoes ==
    ASSUME TypeInv, EnvTFree
    PROVE  LetsGoAbove(Depth - 1)
<1> DEFINE g == Frame("drop")
<1>1. Top.ref \in Refs
  BY TopFacts, SlotFacts DEF EnvTFree, StandsOn, ObjCleanup
<1>2. g \in FrameType /\ g.at \notin Active
  BY QuietFrames DEF Frame, Active, Sweeps
<1>3. \/ Erase(Top.ref, Depth) /\ stack' = Become(g)
      \/ stack' = Pop /\ Kept
  BY DEF EnvTFree
<1> HIDE DEF g
<1>4. TmpsKept(Depth - 1) /\ Releases
  BY <1>1, <1>3, ErasedBelow, KeptReleases DEF Kept, TmpsKept
<1> QED
  BY <1>2, <1>3, <1>4, BecomeGoes, PopGoes

LEMMA CleanupReturnsGoes ==
    ASSUME TypeInv, CleanupReturns
    PROVE  LetsGoAbove(Depth - 1)
<1>1. stack' = Pop /\ UNCHANGED <<live, holds>>
  BY DEF CleanupReturns
<1> QED
  BY <1>1, KeptReleases, PopGoes DEF TmpsKept

LEMMA CleanupThrowsGoes ==
    ASSUME TypeInv, CleanupThrows
    PROVE  \E k \in Nat : LetsGoAbove(k)
<1> DEFINE k == Depth - 2
           below == stack[k + 1]
<1>1. /\ Len(stack) = k + 2 /\ k \in Nat /\ k >= 1 /\ Depth = k + 2
      /\ Depth - 1 = k + 1 /\ Depth - 3 = k - 1
      /\ stack[k + 2].at = "code" /\ below \in FrameType
      /\ stack[k].at = "gcObj" => k >= 2
  <2>1. Top.at = "code"
    BY DEF CleanupThrows
  <2> QED
    BY <2>1, StackFacts, UnderCode
<1> HIDE DEF k
<1>2. live' = live /\ holds \in [Slots -> Refs \union {Null}] /\ Null \notin live
  BY SlotFacts DEF CleanupThrows, TypeInv, TypeOK
<1>3. CASE below.at = "base"
  <2>1. UNCHANGED <<holds, stack>>
    BY <1>1, <1>3, Zenon DEF CleanupThrows
  <2>2. LetsGoAbove(Depth)
    BY <2>1, <1>2, SameGoes
  <2> QED
    BY <1>1, <2>2
<1>4. CASE below.at = "baseAt"
  <2>1. stack' = [Pop EXCEPT ![k + 1].at = "baseCatch"] /\ holds' = holds
    BY <1>1, <1>4 DEF CleanupThrows
  <2>2. /\ Pop \in Seq(FrameType) /\ Len(Pop) = k + 1
        /\ \A i \in 1..(k + 1) : Pop[i] = stack[i]
    BY <1>1, PopKeeps DEF Keeps
  <2> DEFINE f == [below EXCEPT !.at = "baseCatch"]
  <2>3. f \in FrameType /\ f.at = "baseCatch"
    BY <1>1 DEF FrameType, Places
  <2>4. stack' = [Pop EXCEPT ![k + 1] = f]
    <3>1. Pop[k + 1] = below
      BY <1>1, <2>2
    <3> QED
      BY <2>1, <3>1
  <2> HIDE DEF f, below
  <2>5. /\ Keeps(stack, stack', k) /\ Len(stack') = k + 1 /\ stack'[k + 1] = f
    BY <1>1, <2>2, <2>3, <2>4 DEF Keeps
  <2>6. f.at \notin Active
    BY <2>3 DEF Active, Sweeps
  <2>7. NoneAbove(stack', k, Active)
    BY <1>1, <2>5, <2>6, NoneBeyond
  <2>8. TmpsKept(k) /\ Releases
    BY <1>2, <2>1 DEF TmpsKept, Releases
  <2>9. LetsGoAbove(k)
    BY <2>5, <2>7, <2>8, QuietGoes
  <2> QED
    BY <1>1, <2>9
<1>5. CASE below.at = "envt"
  <2> DEFINE n == IF stack[k].at = "gcObj" THEN k - 1 ELSE k
  <2>1. /\ stack' = SubSeq(stack, 1, n)
        /\ holds' = [holds EXCEPT ![Tmp(k + 1)] = Null]
    BY <1>1, <1>5 DEF CleanupThrows, k
  <2>2. n \in Nat /\ n \in 0..Depth /\ n < k + 1
        /\ \A i \in 1..n : i \in 1..(Depth - 1) /\ i # k + 1
    BY <1>1
  <2> HIDE DEF n
  <2>3. \A s \in VarSlots \union Refs : s # Tmp(k + 1) /\ s \in Slots
    BY SlotFacts
  <2>4. \A i \in 1..n : Tmp(i) \in Slots /\ Tmp(i) # Tmp(k + 1)
    BY <2>2, BelowTmp, SlotFacts
  <2>5. TmpsKept(n) /\ Releases
    BY <1>2, <2>1, <2>3, <2>4 DEF TmpsKept, Releases
  <2>6. LetsGoAbove(n)
    BY <2>1, <2>2, <2>5, CutGoes
  <2> QED
    BY <2>2, <2>6
<1> QED
  <2>1. below.at \in {"base", "baseAt", "envt"}
    BY <1>1 DEF CleanupThrows
  <2> QED
    BY <2>1, <1>3, <1>4, <1>5

-----------------------------------------------------------------------------
(* EnvT::ObjCleanup, from a statement or from HEAP_GC *)
LEMMA EnvTCleanupGoes ==
    ASSUME TypeInv, NEW r \in Objs, NEW below \in Seq(FrameType), Len(below) = Depth,
           KeepsAlike(stack, below, Depth), EnvTCleanup(r, below)
    PROVE  LetsGoAbove(Depth)
<1> DEFINE f == [Frame("envt") EXCEPT !.ref = r]
           code == [Frame("code") EXCEPT !.ref = r]
           g == Frame("drop")
<1>1. /\ Depth \in Nat /\ Depth >= 1 /\ r \in Refs /\ r \in Slots
      /\ holds \in [Slots -> Refs \union {Null}]
  BY StackFacts, SlotFacts DEF TypeInv, TypeOK
<1>2. /\ f \in FrameType /\ f.at \notin Active
      /\ code \in FrameType /\ code.at = "code" /\ code.ref = r
      /\ g \in FrameType /\ g.at \notin Active
  BY <1>1 DEF Frame, FrameType, Places, Active, Sweeps, Slots
<1>3. \/ /\ stack' = below \o <<f, code>> /\ live' = live /\ Depth + 2 <= MaxDepth
         /\ holds' = [holds EXCEPT ![Tmp(Depth + 1)] = r]
      \/ stack' = Append(below, g) /\ Erase(r, Depth + 1)
  <2>1. Len(below) + 1 = Depth + 1 /\ Depth + 1 + 1 = Depth + 2
    BY <1>1
  <2> QED
    BY <2>1 DEF EnvTCleanup
<1> HIDE DEF f, code, g
<1>4. CASE /\ stack' = below \o <<f, code>> /\ live' = live /\ Depth + 2 <= MaxDepth
           /\ holds' = [holds EXCEPT ![Tmp(Depth + 1)] = r]
  <2>1. /\ Keeps(below, stack', Depth) /\ Len(stack') = Depth + 2
        /\ stack'[Depth + 1] = f /\ stack'[Depth + 2] = code
    BY <1>2, <1>4, Push2Keeps
  <2>2. KeepsAlike(stack, stack', Depth)
    BY <2>1 DEF Keeps, KeepsAlike
  <2>3. \A s \in VarSlots \union Refs : s # Tmp(Depth + 1) /\ s \in Slots
    BY SlotFacts
  <2>4. Tmp(Depth + 1) \in Slots
    <3>1. Depth + 1 \in 1..MaxDepth
      BY <1>1, <1>4, MaxDepthAssumption
    <3> QED
      BY <3>1, SlotFacts
  <2>5. \A i \in 1..Depth : Tmp(i) # Tmp(Depth + 1)
    <3>1. \A i \in 1..Depth : i # Depth + 1
      BY <1>1
    <3> QED
      BY <3>1, SlotFacts
  <2>6. Releases /\ TmpsKept(Depth) /\ holds'[Tmp(Depth + 1)] = r
    BY <1>1, <1>4, <2>3, <2>4, <2>5 DEF Releases, TmpsKept
  <2> QED
    BY <1>2, <2>1, <2>2, <2>6, CallGoes
<1>5. CASE stack' = Append(below, g) /\ Erase(r, Depth + 1)
  <2>1. /\ Keeps(below, stack', Depth) /\ Len(stack') = Depth + 1
        /\ stack'[Depth + 1] = g
    BY <1>2, <1>5, PushKeeps
  <2>2. KeepsAlike(stack, stack', Depth)
    BY <2>1 DEF Keeps, KeepsAlike
  <2>3. NoneAbove(stack', Depth, Active)
    BY <1>1, <1>2, <2>1, NoneBeyond
  <2>4. NewFrames(Depth) /\ NewLetsGo(Depth)
    BY <2>3 DEF NoneAbove, Active, NewFrames, NewLetsGo, LetsGo
  <2>5. Releases /\ TmpsKept(Depth)
    BY <1>1, <1>5, ErasedBelow
  <2> QED
    BY <2>2, <2>4, <2>5 DEF LetsGoAbove
<1> QED
  BY <1>3, <1>4, <1>5

LEMMA ObjDestroyGoes ==
    ASSUME TypeInv, NEW v \in Vars, ObjDestroy(v)
    PROVE  LetsGoAbove(Depth)
<1>1. /\ stack \in Seq(FrameType) /\ Len(stack) = Depth
      /\ KeepsAlike(stack, stack, Depth)
  BY StackFacts, AlikeKept
<1>2. holds[Var(v)] \in Objs /\ EnvTCleanup(holds[Var(v)], stack)
  BY DEF ObjDestroy, Cleanable
<1> QED
  BY <1>1, <1>2, EnvTCleanupGoes

(* HEAP_GC takes the first of what is left to sweep. *)
LEMMA NextAlike ==
    ASSUME TypeInv, Top.at \in Sweeps, Top.todo # {}
    PROVE  LET r == First(Top.todo)
               next == Become([Top EXCEPT !.todo = @ \ {r}])
           IN  /\ r \in Top.todo /\ r \in Refs
               /\ next \in Seq(FrameType) /\ Len(next) = Depth
               /\ KeepsAlike(stack, next, Depth)
               /\ next[Depth] = [Top EXCEPT !.todo = @ \ {r}]
               /\ \A i \in 1..(Depth - 1) : next[i] = stack[i]
<1> DEFINE r == First(Top.todo)
           f == [Top EXCEPT !.todo = @ \ {r}]
           next == Become(f)
<1>1. /\ Top \in FrameType /\ Top.todo \subseteq Refs /\ Depth \in Nat /\ Depth >= 1
      /\ Top = stack[Depth] /\ Len(stack) = Depth
  BY TopFacts, StackFacts, FrameFacts
<1>2. r \in Top.todo
  BY <1>1, FirstFacts
<1>3. f \in FrameType /\ Alike(Top, f)
  BY <1>1 DEF FrameType, Alike
<1> HIDE DEF r, f
<1>4. /\ next \in Seq(FrameType) /\ Len(next) = Depth
      /\ Keeps(stack, next, Depth - 1) /\ next[Depth] = f
  BY <1>3, BecomeKeeps
<1> HIDE DEF next
<1>5. /\ \A i \in 1..(Depth - 1) : next[i] = stack[i]
      /\ KeepsAlike(stack, next, Depth)
  <2>1. \A i \in 1..(Depth - 1) : next[i] = stack[i]
    BY <1>4 DEF Keeps
  <2>2. ASSUME NEW i \in 1..Depth PROVE Alike(stack[i], next[i])
    <3>1. CASE i = Depth
      BY <1>1, <1>3, <1>4, <3>1
    <3>2. CASE i \in 1..(Depth - 1)
      BY <2>1, <3>2 DEF Alike
    <3> QED
      BY <1>1, <3>1, <3>2
  <2> QED
    BY <1>1, <1>4, <2>1, <2>2 DEF KeepsAlike
<1> QED
  BY <1>1, <1>2, <1>4, <1>5 DEF r, f, next

LEMMA NothingNewGoes ==
    ASSUME TypeInv, KeepsAlike(stack, stack', Depth), Len(stack') = Depth,
           UNCHANGED <<live, holds>>
    PROVE  LetsGoAbove(Depth)
<1>1. \A i \in 1..Len(stack') : ~(i > Depth)
  BY StackFacts
<1>2. NewFrames(Depth) /\ NewLetsGo(Depth)
  BY <1>1 DEF NewFrames, NewLetsGo
<1> QED
  BY <1>2, KeptReleases DEF LetsGoAbove, TmpsKept

LEMMA GCObjGoes ==
    ASSUME TypeInv, GCObj
    PROVE  LetsGoAbove(Depth)
<1> DEFINE r == First(Top.todo)
           next == Become([Top EXCEPT !.todo = @ \ {r}])
<1>1. /\ next \in Seq(FrameType) /\ Len(next) = Depth
      /\ KeepsAlike(stack, next, Depth)
  BY NextAlike DEF GCObj, Sweeps
<1>2. CASE Cleanable(r)
  <2>1. r \in Objs /\ EnvTCleanup(r, next)
    BY <1>2 DEF GCObj, Cleanable
  <2> HIDE DEF r, next
  <2> QED
    BY <1>1, <2>1, EnvTCleanupGoes
<1>3. CASE ~Cleanable(r)
  <2>1. stack' = next /\ UNCHANGED <<live, holds>>
    BY <1>3 DEF GCObj, Kept
  <2> HIDE DEF r, next
  <2> QED
    BY <1>1, <2>1, NothingNewGoes
<1> QED
  BY <1>2, <1>3

LEMMA GCPtrGoes ==
    ASSUME TypeInv, GCPtr
    PROVE  LetsGoAbove(Depth)
<1> DEFINE r == First(Top.todo)
           next == Become([Top EXCEPT !.todo = @ \ {r}])
           g == Frame("drop")
<1>1. /\ next \in Seq(FrameType) /\ Len(next) = Depth /\ r \in Refs
      /\ KeepsAlike(stack, next, Depth) /\ Depth \in Nat
  BY NextAlike, StackFacts DEF GCPtr, Sweeps
<1>2. \/ Erase(r, Depth + 1) /\ stack' = Append(next, g)
      \/ stack' = next /\ UNCHANGED <<live, holds>>
  BY DEF GCPtr, Kept
<1>3. g \in FrameType /\ g.at \notin Active
  BY QuietFrames DEF Frame, Active, Sweeps
<1> HIDE DEF r, next, g
<1>4. CASE Erase(r, Depth + 1) /\ stack' = Append(next, g)
  <2>1. /\ Keeps(next, stack', Depth) /\ Len(stack') = Depth + 1
        /\ stack'[Depth + 1] = g
    BY <1>1, <1>3, <1>4, PushKeeps
  <2>2. KeepsAlike(stack, stack', Depth)
    BY <1>1, <2>1 DEF Keeps, KeepsAlike
  <2>3. NoneAbove(stack', Depth, Active)
    BY <1>1, <1>3, <2>1, NoneBeyond
  <2>4. NewFrames(Depth) /\ NewLetsGo(Depth)
    BY <2>3 DEF NoneAbove, Active, NewFrames, NewLetsGo, LetsGo
  <2>5. Releases /\ TmpsKept(Depth)
    BY <1>1, <1>4, ErasedBelow
  <2> QED
    BY <2>2, <2>4, <2>5 DEF LetsGoAbove
<1>5. CASE stack' = next /\ UNCHANGED <<live, holds>>
  BY <1>1, <1>5, NothingNewGoes
<1> QED
  BY <1>2, <1>4, <1>5

LEMMA GCEndGoes ==
    ASSUME TypeInv, GCEnd
    PROVE  LetsGoAbove(Depth - 1)
<1>1. stack' = Pop /\ UNCHANGED <<live, holds>>
  BY DEF GCEnd
<1> QED
  BY <1>1, KeptReleases, PopGoes DEF TmpsKept

-----------------------------------------------------------------------------
(* Marking *)
ClosedOver(S, roots) ==
    /\ roots \intersect live \subseteq S
    /\ \A r \in S : holds[r] \in live => holds[r] \in S

(* What the recursion of HEAP_GC reaches is the least closed set. *)
LEMMA ReachedFacts ==
    ASSUME NEW roots
    PROVE  /\ Reached(roots) \subseteq live /\ ClosedOver(Reached(roots), roots)
           /\ \A S \in SUBSET live : ClosedOver(S, roots) => Reached(roots) \subseteq S
<1>1. Reached(roots) = {r \in live : \A S \in SUBSET live :
                                        ClosedOver(S, roots) => r \in S}
  BY DEF Reached, ClosedOver
<1>2. ClosedOver(Reached(roots), roots)
  <2>1. roots \intersect live \subseteq Reached(roots)
    BY <1>1 DEF ClosedOver
  <2>2. ASSUME NEW r \in Reached(roots), holds[r] \in live
        PROVE  holds[r] \in Reached(roots)
    BY <1>1, <2>2 DEF ClosedOver
  <2> QED
    BY <2>1, <2>2 DEF ClosedOver
<1> QED
  BY <1>1, <1>2

(* What HEAP_GC starts from is what interpreted code can name. *)
LEMMA RootsNameable ==
    ASSUME SelfHeld
    PROVE  Roots = Nameable
BY DEF SelfHeld, Roots, Nameable

LEMMA RootsIn ==
    ASSUME NEW S, ClosedOver(S, Roots)
    PROVE  /\ \A s \in VarSlots : holds[s] \in live => holds[s] \in S
           /\ \A i \in 1..Depth : stack[i].at = "code" /\ stack[i].ref \in live
                                     => stack[i].ref \in S
BY DEF ClosedOver, Roots

(* What HEAP_GC of the top frame spares holds whatever can be reached. *)
LEMMA SparedReached ==
    ASSUME MarkInv, NEW A \in SUBSET Refs, Spared(A, Depth)
    PROVE  Reached(Roots) \subseteq A
<1>1. ClosedOver(A \intersect live, Roots)
  <2>1. ASSUME NEW x \in Roots \intersect live PROVE x \in A
    <3>1. CASE \E s \in VarSlots : x = holds[s]
      BY <2>1, <3>1 DEF Spared
    <3>2. CASE \E i \in 1..Depth : stack[i].at = "code" /\ x = stack[i].ref
      BY <2>1, <3>2 DEF Spared
    <3> QED
      BY <2>1, <3>1, <3>2 DEF Roots
  <2>2. \A r \in A \intersect live : holds[r] \in live => holds[r] \in A \intersect live
    BY DEF Spared
  <2> QED
    BY <2>1, <2>2 DEF ClosedOver
<1>2. A \intersect live \in SUBSET live
  OBVIOUS
<1> QED
  BY <1>1, <1>2, ReachedFacts

(* a new HEAP_GC, or a new pass, marks from scratch *)
LEMMA SweepMarks ==
    ASSUME MarkInv, TypeInv', NEW k, Keeps(stack, stack', k), k \in {Depth - 1, Depth},
           Len(stack') = k + 1, NEW mode, stack'[k + 1] = Sweep(mode),
           UNCHANGED <<live, holds>>, Reached(Roots) \intersect doomed' = {}
    PROVE  Marked(k + 1)'
<1>1. /\ TypeInv /\ Depth \in Nat /\ k \in Nat /\ live \subseteq Refs
      /\ \A i \in 1..k : i \in 1..Depth /\ stack'[i] = stack[i]
  BY StackFacts DEF MarkInv, LifeInv, CleanupInv, TypeInv, TypeOK, Keeps
<1>2. Reached(Roots) \subseteq live /\ ClosedOver(Reached(Roots), Roots)
  BY ReachedFacts
<1>3. PICK A \in SUBSET Refs : A = Reached(Roots)
  BY <1>1, <1>2
<1>4. /\ \A s \in VarSlots : holds'[s] \in live' => holds'[s] \in A
      /\ \A i \in 1..Depth : stack[i].at = "code" /\ stack[i].ref \in live
                                => stack[i].ref \in A
      /\ \A r \in A : holds'[r] \in live' => holds'[r] \in A
  BY <1>2, <1>3, RootsIn DEF ClosedOver
<1>5. /\ stack'[k + 1].at = "gcObj" /\ A \intersect Ptrs = stack'[k + 1].keep
      /\ A \intersect doomed' = {}
  BY <1>3 DEF Sweep, Frame
<1>6. \A i \in 1..(k + 1) : stack'[i].at = "code" /\ stack'[i].ref \in live'
                               => stack'[i].ref \in A
  <2> SUFFICES ASSUME NEW i \in 1..(k + 1), stack'[i].at = "code", stack'[i].ref \in live
               PROVE  stack'[i].ref \in A
    OBVIOUS
  <2>1. i # k + 1
    BY <1>5
  <2>2. i \in 1..k
    BY <1>1, <2>1
  <2> QED
    BY <1>1, <1>4, <2>2
<1>7. Spared(A, k + 1)'
  BY <1>4, <1>5, <1>6 DEF Spared
<1> QED
  BY <1>7 DEF Marked

(* the lowest frames and a new one, the only one that sweeps *)
LEMMA NewMark ==
    ASSUME MarkInv, LifeInv', NEW k, Keeps(stack, stack', k), k \in {Depth - 1, Depth},
           Len(stack') = k + 1, stack'[k + 1].at \in Sweeps, holds' = holds,
           Marked(k + 1)', gcPass' # 0
    PROVE  MarkInv'
<1>1. /\ TypeInv /\ TypeInv' /\ Depth' = Len(stack') /\ k \in Nat
      /\ SweepFlagged(stack', gcPass')
  BY StackFacts DEF MarkInv, LifeInv, CleanupInv, Keeps, Depth
<1>2. SelfHeld'
  <2>1. \A i \in 1..Len(stack') : i > k => i = k + 1
    BY <1>1
  <2>2. stack'[k + 1].at # "code"
    BY DEF Sweeps
  <2> QED
    BY <1>1, <2>1, <2>2, AlikeKept, SelfKept DEF MarkInv, TmpsKept
<1>3. ASSUME NEW g \in 1..Depth', stack'[g].at \in Sweeps
      PROVE  Marked(g)' /\ \A i \in 1..Depth' : i > g => LetsGo(i)'
  <2>1. k + 1 \in 1..Len(stack')
    BY <1>1
  <2>2. g = k + 1
    BY <1>1, <1>3, <2>1 DEF SweepFlagged
  <2>3. \A i \in 1..Depth' : ~(i > g)
    BY <1>1, <2>2
  <2> QED
    BY <2>2, <2>3
<1> QED
  BY <1>2, <1>3 DEF MarkInv

LEMMA HeapGCMarks ==
    ASSUME MarkInv, LifeInv', NEW mode \in GCModes, HeapGC(mode), SweepNext
    PROVE  MarkInv'
<1> DEFINE f == Sweep(mode)
<1>1. /\ stack' = Append(stack, f) /\ UNCHANGED <<live, holds>>
      /\ gcPass = 0 /\ gcPass' = 1
  BY DEF HeapGC
<1>2. /\ TypeInv /\ TypeInv' /\ stack \in Seq(FrameType) /\ Len(stack) = Depth
      /\ Depth \in Nat /\ f \in FrameType /\ f.at \in Sweeps
  <2>1. f \in FrameType /\ f.at = "gcObj" /\ TypeInv /\ TypeInv'
    BY SweepFacts, GCModesAssumption DEF MarkInv, LifeInv, CleanupInv
  <2> HIDE DEF f
  <2> QED
    BY <2>1, StackFacts DEF Sweeps
<1>3. Reached(Roots) \intersect doomed' = {}
  <2>1. doomed = {} /\ Roots = Nameable
    BY <1>1, RootsNameable DEF MarkInv
  <2>2. doomed' = doomed \union Unreachable
    BY DEF SweepNext, GCStatement
  <2> QED
    BY <2>1, <2>2 DEF Unreachable
<1>4. f = Sweep(mode)
  OBVIOUS
<1> HIDE DEF f
<1>5. PICK n \in Nat : n = Depth
  BY <1>2
<1>6. Keeps(stack, stack', n) /\ Len(stack') = n + 1 /\ stack'[n + 1] = f
  BY <1>1, <1>2, <1>5, PushKeeps
<1>7. Marked(n + 1)'
  BY <1>1, <1>2, <1>3, <1>4, <1>5, <1>6, SweepMarks
<1> QED
  BY <1>1, <1>2, <1>5, <1>6, <1>7, NewMark

LEMMA GCAgainMarks ==
    ASSUME MarkInv, LifeInv', GCAgain, doomed' \subseteq doomed
    PROVE  MarkInv'
<1> DEFINE f == Sweep(Top.mode)
           k == Depth - 1
<1>1. /\ stack' = Become(f) /\ UNCHANGED <<live, holds>> /\ gcPass' = 1
      /\ Top.at = "gcPtr"
  BY DEF GCAgain
<1>2. /\ TypeInv /\ TypeInv' /\ Depth = k + 1 /\ k \in Nat /\ Depth \in 1..Depth
      /\ f \in FrameType /\ f.at \in Sweeps /\ stack[Depth] = Top
  <2>1. TypeInv /\ TypeInv' /\ Top \in FrameType /\ Depth > 1
        /\ Depth \in Nat /\ stack[Depth] = Top
    BY <1>1, SweepTop DEF MarkInv, LifeInv, CleanupInv, Sweeps
  <2>2. f \in FrameType /\ f.at = "gcObj"
    BY <2>1, FrameFacts, SweepFacts
  <2> HIDE DEF f
  <2> QED
    BY <2>1, <2>2 DEF Sweeps
<1>3. Reached(Roots) \intersect doomed' = {}
  <2>1. Marked(Depth)
    BY <1>1, <1>2 DEF MarkInv, Sweeps
  <2>2. PICK A \in SUBSET Refs : Spared(A, Depth)
    BY <2>1 DEF Marked
  <2>3. A \intersect doomed = {}
    BY <2>2 DEF Spared
  <2> QED
    BY <2>2, <2>3, SparedReached
<1>4. f = Sweep(Top.mode)
  OBVIOUS
<1> HIDE DEF f
<1>5. Keeps(stack, stack', k) /\ Len(stack') = k + 1 /\ stack'[k + 1] = f
  BY <1>1, <1>2, BecomeKeeps
<1>6. PICK mode : mode = Top.mode
  OBVIOUS
<1>7. k \in {Depth - 1, Depth}
  OBVIOUS
<1>8. PICK n \in Nat : n = k
  BY <1>2
<1> HIDE DEF k
<1>9. Marked(n + 1)'
  BY <1>1, <1>2, <1>3, <1>4, <1>5, <1>6, <1>7, <1>8, SweepMarks
<1> QED
  BY <1>1, <1>2, <1>5, <1>7, <1>8, <1>9, NewMark

LEMMA GCObjEndMarks ==
    ASSUME MarkInv, LifeInv', GCObjEnd, doomed' \subseteq doomed
    PROVE  MarkInv'
<1> DEFINE f == [Frame("gcPtr") EXCEPT
                   !.mode = Top.mode,
                   !.todo = IF "ptr" \in Top.mode
                            THEN (live \intersect Ptrs) \ Top.keep ELSE {}]
<1>1. /\ stack' = Become(f) /\ UNCHANGED <<live, holds, gcPass>> /\ Top.at = "gcObj"
  BY DEF GCObjEnd
<1>2. /\ TypeInv /\ TypeInv' /\ Depth - 1 \in Nat /\ Depth \in 1..Depth
      /\ Depth \in Nat /\ Top \in FrameType /\ stack[Depth] = Top
      /\ Len(stack) = Depth
  BY <1>1, SweepTop DEF MarkInv, LifeInv, CleanupInv, Sweeps
<1>3. f \in FrameType /\ f.at = "gcPtr"
      /\ f.todo \subseteq (live \intersect Ptrs) \ Top.keep
  <2>1. Top.mode \in SUBSET {"ptr", "obj"} /\ live \intersect Ptrs \subseteq Refs
    BY <1>2, FrameFacts, SlotFacts
  <2> QED
    BY <2>1 DEF Frame, FrameType, Places
<1>4. gcPass' # 0
  BY <1>1, <1>2 DEF MarkInv, LifeInv, CleanupInv, SweepFlagged, Sweeps
<1> HIDE DEF f
<1>5. PICK n \in Nat : n = Depth - 1
  BY <1>2
<1>6. /\ Keeps(stack, stack', n) /\ Len(stack') = n + 1 /\ stack'[n + 1] = f
      /\ n + 1 = Depth
  BY <1>1, <1>2, <1>3, <1>5, BecomeKeeps
<1>7. PICK A \in SUBSET Refs : Spared(A, n + 1)
  BY <1>1, <1>2, <1>6 DEF MarkInv, Sweeps, Marked
<1>8. \A i \in 1..(n + 1) : stack'[i].at = "code" /\ stack'[i].ref \in live'
                               => stack'[i].ref \in A
  <2> SUFFICES ASSUME NEW i \in 1..(n + 1), stack'[i].at = "code", stack'[i].ref \in live
               PROVE  stack'[i].ref \in A
    BY <1>1
  <2>1. i # n + 1
    BY <1>3, <1>6
  <2>2. i \in 1..n
    BY <1>5, <2>1
  <2> QED
    BY <1>6, <1>7, <2>2 DEF Keeps, Spared
<1>9. Spared(A, n + 1)'
  <2>1. stack[n + 1].at = "gcObj" /\ stack[n + 1].keep = Top.keep
    BY <1>1, <1>2, <1>6
  <2>2. f.todo \intersect A = {}
    BY <1>3, <1>7, <2>1 DEF Spared
  <2> QED
    BY <1>1, <1>3, <1>6, <1>7, <1>8, <2>2 DEF Spared
<1>10. Marked(n + 1)'
  BY <1>9 DEF Marked
<1>11. stack'[n + 1].at \in Sweeps /\ n \in {Depth - 1, Depth}
  BY <1>3, <1>5, <1>6 DEF Sweeps
<1> QED
  BY <1>1, <1>4, <1>6, <1>10, <1>11, NewMark

(* Within a CLEANUP method HEAP_GC finds more of what nothing can reach. *)
LEMMA HeapGCNestedMarks ==
    ASSUME MarkInv, LifeInv', HeapGCNested, SweepNext
    PROVE  MarkInv'
<1>1. UNCHANGED <<live, holds, stack>> /\ gcPass' # 0
  BY DEF HeapGCNested
<1>2. doomed' = doomed \union Unreachable
  BY DEF SweepNext, GCStatement
<1>3. SelfHeld' /\ Depth' = Depth /\ \A i \in 1..Depth : LetsGo(i) => LetsGo(i)'
  BY <1>1 DEF MarkInv, SelfHeld, LetsGo, Depth
<1>4. ASSUME NEW g \in 1..Depth, Marked(g) PROVE Marked(g)'
  <2>1. PICK A \in SUBSET Refs : Spared(A, g)
    BY <1>4 DEF Marked
  <2>2. PICK B \in SUBSET Refs : B = A \intersect Reached(Nameable)
    OBVIOUS
  <2>3. ClosedOver(Reached(Nameable), Nameable) /\ Roots = Nameable
    BY ReachedFacts, RootsNameable DEF MarkInv
  <2>4. ClosedOver(Reached(Roots), Roots)
    BY <2>3
  <2>5. /\ \A s \in VarSlots : holds[s] \in live => holds[s] \in Reached(Roots)
        /\ \A i \in 1..Depth : stack[i].at = "code" /\ stack[i].ref \in live
                                  => stack[i].ref \in Reached(Roots)
    BY <2>4, RootsIn
  <2>6. \A i \in 1..g : i \in 1..Depth
    BY StackFacts DEF MarkInv, LifeInv, CleanupInv
  <2>7. B \intersect Unreachable = {} /\ B \subseteq A
    BY <2>2 DEF Unreachable
  <2>8. /\ \A r \in B : holds[r] \in live => holds[r] \in B
        /\ \A s \in VarSlots : holds[s] \in live => holds[s] \in B
        /\ \A i \in 1..g : stack[i].at = "code" /\ stack[i].ref \in live
                               => stack[i].ref \in B
    BY <2>1, <2>2, <2>3, <2>5, <2>6 DEF Spared, ClosedOver
  <2>9. Spared(B, g)'
    BY <1>1, <1>2, <2>1, <2>7, <2>8 DEF Spared
  <2> QED
    BY <2>9 DEF Marked
<1> QED
  BY <1>1, <1>3, <1>4 DEF MarkInv

(* A step that keeps the k lowest frames, and then only lets go *)
GoesOn == \E k \in Nat : LetsGoAbove(k)

LEMMA StatementGoes ==
    ASSUME MarkInv, LifeInv', OnlyLetGo, Statement, ~GCStatement
    PROVE  GoesOn
<1>1. TypeInv /\ TypeInv' /\ Depth \in Nat /\ 0 \in Nat
  BY StackFacts DEF MarkInv, LifeInv, CleanupInv
<1>2. CASE \E v \in Vars : ObjNew(v) \/ \E b \in Lvalues \union {Null} : PtrNew(v, b)
  BY <1>1, <1>2, MainStatementGoes DEF GoesOn
<1>3. CASE \E v \in Vars : PtrFree(v) \/ ObjDestroy(v)
  BY <1>1, <1>3, PtrFreeGoes, ObjDestroyGoes DEF GoesOn
<1>4. CASE ObjNewFailed \/ \E v \in Vars : TouchDying(v)
                              \/ \E on \in BOOLEAN : HeapRefcount(v, on)
  <2>1. UNCHANGED <<live, holds, stack>>
    BY <1>4 DEF ObjNewFailed, TouchDying, HeapRefcount
  <2> QED
    BY <1>1, <2>1, SameGoes DEF GoesOn
<1>5. CASE \/ ObjNewRejected
           \/ \E a \in Lvalues, b \in Lvalues \union Self : Assign(a, b)
  BY <1>1, <1>5, MainStatementGoes DEF GoesOn
<1>6. CASE \/ \E a \in Members, b \in VarSlots \union Self : AssignMember(a, b)
           \/ \E a \in VarSlots, b \in Members : AssignMember(a, b)
  <2>1. \E a \in VarSlots \union Members : \E b : AssignMember(a, b)
    BY <1>6
  <2> QED
    BY <1>1, <2>1, MainStatementGoes DEF GoesOn
<1>7. CASE \E a \in VarSlots \union Members : Clear(a)
  BY <1>1, <1>7, ClearGoes DEF GoesOn
<1> QED
  BY <1>2, <1>3, <1>4, <1>5, <1>6, <1>7 DEF Statement, GCStatement

LEMMA CppStepGoes ==
    ASSUME MarkInv, CppStep, ~GCAgain, ~GCObjEnd
    PROVE  GoesOn
<1>1. /\ TypeInv /\ LifeInv /\ Depth \in Nat /\ Depth >= 1
      /\ Depth - 1 \in Nat
  BY StackFacts DEF MarkInv, LifeInv, CleanupInv
<1>2. CASE CopyEnd \/ StoreEnd \/ DropOne
  BY <1>1, <1>2, EndGoes DEF GoesOn
<1>3. CASE UseAfterFree \/ DropAsserts
  <2>1. UNCHANGED <<live, holds, stack>>
    BY <1>3 DEF UseAfterFree, DropAsserts
  <2> QED
    BY <1>1, <2>1, SameGoes DEF GoesOn
<1>4. CASE DropLastPtr \/ DropLastObj
  BY <1>1, <1>4, DropLastPtrGoes, DropLastObjGoes DEF GoesOn
<1>5. CASE BaseFree \/ BaseEnd \/ EnvTReturn \/ EnvTFree
  BY <1>1, <1>5, BaseFreeGoes, BaseEndGoes, EnvTReturnGoes, EnvTFreeGoes DEF GoesOn
<1>6. CASE BaseThrow
  <2>1. LetsGoAbove(Depth - 2)
    BY <1>1, <1>6, BaseThrowGoes
  <2>2. Depth - 2 \in Nat
    BY <2>1 DEF LetsGoAbove, KeepsAlike
  <2> QED
    BY <2>1, <2>2 DEF GoesOn
<1>7. CASE GCObj \/ GCPtr \/ GCEnd
  BY <1>1, <1>7, GCObjGoes, GCPtrGoes, GCEndGoes DEF GoesOn
<1> QED
  BY <1>2, <1>3, <1>4, <1>5, <1>6, <1>7 DEF CppStep

LEMMA CleanupEndsGoes ==
    ASSUME MarkInv, CleanupEnds
    PROVE  GoesOn
<1>1. TypeInv /\ Depth - 1 \in Nat
  BY StackFacts DEF MarkInv, LifeInv, CleanupInv
<1> QED
  BY <1>1, CleanupReturnsGoes, CleanupThrowsGoes DEF CleanupEnds, GoesOn

LEMMA GoesOnMarks ==
    ASSUME MarkInv, LifeInv', GoesOn, doomed' \subseteq doomed, gcPass' = 0 => doomed' = {}
    PROVE  MarkInv'
<1>1. PICK k \in Nat : LetsGoAbove(k)
  BY DEF GoesOn
<1> QED
  BY <1>1, MarkKept

LEMMA MarkInit == SweepInit => MarkInv
<1> SUFFICES ASSUME SweepInit PROVE MarkInv
  OBVIOUS
<1>1. LifeInv /\ doomed = {}
  BY LifeInit DEF SweepInit
<1>2. Depth = 1 /\ \A i \in 1..Depth : stack[i].at = "main"
  BY DEF SweepInit, Init, Depth, Frame
<1> QED
  BY <1>1, <1>2 DEF MarkInv, SelfHeld, Sweeps

LEMMA MarkNext ==
    ASSUME OnlyLetGo
    PROVE  MarkInv /\ [SweepNext]_<<vars, doomed>> => MarkInv'
<1> SUFFICES ASSUME MarkInv, [SweepNext]_<<vars, doomed>> PROVE MarkInv'
  OBVIOUS
<1>1. LifeInv'
  BY LifeNext DEF MarkInv, LifeStep, SweepNext
<1>2. TypeInv /\ Depth \in Nat
  BY StackFacts DEF MarkInv, LifeInv, CleanupInv
<1>3. CASE UNCHANGED <<vars, doomed>>
  <2>1. UNCHANGED <<live, holds, stack, gcPass, doomed>>
    BY <1>3 DEF vars
  <2>2. GoesOn /\ doomed' \subseteq doomed /\ (gcPass' = 0 => doomed' = {})
    BY <1>2, <2>1, SameGoes DEF GoesOn, MarkInv
  <2> QED
    BY <1>1, <2>2, GoesOnMarks
<1>4. CASE SweepNext /\ GCStatement
  BY <1>1, <1>4, HeapGCMarks, HeapGCNestedMarks DEF GCStatement
<1>5. CASE SweepNext /\ ~GCStatement
  <2>1. doomed' \subseteq doomed /\ (gcPass' = 0 => doomed' = {})
    BY <1>5 DEF SweepNext
  <2>2. CASE GCAgain \/ GCObjEnd
    BY <1>1, <2>1, <2>2, GCAgainMarks, GCObjEndMarks
  <2>3. CASE Halted
    <3>1. GoesOn
      BY <1>2, <2>3, SameGoes DEF Halted, vars, GoesOn
    <3> QED
      BY <1>1, <2>1, <3>1, GoesOnMarks
  <2>4. CASE ~GCAgain /\ ~GCObjEnd /\ ~Halted
    <3>1. GoesOn
      BY <1>1, <1>5, <2>4, StatementGoes, CppStepGoes, CleanupEndsGoes
      DEF SweepNext, Next
    <3> QED
      BY <1>1, <2>1, <3>1, GoesOnMarks
  <2> QED
    BY <2>2, <2>3, <2>4
<1> QED
  BY <1>3, <1>4, <1>5

(* While HEAP_GC sweeps pointers it removes the one it takes, which its marks
   left out. *)
LEMMA SweepStepSpares ==
    ASSUME MarkInv, Next, Running, Top.at = "gcPtr"
    PROVE  Reached(Nameable) \subseteq live'
<1>1. Reached(Nameable) \subseteq live /\ Roots = Nameable
  BY ReachedFacts, RootsNameable DEF MarkInv
<1>2. CASE UNCHANGED live
  BY <1>1, <1>2
<1>3. CASE GCPtr
  <2>1. First(Top.todo) \in Top.todo
    BY <1>3, NextAlike DEF GCPtr, Sweeps, MarkInv, LifeInv, CleanupInv
  <2>2. PICK A \in SUBSET Refs : Spared(A, Depth)
    <3>1. Depth \in 1..Depth /\ stack[Depth].at \in Sweeps
      BY StackFacts DEF Top, Sweeps, MarkInv, LifeInv, CleanupInv
    <3> QED
      BY <3>1 DEF MarkInv, Marked
  <2>3. Top.todo \intersect A = {}
    BY <2>2 DEF Spared, Top
  <2>4. Reached(Nameable) \subseteq A
    BY <1>1, <2>2, SparedReached
  <2>5. First(Top.todo) \notin Reached(Nameable)
    BY <2>1, <2>3, <2>4
  <2>6. live' = live \ {First(Top.todo)} \/ live' = live
    BY <1>3 DEF GCPtr, Erase, Kept
  <2> QED
    BY <1>1, <2>5, <2>6
<1>4. ~Statement /\ ~CleanupEnds
  BY DEF Statement, CleanupEnds, PtrNew, ObjNew, PtrFree, ObjDestroy, TouchDying,
         HeapRefcount, ObjNewRejected, ObjNewFailed, Assign, AssignMember, Clear,
         HeapGC, HeapGCNested, May, CodeRuns, CleanupReturns, CleanupThrows
<1>5. ASSUME CppStep PROVE GCPtr \/ UNCHANGED live
  BY <1>5 DEF CppStep, CopyEnd, StoreEnd, UseAfterFree, DropOne, DropAsserts,
         DropLastPtr, DropLastObj, Dropping, BaseFree, BaseEnd, BaseThrow, EnvTReturn,
         EnvTFree, GCObj, GCObjEnd, GCAgain, GCEnd
<1>6. ASSUME Halted PROVE UNCHANGED live
  BY <1>6 DEF Halted
<1> QED
  BY <1>2, <1>3, <1>4, <1>5, <1>6 DEF Next

(* HEAP_GC (EnvT::HeapGC) frees no pointer that a variable or the SELF of a
   running CLEANUP method can reach, although its marks are older than the
   CLEANUP methods it calls, and although those may call HEAP_GC again and end in
   an error: as long as they only let go of references. *)
THEOREM SweepSparesNameable ==
    ASSUME OnlyLetGo
    PROVE  SweepSpec => SweepSparesReachable
<1>1. SweepInit => MarkInv
  BY MarkInit
<1>2. MarkInv /\ [SweepNext]_<<vars, doomed>> => MarkInv'
  BY MarkNext
<1>3. MarkInv /\ [SweepNext]_<<vars, doomed>>
        => [Running /\ Top.at = "gcPtr" => Reached(Nameable) \ live' = {}]_vars
  <2> SUFFICES ASSUME MarkInv, SweepNext, Running, Top.at = "gcPtr"
               PROVE  Reached(Nameable) \ live' = {}
    OBVIOUS
  <2> QED
    BY SweepStepSpares DEF SweepNext
<1> QED
  BY <1>1, <1>2, <1>3, PTL DEF SweepSpec, SweepSparesReachable

-----------------------------------------------------------------------------
(* What HEAP_GC collects *)
(* HEAP_GC without /PTR and /OBJ, and CLEANUP methods that do not fail *)
FullSweeps == GCModes \subseteq {{"ptr", "obj"}}
NoErrors == "error" \notin CleanupOps

Cleaning == {"base", "baseAt", "envt"}
Handling == {"envt", "envtFree"}

(* An object that is marked and on the heap has its CLEANUP under way ... *)
MarkedHeld ==
    \A o \in inProgress \intersect live :
        \E i \in 1..Depth : stack[i].at \in Cleaning /\ stack[i].ref = o
(* ... and what waits for a CLEANUP method is below it. *)
CodeOn(i) == stack[i + 1].at = "code" /\ stack[i + 1].ref = stack[i].ref
CodeAbove ==
    \A i \in 1..Depth : i + 1 <= Depth /\ stack[i].at \in Cleaning => CodeOn(i)

(* What is doomed is still there only if the HEAP_GC of frame g has it on its
   list, will put it on its list, or has just called ObjCleanup for it. *)
Handed(g, o) ==
    g + 1 <= Depth /\ stack[g + 1].at \in Handling /\ stack[g + 1].ref = o
Listed(g) ==
    \A r \in doomed \intersect live :
        /\ stack[g].at = "gcObj" =>
              r \notin stack[g].keep /\ (r \in Objs => r \in stack[g].todo \/ Handed(g, r))
        /\ stack[g].at = "gcPtr" => r \in stack[g].todo

CollectInv ==
    /\ MarkInv /\ MarkedHeld /\ CodeAbove
    /\ \A g \in 1..Depth : stack[g].at \in Sweeps =>
          stack[g].mode = {"ptr", "obj"} /\ (gcPass = 1 => Listed(g))

-----------------------------------------------------------------------------
(* A step that keeps the k lowest frames and the lists of HEAP_GC *)
Taken(k) ==
    \A i \in 1..k : \A r \in doomed \intersect live' :
        r \in stack[i].todo /\ r \notin stack'[i].todo =>
            /\ stack[i].at = "gcObj"
            /\ r \in Objs => /\ i + 1 <= Len(stack') /\ stack'[i + 1].at = "envt"
                             /\ stack'[i + 1].ref = r
Lost(k) ==
    \A i \in 1..Depth : i > k =>
        /\ stack[i].at \in Cleaning => stack[i].ref \notin inProgress' \intersect live'
        /\ stack[i].at \in Handling /\ stack[i].ref \in live' =>
              i <= Len(stack') /\ stack'[i].at \in Handling /\ stack'[i].ref = stack[i].ref
NewMarks ==
    \A o \in inProgress' \intersect live' : o \notin inProgress \intersect live =>
        \E i \in 1..Len(stack') : stack'[i].at \in Cleaning /\ stack'[i].ref = o
NewCode(k) ==
    \A i \in 1..Len(stack') : i >= k /\ i + 1 <= Len(stack') /\ stack'[i].at \in Cleaning =>
        stack'[i + 1].at = "code" /\ stack'[i + 1].ref = stack'[i].ref
ModesKept(k) == \A i \in 1..k : stack'[i].mode = stack[i].mode

Carries(k) ==
    /\ LetsGoAbove(k) /\ ModesKept(k) /\ Taken(k)
    /\ Lost(k) /\ NewMarks /\ NewCode(k)
    /\ gcPass' # 0 => gcPass' = gcPass

LEMMA CollectKept ==
    ASSUME CollectInv, MarkInv', NEW k \in Nat, Carries(k), doomed' \subseteq doomed
    PROVE  CollectInv'
<1>1. /\ Depth = Len(stack) /\ Depth' = Len(stack') /\ Depth' \in Nat
      /\ k <= Depth /\ k <= Depth' /\ Depth \in Nat
      /\ \A i \in 1..k : Alike(stack[i], stack'[i])
  BY StackFacts DEF CollectInv, MarkInv, LifeInv, CleanupInv, Carries, LetsGoAbove,
                    KeepsAlike, Depth
<1>2. MarkedHeld'
  <2> SUFFICES ASSUME NEW o \in inProgress' \intersect live'
               PROVE  \E i \in 1..Depth' : stack'[i].at \in Cleaning /\ stack'[i].ref = o
    BY DEF MarkedHeld
  <2>1. CASE o \notin inProgress \intersect live
    BY <1>1, <2>1 DEF Carries, NewMarks
  <2>2. CASE o \in inProgress \intersect live
    <3>1. PICK i \in 1..Depth : stack[i].at \in Cleaning /\ stack[i].ref = o
      BY <2>2 DEF CollectInv, MarkedHeld
    <3>2. ~(i > k)
      BY <3>1 DEF Carries, Lost
    <3>3. i \in 1..k /\ i \in 1..Depth'
      BY <1>1, <3>2
    <3> QED
      BY <1>1, <3>1, <3>3 DEF Alike
  <2> QED
    BY <2>1, <2>2
<1>3. CodeAbove'
  <2> SUFFICES ASSUME NEW i \in 1..Depth', i + 1 <= Depth', stack'[i].at \in Cleaning
               PROVE  stack'[i + 1].at = "code" /\ stack'[i + 1].ref = stack'[i].ref
    BY DEF CodeAbove, CodeOn
  <2>1. CASE i >= k
    BY <1>1, <2>1 DEF Carries, NewCode
  <2>2. CASE i < k
    <3>1. i \in 1..k /\ i + 1 \in 1..k /\ i \in 1..Depth /\ i + 1 <= Depth
      BY <1>1, <2>2
    <3>2. Alike(stack[i], stack'[i]) /\ Alike(stack[i + 1], stack'[i + 1])
      BY <1>1, <3>1
    <3>3. CodeOn(i)
      BY <3>1, <3>2 DEF CollectInv, CodeAbove, Alike
    <3> QED
      BY <3>2, <3>3 DEF CodeOn, Alike
  <2> QED
    BY <1>1, <2>1, <2>2
<1>4. ASSUME NEW g \in 1..Depth', stack'[g].at \in Sweeps
      PROVE  stack'[g].mode = {"ptr", "obj"} /\ (gcPass' = 1 => Listed(g)')
  <2>1. g \in 1..k /\ g \in 1..Depth
    BY <1>1, <1>4 DEF Carries, LetsGoAbove, NewFrames
  <2>2. Alike(stack[g], stack'[g]) /\ stack[g].at \in Sweeps
    BY <1>1, <1>4, <2>1 DEF Alike
  <2>3. stack'[g].mode = {"ptr", "obj"} /\ live' \subseteq live
    BY <2>1, <2>2 DEF CollectInv, Carries, ModesKept, LetsGoAbove, Marking, Releases
  <2>4. ASSUME gcPass' = 1 PROVE Listed(g)'
    <3> SUFFICES ASSUME NEW r \in doomed' \intersect live'
                 PROVE  /\ stack'[g].at = "gcObj" =>
                             /\ r \notin stack'[g].keep
                             /\ r \in Objs => r \in stack'[g].todo \/ Handed(g, r)'
                        /\ stack'[g].at = "gcPtr" => r \in stack'[g].todo
      BY DEF Listed
    <3>1. Listed(g) /\ r \in doomed \intersect live /\ r \in doomed \intersect live'
      BY <2>1, <2>2, <2>3, <2>4 DEF CollectInv, Carries
    <3>2. ASSUME r \in Objs, Handed(g, r) PROVE Handed(g, r)'
      <4>1. CASE g < k
        <5>1. g + 1 \in 1..k /\ g + 1 <= Depth'
          BY <1>1, <2>1, <4>1
        <5> QED
          BY <1>1, <3>2, <5>1 DEF Handed, Alike
      <4>2. CASE ~(g < k)
        <5>1. g + 1 > k /\ g + 1 \in 1..Depth
          BY <1>1, <2>1, <3>2, <4>2 DEF Handed
        <5> QED
          BY <1>1, <3>2, <5>1 DEF Handed, Carries, Lost
      <4> QED
        BY <4>1, <4>2
    <3>3. ASSUME r \in stack[g].todo, r \notin stack'[g].todo
          PROVE  stack[g].at = "gcObj" /\ (r \in Objs => Handed(g, r)')
      BY <1>1, <2>1, <3>1, <3>3 DEF Carries, Taken, Handed, Handling
    <3> QED
      BY <2>2, <3>1, <3>2, <3>3 DEF Listed, Alike
  <2> QED
    BY <2>3, <2>4
<1> QED
  BY <1>2, <1>3, <1>4 DEF CollectInv

LEMMA KeptLists ==
    ASSUME NEW k, Keeps(stack, stack', k)
    PROVE  ModesKept(k) /\ Taken(k)
BY DEF Keeps, ModesKept, Taken

NoNewMark == inProgress' \intersect live' \subseteq inProgress \intersect live
FlagKept == gcPass' # 0 => gcPass' = gcPass

(* no CLEANUP begins *)
LEMMA QuietCarries ==
    ASSUME NEW k \in Nat, LetsGoAbove(k), ModesKept(k), Taken(k), Lost(k),
           NoneAbove(stack', k, Cleaning),
           Len(stack') = k \/ (k >= 1 => stack'[k].at \notin Cleaning),
           NoNewMark, FlagKept
    PROVE  Carries(k)
<1>1. NewMarks
  BY DEF NewMarks, NoNewMark
<1>2. NewCode(k)
  <2> SUFFICES ASSUME NEW i \in 1..Len(stack'), i >= k, i + 1 <= Len(stack'),
                      stack'[i].at \in Cleaning
               PROVE  FALSE
    BY DEF NewCode
  <2>1. CASE i > k
    BY <2>1 DEF NoneAbove
  <2>2. CASE i = k
    BY <2>2
  <2> QED
    BY <2>1, <2>2
<1> QED
  BY <1>1, <1>2 DEF Carries, FlagKept

(* frames on top of a statement or of HEAP_GC *)
LEMMA StayCarries ==
    ASSUME TypeInv, LetsGoAbove(Depth), Keeps(stack, stack', Depth),
           NoneAbove(stack', Depth, Cleaning), Top.at \notin Cleaning, NoNewMark, FlagKept
    PROVE  Carries(Depth)
<1>1. /\ Depth \in Nat /\ Lost(Depth) /\ ModesKept(Depth) /\ Taken(Depth)
  BY StackFacts, KeptLists DEF Lost
<1>2. stack'[Depth].at \notin Cleaning
  BY StackFacts DEF Keeps
<1> QED
  BY <1>1, <1>2, QuietCarries

(* the top frame, which no CLEANUP method has called, goes or is replaced *)
LEMMA UnderIdle ==
    ASSUME CollectInv, Top.at \notin {"code", "main"}
    PROVE  /\ Depth - 1 \in Nat /\ Depth \in Nat /\ Depth - 1 >= 1
           /\ stack[Depth - 1].at \notin Cleaning /\ Top = stack[Depth] /\ TypeInv
           /\ Depth = (Depth - 1) + 1 /\ \A i \in 1..Depth : i > Depth - 1 => i = Depth
<1>1. TypeInv /\ Depth \in Nat /\ Depth > 1 /\ Top = stack[Depth]
  BY TopFacts, StackFacts DEF CollectInv, MarkInv, LifeInv, CleanupInv
<1>2. stack[Depth - 1].at \notin Cleaning
  <2>1. Depth - 1 \in 1..Depth /\ (Depth - 1) + 1 = Depth
    BY <1>1
  <2> QED
    BY <1>1, <2>1 DEF CollectInv, CodeAbove, CodeOn
<1>3. /\ Depth - 1 \in Nat /\ Depth - 1 >= 1 /\ Depth = (Depth - 1) + 1
      /\ \A i \in 1..Depth : i > Depth - 1 => i = Depth
  BY <1>1
<1> QED
  BY <1>1, <1>2, <1>3

LEMMA TopCarries ==
    ASSUME CollectInv, LetsGoAbove(Depth - 1), Keeps(stack, stack', Depth - 1),
           NoneAbove(stack', Depth - 1, Cleaning),
           Top.at \notin {"code", "main"}, Lost(Depth - 1), NoNewMark, FlagKept
    PROVE  Carries(Depth - 1)
<1>1. /\ Depth - 1 \in Nat /\ Depth - 1 >= 1 /\ Depth \in Nat
      /\ stack[Depth - 1].at \notin Cleaning
  BY UnderIdle
<1>2. stack'[Depth - 1].at \notin Cleaning
  BY <1>1 DEF Keeps
<1>3. ModesKept(Depth - 1) /\ Taken(Depth - 1)
  BY KeptLists
<1> QED
  BY <1>1, <1>2, <1>3, QuietCarries

LEMMA TopLost ==
    ASSUME CollectInv, Top.at \notin {"code", "main"},
           /\ Top.at \in Cleaning => Top.ref \notin inProgress' \intersect live'
           /\ Top.at \in Handling => Top.ref \notin live'
    PROVE  Lost(Depth - 1)
BY UnderIdle DEF Lost

-----------------------------------------------------------------------------
LEMMA PopCarries ==
    ASSUME CollectInv, CopyEnd \/ StoreEnd \/ DropOne \/ BaseEnd \/ GCEnd
    PROVE  Carries(Depth - 1)
<1>1. /\ stack' = Pop /\ live' = live /\ inProgress' \subseteq inProgress
      /\ Top.at \in {"copy", "store", "drop", "dropAt", "baseEnd", "gcPtr"}
      /\ gcPass' = 0 \/ gcPass' = gcPass
  BY DEF CopyEnd, StoreEnd, DropOne, Dropping, BaseEnd, Unmark, GCEnd
<1>2. Top.at \notin {"code", "main"} \union Cleaning \union Handling
  BY <1>1 DEF Cleaning, Handling
<1>3. TypeInv /\ MarkInv
  BY DEF CollectInv, MarkInv, LifeInv, CleanupInv
<1>4. LetsGoAbove(Depth - 1)
  BY <1>3, EndGoes, BaseEndGoes, GCEndGoes
<1>5. Keeps(stack, stack', Depth - 1) /\ Len(stack') = Depth - 1 /\ Depth - 1 \in Nat
  BY <1>1, <1>2, <1>3, PopKeeps, UnderIdle
<1>6. NoneAbove(stack', Depth - 1, Cleaning)
  BY <1>5, NoneBeyond
<1>7. NoNewMark /\ FlagKept /\ Lost(Depth - 1)
  BY <1>1, <1>2, TopLost DEF NoNewMark, FlagKept
<1> QED
  BY <1>2, <1>4, <1>5, <1>6, <1>7, TopCarries

LEMMA DropLastPtrCarries ==
    ASSUME CollectInv, DropLastPtr
    PROVE  Carries(Depth - 1)
<1>1. /\ stack' = Become(Frame("drop")) /\ live' \subseteq live /\ inProgress' = inProgress
      /\ Top.at \in {"drop", "dropAt"} /\ gcPass' = gcPass
  BY DEF DropLastPtr, Dropping, Erase
<1>2. Top.at \notin {"code", "main"} \union Cleaning \union Handling
  BY <1>1 DEF Cleaning, Handling
<1>3. TypeInv /\ LetsGoAbove(Depth - 1)
  BY DropLastPtrGoes DEF CollectInv, MarkInv, LifeInv, CleanupInv
<1>4. Frame("drop") \in FrameType /\ Frame("drop").at \notin Cleaning
  BY QuietFrames DEF Frame, Cleaning
<1>5. /\ Keeps(stack, stack', Depth - 1) /\ Len(stack') = (Depth - 1) + 1
      /\ stack'[(Depth - 1) + 1] = Frame("drop") /\ Depth - 1 \in Nat
  <2>1. Depth = (Depth - 1) + 1 /\ Depth - 1 \in Nat
    BY <1>2, UnderIdle
  <2> QED
    BY <1>1, <1>3, <1>4, <2>1, BecomeKeeps
<1>6. NoneAbove(stack', Depth - 1, Cleaning)
  BY <1>4, <1>5, NoneBeyond
<1>7. NoNewMark /\ FlagKept /\ Lost(Depth - 1)
  BY <1>1, <1>2, TopLost DEF NoNewMark, FlagKept
<1> QED
  BY <1>2, <1>3, <1>5, <1>6, <1>7, TopCarries

LEMMA BaseFreeCarries ==
    ASSUME CollectInv, BaseFree
    PROVE  Carries(Depth - 1)
<1> DEFINE at == IF Top.at = "baseCatch" THEN "baseThrow" ELSE "baseEnd"
           f == [Top EXCEPT !.at = at]
<1>1. /\ Top.at \in {"base", "baseAt", "baseCatch"} /\ inProgress' = inProgress
      /\ gcPass' = gcPass
      /\ stack' = Append(Become(f), Frame("drop")) \/ stack' = Become(f)
      /\ live' \subseteq live /\ Top.ref \notin live'
  BY DEF BaseFree, Erase, Kept
<1>2. Top.at \notin {"code", "main"} \union Handling
  BY <1>1 DEF Handling
<1>3. TypeInv /\ LetsGoAbove(Depth - 1) /\ Depth - 1 \in Nat /\ Depth = (Depth - 1) + 1
  BY <1>2, BaseFreeGoes, UnderIdle DEF CollectInv, MarkInv, LifeInv, CleanupInv
<1>4. Frame("drop").at \notin Cleaning /\ f \in FrameType /\ f.at \notin Cleaning
  <2>1. Top \in FrameType
    BY <1>3, TopFacts
  <2>2. at \in Places /\ at \notin Cleaning
    BY DEF Places, Cleaning
  <2> HIDE DEF at
  <2>3. f \in FrameType /\ f.at = at
    BY <2>1, <2>2, FrameFacts DEF FrameType
  <2> QED
    BY <2>2, <2>3 DEF Frame, Cleaning
<1> HIDE DEF f
<1>5. /\ Keeps(stack, stack', Depth - 1) /\ Len(stack') \in {Depth, Depth + 1}
      /\ stack'[Depth] = f
      /\ Len(stack') = Depth + 1 => stack'[Depth + 1] = Frame("drop")
  BY <1>1, <1>3, <1>4, BecomeFrames
<1>6. NoneAbove(stack', Depth - 1, Cleaning)
  <2>1. (Depth - 1) + 1 = Depth /\ (Depth - 1) + 2 = Depth + 1
    BY <1>3
  <2> QED
    BY <1>3, <1>4, <1>5, <2>1, NoneBeyond
<1>7. NoNewMark /\ FlagKept /\ Lost(Depth - 1)
  BY <1>1, <1>2, TopLost DEF NoNewMark, FlagKept
<1> QED
  BY <1>2, <1>3, <1>5, <1>6, <1>7, TopCarries

LEMMA EnvTReturnCarries ==
    ASSUME CollectInv, EnvTReturn
    PROVE  Carries(Depth - 1)
<1> DEFINE f == [Top EXCEPT !.at = "envtFree"]
<1>1. /\ Top.at = "envt" /\ gcPass' = gcPass /\ live' = live
      /\ stack' = Append(Become(f), Frame("drop"))
      /\ inProgress' = inProgress \ {Top.ref}
  BY DEF EnvTReturn, Unmark
<1>2. TypeInv /\ LetsGoAbove(Depth - 1) /\ Depth - 1 \in Nat /\ Depth = (Depth - 1) + 1
      /\ Depth \in Nat /\ stack[Depth] = Top
      /\ \A i \in 1..Depth : i > Depth - 1 => i = Depth
  BY <1>1, EnvTReturnGoes, UnderIdle DEF CollectInv, MarkInv, LifeInv, CleanupInv
<1>3. /\ f \in FrameType /\ f.at = "envtFree" /\ f.ref = Top.ref
      /\ f.at \notin Cleaning /\ f.at \in Handling /\ Frame("drop").at \notin Cleaning
  BY <1>2, TopFacts DEF FrameType, Places, Cleaning, Handling, Frame
<1> HIDE DEF f
<1>4. /\ Keeps(stack, stack', Depth - 1) /\ Len(stack') \in {Depth, Depth + 1}
      /\ stack'[Depth] = f
      /\ Len(stack') = Depth + 1 => stack'[Depth + 1] = Frame("drop")
  BY <1>1, <1>2, <1>3, BecomeFrames
<1>5. NoneAbove(stack', Depth - 1, Cleaning)
  <2>1. (Depth - 1) + 1 = Depth /\ (Depth - 1) + 2 = Depth + 1
    BY <1>2
  <2> QED
    BY <1>2, <1>3, <1>4, <2>1, NoneBeyond
<1>6. Lost(Depth - 1)
  <2>1. Depth <= Len(stack')
    BY <1>2, <1>4
  <2> QED
    BY <1>1, <1>2, <1>3, <1>4, <2>1 DEF Lost
<1>7. NoNewMark /\ FlagKept
  BY <1>1 DEF NoNewMark, FlagKept
<1> QED
  BY <1>1, <1>2, <1>4, <1>5, <1>6, <1>7, TopCarries

LEMMA EnvTFreeCarries ==
    ASSUME CollectInv, EnvTFree
    PROVE  Carries(Depth - 1)
<1>1. /\ Top.at = "envtFree" /\ inProgress' = inProgress /\ gcPass' = gcPass
      /\ stack' = Become(Frame("drop")) \/ stack' = Pop
      /\ live' \subseteq live /\ Top.ref \notin live'
  BY DEF EnvTFree, Erase, Kept
<1>2. TypeInv /\ LetsGoAbove(Depth - 1) /\ Depth - 1 \in Nat /\ Depth = (Depth - 1) + 1
  BY <1>1, EnvTFreeGoes, UnderIdle DEF CollectInv, MarkInv, LifeInv, CleanupInv
<1>3. Frame("drop") \in FrameType /\ Frame("drop").at \notin Cleaning
  BY QuietFrames DEF Frame, Cleaning
<1>4. /\ Keeps(stack, stack', Depth - 1)
      /\ \/ Len(stack') = Depth - 1
         \/ Len(stack') = (Depth - 1) + 1 /\ stack'[(Depth - 1) + 1] = Frame("drop")
  BY <1>1, <1>2, <1>3, PopKeeps, BecomeKeeps
<1>5. NoneAbove(stack', Depth - 1, Cleaning)
  BY <1>2, <1>3, <1>4, NoneBeyond
<1>6. NoNewMark /\ FlagKept /\ Lost(Depth - 1)
  BY <1>1, TopLost DEF NoNewMark, FlagKept, Cleaning
<1> QED
  BY <1>1, <1>2, <1>4, <1>5, <1>6, TopCarries

LEMMA BaseThrowCarries ==
    ASSUME CollectInv, BaseThrow
    PROVE  Carries(Depth - 2)
<1>1. /\ Top.at = "baseThrow" /\ inProgress' \subseteq inProgress /\ gcPass' = gcPass
      /\ stack' = SubSeq(stack, 1, Depth - 2) /\ live' = live
  BY DEF BaseThrow, Unmark
<1>2. TypeInv /\ LifeInv /\ LetsGoAbove(Depth - 2)
  BY BaseThrowGoes DEF CollectInv, MarkInv, LifeInv, CleanupInv
<1>3. Depth - 2 \in Nat /\ Depth \in Nat /\ stack[Depth - 1].at = "store"
  <2>1. Depth - 2 \in Nat /\ Depth \in Nat
    BY <1>2, StackFacts DEF LetsGoAbove, KeepsAlike
  <2>2. StandsOn(Top, stack[Depth - 1])
    BY <1>1, <1>2, TopFacts
  <2> QED
    BY <1>1, <2>1, <2>2 DEF StandsOn, AssignAt
<1>4. \A i \in 1..Depth : i > Depth - 2 => i = Depth \/ i = Depth - 1
  BY <1>3
<1>5. Lost(Depth - 2)
  BY <1>1, <1>3, <1>4, <1>2, StackFacts DEF Lost, Cleaning, Handling
<1>6. Keeps(stack, stack', Depth - 2) /\ Len(stack') = Depth - 2
  <2>1. Depth - 2 \in 0..Depth
    BY <1>3
  <2> QED
    BY <1>1, <1>2, <2>1, CutKeeps
<1>7. NoneAbove(stack', Depth - 2, Cleaning) /\ ModesKept(Depth - 2) /\ Taken(Depth - 2)
  BY <1>3, <1>6, NoneBeyond, KeptLists
<1>8. NoNewMark /\ FlagKept
  BY <1>1 DEF NoNewMark, FlagKept
<1> QED
  BY <1>2, <1>3, <1>5, <1>6, <1>7, <1>8, QuietCarries

LEMMA CleanupReturnsCarries ==
    ASSUME CollectInv, CleanupReturns
    PROVE  Carries(Depth - 1)
<1>1. /\ stack' = Pop /\ UNCHANGED <<live, inProgress, gcPass>> /\ Top.at = "code"
  BY DEF CleanupReturns
<1>2. TypeInv /\ LetsGoAbove(Depth - 1) /\ Depth \in Nat /\ Depth - 1 \in Nat
      /\ Top = stack[Depth]
  BY CleanupReturnsGoes, StackFacts DEF CollectInv, MarkInv, LifeInv, CleanupInv
<1>3. Keeps(stack, stack', Depth - 1) /\ Len(stack') = Depth - 1
  BY <1>1, <1>2, PopKeeps
<1>4. /\ NoneAbove(stack', Depth - 1, Cleaning)
      /\ ModesKept(Depth - 1) /\ Taken(Depth - 1)
  BY <1>2, <1>3, NoneBeyond, KeptLists
<1>5. Lost(Depth - 1)
  <2>1. \A i \in 1..Depth : i > Depth - 1 => i = Depth
    BY <1>2
  <2> QED
    BY <1>1, <1>2, <2>1 DEF Lost, Cleaning, Handling
<1>6. NoNewMark /\ FlagKept
  BY <1>1 DEF NoNewMark, FlagKept
<1> QED
  BY <1>2, <1>3, <1>4, <1>5, <1>6, QuietCarries

-----------------------------------------------------------------------------
LEMMA SameCarries ==
    ASSUME CollectInv, UNCHANGED <<live, holds, stack, inProgress>>, Top.at \notin Cleaning,
           FlagKept
    PROVE  Carries(Depth)
<1>1. TypeInv /\ LetsGoAbove(Depth)
  BY SameGoes DEF CollectInv, MarkInv, LifeInv, CleanupInv
<1>2. Keeps(stack, stack', Depth) /\ NoneAbove(stack', Depth, Cleaning)
  BY <1>1, StackFacts DEF NoneAbove
<1>3. NoNewMark
  BY DEF NoNewMark
<1> QED
  BY <1>1, <1>2, <1>3, StayCarries

LEMMA ClearCarries ==
    ASSUME CollectInv, NEW a \in VarSlots \union Members, Clear(a)
    PROVE  Carries(Depth)
<1> DEFINE f == [Frame("store") EXCEPT !.ref = a]
<1>1. a \in VarSlots \union Refs /\ a \in Slots /\ Room(2)
  BY LvalueFacts DEF Clear, CollectInv, MarkInv, LifeInv, CleanupInv
<1>2. f \in FrameType /\ f.at = "store"
  BY <1>1, AssignFrames
<1>3. /\ stack' = stack \o <<f, Drop(a)>> /\ UNCHANGED <<live, inProgress, gcPass>>
      /\ Top.at \in {"main", "code"}
  BY DEF Clear, Overwrite, May, CodeRuns
<1> HIDE DEF f
<1>4. TypeInv /\ LetsGoAbove(Depth)
  BY ClearGoes DEF CollectInv, MarkInv, LifeInv, CleanupInv
<1>5. /\ Keeps(stack, stack', Depth) /\ Len(stack') = Depth + 2 /\ Depth \in Nat
      /\ stack'[Depth + 1] = f /\ stack'[Depth + 2] = Drop(a)
      /\ Drop(a).at \in {"drop", "dropAt"}
  BY <1>1, <1>2, <1>3, <1>4, OverwriteFrames
<1>6. f.at \notin Cleaning /\ Drop(a).at \notin Cleaning /\ Top.at \notin Cleaning
  BY <1>2, <1>3, <1>5 DEF Cleaning
<1>7. NoneAbove(stack', Depth, Cleaning)
  BY <1>5, <1>6, NoneBeyond
<1>8. NoNewMark /\ FlagKept
  BY <1>3 DEF NoNewMark, FlagKept
<1> QED
  BY <1>4, <1>5, <1>6, <1>7, <1>8, StayCarries

LEMMA PtrFreeCarries ==
    ASSUME CollectInv, NEW v \in Vars, PtrFree(v)
    PROVE  Carries(Depth)
<1> DEFINE g == Frame("drop")
<1>1. /\ stack' = Append(stack, g) /\ live' \subseteq live /\ UNCHANGED <<inProgress, gcPass>>
      /\ Top.at \in {"main", "code"}
  BY DEF PtrFree, Erase, May, CodeRuns
<1>2. g \in FrameType /\ g.at \notin Cleaning /\ Top.at \notin Cleaning
  BY <1>1, QuietFrames DEF Frame, Cleaning
<1>3. TypeInv /\ LetsGoAbove(Depth) /\ stack \in Seq(FrameType) /\ Len(stack) = Depth
      /\ Depth \in Nat
  BY PtrFreeGoes, StackFacts DEF CollectInv, MarkInv, LifeInv, CleanupInv
<1> HIDE DEF g
<1>4. Keeps(stack, stack', Depth) /\ Len(stack') = Depth + 1 /\ stack'[Depth + 1] = g
  BY <1>1, <1>2, <1>3, PushKeeps
<1>5. NoneAbove(stack', Depth, Cleaning)
  BY <1>2, <1>3, <1>4, NoneBeyond
<1>6. NoNewMark /\ FlagKept
  BY <1>1 DEF NoNewMark, FlagKept
<1> QED
  BY <1>2, <1>3, <1>4, <1>5, <1>6, StayCarries

(* In $MAIN$ nothing is marked that is still there. *)
LEMMA MainStatementCarries ==
    ASSUME CollectInv, TypeInv', OnlyLetGo,
           \/ \E v \in Vars : ObjNew(v) \/ \E b \in Lvalues \union {Null} : PtrNew(v, b)
           \/ \E a \in Lvalues, b \in Lvalues \union Self : Assign(a, b)
           \/ \E a \in VarSlots \union Members : \E b : AssignMember(a, b)
           \/ ObjNewRejected
    PROVE  Carries(0)
<1>1. /\ MarkInv /\ TypeInv /\ Top.at = "main" /\ LetsGoAbove(0)
      /\ \A i \in 1..Len(stack') : stack'[i].at \notin ObjCleanup \union Sweeps
  BY MainStatementFrames, MainStatementGoes DEF CollectInv, MarkInv, LifeInv, CleanupInv
<1>2. Depth = 1 /\ stack[1].at = "main"
  BY <1>1, MainAlone
<1>3. NoneAbove(stack', 0, Cleaning)
  BY <1>1 DEF NoneAbove, ObjCleanup, Cleaning
<1>4. Lost(0) /\ ModesKept(0) /\ Taken(0)
  BY <1>2 DEF Lost, ModesKept, Taken, Cleaning, Handling
<1>5. NoNewMark /\ FlagKept
  <2>1. inProgress' = inProgress /\ gcPass' = gcPass
    BY DEF ObjNew, PtrNew, Assign, AssignMember, ObjNewRejected
  <2>2. live' \subseteq live \union {Obj(heapIx), Ptr(heapIx)}
    <3>1. CASE \E v \in Vars : ObjNew(v)
      BY <3>1 DEF ObjNew
    <3>2. CASE \E v \in Vars : \E b \in Lvalues \union {Null} : PtrNew(v, b)
      BY <3>2 DEF PtrNew
    <3>3. CASE \/ \E a \in Lvalues, b \in Lvalues \union Self : Assign(a, b)
               \/ \E a \in VarSlots \union Members : \E b : AssignMember(a, b)
      <4>1. live' = live
        BY <3>3 DEF Assign, AssignMember
      <4> QED
        BY <4>1
    <3>4. CASE ObjNewRejected
      BY <3>4 DEF ObjNewRejected
    <3> QED
      BY <3>1, <3>2, <3>3, <3>4
  <2>3. inProgress \subseteq Objs /\ Ptr(heapIx) \notin Objs /\ heapIx \in Nat
    BY <1>1 DEF TypeInv, TypeOK, Objs, Ptr
  <2>4. Obj(heapIx) \notin inProgress
    <3>1. Obj(heapIx)[2] = heapIx
      BY DEF Obj
    <3>2. CASE Obj(heapIx) \in Objs
      BY <1>1, <2>3, <3>1, <3>2 DEF MarkInv, LifeInv, Unborn
    <3> QED
      BY <2>3, <3>2
  <2> QED
    BY <2>1, <2>2, <2>3, <2>4 DEF NoNewMark, FlagKept
<1>6. 0 \in Nat /\ ~(0 >= 1)
  OBVIOUS
<1> QED
  BY <1>1, <1>3, <1>4, <1>5, <1>6, QuietCarries

LEMMA DropLastObjCarries ==
    ASSUME CollectInv, DropLastObj
    PROVE  Carries(Depth - 1)
<1> DEFINE r == Dropped
           f == [Frame(IF Top.at = "drop" THEN "base" ELSE "baseAt") EXCEPT !.ref = r]
           code == [Frame("code") EXCEPT !.ref = r]
           k == Depth - 1
<1>1. r \in Objs /\ r \in Slots
  BY SlotFacts DEF DropLastObj
<1>2. /\ f \in FrameType /\ f.at \in {"base", "baseAt"} /\ f.ref = r
      /\ code \in FrameType /\ code.at = "code" /\ code.ref = r
  BY <1>1 DEF Frame, FrameType, Places
<1>3. /\ stack' = Append(Become(f), code) \/ stack' = Become(f)
      /\ live' = live /\ inProgress' = inProgress \union {r} /\ gcPass' = gcPass
      /\ Top.at \in {"drop", "dropAt"}
  BY DEF DropLastObj, Dropping
<1>4. /\ TypeInv /\ LetsGoAbove(k) /\ k \in Nat /\ Depth \in Nat /\ Depth = k + 1
      /\ k >= 1 /\ stack[k].at \notin Cleaning
  BY <1>3, DropLastObjGoes, UnderIdle DEF CollectInv, MarkInv, LifeInv, CleanupInv
<1> HIDE DEF f, code, r
<1>5. /\ Keeps(stack, stack', k) /\ Len(stack') \in {Depth, Depth + 1}
      /\ stack'[Depth] = f
      /\ Len(stack') = Depth + 1 => stack'[Depth + 1] = code
  <2>1. CASE stack' = Append(Become(f), code)
    BY <1>2, <1>4, <2>1, BecomePushKeeps
  <2>2. CASE stack' = Become(f)
    BY <1>2, <1>4, <2>2, BecomeKeeps
  <2> QED
    BY <1>3, <2>1, <2>2
<1>6. Lost(k)
  BY <1>3, TopLost DEF Cleaning, Handling
<1>7. ModesKept(k) /\ Taken(k)
  BY <1>5, KeptLists
<1> HIDE DEF k
<1>8. NewMarks
  <2>1. Depth \in 1..Len(stack')
    BY <1>4, <1>5
  <2>2. stack'[Depth].at \in Cleaning /\ stack'[Depth].ref = r
    BY <1>2, <1>5 DEF Cleaning
  <2>3. \A o \in inProgress' \intersect live' : o \notin inProgress \intersect live => o = r
    BY <1>3
  <2> QED
    BY <2>1, <2>2, <2>3 DEF NewMarks
<1>9. NewCode(k)
  <2> SUFFICES ASSUME NEW i \in 1..Len(stack'), i >= k, i + 1 <= Len(stack'),
                      stack'[i].at \in Cleaning
               PROVE  stack'[i + 1].at = "code" /\ stack'[i + 1].ref = stack'[i].ref
    BY DEF NewCode
  <2>1. i = k \/ (i = Depth /\ Len(stack') = Depth + 1)
    BY <1>4, <1>5
  <2>2. i # k
    BY <1>4, <1>5 DEF Keeps
  <2> QED
    BY <1>2, <1>5, <2>1, <2>2
<1>10. gcPass' = gcPass
  BY <1>3
<1>11. Carries(k)
  BY <1>4, <1>6, <1>7, <1>8, <1>9, <1>10 DEF Carries
<1> QED
  BY <1>11 DEF k

(* EnvT::ObjCleanup of r, above the stack below of its caller *)
LEMMA EnvTCleanupCarries ==
    ASSUME CollectInv, NEW r \in Objs, NEW below \in Seq(FrameType), Len(below) = Depth,
           KeepsAlike(stack, below, Depth), EnvTCleanup(r, below),
           \A i \in 1..Depth : /\ below[i].mode = stack[i].mode
                               /\ \A q \in stack[i].todo :
                                     q \notin below[i].todo =>
                                        q = r /\ i = Depth /\ stack[i].at = "gcObj",
           Top.at \notin Cleaning, FlagKept
    PROVE  Carries(Depth)
<1> DEFINE f == [Frame("envt") EXCEPT !.ref = r]
           code == [Frame("code") EXCEPT !.ref = r]
           g == Frame("drop")
<1>1. /\ Depth \in Nat /\ Depth >= 1 /\ r \in Refs /\ r \in Slots /\ TypeInv
      /\ LetsGoAbove(Depth) /\ Top = stack[Depth]
  BY StackFacts, SlotFacts, EnvTCleanupGoes DEF Slots, CollectInv, MarkInv, LifeInv, CleanupInv
<1>2. /\ f \in FrameType /\ f.at = "envt" /\ f.ref = r /\ g \in FrameType /\ g.at \notin Cleaning
      /\ code \in FrameType /\ code.at = "code" /\ code.ref = r
  BY <1>1 DEF Frame, FrameType, Places, Slots, Cleaning
<1>3. \/ /\ stack' = below \o <<f, code>> /\ live' = live
         /\ inProgress' = inProgress \union {r}
      \/ /\ stack' = Append(below, g) /\ live' = live \ {r} /\ inProgress' = inProgress
  BY DEF EnvTCleanup, Erase
<1> HIDE DEF f, code, g
<1>4. \/ /\ Keeps(below, stack', Depth) /\ Len(stack') = Depth + 2 /\ live' = live
         /\ stack'[Depth + 1] = f /\ stack'[Depth + 2] = code
         /\ inProgress' = inProgress \union {r}
      \/ /\ Keeps(below, stack', Depth) /\ Len(stack') = Depth + 1
         /\ stack'[Depth + 1] = g /\ live' = live \ {r} /\ inProgress' = inProgress
  <2>1. CASE stack' = below \o <<f, code>>
    <3>1. /\ Keeps(below, stack', Depth) /\ Len(stack') = Depth + 2
          /\ stack'[Depth + 1] = f /\ stack'[Depth + 2] = code
      BY <1>2, <2>1, Push2Keeps
    <3>2. Len(stack') # Depth + 1
      BY <1>1, <3>1
    <3>3. stack' # Append(below, g)
      BY <1>2, <3>2, PushKeeps
    <3> QED
      BY <1>3, <3>1, <3>3
  <2>2. CASE /\ stack' = Append(below, g) /\ live' = live \ {r}
             /\ inProgress' = inProgress
    BY <1>2, <2>2, PushKeeps
  <2> QED
    BY <1>3, <2>1, <2>2
<1>5. /\ ModesKept(Depth) /\ Lost(Depth)
      /\ \A i \in 1..Depth : stack'[i] = below[i] /\ stack'[i].at = stack[i].at
  <2>1. \A i \in 1..Depth : stack'[i] = below[i]
    BY <1>4 DEF Keeps
  <2>2. \A i \in 1..Depth : below[i].at = stack[i].at
    BY DEF KeepsAlike, Alike
  <2>3. \A i \in 1..Depth : stack'[i].mode = stack[i].mode
    BY <2>1
  <2>4. \A i \in 1..Depth : ~(i > Depth)
    BY <1>1
  <2> QED
    BY <2>1, <2>2, <2>3, <2>4 DEF ModesKept, Lost
<1>6. Taken(Depth)
  <2> SUFFICES ASSUME NEW i \in 1..Depth, NEW q \in doomed \intersect live',
                      q \in stack[i].todo, q \notin stack'[i].todo
               PROVE  /\ stack[i].at = "gcObj"
                      /\ i + 1 <= Len(stack') /\ stack'[i + 1].at = "envt"
                      /\ stack'[i + 1].ref = q
    BY DEF Taken
  <2>1. q = r /\ i = Depth /\ stack[i].at = "gcObj"
    BY <1>5
  <2>2. Len(stack') = Depth + 2 /\ stack'[Depth + 1] = f
    BY <1>4, <2>1
  <2> QED
    BY <1>1, <1>2, <2>1, <2>2
<1>7. NewMarks
  <2> SUFFICES ASSUME NEW o \in inProgress' \intersect live', o \notin inProgress \intersect live
               PROVE  \E i \in 1..Len(stack') : stack'[i].at \in Cleaning /\ stack'[i].ref = o
    BY DEF NewMarks
  <2>1. o = r /\ Len(stack') = Depth + 2 /\ stack'[Depth + 1] = f
    BY <1>4
  <2>2. Depth + 1 \in 1..Len(stack')
    BY <1>1, <2>1
  <2> QED
    BY <1>2, <2>1, <2>2 DEF Cleaning
<1>8. NewCode(Depth)
  <2> SUFFICES ASSUME NEW i \in 1..Len(stack'), i >= Depth, i + 1 <= Len(stack'),
                      stack'[i].at \in Cleaning
               PROVE  stack'[i + 1].at = "code" /\ stack'[i + 1].ref = stack'[i].ref
    BY DEF NewCode
  <2>1. stack'[Depth].at \notin Cleaning
    BY <1>1, <1>5
  <2>2. i = Depth + 1 /\ Len(stack') = Depth + 2
    BY <1>1, <1>2, <1>4, <2>1
  <2>3. stack'[i] = f /\ stack'[i + 1] = code
    <3>1. i + 1 = Depth + 2
      BY <1>1, <2>2
    <3> QED
      BY <1>1, <1>4, <2>2, <3>1
  <2> QED
    BY <1>2, <2>3
<1> QED
  BY <1>1, <1>5, <1>6, <1>7, <1>8 DEF Carries, FlagKept

LEMMA ObjDestroyCarries ==
    ASSUME CollectInv, NEW v \in Vars, ObjDestroy(v)
    PROVE  Carries(Depth)
<1>1. /\ stack \in Seq(FrameType) /\ Len(stack) = Depth
      /\ KeepsAlike(stack, stack, Depth)
  BY StackFacts, AlikeKept DEF CollectInv, MarkInv, LifeInv, CleanupInv
<1>2. /\ holds[Var(v)] \in Objs /\ EnvTCleanup(holds[Var(v)], stack)
      /\ Top.at \notin Cleaning /\ FlagKept
  BY DEF ObjDestroy, Cleanable, May, CodeRuns, Cleaning, FlagKept
<1> QED
  BY <1>1, <1>2, EnvTCleanupCarries

(* HEAP_GC passes over an object only if it is gone or in the hands of a
   CLEANUP below; what those can reach is not doomed. *)
LEMMA PassedOver ==
    ASSUME CollectInv, Top.at \in Sweeps, NEW r \in live \intersect inProgress
    PROVE  r \notin doomed
<1>1. /\ MarkInv /\ TypeInv /\ Depth \in Nat /\ Depth >= 1 /\ Top = stack[Depth]
      /\ Depth \in 1..Depth
  BY StackFacts DEF CollectInv, MarkInv, LifeInv, CleanupInv
<1>2. PICK i \in 1..Depth : stack[i].at \in Cleaning /\ stack[i].ref = r
  BY DEF CollectInv, MarkedHeld
<1>3. i # Depth
  BY <1>1, <1>2 DEF Cleaning, Sweeps
<1>4. i + 1 \in 1..Depth /\ i + 1 <= Depth
  BY <1>1, <1>3
<1>5. stack[i + 1].at = "code" /\ stack[i + 1].ref = r
  BY <1>2, <1>4 DEF CollectInv, CodeAbove, CodeOn
<1>6. PICK A \in SUBSET Refs : Spared(A, Depth)
  BY <1>1 DEF MarkInv, Marked
<1>7. r \in A
  BY <1>4, <1>5, <1>6 DEF Spared
<1> QED
  BY <1>6, <1>7 DEF Spared

LEMMA GCObjCarries ==
    ASSUME CollectInv, GCObj
    PROVE  Carries(Depth)
<1> DEFINE r == First(Top.todo)
           h == [Top EXCEPT !.todo = @ \ {r}]
           next == Become(h)
<1>1. /\ TypeInv /\ Depth \in Nat /\ Top = stack[Depth] /\ Top.at = "gcObj"
      /\ live \subseteq Refs /\ gcPass' = gcPass /\ Top \in FrameType /\ Depth >= 1
  BY StackFacts, TopFacts DEF CollectInv, MarkInv, LifeInv, CleanupInv, GCObj, TypeInv, TypeOK
<1>2. /\ next \in Seq(FrameType) /\ Len(next) = Depth
      /\ KeepsAlike(stack, next, Depth) /\ next[Depth] = h
      /\ \A i \in 1..(Depth - 1) : next[i] = stack[i]
  BY <1>1, NextAlike DEF GCObj, Sweeps
<1>3. h.mode = Top.mode /\ \A q \in Top.todo : q \notin h.todo => q = r
  BY <1>1 DEF FrameType
<1>4. IF Cleanable(r) THEN EnvTCleanup(r, next)
      ELSE stack' = next /\ Kept /\ UNCHANGED inProgress
  BY DEF GCObj
<1>5. Cleanable(r) => r \in Objs
  BY DEF Cleanable
<1>6. r \in live \intersect Objs /\ ~Cleanable(r) => r \in live \intersect inProgress
  BY DEF Cleanable
<1> HIDE DEF r, h, next
<1>7. \A i \in 1..Depth :
         /\ next[i].mode = stack[i].mode
         /\ \A q \in stack[i].todo :
               q \notin next[i].todo => q = r /\ i = Depth /\ stack[i].at = "gcObj"
  <2> SUFFICES ASSUME NEW i \in 1..Depth
               PROVE  /\ next[i].mode = stack[i].mode
                      /\ \A q \in stack[i].todo :
                            q \notin next[i].todo =>
                               q = r /\ i = Depth /\ stack[i].at = "gcObj"
    OBVIOUS
  <2>1. CASE i = Depth
    BY <1>1, <1>2, <1>3, <2>1
  <2>2. CASE i \in 1..(Depth - 1)
    BY <1>2, <2>2
  <2> QED
    BY <1>1, <2>1, <2>2
<1>8. FlagKept /\ Top.at \notin Cleaning /\ Top.at \in Sweeps
  BY <1>1 DEF FlagKept, Cleaning, Sweeps
<1>9. CASE Cleanable(r)
  BY <1>2, <1>4, <1>5, <1>7, <1>8, <1>9, EnvTCleanupCarries
<1>10. CASE ~Cleanable(r)
  <2>1. stack' = next /\ UNCHANGED <<live, inProgress>> /\ Len(stack') = Depth
    BY <1>2, <1>4, <1>10 DEF Kept
  <2>2. LetsGoAbove(Depth)
    BY <1>1, GCObjGoes
  <2>3. ModesKept(Depth)
    BY <1>7, <2>1 DEF ModesKept
  <2>4. Taken(Depth)
    BY <1>1, <1>6, <1>7, <1>8, <1>10, <2>1, PassedOver DEF Taken
  <2>5. Lost(Depth) /\ NoneAbove(stack', Depth, Cleaning) /\ NoNewMark
    BY <1>1, <2>1 DEF Lost, NoneAbove, NoNewMark
  <2> QED
    BY <1>1, <1>8, <2>1, <2>2, <2>3, <2>4, <2>5, QuietCarries
<1> QED
  BY <1>9, <1>10

LEMMA GCPtrCarries ==
    ASSUME CollectInv, GCPtr
    PROVE  Carries(Depth)
<1> DEFINE r == First(Top.todo)
           h == [Top EXCEPT !.todo = @ \ {r}]
           next == Become(h)
           g == Frame("drop")
<1>1. /\ TypeInv /\ Depth \in Nat /\ Top = stack[Depth] /\ Top.at = "gcPtr"
      /\ gcPass' = gcPass /\ inProgress' = inProgress /\ Top \in FrameType /\ Depth >= 1
  BY StackFacts, TopFacts DEF CollectInv, MarkInv, LifeInv, CleanupInv, GCPtr
<1>2. /\ next \in Seq(FrameType) /\ Len(next) = Depth /\ next[Depth] = h
      /\ \A i \in 1..(Depth - 1) : next[i] = stack[i]
  BY <1>1, NextAlike DEF GCPtr, Sweeps
<1>3. /\ h.mode = Top.mode /\ h.at = "gcPtr" /\ \A q \in Top.todo : q \notin h.todo => q = r
      /\ g \in FrameType /\ g.at \notin Cleaning
  BY <1>1, QuietFrames DEF FrameType, Frame, Cleaning
<1>4. /\ stack' = next \/ stack' = Append(next, g)
      /\ r \notin live' /\ live' \subseteq live
  BY DEF GCPtr, Erase, Kept
<1> HIDE DEF r, h, next, g
<1>5. /\ \A i \in 1..Depth : stack'[i] = next[i]
      /\ Len(stack') = Depth \/ (Len(stack') = Depth + 1 /\ stack'[Depth + 1] = g)
  <2>1. CASE stack' = next
    BY <1>2, <2>1
  <2>2. CASE stack' = Append(next, g)
    <3>1. Keeps(next, stack', Depth) /\ Len(stack') = Depth + 1 /\ stack'[Depth + 1] = g
      BY <1>2, <1>3, <2>2, PushKeeps
    <3> QED
      BY <3>1 DEF Keeps
  <2> QED
    BY <1>4, <2>1, <2>2
<1>6. \A i \in 1..Depth :
         /\ stack'[i].mode = stack[i].mode
         /\ \A q \in stack[i].todo : q \notin stack'[i].todo => q = r
  <2> SUFFICES ASSUME NEW i \in 1..Depth
               PROVE  /\ stack'[i].mode = stack[i].mode
                      /\ \A q \in stack[i].todo : q \notin stack'[i].todo => q = r
    OBVIOUS
  <2>1. CASE i = Depth
    BY <1>1, <1>2, <1>3, <1>5, <2>1
  <2>2. CASE i \in 1..(Depth - 1)
    BY <1>2, <1>5, <2>2
  <2> QED
    BY <1>1, <2>1, <2>2
<1>7. LetsGoAbove(Depth)
  BY <1>1, GCPtrGoes
<1>8. ModesKept(Depth) /\ Taken(Depth)
  BY <1>4, <1>6 DEF ModesKept, Taken
<1>9. Lost(Depth) /\ NoNewMark /\ FlagKept
  BY <1>1, <1>4 DEF Lost, NoNewMark, FlagKept
<1>10. NoneAbove(stack', Depth, Cleaning)
  BY <1>1, <1>3, <1>5, NoneBeyond
<1>11. stack'[Depth].at \notin Cleaning
  BY <1>1, <1>2, <1>3, <1>5 DEF Cleaning
<1> QED
  BY <1>1, <1>7, <1>8, <1>9, <1>10, <1>11, QuietCarries

-----------------------------------------------------------------------------
(* A new list *)
LEMMA NewListed ==
    ASSUME CollectInv, MarkInv', NEW k \in Nat, Keeps(stack, stack', k),
           k = Depth \/ (k = Depth - 1 /\ Top.at # "code"), Top.at \notin Cleaning,
           Len(stack') = k + 1, stack'[k + 1].at \in Sweeps,
           stack'[k + 1].mode = {"ptr", "obj"}, gcPass' = 1 => Listed(k + 1)',
           UNCHANGED <<live, inProgress>>
    PROVE  CollectInv'
<1>1. /\ Depth \in Nat /\ Depth >= 1 /\ Top = stack[Depth] /\ Depth' = k + 1
      /\ SweepFlagged(stack', gcPass')
      /\ \A i \in 1..k : stack'[i] = stack[i]
  BY StackFacts DEF CollectInv, MarkInv, LifeInv, CleanupInv, Keeps, Depth
<1>2. MarkedHeld'
  <2> SUFFICES ASSUME NEW o \in inProgress \intersect live
               PROVE  \E i \in 1..(k + 1) : stack'[i].at \in Cleaning /\ stack'[i].ref = o
    BY <1>1 DEF MarkedHeld
  <2>1. PICK i \in 1..Depth : stack[i].at \in Cleaning /\ stack[i].ref = o
    BY DEF CollectInv, MarkedHeld
  <2>2. i # Depth
    BY <1>1, <2>1
  <2>3. i \in 1..k /\ i \in 1..(k + 1)
    BY <1>1, <2>2
  <2> QED
    BY <1>1, <2>1, <2>3
<1>3. CodeAbove'
  <2> SUFFICES ASSUME NEW i \in 1..(k + 1), i + 1 <= k + 1, stack'[i].at \in Cleaning
               PROVE  stack'[i + 1].at = "code" /\ stack'[i + 1].ref = stack'[i].ref
    BY <1>1 DEF CodeAbove, CodeOn
  <2>1. i \in 1..k /\ stack[i].at \in Cleaning /\ stack[i] = stack'[i]
    BY <1>1
  <2>2. i # Depth
    BY <1>1, <2>1
  <2>3. i \in 1..Depth /\ i + 1 <= Depth
    BY <1>1, <2>1, <2>2
  <2>4. stack[i + 1].at = "code" /\ stack[i + 1].ref = stack[i].ref
    BY <2>1, <2>3 DEF CollectInv, CodeAbove, CodeOn
  <2>5. i + 1 \in 1..k
    BY <1>1, <2>1, <2>3, <2>4
  <2> QED
    BY <1>1, <2>1, <2>4, <2>5
<1>4. ASSUME NEW g \in 1..Depth', stack'[g].at \in Sweeps
      PROVE  stack'[g].mode = {"ptr", "obj"} /\ (gcPass' = 1 => Listed(g)')
  <2>1. g \in 1..Len(stack') /\ k + 1 \in 1..Len(stack')
    BY <1>1
  <2>2. g = k + 1
    BY <1>1, <1>4, <2>1 DEF SweepFlagged
  <2> QED
    BY <2>2
<1> QED
  BY <1>2, <1>3, <1>4 DEF CollectInv

(* The marks leave out what is doomed, so HEAP_GC lists it. *)
LEMMA SweepListed ==
    ASSUME NEW n, stack'[n] = Sweep({"ptr", "obj"}), live' = live,
           Reached(Roots) \intersect doomed' = {}
    PROVE  /\ Listed(n)' /\ stack'[n].at \in Sweeps /\ stack'[n].mode = {"ptr", "obj"}
<1>1. /\ stack'[n].at = "gcObj" /\ stack'[n].mode = {"ptr", "obj"}
      /\ stack'[n].todo = (live \intersect Objs) \ Reached(Roots)
      /\ stack'[n].keep = Reached(Roots) \intersect Ptrs
  BY DEF Sweep, Frame
<1> QED
  BY <1>1 DEF Listed, Sweeps

LEMMA HeapGCCollects ==
    ASSUME CollectInv, MarkInv', FullSweeps, NEW mode \in GCModes, HeapGC(mode), SweepNext
    PROVE  CollectInv'
<1>1. /\ stack' = Append(stack, Sweep(mode)) /\ UNCHANGED <<live, inProgress>>
      /\ gcPass = 0 /\ Top.at \in {"main", "code"}
  BY DEF HeapGC, May, CodeRuns
<1>2. mode = {"ptr", "obj"}
  BY DEF FullSweeps
<1>3. /\ MarkInv /\ TypeInv /\ stack \in Seq(FrameType) /\ Len(stack) = Depth
      /\ Depth \in Nat /\ Sweep(mode) \in FrameType
  BY <1>2, StackFacts, SweepFacts DEF CollectInv, MarkInv, LifeInv, CleanupInv
<1>4. Reached(Roots) \intersect doomed' = {}
  <2>1. doomed = {} /\ Roots = Nameable
    BY <1>1, <1>3, RootsNameable DEF MarkInv
  <2>2. doomed' = doomed \union Unreachable
    BY DEF SweepNext, GCStatement
  <2> QED
    BY <2>1, <2>2 DEF Unreachable
<1>5. PICK n \in Nat : n = Depth
  BY <1>3
<1>6. Keeps(stack, stack', n) /\ Len(stack') = n + 1 /\ stack'[n + 1] = Sweep(mode)
  BY <1>1, <1>3, <1>5, PushKeeps
<1>7. /\ Listed(n + 1)' /\ stack'[n + 1].at \in Sweeps
      /\ stack'[n + 1].mode = {"ptr", "obj"}
  BY <1>1, <1>2, <1>4, <1>6, SweepListed
<1>8. Top.at \notin Cleaning
  BY <1>1 DEF Cleaning
<1> QED
  BY <1>1, <1>5, <1>6, <1>7, <1>8, NewListed

LEMMA GCAgainCollects ==
    ASSUME CollectInv, MarkInv', GCAgain, doomed' \subseteq doomed
    PROVE  CollectInv'
<1>1. /\ stack' = Become(Sweep(Top.mode)) /\ UNCHANGED <<live, inProgress>>
      /\ Top.at = "gcPtr"
  BY DEF GCAgain
<1>2. /\ MarkInv /\ TypeInv /\ Depth - 1 \in Nat /\ Depth \in Nat /\ Depth \in 1..Depth
      /\ stack[Depth] = Top /\ (Depth - 1) + 1 = Depth
  BY <1>1, SweepTop DEF CollectInv, MarkInv, LifeInv, CleanupInv, Sweeps
<1>3. Top.mode = {"ptr", "obj"}
  BY <1>1, <1>2 DEF CollectInv, Sweeps
<1>4. Sweep(Top.mode) \in FrameType
  BY <1>2, <1>3, SweepFacts
<1>5. Reached(Roots) \intersect doomed' = {}
  <2>1. Marked(Depth)
    BY <1>1, <1>2 DEF MarkInv, Sweeps
  <2>2. PICK A \in SUBSET Refs : Spared(A, Depth)
    BY <2>1 DEF Marked
  <2>3. A \intersect doomed = {}
    BY <2>2 DEF Spared
  <2> QED
    BY <1>2, <2>2, <2>3, SparedReached
<1>6. PICK n \in Nat : n = Depth - 1 /\ n + 1 = Depth
  BY <1>2
<1>7. Keeps(stack, stack', n) /\ Len(stack') = n + 1 /\ stack'[n + 1] = Sweep(Top.mode)
  BY <1>1, <1>2, <1>4, <1>6, BecomeKeeps
<1>8. /\ Listed(n + 1)' /\ stack'[n + 1].at \in Sweeps
      /\ stack'[n + 1].mode = {"ptr", "obj"}
  BY <1>1, <1>3, <1>5, <1>7, SweepListed
<1>9. Top.at \notin Cleaning /\ Top.at # "code"
  BY <1>1 DEF Cleaning
<1> QED
  BY <1>1, <1>6, <1>7, <1>8, <1>9, NewListed

LEMMA GCObjEndCollects ==
    ASSUME CollectInv, MarkInv', GCObjEnd, doomed' \subseteq doomed
    PROVE  CollectInv'
<1> DEFINE f == [Frame("gcPtr") EXCEPT
                   !.mode = Top.mode,
                   !.todo = IF "ptr" \in Top.mode
                            THEN (live \intersect Ptrs) \ Top.keep ELSE {}]
<1>1. /\ stack' = Become(f) /\ UNCHANGED <<live, inProgress, gcPass>>
      /\ Top.at = "gcObj" /\ Top.todo = {}
  BY DEF GCObjEnd
<1>2. /\ TypeInv /\ Depth - 1 \in Nat /\ Depth \in 1..Depth
      /\ Depth \in Nat /\ stack[Depth] = Top /\ (Depth - 1) + 1 = Depth
      /\ live \subseteq Refs
  BY <1>1, SweepTop DEF CollectInv, MarkInv, LifeInv, CleanupInv, Sweeps, TypeInv, TypeOK
<1>3. Top.mode = {"ptr", "obj"} /\ (gcPass = 1 => Listed(Depth))
  BY <1>1, <1>2 DEF CollectInv, Sweeps
<1>4. /\ f \in FrameType /\ f.at = "gcPtr" /\ f.mode = {"ptr", "obj"}
      /\ f.todo = (live \intersect Ptrs) \ Top.keep
  <2>1. live \intersect Ptrs \subseteq Refs
    BY <1>2
  <2> QED
    BY <1>3, <2>1 DEF Frame, FrameType, Places
<1> HIDE DEF f
<1>5. PICK n \in Nat : n = Depth - 1 /\ n + 1 = Depth
  BY <1>2
<1>6. Keeps(stack, stack', n) /\ Len(stack') = n + 1 /\ stack'[n + 1] = f
  BY <1>1, <1>2, <1>4, <1>5, BecomeKeeps
<1>7. ASSUME gcPass' = 1 PROVE Listed(n + 1)'
  <2>1. Listed(Depth)
    BY <1>1, <1>3, <1>7
  <2>2. \A r \in doomed' \intersect live' : r \in live /\ r \notin Objs /\ r \notin Top.keep
    <3>1. ~(Depth + 1 <= Depth)
      BY <1>2
    <3> QED
      BY <1>1, <1>2, <2>1, <3>1 DEF Listed, Handed
  <2>3. \A r \in doomed' \intersect live' : r \in f.todo
    BY <1>2, <1>4, <2>2 DEF Refs
  <2> QED
    BY <1>4, <1>6, <2>3 DEF Listed
<1>8. Top.at \notin Cleaning /\ Top.at # "code" /\ stack'[n + 1].at \in Sweeps
  BY <1>1, <1>4, <1>6 DEF Cleaning, Sweeps
<1> QED
  BY <1>1, <1>4, <1>5, <1>6, <1>7, <1>8, NewListed

(* The marks and the list are those of the HEAP_GC below, which has to start
   again. *)
LEMMA UnlistedCollects ==
    ASSUME CollectInv, MarkInv', UNCHANGED <<stack, live, inProgress>>,
           gcPass' = 1 => gcPass = 1 /\ doomed' \subseteq doomed
    PROVE  CollectInv'
BY DEF CollectInv, MarkedHeld, CodeAbove, CodeOn, Listed, Handed, Depth

-----------------------------------------------------------------------------
CarriesOn == \E k \in Nat : Carries(k)

LEMMA StatementCarries ==
    ASSUME CollectInv, TypeInv', OnlyLetGo, Statement, ~GCStatement
    PROVE  CarriesOn
<1>1. Depth \in Nat /\ 0 \in Nat
  BY StackFacts DEF CollectInv, MarkInv, LifeInv, CleanupInv
<1>2. CASE \/ \E v \in Vars : ObjNew(v) \/ \E b \in Lvalues \union {Null} : PtrNew(v, b)
           \/ \E a \in Lvalues, b \in Lvalues \union Self : Assign(a, b)
           \/ \E a \in VarSlots \union Members : \E b : AssignMember(a, b)
           \/ ObjNewRejected
  BY <1>1, <1>2, MainStatementCarries DEF CarriesOn
<1>3. CASE \E v \in Vars : PtrFree(v) \/ ObjDestroy(v)
  BY <1>1, <1>3, PtrFreeCarries, ObjDestroyCarries DEF CarriesOn
<1>4. CASE ObjNewFailed \/ \E v \in Vars : TouchDying(v)
                              \/ \E on \in BOOLEAN : HeapRefcount(v, on)
  <2>1. /\ UNCHANGED <<live, holds, stack, inProgress, gcPass>>
        /\ Top.at \in {"main", "code"}
    BY <1>4 DEF ObjNewFailed, TouchDying, HeapRefcount, May, CodeRuns
  <2>2. FlagKept /\ Top.at \notin Cleaning
    BY <2>1 DEF FlagKept, Cleaning
  <2> QED
    BY <1>1, <2>1, <2>2, SameCarries DEF CarriesOn
<1>5. CASE \E a \in VarSlots \union Members : Clear(a)
  BY <1>1, <1>5, ClearCarries DEF CarriesOn
<1>6. CASE \/ \E a \in Members, b \in VarSlots \union Self : AssignMember(a, b)
           \/ \E a \in VarSlots, b \in Members : AssignMember(a, b)
  <2>1. \E a \in VarSlots \union Members : \E b : AssignMember(a, b)
    BY <1>6
  <2> QED
    BY <1>2, <2>1
<1> QED
  BY <1>2, <1>3, <1>4, <1>5, <1>6 DEF Statement, GCStatement

LEMMA CppStepCarries ==
    ASSUME CollectInv, CppStep, ~GCAgain, ~GCObjEnd
    PROVE  CarriesOn
<1>1. Depth \in Nat /\ Depth - 1 \in Nat
  BY StackFacts DEF CollectInv, MarkInv, LifeInv, CleanupInv
<1>2. CASE CopyEnd \/ StoreEnd \/ DropOne \/ BaseEnd \/ GCEnd
  BY <1>1, <1>2, PopCarries DEF CarriesOn
<1>3. CASE UseAfterFree \/ DropAsserts
  <2>1. /\ UNCHANGED <<live, holds, stack, inProgress, gcPass>>
        /\ Top.at \in {"copy", "store", "drop", "dropAt"}
    BY <1>3 DEF UseAfterFree, DropAsserts, Dropping
  <2>2. FlagKept /\ Top.at \notin Cleaning
    BY <2>1 DEF FlagKept, Cleaning
  <2> QED
    BY <1>1, <2>1, <2>2, SameCarries DEF CarriesOn
<1>4. CASE DropLastPtr \/ DropLastObj
  BY <1>1, <1>4, DropLastPtrCarries, DropLastObjCarries DEF CarriesOn
<1>5. CASE BaseFree \/ EnvTReturn \/ EnvTFree
  BY <1>1, <1>5, BaseFreeCarries, EnvTReturnCarries, EnvTFreeCarries DEF CarriesOn
<1>6. CASE BaseThrow
  <2>1. Carries(Depth - 2)
    BY <1>6, BaseThrowCarries
  <2>2. Depth - 2 \in Nat
    BY <2>1 DEF Carries, LetsGoAbove, KeepsAlike
  <2> QED
    BY <2>1, <2>2 DEF CarriesOn
<1>7. CASE GCObj \/ GCPtr
  BY <1>1, <1>7, GCObjCarries, GCPtrCarries DEF CarriesOn
<1> QED
  BY <1>2, <1>3, <1>4, <1>5, <1>6, <1>7 DEF CppStep

LEMMA CleanupEndsCarries ==
    ASSUME CollectInv, NoErrors, CleanupEnds
    PROVE  CarriesOn
<1>1. Depth - 1 \in Nat
  BY StackFacts DEF CollectInv, MarkInv, LifeInv, CleanupInv
<1>2. ~CleanupThrows
  BY DEF NoErrors, CleanupThrows, May
<1> QED
  BY <1>1, <1>2, CleanupReturnsCarries DEF CleanupEnds, CarriesOn

LEMMA CollectInit == SweepInit => CollectInv
<1> SUFFICES ASSUME SweepInit PROVE CollectInv
  OBVIOUS
<1>1. MarkInv /\ inProgress = {}
  BY MarkInit DEF SweepInit, Init
<1>2. Depth = 1 /\ \A i \in 1..Depth : stack[i].at = "main"
  BY DEF SweepInit, Init, Depth, Frame
<1> QED
  BY <1>1, <1>2 DEF CollectInv, MarkedHeld, CodeAbove, Sweeps, Cleaning

LEMMA CollectNext ==
    ASSUME OnlyLetGo, NoErrors, FullSweeps
    PROVE  CollectInv /\ [SweepNext]_<<vars, doomed>> => CollectInv'
<1> SUFFICES ASSUME CollectInv, [SweepNext]_<<vars, doomed>> PROVE CollectInv'
  OBVIOUS
<1>1. MarkInv' /\ TypeInv'
  BY MarkNext DEF CollectInv, MarkInv, LifeInv, CleanupInv
<1>2. CASE UNCHANGED <<vars, doomed>>
  BY <1>1, <1>2, UnlistedCollects DEF vars
<1>3. CASE SweepNext /\ GCStatement
  <2>1. CASE \E mode \in GCModes : HeapGC(mode)
    BY <1>1, <1>3, <2>1, HeapGCCollects
  <2>2. CASE HeapGCNested
    BY <1>1, <2>2, UnlistedCollects DEF HeapGCNested
  <2> QED
    BY <1>3, <2>1, <2>2 DEF GCStatement
<1>4. CASE SweepNext /\ ~GCStatement
  <2>1. doomed' \subseteq doomed
    BY <1>4 DEF SweepNext
  <2>2. CASE GCAgain \/ GCObjEnd
    BY <1>1, <2>1, <2>2, GCAgainCollects, GCObjEndCollects
  <2>3. CASE Halted
    BY <1>1, <2>1, <2>3, UnlistedCollects DEF Halted, vars
  <2>4. CASE ~GCAgain /\ ~GCObjEnd /\ ~Halted
    <3>1. CarriesOn
      BY <1>1, <1>4, <2>4, StatementCarries, CppStepCarries, CleanupEndsCarries
      DEF SweepNext, Next
    <3> QED
      BY <1>1, <2>1, <3>1, CollectKept DEF CarriesOn
  <2> QED
    BY <2>2, <2>3, <2>4
<1> QED
  BY <1>2, <1>3, <1>4

(* When HEAP_GC (EnvT::HeapGC) returns, everything is gone that nothing could
   reach at any HEAP_GC statement that ran meanwhile: what is still there is on the
   list of the sweep that runs or in the hands of the CLEANUP it has just called,
   and a call within a CLEANUP method makes it sweep again.  For HEAP_GC without
   /PTR and /OBJ, and CLEANUP methods that only let go of references and do not
   fail (an error leaves the object marked, and nothing collects it). *)
THEOREM SweepCollectsUnreachable ==
    ASSUME OnlyLetGo, NoErrors, FullSweeps
    PROVE  SweepSpec => SweepCollectsDoomed
<1>1. SweepInit => CollectInv
  BY CollectInit
<1>2. CollectInv /\ [SweepNext]_<<vars, doomed>> => CollectInv'
  BY CollectNext
<1>3. CollectInv /\ [SweepNext]_<<vars, doomed>>
        => [GCEnd => doomed \intersect live = {}]_<<vars, doomed>>
  <2> SUFFICES ASSUME CollectInv, GCEnd PROVE doomed \intersect live = {}
    OBVIOUS
  <2>1. Top.at = "gcPtr" /\ Top.todo = {} /\ gcPass # 2
    BY DEF GCEnd
  <2>2. /\ Depth \in 1..Depth /\ Depth \in 1..Len(stack) /\ stack[Depth] = Top
        /\ gcPass \in 0..2 /\ SweepFlagged(stack, gcPass)
    BY StackFacts DEF CollectInv, MarkInv, LifeInv, CleanupInv, TypeInv, TypeOK
  <2>3. gcPass = 1
    BY <2>1, <2>2 DEF SweepFlagged, Sweeps
  <2>4. Listed(Depth)
    BY <2>1, <2>2, <2>3 DEF CollectInv, Sweeps
  <2> QED
    BY <2>1, <2>2, <2>4 DEF Listed
<1> QED
  BY <1>1, <1>2, <1>3, PTL DEF SweepSpec, SweepCollectsDoomed
=============================================================================
