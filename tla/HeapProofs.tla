------------------------------ MODULE HeapProofs ------------------------------
(***************************************************************************)
(* Proofs about the heap, for every set of variables, every bound and      *)
(* every vocabulary of statements: its types, and what stands on the C++   *)
(* stack (one CLEANUP call per object at a time, one HEAP_GC at a time);   *)
(* then that the counts are exact, and what follows from it.               *)
(***************************************************************************)
EXTENDS Heap, TLAPS, FiniteSetTheorems, SequenceTheorems, WellFoundedInduction

Assigning == {"copy", "store"}
AssignAt == {"dropAt", "baseAt", "baseCatch", "baseThrow"}
ObjCleanup == {"code", "base", "baseAt", "baseCatch", "baseThrow", "baseEnd",
               "envt", "envtFree"}

(* Frame f is well formed, and can stand on frame g. *)
StandsOn(f, g) ==
    /\ f.at # "main"
    /\ f.at \in Assigning => f.ref \in VarSlots \union Refs
    /\ f.at = "copy" => f.src \in Slots
    /\ f.at \in ObjCleanup => f.ref \in Objs
    /\ f.at \in AssignAt => g.at = "store"
    /\ f.at = "code" => g.at \in {"base", "baseAt", "envt"} /\ g.ref = f.ref

ShapeOf(s) ==
    /\ s \in Seq(FrameType)
    /\ Len(s) \in Nat \ {0}
    /\ s[1].at = "main"
    /\ \A i \in 2..Len(s) : StandsOn(s[i], s[i - 1])

TypeInv == TypeOK /\ ShapeOf(stack)

-----------------------------------------------------------------------------
(* Slots of different kinds are different. *)
LEMMA SlotFacts ==
    /\ \A v \in Vars : Var(v) \in VarSlots
    /\ \A i \in 1..MaxDepth : Tmp(i) \in TmpSlots
    /\ \A i \in Ix : Ptr(i) \in Ptrs /\ Obj(i) \in Objs
    /\ VarSlots \subseteq Slots /\ Refs \subseteq Slots
    /\ TmpSlots \subseteq Slots /\ LeakSlots \subseteq Slots
    /\ Ptrs \subseteq Refs /\ Objs \subseteq Refs
    /\ \A i : \A s \in VarSlots \union Refs \union LeakSlots : s # Tmp(i)
    /\ \A i, j : Tmp(i) = Tmp(j) => i = j
    /\ \A r \in Refs : r \notin VarSlots \union LeakSlots
    /\ \A s \in VarSlots : s \notin LeakSlots
    /\ \A i \in Ix : <<"leak", i>> \in LeakSlots
    /\ Ptrs \intersect Objs = {}
    /\ Null \notin Slots
BY DEF Var, Tmp, Ptr, Obj, VarSlots, TmpSlots, LeakSlots, Refs, Ptrs, Objs, Slots,
       Null

LEMMA CutShape ==
    ASSUME NEW s, ShapeOf(s), NEW k \in 1..Len(s)
    PROVE  /\ ShapeOf(SubSeq(s, 1, k))
           /\ Len(SubSeq(s, 1, k)) = k
           /\ \A i \in 1..k : SubSeq(s, 1, k)[i] = s[i]
<1>1. /\ SubSeq(s, 1, k) \in Seq(FrameType)
      /\ Len(SubSeq(s, 1, k)) = k
      /\ \A i \in 1..k : SubSeq(s, 1, k)[i] = s[i]
  BY DEF ShapeOf
<1> QED
  BY <1>1 DEF ShapeOf

LEMMA PushShape ==
    ASSUME NEW s, ShapeOf(s), NEW f \in FrameType, StandsOn(f, s[Len(s)])
    PROVE  /\ ShapeOf(Append(s, f))
           /\ Len(Append(s, f)) = Len(s) + 1
           /\ \A i \in 1..Len(s) : Append(s, f)[i] = s[i]
           /\ Append(s, f)[Len(s) + 1] = f
<1>1. /\ Append(s, f) \in Seq(FrameType)
      /\ Len(Append(s, f)) = Len(s) + 1
      /\ \A i \in 1..Len(s) : Append(s, f)[i] = s[i]
      /\ Append(s, f)[Len(s) + 1] = f
  BY DEF ShapeOf
<1> QED
  BY <1>1 DEF ShapeOf

LEMMA Push2Shape ==
    ASSUME NEW s, ShapeOf(s), NEW f \in FrameType, NEW g \in FrameType,
           StandsOn(f, s[Len(s)]), StandsOn(g, f)
    PROVE  /\ ShapeOf(s \o <<f, g>>)
           /\ Len(s \o <<f, g>>) = Len(s) + 2
           /\ \A i \in 1..Len(s) : (s \o <<f, g>>)[i] = s[i]
           /\ (s \o <<f, g>>)[Len(s) + 1] = f
           /\ (s \o <<f, g>>)[Len(s) + 2] = g
<1>1. /\ s \o <<f, g>> \in Seq(FrameType)
      /\ Len(s \o <<f, g>>) = Len(s) + 2
      /\ \A i \in 1..Len(s) : (s \o <<f, g>>)[i] = s[i]
      /\ (s \o <<f, g>>)[Len(s) + 1] = f
      /\ (s \o <<f, g>>)[Len(s) + 2] = g
  BY DEF ShapeOf
<1> QED
  BY <1>1 DEF ShapeOf

LEMMA FrameFacts ==
    /\ \A at \in Places : Frame(at) \in FrameType /\ Frame(at).at = at
    /\ \A f \in FrameType :
          /\ f.at \in Places /\ f.ref \in Slots \union {Null}
          /\ f.src \in Slots \union {Null}
          /\ f.todo \subseteq Refs /\ f.keep \subseteq Refs
          /\ f.mode \subseteq {"ptr", "obj"}
    /\ \A f \in FrameType, s \in Slots \union {Null} :
          [f EXCEPT !.ref = s] \in FrameType
    /\ \A f \in FrameType, at \in Places : [f EXCEPT !.at = at] \in FrameType
    /\ \A f \in FrameType, S \in SUBSET Refs : [f EXCEPT !.todo = S] \in FrameType
BY DEF Frame, FrameType

LEMMA TopFacts ==
    ASSUME TypeInv
    PROVE  /\ Top \in FrameType
           /\ Depth \in 1..MaxDepth /\ Depth = Len(stack)
           /\ Top = stack[Depth]
           /\ Top.at # "main" => /\ Depth > 1
                                 /\ StandsOn(Top, stack[Depth - 1])
                                 /\ stack[Depth - 1] \in FrameType
BY DEF TypeInv, TypeOK, ShapeOf, Top, Depth

LEMMA PopShape ==
    ASSUME TypeInv, Top.at # "main"
    PROVE  /\ ShapeOf(Pop) /\ Len(Pop) = Depth - 1
           /\ \A i \in 1..Depth - 1 : Pop[i] = stack[i]
BY CutShape, TopFacts DEF TypeInv, Pop

LEMMA BecomeShape ==
    ASSUME TypeInv, Top.at # "main", NEW f \in FrameType,
           StandsOn(f, stack[Depth - 1])
    PROVE  /\ ShapeOf(Become(f)) /\ Len(Become(f)) = Depth
           /\ \A i \in 1..Depth - 1 : Become(f)[i] = stack[i]
           /\ Become(f)[Depth] = f
<1>1. /\ Depth - 1 \in 1..MaxDepth /\ Depth \in 1..MaxDepth
      /\ ShapeOf(Pop) /\ Len(Pop) = Depth - 1
      /\ \A i \in 1..Depth - 1 : Pop[i] = stack[i]
  BY PopShape, TopFacts, MaxDepthAssumption
<1>2. Pop[Len(Pop)] = stack[Depth - 1] /\ Len(Pop) + 1 = Depth
  BY <1>1
<1>3. StandsOn(f, Pop[Len(Pop)])
  BY <1>2
<1>4. /\ ShapeOf(Append(Pop, f))
      /\ Len(Append(Pop, f)) = Len(Pop) + 1
      /\ \A i \in 1..Len(Pop) : Append(Pop, f)[i] = Pop[i]
      /\ Append(Pop, f)[Len(Pop) + 1] = f
  BY <1>1, <1>3, PushShape
<1> QED
  BY <1>1, <1>2, <1>4 DEF Become


-----------------------------------------------------------------------------
(* What the shared parts of the actions do to the types. *)
LEMMA IncRefType ==
    ASSUME TypeInv, NEW r
    PROVE  IncRef(count, r) \in [Refs -> Nat]
BY DEF TypeInv, TypeOK, IncRef

LEMMA DecRefQuietType ==
    ASSUME TypeInv, NEW r
    PROVE  DecRefQuiet(r) \in [Refs -> Nat]
BY DEF TypeInv, TypeOK, DecRefQuiet

(* The types of what Erase changes, and of what it leaves alone. *)
HeapTyped ==
    /\ live' \subseteq Refs
    /\ count' \in [Refs -> Nat]
    /\ enableGC' \in [Refs -> BOOLEAN]
    /\ holds' \in [Slots -> Refs \union {Null}]

LEMMA EraseType ==
    ASSUME TypeInv, NEW r \in Refs, NEW i \in 1..MaxDepth, Erase(r, i)
    PROVE  HeapTyped
<1>1. r \in Slots /\ Tmp(i) \in Slots
  BY SlotFacts
<1> QED
  BY <1>1 DEF TypeInv, TypeOK, Erase, HeapTyped

LEMMA KeptType ==
    ASSUME TypeInv, Kept
    PROVE  HeapTyped
BY DEF TypeInv, TypeOK, Kept, HeapTyped

(* A step that only the stack and the heap take part in. *)
(* Nor does the rest of the state. *)
RestTyped ==
    /\ heapIx' \in 1..(MaxIx + 1)
    /\ inProgress' \subseteq Objs
    /\ gcPass' \in 0..2
    /\ stale' \in BOOLEAN
    /\ fate' \in {"running", "terminated", "undefined"}

LEMMA StepType ==
    ASSUME TypeInv, HeapTyped, RestTyped, ShapeOf(stack'), Len(stack') <= MaxDepth
    PROVE  TypeInv'
<1>1. Depth' \in 1..MaxDepth
  BY MaxDepthAssumption DEF ShapeOf, Depth
<1> QED
  BY <1>1 DEF TypeInv, TypeOK, HeapTyped, RestTyped, ShapeOf, Depth

LEMMA AssignFrames ==
    /\ \A s \in Slots :
          LET f == [Frame("store") EXCEPT !.ref = s]
          IN  f \in FrameType /\ f.at = "store" /\ f.ref = s
BY DEF Frame, FrameType, Places

LEMMA RoomFacts ==
    ASSUME TypeInv, NEW n \in Nat, Room(n)
    PROVE  \A i \in 1..n : /\ Depth + i \in 1..MaxDepth
                           /\ Tmp(Depth + i) \in Slots
<1>1. \A i \in 1..n : Depth + i \in 1..MaxDepth
  BY TopFacts, MaxDepthAssumption DEF Room
<1> QED
  BY <1>1, SlotFacts

LEMMA AssignShape ==
    ASSUME TypeInv, Room(2), NEW s \in VarSlots \union Refs,
           NEW f \in FrameType, f.at \in Assigning, f.ref = s,
           f.at = "copy" => f.src \in Slots /\ s \notin Objs,
           stack' = stack \o <<f, Drop(s)>>
    PROVE  ShapeOf(stack') /\ Len(stack') = Depth + 2 /\ Len(stack') <= MaxDepth
<1>3. StandsOn(f, stack[Len(stack)])
  BY DEF StandsOn, Assigning, AssignAt, ObjCleanup
<1>4. Drop(s) \in FrameType /\ Drop(s).at = IF s \in Objs THEN "dropAt" ELSE "drop"
  BY FrameFacts DEF Drop, Places
<1>5. StandsOn(Drop(s), f)
  BY <1>4 DEF StandsOn, Assigning, AssignAt, ObjCleanup
<1>6. ShapeOf(stack)
  BY DEF TypeInv
<1>7. ShapeOf(stack \o <<f, Drop(s)>>) /\ Len(stack \o <<f, Drop(s)>>) = Len(stack) + 2
  BY <1>3, <1>4, <1>5, <1>6, Push2Shape
<1>8. Len(stack) = Depth /\ Depth + 2 <= MaxDepth
  BY TopFacts DEF Room
<1> QED
  BY <1>7, <1>8

LEMMA OverwriteType ==
    ASSUME TypeInv, Room(2), NEW s \in VarSlots \union Refs,
           NEW new \in Refs \union {Null}, NEW g, Overwrite(g, s, new)
    PROVE  holds' \in [Slots -> Refs \union {Null}]
<1>1. s \in Slots /\ Tmp(Depth + 1) \in Slots /\ Tmp(Depth + 2) \in Slots
  BY SlotFacts, RoomFacts
<1> QED
  BY <1>1 DEF TypeInv, TypeOK, Overwrite

(* The slots an assignment of interpreted code can name. *)
LEMMA NamedFacts ==
    ASSUME TypeInv
    PROVE  /\ Lvalues \subseteq VarSlots \union Ptrs
           /\ Members \subseteq Refs
           /\ Top.at = "code" => Self \subseteq Slots
<1>1. live \subseteq Refs
  BY DEF TypeInv, TypeOK
<1>2. Top.at = "code" => Depth - 1 \in 1..MaxDepth
  BY TopFacts, MaxDepthAssumption
<1> QED
  BY <1>1, <1>2, SlotFacts DEF Lvalues, Members, Self, Named, Refs

-----------------------------------------------------------------------------
(* Type correctness, one lemma per action. *)
LEMMA PtrNewType ==
    ASSUME TypeInv, NEW v \in Vars, NEW b \in Slots \union {Null}, PtrNew(v, b)
    PROVE  TypeInv'
<1> DEFINE content == IF b = Null THEN Null ELSE holds[b]
           f == [Frame("store") EXCEPT !.ref = Var(v)]
<1>1. Var(v) \in VarSlots /\ Var(v) \in Slots /\ Var(v) \notin Objs
  BY SlotFacts
<1>2. heapIx \in Ix /\ Ptr(heapIx) \in Refs /\ Ptr(heapIx) \in Slots
  BY SlotFacts DEF TypeInv, TypeOK, PtrNew, Ix
<1>3. content \in Refs \union {Null}
  BY DEF TypeInv, TypeOK
<1>4. IncRef(count, content) \in [Refs -> Nat]
  BY IncRefType
<1>5. Room(2)
  BY DEF PtrNew
<1>6. Tmp(Depth + 1) \in Slots /\ Tmp(Depth + 2) \in Slots
  BY <1>5, RoomFacts
<1>7. HeapTyped
  BY <1>1, <1>2, <1>3, <1>4, <1>6 DEF TypeInv, TypeOK, PtrNew, HeapTyped
<1>8. ShapeOf(stack') /\ Len(stack') <= MaxDepth
  <2>1. stack' = stack \o <<f, Drop(Var(v))>>
    BY <1>1 DEF PtrNew, Drop
  <2>2. f \in FrameType /\ f.at = "store" /\ f.ref = Var(v)
    BY <1>1, AssignFrames
  <2> QED
    BY <2>1, <2>2, <1>1, <1>5, AssignShape DEF Assigning
<1>9. RestTyped
  BY <1>2, MaxIxAssumption DEF TypeInv, TypeOK, PtrNew, Ix, RestTyped
<1> QED
  BY <1>7, <1>8, <1>9, StepType
LEMMA SameShape ==
    ASSUME TypeInv, UNCHANGED stack
    PROVE  ShapeOf(stack') /\ Len(stack') <= MaxDepth
BY TopFacts, MaxDepthAssumption DEF TypeInv

LEMMA ObjNewType ==
    ASSUME TypeInv, NEW v \in Vars, ObjNew(v)
    PROVE  TypeInv'
<1> DEFINE f == [Frame("store") EXCEPT !.ref = Var(v)]
<1>1. Var(v) \in VarSlots /\ Var(v) \in Slots
  BY SlotFacts
<1>2. heapIx \in Ix /\ Obj(heapIx) \in Refs
  BY SlotFacts DEF TypeInv, TypeOK, ObjNew, Ix
<1>3. Room(2)
  BY DEF ObjNew
<1>4. holds' \in [Slots -> Refs \union {Null}]
  BY <1>1, <1>2, <1>3, OverwriteType DEF ObjNew
<1>5. HeapTyped
  BY <1>2, <1>4 DEF TypeInv, TypeOK, ObjNew, HeapTyped
<1>6. ShapeOf(stack') /\ Len(stack') <= MaxDepth
  <2>1. stack' = stack \o <<f, Drop(Var(v))>>
    BY DEF ObjNew, Overwrite
  <2>2. f \in FrameType /\ f.at = "store" /\ f.ref = Var(v)
    BY <1>1, AssignFrames
  <2> QED
    BY <2>1, <2>2, <1>1, <1>3, AssignShape DEF Assigning
<1>7. RestTyped
  BY <1>2, MaxIxAssumption DEF TypeInv, TypeOK, ObjNew, Ix, RestTyped
<1> QED
  BY <1>5, <1>6, <1>7, StepType

LEMMA ObjNewRejectedType ==
    ASSUME TypeInv, ObjNewRejected
    PROVE  TypeInv'
<1>1. heapIx \in Ix /\ Obj(heapIx) \in Refs /\ <<"leak", heapIx>> \in Slots
  BY SlotFacts DEF TypeInv, TypeOK, ObjNewRejected, Ix
<1>2. HeapTyped
  BY <1>1 DEF TypeInv, TypeOK, ObjNewRejected, HeapTyped
<1>3. RestTyped
  BY <1>1, MaxIxAssumption DEF TypeInv, TypeOK, ObjNewRejected, Ix, RestTyped
<1>4. ShapeOf(stack') /\ Len(stack') <= MaxDepth
  BY SameShape DEF ObjNewRejected
<1> QED
  BY <1>2, <1>3, <1>4, StepType

LEMMA ObjNewFailedType ==
    ASSUME TypeInv, ObjNewFailed
    PROVE  TypeInv'
<1>1. HeapTyped
  BY DEF TypeInv, TypeOK, ObjNewFailed, HeapTyped
<1>2. RestTyped
  BY MaxIxAssumption DEF TypeInv, TypeOK, ObjNewFailed, Ix, RestTyped
<1>3. ShapeOf(stack') /\ Len(stack') <= MaxDepth
  BY SameShape DEF ObjNewFailed
<1> QED
  BY <1>1, <1>2, <1>3, StepType

LEMMA AssignType ==
    ASSUME TypeInv, NEW a \in VarSlots \union Ptrs, NEW b \in Slots, Assign(a, b)
    PROVE  TypeInv'
<1> DEFINE f == [[Frame("copy") EXCEPT !.src = b] EXCEPT !.ref = a]
<1>1. a \in VarSlots \union Refs /\ a \in Slots /\ a \notin Objs
  BY SlotFacts
<1>2. Room(2)
  BY DEF Assign
<1>3. holds' \in [Slots -> Refs \union {Null}]
  BY <1>1, <1>2, OverwriteType DEF Assign
<1>4. HeapTyped
  BY <1>3 DEF TypeInv, TypeOK, Assign, HeapTyped
<1>5. ShapeOf(stack') /\ Len(stack') <= MaxDepth
  <2>1. stack' = stack \o <<f, Drop(a)>>
    BY DEF Assign, Overwrite
  <2>2. f \in FrameType /\ f.at = "copy" /\ f.ref = a /\ f.src = b
    BY <1>1 DEF Frame, FrameType, Places
  <2> QED
    BY <2>1, <2>2, <1>1, <1>2, AssignShape DEF Assigning
<1>6. RestTyped
  BY DEF TypeInv, TypeOK, Assign, RestTyped
<1> QED
  BY <1>4, <1>5, <1>6, StepType

LEMMA ClearType ==
    ASSUME TypeInv, NEW a \in VarSlots \union Refs, Clear(a)
    PROVE  TypeInv'
<1> DEFINE f == [Frame("store") EXCEPT !.ref = a]
<1>1. a \in Slots /\ Room(2)
  BY SlotFacts DEF Clear
<1>2. holds' \in [Slots -> Refs \union {Null}]
  BY <1>1, OverwriteType DEF Clear
<1>3. HeapTyped
  BY <1>2 DEF TypeInv, TypeOK, Clear, HeapTyped
<1>4. ShapeOf(stack') /\ Len(stack') <= MaxDepth
  <2>1. stack' = stack \o <<f, Drop(a)>>
    BY DEF Clear, Overwrite
  <2>2. f \in FrameType /\ f.at = "store" /\ f.ref = a
    BY <1>1, AssignFrames
  <2> QED
    BY <2>1, <2>2, <1>1, AssignShape DEF Assigning
<1>5. RestTyped
  BY DEF TypeInv, TypeOK, Clear, RestTyped
<1> QED
  BY <1>3, <1>4, <1>5, StepType

LEMMA AssignMemberType ==
    ASSUME TypeInv, NEW a \in VarSlots \union Refs, NEW b \in Slots,
           AssignMember(a, b)
    PROVE  TypeInv'
<1> DEFINE f == [Frame("store") EXCEPT !.ref = a]
<1>1. a \in Slots /\ Room(2) /\ holds[b] \in Refs \union {Null}
  BY SlotFacts DEF AssignMember, TypeInv, TypeOK
<1>2. holds' \in [Slots -> Refs \union {Null}]
  BY <1>1, OverwriteType DEF AssignMember
<1>3. count' \in [Refs -> Nat]
  BY IncRefType DEF AssignMember
<1>4. HeapTyped
  BY <1>2, <1>3 DEF TypeInv, TypeOK, AssignMember, HeapTyped
<1>5. ShapeOf(stack') /\ Len(stack') <= MaxDepth
  <2>1. stack' = stack \o <<f, Drop(a)>>
    BY DEF AssignMember, Overwrite
  <2>2. f \in FrameType /\ f.at = "store" /\ f.ref = a
    BY <1>1, AssignFrames
  <2> QED
    BY <2>1, <2>2, <1>1, AssignShape DEF Assigning
<1>6. RestTyped
  BY DEF TypeInv, TypeOK, AssignMember, RestTyped
<1> QED
  BY <1>4, <1>5, <1>6, StepType

LEMMA PtrFreeType ==
    ASSUME TypeInv, NEW v \in Vars, PtrFree(v)
    PROVE  TypeInv'
<1>1. holds[Var(v)] \in Refs /\ Room(1)
  BY SlotFacts DEF PtrFree, TypeInv, TypeOK
<1>2. Depth + 1 \in 1..MaxDepth
  BY <1>1, RoomFacts
<1>3. HeapTyped
  BY <1>1, <1>2, EraseType DEF PtrFree
<1>4. ShapeOf(stack') /\ Len(stack') <= MaxDepth
  <2>1. Frame("drop") \in FrameType /\ StandsOn(Frame("drop"), stack[Len(stack)])
    BY FrameFacts DEF Places, StandsOn, Assigning, AssignAt, ObjCleanup
  <2>2. ShapeOf(stack)
    BY DEF TypeInv
  <2>3. ShapeOf(Append(stack, Frame("drop"))) /\ Len(Append(stack, Frame("drop"))) = Depth + 1
    BY <2>1, <2>2, PushShape, TopFacts
  <2> QED
    BY <2>3, <1>2 DEF PtrFree
<1>5. RestTyped
  BY DEF TypeInv, TypeOK, PtrFree, RestTyped
<1> QED
  BY <1>3, <1>4, <1>5, StepType

LEMMA HeapRefcountType ==
    ASSUME TypeInv, NEW v \in Vars, NEW on \in BOOLEAN, HeapRefcount(v, on)
    PROVE  TypeInv'
<1>1. HeapTyped
  BY DEF TypeInv, TypeOK, HeapRefcount, HeapTyped
<1>2. RestTyped
  BY DEF TypeInv, TypeOK, HeapRefcount, RestTyped
<1>3. ShapeOf(stack') /\ Len(stack') <= MaxDepth
  BY SameShape DEF HeapRefcount
<1> QED
  BY <1>1, <1>2, <1>3, StepType

(* TouchDying, UseAfterFree and DropAsserts change nothing but fate. *)
FateOnly ==
    /\ fate' \in {"running", "terminated", "undefined"}
    /\ UNCHANGED <<live, count, enableGC, holds, heapIx, inProgress, gcPass,
                   stack, stale>>

LEMMA FateOnlyType ==
    ASSUME TypeInv, FateOnly
    PROVE  TypeInv'
BY DEF TypeInv, TypeOK, FateOnly, Depth

LEMMA CopyEndType ==
    ASSUME TypeInv, CopyEnd
    PROVE  TypeInv'
<1>1. Top.at = "copy" /\ Top.ref \in Slots /\ Top.src \in Slots
  BY TopFacts, SlotFacts DEF CopyEnd, StandsOn, Assigning
<1>2. count' \in [Refs -> Nat]
  BY IncRefType DEF CopyEnd
<1>3. HeapTyped
  BY <1>1, <1>2 DEF TypeInv, TypeOK, CopyEnd, HeapTyped
<1>4. ShapeOf(stack') /\ Len(stack') <= MaxDepth
  BY <1>1, PopShape, TopFacts, MaxDepthAssumption DEF CopyEnd
<1>5. RestTyped
  BY DEF TypeInv, TypeOK, CopyEnd, RestTyped
<1> QED
  BY <1>3, <1>4, <1>5, StepType

LEMMA StoreEndType ==
    ASSUME TypeInv, StoreEnd
    PROVE  TypeInv'
<1>1. Top.at = "store" /\ Top.ref \in Slots /\ Tmp(Depth) \in Slots
  BY TopFacts, SlotFacts DEF StoreEnd, StandsOn, Assigning
<1>2. HeapTyped
  BY <1>1 DEF TypeInv, TypeOK, StoreEnd, HeapTyped
<1>3. ShapeOf(stack') /\ Len(stack') <= MaxDepth
  BY <1>1, PopShape, TopFacts, MaxDepthAssumption DEF StoreEnd
<1>4. RestTyped
  BY DEF TypeInv, TypeOK, StoreEnd, RestTyped
<1> QED
  BY <1>2, <1>3, <1>4, StepType

LEMMA DropOneType ==
    ASSUME TypeInv, DropOne
    PROVE  TypeInv'
<1>1. Top.at # "main" /\ Tmp(Depth) \in Slots
  BY TopFacts, SlotFacts DEF DropOne, Dropping
<1>2. count' \in [Refs -> Nat]
  <2>1. CASE UNCHANGED count
    BY <2>1 DEF TypeInv, TypeOK
  <2>2. CASE /\ Dropped \in live /\ count[Dropped] > 0
             /\ count' = [count EXCEPT ![Dropped] = @ - 1]
    <3>1. count \in [Refs -> Nat] /\ count[Dropped] - 1 \in Nat
      BY <2>2 DEF TypeInv, TypeOK
    <3> QED
      BY <2>2, <3>1
  <2> QED
    BY <2>1, <2>2 DEF DropOne
<1>3. HeapTyped
  BY <1>1, <1>2 DEF TypeInv, TypeOK, DropOne, HeapTyped
<1>4. ShapeOf(stack') /\ Len(stack') <= MaxDepth
  BY <1>1, PopShape, TopFacts, MaxDepthAssumption DEF DropOne
<1>5. RestTyped
  BY DEF TypeInv, TypeOK, DropOne, RestTyped
<1> QED
  BY <1>3, <1>4, <1>5, StepType

(* A destructor may run on top of any frame. *)
LEMMA DropFrame ==
    /\ Frame("drop") \in FrameType
    /\ \A g : StandsOn(Frame("drop"), g)
BY FrameFacts DEF Places, StandsOn, Assigning, AssignAt, ObjCleanup

LEMMA DropLastPtrType ==
    ASSUME TypeInv, DropLastPtr
    PROVE  TypeInv'
<1>1. Top.at # "main" /\ Dropped \in Refs /\ Depth \in 1..MaxDepth
  BY TopFacts DEF DropLastPtr, Dropping, TypeInv, TypeOK
<1>2. HeapTyped
  BY <1>1, EraseType DEF DropLastPtr
<1>3. ShapeOf(Become(Frame("drop"))) /\ Len(Become(Frame("drop"))) = Depth
  BY <1>1, BecomeShape, DropFrame
<1>4. ShapeOf(stack') /\ Len(stack') <= MaxDepth
  BY <1>1, <1>3, MaxDepthAssumption DEF DropLastPtr
<1>5. RestTyped
  BY DEF TypeInv, TypeOK, DropLastPtr, RestTyped
<1> QED
  BY <1>2, <1>4, <1>5, StepType

(* A frame of CLEANUP on top of the frame that called it. *)
LEMMA CodeFrame ==
    ASSUME NEW r \in Objs
    PROVE  LET code == [Frame("code") EXCEPT !.ref = r]
           IN  /\ code \in FrameType
               /\ code.at = "code" /\ code.ref = r
               /\ \A g : g.at \in {"base", "baseAt", "envt"} /\ g.ref = r
                            => StandsOn(code, g)
<1>1. r \in Slots
  BY SlotFacts
<1> QED
  BY <1>1 DEF Frame, FrameType, Places, StandsOn, Assigning, AssignAt, ObjCleanup

LEMMA DropLastObjType ==
    ASSUME TypeInv, DropLastObj
    PROVE  TypeInv'
<1> DEFINE r == Dropped
           f == [Frame(IF Top.at = "drop" THEN "base" ELSE "baseAt") EXCEPT !.ref = r]
           code == [Frame("code") EXCEPT !.ref = r]
<1>1. /\ r \in Objs /\ r \in Slots /\ Top.at \in {"drop", "dropAt"}
      /\ Tmp(Depth) \in Slots
  BY SlotFacts, TopFacts DEF DropLastObj, Dropping, TypeInv, TypeOK
<1>2. /\ f \in FrameType /\ f.ref = r
      /\ f.at = IF Top.at = "drop" THEN "base" ELSE "baseAt"
  BY <1>1 DEF Frame, FrameType, Places
<1>3. StandsOn(f, stack[Depth - 1])
  BY <1>1, <1>2, TopFacts DEF StandsOn, Assigning, AssignAt, ObjCleanup
<1>4. ShapeOf(Become(f)) /\ Len(Become(f)) = Depth /\ Become(f)[Depth] = f
  BY <1>1, <1>2, <1>3, BecomeShape
<1>a. f.at \in {"base", "baseAt", "envt"} /\ f.ref = r
  BY <1>2
<1>b. /\ code \in FrameType
      /\ \A g : g.at \in {"base", "baseAt", "envt"} /\ g.ref = r => StandsOn(code, g)
  BY <1>1, CodeFrame
<1> HIDE DEF f, code
<1>5. /\ code \in FrameType /\ StandsOn(code, f)
  BY <1>a, <1>b
<1>6. ShapeOf(Append(Become(f), code)) /\ Len(Append(Become(f), code)) = Depth + 1
  BY <1>4, <1>5, PushShape
<1>7. ShapeOf(stack') /\ Len(stack') <= MaxDepth
  <2>1. CASE HasCleanup(r)
    <3>1. stack' = Append(Become(f), code) /\ Room(1)
      BY <2>1 DEF DropLastObj, f, code
    <3> QED
      BY <3>1, <1>6 DEF Room
  <2>2. CASE ~HasCleanup(r)
    <3>1. stack' = Become(f)
      BY <2>2 DEF DropLastObj, f
    <3> QED
      BY <3>1, <1>4, TopFacts, MaxDepthAssumption
  <2> QED
    BY <2>1, <2>2
<1>8. HeapTyped
  <2>1. UNCHANGED <<live, enableGC>>
    BY DEF DropLastObj
  <2>2. count' \in [Refs -> Nat] /\ holds' \in [Slots -> Refs \union {Null}]
    <3>1. \/ UNCHANGED <<count, holds>>
          \/ /\ count' = [count EXCEPT ![r] = 0]
             /\ holds' = [holds EXCEPT ![Tmp(Depth)] = Null]
      BY DEF DropLastObj
    <3>2. count \in [Refs -> Nat] /\ holds \in [Slots -> Refs \union {Null}]
      BY DEF TypeInv, TypeOK
    <3>3. r \in Refs
      BY <1>1, SlotFacts
    <3> HIDE DEF r
    <3> QED
      BY <3>1, <3>2, <3>3, <1>1
  <2> QED
    BY <2>1, <2>2 DEF TypeInv, TypeOK, HeapTyped
<1>9. RestTyped
  BY <1>1 DEF TypeInv, TypeOK, DropLastObj, RestTyped
<1> QED
  BY <1>7, <1>8, <1>9, StepType

LEMMA BaseFreeType ==
    ASSUME TypeInv, BaseFree
    PROVE  TypeInv'
<1> DEFINE r == Top.ref
           at == IF Top.at = "baseCatch" THEN "baseThrow" ELSE "baseEnd"
           f == [Top EXCEPT !.at = at]
<1>1. /\ Top.at \in {"base", "baseAt", "baseCatch"} /\ r \in Objs
      /\ Top \in FrameType /\ Depth > 1
  BY TopFacts DEF BaseFree, StandsOn, ObjCleanup
<1>2. f \in FrameType /\ f.at = at /\ f.ref = r
  BY <1>1 DEF FrameType, Places
<1>3. StandsOn(f, stack[Depth - 1])
  BY <1>1, <1>2, TopFacts DEF StandsOn, Assigning, AssignAt, ObjCleanup
<1>4. ShapeOf(Become(f)) /\ Len(Become(f)) = Depth
  BY <1>1, <1>2, <1>3, BecomeShape
<1> HIDE DEF f
<1>5. /\ ShapeOf(Append(Become(f), Frame("drop")))
      /\ Len(Append(Become(f), Frame("drop"))) = Depth + 1
  BY <1>4, DropFrame, PushShape
<1>6. /\ HeapTyped
      /\ ShapeOf(stack') /\ Len(stack') <= MaxDepth
  <2>1. CASE r \in live
    <3>1. /\ Room(1) /\ Erase(r, Depth + 1)
          /\ stack' = Append(Become(f), Frame("drop"))
      BY <2>1 DEF BaseFree, f
    <3>2. Depth + 1 \in 1..MaxDepth
      BY <3>1, RoomFacts
    <3> QED
      BY <3>1, <3>2, <1>1, <1>5, EraseType, SlotFacts, MaxDepthAssumption
  <2>2. CASE r \notin live
    <3>1. stack' = Become(f) /\ Kept
      BY <2>2 DEF BaseFree, f
    <3> QED
      BY <3>1, <1>4, KeptType, TopFacts, MaxDepthAssumption
  <2> QED
    BY <2>1, <2>2
<1>7. RestTyped
  BY DEF TypeInv, TypeOK, BaseFree, RestTyped
<1> QED
  BY <1>6, <1>7, StepType

LEMMA BaseEndType ==
    ASSUME TypeInv, BaseEnd
    PROVE  TypeInv'
<1>1. Top.at = "baseEnd" /\ Tmp(Depth) \in Slots
  BY TopFacts, SlotFacts DEF BaseEnd
<1>2. count' \in [Refs -> Nat]
  BY DecRefQuietType DEF BaseEnd
<1>3. HeapTyped
  BY <1>1, <1>2 DEF TypeInv, TypeOK, BaseEnd, HeapTyped
<1>4. ShapeOf(stack') /\ Len(stack') <= MaxDepth
  BY <1>1, PopShape, TopFacts, MaxDepthAssumption DEF BaseEnd
<1>5. RestTyped
  BY DEF TypeInv, TypeOK, BaseEnd, Unmark, RestTyped
<1> QED
  BY <1>3, <1>4, <1>5, StepType

(* Below a frame of AssignAt there is the assignment, and $MAIN$ below it. *)
LEMMA UnderAssignAt ==
    ASSUME TypeInv, Top.at \in AssignAt
    PROVE  /\ Depth > 2
           /\ stack[Depth - 1].at = "store"
           /\ stack[Depth - 1].ref \in VarSlots \union Refs
<1>1. Depth > 1 /\ stack[Depth - 1].at = "store" /\ Len(stack) = Depth
      /\ Depth \in Nat /\ stack[1].at = "main"
  BY TopFacts, MaxDepthAssumption DEF StandsOn, AssignAt, TypeInv, ShapeOf
<1>2. Depth > 2
  BY <1>1
<1>3. StandsOn(stack[Depth - 1], stack[Depth - 2])
  BY <1>1, <1>2 DEF TypeInv, ShapeOf
<1> QED
  BY <1>1, <1>2, <1>3 DEF StandsOn, Assigning

LEMMA BaseThrowType ==
    ASSUME TypeInv, BaseThrow
    PROVE  TypeInv'
<1>1. /\ Top.at = "baseThrow" /\ Top.ref \in Refs
      /\ Tmp(Depth) \in Slots
  BY TopFacts, SlotFacts DEF BaseThrow, StandsOn, ObjCleanup
<1>2. /\ Depth > 2 /\ Tmp(Depth - 1) \in Slots
      /\ stack[Depth - 1].ref \in Slots
  BY <1>1, UnderAssignAt, TopFacts, SlotFacts, MaxDepthAssumption DEF AssignAt
<1>3. count' \in [Refs -> Nat]
  BY DecRefQuietType DEF BaseThrow
<1>4. HeapTyped
  BY <1>1, <1>2, <1>3 DEF TypeInv, TypeOK, BaseThrow, HeapTyped
<1>5. ShapeOf(stack') /\ Len(stack') <= MaxDepth
  <2>1. ShapeOf(stack) /\ Depth - 2 \in 1..Len(stack) /\ Depth - 2 <= MaxDepth
    BY <1>2, TopFacts, MaxDepthAssumption DEF TypeInv
  <2> QED
    BY <2>1, CutShape DEF BaseThrow
<1>6. RestTyped
  BY DEF TypeInv, TypeOK, BaseThrow, Unmark, RestTyped
<1> QED
  BY <1>4, <1>5, <1>6, StepType

(* EnvT::ObjCleanup on top of any stack. *)
LEMMA EnvTCleanupType ==
    ASSUME TypeInv, NEW r \in Objs, NEW below, ShapeOf(below), EnvTCleanup(r, below)
    PROVE  /\ HeapTyped /\ inProgress' \subseteq Objs
           /\ ShapeOf(stack') /\ Len(stack') <= MaxDepth
<1> DEFINE i == Len(below) + 1
           f == [Frame("envt") EXCEPT !.ref = r]
           code == [Frame("code") EXCEPT !.ref = r]
<1>1. i \in Nat \ {0} /\ r \in Slots /\ r \in Refs
  BY SlotFacts DEF ShapeOf
<1>2. f \in FrameType /\ f.ref = r /\ f.at = "envt"
  BY <1>1 DEF Frame, FrameType, Places
<1>3. StandsOn(f, below[Len(below)])
  BY <1>2 DEF StandsOn, Assigning, AssignAt, ObjCleanup
<1>4. code \in FrameType /\ StandsOn(code, f)
  BY <1>2, CodeFrame
<1> HIDE DEF f, code
<1>5. CASE HasCleanup(r)
  <2>1. /\ i + 1 <= MaxDepth
        /\ stack' = below \o <<f, code>>
        /\ holds' = [holds EXCEPT ![Tmp(i)] = r]
        /\ count' = [count EXCEPT ![r] = @ + 1]
        /\ inProgress' = inProgress \union {r}
        /\ UNCHANGED <<live, enableGC>>
    BY <1>5 DEF EnvTCleanup, f, code
  <2>2. ShapeOf(stack') /\ Len(stack') = i + 1
    BY <2>1, <1>2, <1>3, <1>4, Push2Shape, <1>1
  <2>3. Tmp(i) \in Slots
    BY <2>1, <1>1, SlotFacts, MaxDepthAssumption
  <2>4. HeapTyped
    BY <2>1, <2>3, <1>1 DEF TypeInv, TypeOK, HeapTyped
  <2> QED
    BY <2>1, <2>2, <2>4 DEF TypeInv, TypeOK
<1>6. CASE ~HasCleanup(r)
  <2>1. /\ i <= MaxDepth /\ Erase(r, i)
        /\ stack' = Append(below, Frame("drop"))
        /\ UNCHANGED inProgress
    BY <1>6 DEF EnvTCleanup
  <2>2. ShapeOf(stack') /\ Len(stack') = i
    BY <2>1, DropFrame, PushShape, <1>1
  <2>3. HeapTyped
    BY <2>1, <1>1, EraseType, MaxDepthAssumption
  <2> QED
    BY <2>1, <2>2, <2>3 DEF TypeInv, TypeOK
<1> QED
  BY <1>5, <1>6

LEMMA ObjDestroyType ==
    ASSUME TypeInv, NEW v \in Vars, ObjDestroy(v)
    PROVE  TypeInv'
<1>1. holds[Var(v)] \in Objs /\ EnvTCleanup(holds[Var(v)], stack)
  BY DEF ObjDestroy, Cleanable
<1>2. /\ HeapTyped /\ inProgress' \subseteq Objs
      /\ ShapeOf(stack') /\ Len(stack') <= MaxDepth
  BY <1>1, EnvTCleanupType DEF TypeInv
<1>3. RestTyped
  BY <1>2 DEF TypeInv, TypeOK, ObjDestroy, RestTyped
<1> QED
  BY <1>2, <1>3, StepType

LEMMA EnvTReturnType ==
    ASSUME TypeInv, EnvTReturn
    PROVE  TypeInv'
<1> DEFINE f == [Top EXCEPT !.at = "envtFree"]
<1>1. /\ Top.at = "envt" /\ Top.ref \in Objs /\ Top \in FrameType
      /\ Room(1) /\ Depth \in 1..MaxDepth /\ Depth + 1 \in 1..MaxDepth
  BY TopFacts, RoomFacts DEF EnvTReturn, StandsOn, ObjCleanup
<1>2. Tmp(Depth) \in Slots /\ Tmp(Depth + 1) \in Slots
  BY <1>1, SlotFacts
<1>3. f \in FrameType /\ f.at = "envtFree" /\ f.ref = Top.ref
  BY <1>1 DEF FrameType, Places
<1>4. StandsOn(f, stack[Depth - 1])
  BY <1>1, <1>3 DEF StandsOn, Assigning, AssignAt, ObjCleanup
<1>5. ShapeOf(Become(f)) /\ Len(Become(f)) = Depth
  BY <1>1, <1>3, <1>4, BecomeShape
<1> HIDE DEF f
<1>6. ShapeOf(stack') /\ Len(stack') <= MaxDepth
  <2>1. stack' = Append(Become(f), Frame("drop"))
    BY DEF EnvTReturn, f
  <2> QED
    BY <2>1, <1>1, <1>5, DropFrame, PushShape, MaxDepthAssumption
<1>7. HeapTyped
  BY <1>2 DEF TypeInv, TypeOK, EnvTReturn, HeapTyped
<1>8. RestTyped
  BY DEF TypeInv, TypeOK, EnvTReturn, Unmark, RestTyped
<1> QED
  BY <1>6, <1>7, <1>8, StepType

LEMMA EnvTFreeType ==
    ASSUME TypeInv, EnvTFree
    PROVE  TypeInv'
<1>1. /\ Top.at = "envtFree" /\ Top.ref \in Refs
      /\ Depth \in 1..MaxDepth /\ Depth - 1 <= MaxDepth
  BY TopFacts, SlotFacts, MaxDepthAssumption DEF EnvTFree, StandsOn, ObjCleanup
<1>2. HeapTyped /\ ShapeOf(stack') /\ Len(stack') <= MaxDepth
  <2>1. CASE Top.ref \in live
    <3>1. Erase(Top.ref, Depth) /\ stack' = Become(Frame("drop"))
      BY <2>1 DEF EnvTFree
    <3> QED
      BY <3>1, <1>1, EraseType, BecomeShape, DropFrame, MaxDepthAssumption
  <2>2. CASE Top.ref \notin live
    <3>1. stack' = Pop /\ Kept
      BY <2>2 DEF EnvTFree
    <3> QED
      BY <3>1, <1>1, PopShape, KeptType
  <2> QED
    BY <2>1, <2>2
<1>3. RestTyped
  BY DEF TypeInv, TypeOK, EnvTFree, RestTyped
<1> QED
  BY <1>2, <1>3, StepType

LEMMA CleanupReturnsType ==
    ASSUME TypeInv, CleanupReturns
    PROVE  TypeInv'
<1>1. HeapTyped
  BY DEF TypeInv, TypeOK, CleanupReturns, HeapTyped
<1>2. ShapeOf(stack') /\ Len(stack') <= MaxDepth
  BY PopShape, TopFacts, MaxDepthAssumption DEF CleanupReturns
<1>3. RestTyped
  BY DEF TypeInv, TypeOK, CleanupReturns, RestTyped
<1> QED
  BY <1>1, <1>2, <1>3, StepType

(* Below a CLEANUP method there is its ObjCleanup, and a caller below that. *)
LEMMA UnderCode ==
    ASSUME TypeInv, Top.at = "code"
    PROVE  /\ Depth > 2
           /\ stack[Depth - 1].at \in {"base", "baseAt", "envt"}
           /\ stack[Depth - 1].ref = Top.ref /\ Top.ref \in Objs
           /\ StandsOn(stack[Depth - 1], stack[Depth - 2])
           /\ stack[Depth - 1] \in FrameType
           /\ stack[Depth - 2].at = "gcObj" => Depth > 3
<1>1. /\ Depth > 1 /\ Len(stack) = Depth /\ Depth \in Nat
      /\ stack[1].at = "main" /\ Top.ref \in Objs
      /\ stack[Depth - 1].at \in {"base", "baseAt", "envt"}
      /\ stack[Depth - 1].ref = Top.ref /\ stack[Depth - 1] \in FrameType
  BY TopFacts, MaxDepthAssumption DEF StandsOn, ObjCleanup, TypeInv, ShapeOf
<1>2. Depth > 2
  BY <1>1
<1>3. StandsOn(stack[Depth - 1], stack[Depth - 2])
  BY <1>1, <1>2 DEF TypeInv, ShapeOf
<1> QED
  BY <1>1, <1>2, <1>3

LEMMA CleanupThrowsType ==
    ASSUME TypeInv, CleanupThrows
    PROVE  TypeInv'
<1> DEFINE below == stack[Depth - 1]
<1>1. /\ Top.at = "code" /\ Depth \in 1..MaxDepth /\ Depth > 2
      /\ ShapeOf(stack) /\ Len(stack) = Depth
      /\ Tmp(Depth - 1) \in Slots
  BY TopFacts, UnderCode, SlotFacts, MaxDepthAssumption DEF CleanupThrows, TypeInv
<1>2. CASE below.at = "base"
  <2>1. FateOnly
    BY <1>2 DEF CleanupThrows, FateOnly
  <2> QED
    BY <2>1, FateOnlyType
<1>3. CASE below.at = "baseAt"
  <2> DEFINE f == [below EXCEPT !.at = "baseCatch"]
  <2>1. /\ stack' = [Pop EXCEPT ![Depth - 1].at = "baseCatch"]
        /\ UNCHANGED <<live, count, enableGC, holds, heapIx, inProgress, gcPass,
                       stale, fate>>
    BY <1>3 DEF CleanupThrows
  <2>2. ShapeOf(Pop) /\ Len(Pop) = Depth - 1 /\ Pop[Depth - 1] = below
    BY <1>1, PopShape
  <2>3. f \in FrameType /\ f.ref = below.ref /\ f.at = "baseCatch"
    BY <1>1, UnderCode DEF FrameType, Places
  <2>4. StandsOn(f, stack[Depth - 2])
    BY <1>1, <1>3, <2>3, UnderCode DEF StandsOn, Assigning, AssignAt, ObjCleanup
  <2>5. stack' = [Pop EXCEPT ![Depth - 1] = f]
    BY <2>1, <2>2
  <2> HIDE DEF f, below
  <2>6. ShapeOf(stack') /\ Len(stack') = Depth - 1
    <3>1. /\ stack' \in Seq(FrameType) /\ Len(stack') = Depth - 1
          /\ stack'[Depth - 1] = f
          /\ \A i \in 1..Depth - 2 : stack'[i] = Pop[i]
      BY <2>2, <2>3, <2>5, <1>1, MaxDepthAssumption DEF ShapeOf
    <3>2. Pop[Depth - 2] = stack[Depth - 2]
      BY <1>1, PopShape, MaxDepthAssumption
    <3>3. \A i \in 2..Depth - 2 : stack'[i] = Pop[i] /\ stack'[i - 1] = Pop[i - 1]
                                   /\ StandsOn(Pop[i], Pop[i - 1])
      BY <3>1, <2>2, <1>1, MaxDepthAssumption DEF ShapeOf
    <3>4. StandsOn(stack'[Depth - 1], stack'[Depth - 2])
      BY <3>1, <3>2, <2>4, <1>1, MaxDepthAssumption
    <3>5. \A i \in 2..Depth - 1 : StandsOn(stack'[i], stack'[i - 1])
      BY <3>3, <3>4, <1>1, MaxDepthAssumption
    <3>6. stack'[1].at = "main"
      BY <3>1, <2>2, <1>1, MaxDepthAssumption DEF ShapeOf
    <3> QED
      BY <3>1, <3>5, <3>6, <1>1, MaxDepthAssumption DEF ShapeOf
  <2>7. HeapTyped /\ RestTyped
    BY <2>1 DEF TypeInv, TypeOK, HeapTyped, RestTyped
  <2> QED
    BY <2>6, <2>7, <1>1, StepType, MaxDepthAssumption
<1>4. CASE below.at = "envt"
  <2> DEFINE gcBelow == stack[Depth - 2].at = "gcObj"
             k == IF gcBelow THEN Depth - 3 ELSE Depth - 2
  <2>1. /\ holds' = [holds EXCEPT ![Tmp(Depth - 1)] = Null]
        /\ count' = DecRefQuiet(holds[Tmp(Depth - 1)])
        /\ stack' = SubSeq(stack, 1, k)
        /\ gcPass' = Unwound(gcBelow)
        /\ UNCHANGED <<live, enableGC, heapIx, inProgress, stale, fate>>
    BY <1>4 DEF CleanupThrows
  <2>2. k \in 1..Len(stack) /\ k <= MaxDepth
    BY <1>1, UnderCode, MaxDepthAssumption
  <2>3. ShapeOf(stack') /\ Len(stack') <= MaxDepth
    BY <2>1, <2>2, <1>1, CutShape
  <2>4. HeapTyped
    BY <2>1, <1>1, DecRefQuietType DEF TypeInv, TypeOK, HeapTyped
  <2>5. RestTyped
    BY <2>1 DEF TypeInv, TypeOK, Unwound, RestTyped
  <2> QED
    BY <2>3, <2>4, <2>5, StepType
<1> QED
  BY <1>1, <1>2, <1>3, <1>4, UnderCode

LEMMA FirstFacts ==
    ASSUME NEW S \in SUBSET Refs, S # {}
    PROVE  First(S) \in S
<1> DEFINE T == {r[2] : r \in S}
<1>1. T \subseteq Nat /\ T # {}
  BY MaxIxAssumption DEF Refs, Ptrs, Objs, Ix
<1> DEFINE R == OpToRel(<, Nat)
<1>2. IsWellFoundedOn(R, Nat)
  BY NatLessThanWellFounded
<1>3. \A x, y \in Nat : x < y => <<x, y>> \in R
  BY DEF OpToRel
<1> HIDE DEF R
<1>4. PICK x \in T : \A y \in T : ~(<<y, x>> \in R)
  BY <1>1, <1>2, WFMin
<1> HIDE DEF T
<1>5. \A y \in T : x <= y
  <2> SUFFICES ASSUME NEW y \in T PROVE x <= y
    OBVIOUS
  <2>1. x \in Nat /\ y \in Nat /\ ~(<<y, x>> \in R)
    BY <1>1, <1>4
  <2>2. ~(y < x)
    BY <2>1, <1>3
  <2> QED
    BY <2>1, <2>2
<1> USE DEF T
<1>6. \E r \in S : \A q \in S : r[2] <= q[2]
  BY <1>5
<1> QED
  BY <1>6 DEF First

(* Marking only chooses among heap variables that are there. *)
LEMMA SweepType ==
    ASSUME TypeInv, NEW mode \in SUBSET {"ptr", "obj"}
    PROVE  /\ Sweep(mode) \in FrameType /\ Sweep(mode).at = "gcObj"
           /\ \A g : StandsOn(Sweep(mode), g)
<1>1. Reached(Roots) \subseteq live /\ live \subseteq Refs
  BY DEF Reached, TypeInv, TypeOK
<1>2. /\ (live \intersect Objs) \ Reached(Roots) \in SUBSET Refs
      /\ Reached(Roots) \intersect Ptrs \in SUBSET Refs
  BY <1>1
<1>3. Sweep(mode) \in FrameType /\ Sweep(mode).at = "gcObj"
  BY <1>2 DEF Sweep, Frame, FrameType, Places
<1> QED
  BY <1>3 DEF StandsOn, Assigning, AssignAt, ObjCleanup

LEMMA HeapGCType ==
    ASSUME TypeInv, NEW mode \in GCModes, HeapGC(mode)
    PROVE  TypeInv'
<1>1. mode \in SUBSET {"ptr", "obj"}
  BY GCModesAssumption
<1>2. ShapeOf(stack) /\ Len(stack) = Depth
  BY TopFacts DEF TypeInv
<1>3. stack' = Append(stack, Sweep(mode)) /\ Room(1)
  BY DEF HeapGC
<1>4. ShapeOf(stack') /\ Len(stack') = Depth + 1
  BY <1>1, <1>2, <1>3, SweepType, PushShape
<1>5. ShapeOf(stack') /\ Len(stack') <= MaxDepth
  BY <1>3, <1>4 DEF Room
<1>6. HeapTyped
  BY DEF TypeInv, TypeOK, HeapGC, HeapTyped
<1>7. RestTyped
  BY DEF TypeInv, TypeOK, HeapGC, RestTyped
<1> QED
  BY <1>5, <1>6, <1>7, StepType

LEMMA ResetType ==
    ASSUME TypeInv, ResetIfEmpty
    PROVE  heapIx' \in 1..(MaxIx + 1) /\ stale' \in BOOLEAN
<1>1. stale \in BOOLEAN /\ heapIx \in 1..(MaxIx + 1)
  BY DEF TypeInv, TypeOK
<1>2. \/ heapIx' = 1 /\ stale' = (stale \/ Mentioned # {Null})
      \/ heapIx' = heapIx /\ stale' = stale
  BY DEF ResetIfEmpty
<1>3. heapIx' \in 1..(MaxIx + 1)
  BY <1>1, <1>2, MaxIxAssumption
<1>4. stale' \in BOOLEAN
  BY <1>1, <1>2, Zenon
<1> QED
  BY <1>3, <1>4

LEMMA HeapGCNestedType ==
    ASSUME TypeInv, HeapGCNested
    PROVE  TypeInv'
<1>1. HeapTyped
  BY DEF TypeInv, TypeOK, HeapGCNested, HeapTyped
<1>2. RestTyped
  BY ResetType DEF TypeInv, TypeOK, HeapGCNested, RestTyped
<1>3. ShapeOf(stack') /\ Len(stack') <= MaxDepth
  BY SameShape DEF HeapGCNested
<1> QED
  BY <1>1, <1>2, <1>3, StepType

(* A frame of HEAP_GC that has taken r off its list. *)
LEMMA NextFrame ==
    ASSUME TypeInv, Top.at \in {"gcObj", "gcPtr"}, Top.todo # {}
    PROVE  LET r == First(Top.todo)
               next == Become([Top EXCEPT !.todo = @ \ {r}])
           IN  r \in Refs /\ ShapeOf(next) /\ Len(next) = Depth
<1> DEFINE r == First(Top.todo)
           f == [Top EXCEPT !.todo = @ \ {r}]
<1>1. Top \in FrameType /\ Top.todo \in SUBSET Refs
  BY TopFacts, FrameFacts
<1>2. r \in Refs
  BY <1>1, FirstFacts
<1>3. f \in FrameType /\ f.at = Top.at
  BY <1>1 DEF FrameType
<1>4. StandsOn(f, stack[Depth - 1])
  BY <1>3 DEF StandsOn, Assigning, AssignAt, ObjCleanup
<1> HIDE DEF f
<1>5. ShapeOf(Become(f)) /\ Len(Become(f)) = Depth
  BY <1>3, <1>4, BecomeShape
<1> QED
  BY <1>2, <1>5 DEF f

LEMMA GCObjType ==
    ASSUME TypeInv, GCObj
    PROVE  TypeInv'
<1> DEFINE r == First(Top.todo)
           next == Become([Top EXCEPT !.todo = @ \ {r}])
<1>1. r \in Refs /\ ShapeOf(next) /\ Len(next) = Depth
  BY NextFrame DEF GCObj
<1> HIDE DEF next
<1>2. /\ HeapTyped /\ inProgress' \subseteq Objs
      /\ ShapeOf(stack') /\ Len(stack') <= MaxDepth
  <2>1. CASE Cleanable(r)
    <3>1. EnvTCleanup(r, next) /\ r \in Objs
      BY <2>1 DEF GCObj, next, Cleanable
    <3> QED
      BY <3>1, <1>1, EnvTCleanupType
  <2>2. CASE ~Cleanable(r)
    <3>1. stack' = next /\ Kept /\ UNCHANGED inProgress
      BY <2>2 DEF GCObj, next
    <3> QED
      BY <3>1, <1>1, KeptType, TopFacts, MaxDepthAssumption DEF TypeInv, TypeOK
  <2> QED
    BY <2>1, <2>2
<1>3. RestTyped
  BY <1>2 DEF TypeInv, TypeOK, GCObj, RestTyped
<1> QED
  BY <1>2, <1>3, StepType

LEMMA GCObjEndType ==
    ASSUME TypeInv, GCObjEnd
    PROVE  TypeInv'
<1> DEFINE todo == IF "ptr" \in Top.mode THEN (live \intersect Ptrs) \ Top.keep
                                         ELSE {}
           f == [Frame("gcPtr") EXCEPT !.mode = Top.mode, !.todo = todo]
<1>1. /\ Top \in FrameType /\ Top.at = "gcObj"
      /\ Top.mode \in SUBSET {"ptr", "obj"} /\ todo \in SUBSET Refs
  BY TopFacts, FrameFacts DEF GCObjEnd, TypeInv, TypeOK
<1>2. f \in FrameType /\ f.at = "gcPtr"
  BY <1>1 DEF Frame, FrameType, Places
<1>3. StandsOn(f, stack[Depth - 1])
  BY <1>2 DEF StandsOn, Assigning, AssignAt, ObjCleanup
<1>4. stack' = Become(f)
  BY DEF GCObjEnd
<1> HIDE DEF f
<1>5. ShapeOf(stack') /\ Len(stack') <= MaxDepth
  BY <1>1, <1>2, <1>3, <1>4, BecomeShape, TopFacts, MaxDepthAssumption
<1>6. HeapTyped
  BY DEF TypeInv, TypeOK, GCObjEnd, HeapTyped
<1>7. RestTyped
  BY DEF TypeInv, TypeOK, GCObjEnd, RestTyped
<1> QED
  BY <1>5, <1>6, <1>7, StepType

LEMMA GCPtrType ==
    ASSUME TypeInv, GCPtr
    PROVE  TypeInv'
<1> DEFINE r == First(Top.todo)
           next == Become([Top EXCEPT !.todo = @ \ {r}])
<1>1. r \in Refs /\ ShapeOf(next) /\ Len(next) = Depth
  BY NextFrame DEF GCPtr
<1> HIDE DEF next
<1>2. HeapTyped /\ ShapeOf(stack') /\ Len(stack') <= MaxDepth
  <2>1. CASE r \in live
    <3>1. Erase(r, Depth + 1) /\ stack' = Append(next, Frame("drop")) /\ Room(1)
      BY <2>1 DEF GCPtr, next
    <3>2. Depth + 1 \in 1..MaxDepth
      BY <3>1, RoomFacts
    <3>3. ShapeOf(stack') /\ Len(stack') = Depth + 1
      BY <3>1, <1>1, DropFrame, PushShape
    <3> QED
      BY <3>1, <3>2, <3>3, <1>1, EraseType, MaxDepthAssumption
  <2>2. CASE r \notin live
    <3>1. stack' = next /\ Kept
      BY <2>2 DEF GCPtr, next
    <3> QED
      BY <3>1, <1>1, KeptType, TopFacts, MaxDepthAssumption
  <2> QED
    BY <2>1, <2>2
<1>3. RestTyped
  BY DEF TypeInv, TypeOK, GCPtr, RestTyped
<1> QED
  BY <1>2, <1>3, StepType

LEMMA GCAgainType ==
    ASSUME TypeInv, GCAgain
    PROVE  TypeInv'
<1>1. Top.mode \in SUBSET {"ptr", "obj"} /\ Top.at = "gcPtr"
  BY TopFacts, FrameFacts DEF GCAgain
<1>2. stack' = Become(Sweep(Top.mode))
  BY DEF GCAgain
<1>3. ShapeOf(stack') /\ Len(stack') <= MaxDepth
  BY <1>1, <1>2, SweepType, BecomeShape, TopFacts, MaxDepthAssumption
<1>4. HeapTyped
  BY DEF TypeInv, TypeOK, GCAgain, HeapTyped
<1>5. RestTyped
  BY DEF TypeInv, TypeOK, GCAgain, RestTyped
<1> QED
  BY <1>3, <1>4, <1>5, StepType

LEMMA GCEndType ==
    ASSUME TypeInv, GCEnd
    PROVE  TypeInv'
<1>1. HeapTyped
  BY DEF TypeInv, TypeOK, GCEnd, HeapTyped
<1>2. ShapeOf(stack') /\ Len(stack') <= MaxDepth
  BY PopShape, TopFacts, MaxDepthAssumption DEF GCEnd
<1>3. RestTyped
  BY ResetType DEF TypeInv, TypeOK, GCEnd, RestTyped
<1> QED
  BY <1>1, <1>2, <1>3, StepType

LEMMA InitType == Init => TypeInv
<1> SUFFICES ASSUME Init PROVE TypeInv
  OBVIOUS
<1>1. Frame("main") \in FrameType /\ Frame("main").at = "main"
  BY FrameFacts DEF Places
<1>2. /\ stack \in Seq(FrameType) /\ Len(stack) = 1 /\ stack[1].at = "main"
  BY <1>1 DEF Init
<1>3. ShapeOf(stack) /\ Depth \in 1..MaxDepth
  BY <1>2, MaxDepthAssumption DEF ShapeOf, Depth
<1>4. live \subseteq Refs /\ heapIx \in 1..(MaxIx + 1) /\ inProgress \subseteq Objs
  BY MaxIxAssumption DEF Init
<1>5. /\ count \in [Refs -> Nat] /\ enableGC \in [Refs -> BOOLEAN]
      /\ holds \in [Slots -> Refs \union {Null}]
  BY DEF Init
<1>6. gcPass \in 0..2 /\ fate \in {"running", "terminated", "undefined"}
  BY DEF Init
<1>7. stale \in BOOLEAN
  BY Zenon DEF Init
<1> QED
  BY <1>2, <1>3, <1>4, <1>5, <1>6, <1>7 DEF TypeInv, TypeOK

LEMMA StatementType == TypeInv /\ Statement => TypeInv'
<1> SUFFICES ASSUME TypeInv, Statement PROVE TypeInv'
  OBVIOUS
<1>1. /\ Lvalues \subseteq VarSlots \union Ptrs
      /\ Members \subseteq Refs
      /\ VarSlots \subseteq Slots /\ Ptrs \subseteq Slots /\ Refs \subseteq Slots
  BY NamedFacts, SlotFacts
<1>2. CASE \E v \in Vars, b \in Lvalues \union {Null} : PtrNew(v, b)
  <2>1. PICK v \in Vars, b \in Lvalues \union {Null} : PtrNew(v, b)
    BY <1>2
  <2>2. b \in Slots \union {Null}
    BY <1>1
  <2> QED
    BY <2>1, <2>2, PtrNewType
<1>3. CASE \E v \in Vars : ObjNew(v) \/ PtrFree(v) \/ ObjDestroy(v) \/ TouchDying(v)
  <2>1. PICK v \in Vars : ObjNew(v) \/ PtrFree(v) \/ ObjDestroy(v) \/ TouchDying(v)
    BY <1>3
  <2>2. TouchDying(v) => FateOnly
    BY DEF TouchDying, FateOnly
  <2> QED
    BY <2>1, <2>2, ObjNewType, PtrFreeType, ObjDestroyType, FateOnlyType
<1>4. CASE \E v \in Vars, on \in BOOLEAN : HeapRefcount(v, on)
  BY <1>4, HeapRefcountType
<1>5. CASE ObjNewRejected \/ ObjNewFailed
  BY <1>5, ObjNewRejectedType, ObjNewFailedType
<1>6. CASE \E a \in Lvalues, b \in Lvalues \union Self : Assign(a, b)
  <2>1. PICK a \in Lvalues, b \in Lvalues \union Self : Assign(a, b)
    BY <1>6
  <2>2. b \in Slots
    BY <1>1, NamedFacts DEF Self
  <2> QED
    BY <2>1, <2>2, <1>1, AssignType
<1>7. CASE \E a \in Members, b \in VarSlots \union Self : AssignMember(a, b)
  <2>1. PICK a \in Members, b \in VarSlots \union Self : AssignMember(a, b)
    BY <1>7
  <2>2. b \in Slots
    BY <1>1, NamedFacts DEF Self
  <2> QED
    BY <2>1, <2>2, <1>1, AssignMemberType
<1>8. CASE \E a \in VarSlots, b \in Members : AssignMember(a, b)
  BY <1>1, <1>8, AssignMemberType
<1>9. CASE \E a \in VarSlots \union Members : Clear(a)
  BY <1>1, <1>9, ClearType
<1>10. CASE (\E mode \in GCModes : HeapGC(mode)) \/ HeapGCNested
  BY <1>10, HeapGCType, HeapGCNestedType
<1> QED
  BY <1>2, <1>3, <1>4, <1>5, <1>6, <1>7, <1>8, <1>9, <1>10 DEF Statement

LEMMA CppStepType == TypeInv /\ CppStep => TypeInv'
<1> SUFFICES ASSUME TypeInv, CppStep PROVE TypeInv'
  OBVIOUS
<1>1. UseAfterFree \/ DropAsserts => FateOnly
  BY DEF UseAfterFree, DropAsserts, FateOnly
<1> QED
  BY <1>1, FateOnlyType, CopyEndType, StoreEndType, DropOneType, DropLastPtrType,
     DropLastObjType, BaseFreeType, BaseEndType, BaseThrowType, EnvTReturnType,
     EnvTFreeType, GCObjType, GCObjEndType, GCPtrType, GCAgainType, GCEndType
     DEF CppStep

LEMMA NextType == TypeInv /\ [Next]_vars => TypeInv'
<1> SUFFICES ASSUME TypeInv, [Next]_vars PROVE TypeInv'
  OBVIOUS
<1>1. CASE UNCHANGED vars
  BY <1>1 DEF TypeInv, TypeOK, vars, Depth
<1>2. CASE Next
  BY <1>2, <1>1, StatementType, CppStepType, CleanupReturnsType, CleanupThrowsType
     DEF Next, CleanupEnds, Halted
<1> QED
  BY <1>1, <1>2

(* The state of the heap keeps its types, and a count never leaves the natural
   numbers, for any number of variables, identifiers and nested calls. *)
THEOREM TypeCorrect == Spec => []TypeOK
<1>1. Init => TypeInv
  BY InitType
<1>2. TypeInv /\ [Next]_vars => TypeInv'
  BY NextType
<1>3. TypeInv => TypeOK
  BY DEF TypeInv
<1> QED
  BY <1>1, <1>2, <1>3, PTL DEF Spec

-----------------------------------------------------------------------------
(* One CLEANUP call per object, and one HEAP_GC, at a time *)

(* Activations of ObjCleanup between the insertion of their object into
   inProgress and its removal; activations of HEAP_GC. *)
Calls == {"base", "baseAt", "baseCatch", "baseThrow", "baseEnd", "envt"}
Sweeps == {"gcObj", "gcPtr"}

(* Every such call is recorded in p, and no two are for the same object. *)
CallsMarked(s, p) ==
    /\ \A i \in 1..Len(s) : s[i].at \in Calls => s[i].ref \in p
    /\ \A i, j \in 1..Len(s) :
          s[i].at \in Calls /\ s[j].at \in Calls /\ s[i].ref = s[j].ref => i = j

(* At most one HEAP_GC is on the stack, and one is iff its flag g is set. *)
SweepFlagged(s, g) ==
    /\ \A i, j \in 1..Len(s) : s[i].at \in Sweeps /\ s[j].at \in Sweeps => i = j
    /\ g # 0 <=> \E i \in 1..Len(s) : s[i].at \in Sweeps

CleanupInv ==
    TypeInv /\ CallsMarked(stack, inProgress) /\ SweepFlagged(stack, gcPass)

(* t keeps the k lowest frames of s. *)
Keeps(s, t, k) ==
    /\ k \in Nat /\ Len(s) \in Nat /\ Len(t) \in Nat
    /\ k <= Len(s) /\ k <= Len(t)
    /\ \A i \in 1..k : t[i] = s[i]

(* No frame of t above the k lowest is one of S. *)
NoneAbove(t, k, S) == \A i \in 1..Len(t) : i > k => t[i].at \notin S

-----------------------------------------------------------------------------
(* What a change above frame k does to the two parts of the invariant *)
LEMMA QuietCalls ==
    ASSUME NEW s, NEW t, NEW k, NEW p, NEW q, CallsMarked(s, p), Keeps(s, t, k),
           p \subseteq q, NoneAbove(t, k, Calls)
    PROVE  CallsMarked(t, q)
<1>1. \A i \in 1..Len(t) : t[i].at \in Calls => i \in 1..Len(s) /\ t[i] = s[i]
  BY DEF Keeps, NoneAbove
<1> QED
  BY <1>1 DEF CallsMarked

LEMMA NewCall ==
    ASSUME NEW s, NEW t, NEW k, NEW p, NEW q, CallsMarked(s, p), Keeps(s, t, k),
           k + 1 <= Len(t), p \subseteq q, t[k + 1].ref \in q,
           \/ t[k + 1].ref \notin p
           \/ /\ k + 1 <= Len(s) /\ s[k + 1].at \in Calls
              /\ s[k + 1].ref = t[k + 1].ref,
           NoneAbove(t, k + 1, Calls)
    PROVE  CallsMarked(t, q)
<1>1. \A i \in 1..Len(t) : t[i].at \in Calls
                              => i = k + 1 \/ (i \in 1..k /\ i \in 1..Len(s) /\ t[i] = s[i])
  BY DEF Keeps, NoneAbove
<1>2. \A i \in 1..k : i \in 1..Len(s) /\ t[i].at \in Calls => t[i].ref # t[k + 1].ref
  <2> SUFFICES ASSUME NEW i \in 1..k, i \in 1..Len(s), t[i].at \in Calls,
                      t[i].ref = t[k + 1].ref
               PROVE  FALSE
    OBVIOUS
  <2>1. t[i] = s[i] /\ s[i].ref \in p /\ k \in Nat /\ Len(s) \in Nat
    BY DEF CallsMarked, Keeps
  <2>2. k + 1 \in 1..Len(s) /\ s[k + 1].at \in Calls /\ s[k + 1].ref = s[i].ref
    BY <2>1
  <2>3. i = k + 1
    BY <2>1, <2>2 DEF CallsMarked
  <2> QED
    BY <2>1, <2>3
<1>3. \A i \in 1..Len(t) : t[i].at \in Calls => t[i].ref \in q
  BY <1>1 DEF CallsMarked
<1>4. ASSUME NEW i \in 1..Len(t), NEW j \in 1..Len(t),
             t[i].at \in Calls, t[j].at \in Calls, t[i].ref = t[j].ref
      PROVE  i = j
  <2>1. CASE i = k + 1 /\ j = k + 1
    BY <2>1
  <2>2. CASE i # k + 1 /\ j = k + 1
    BY <2>2, <1>1, <1>2, <1>4
  <2>3. CASE i = k + 1 /\ j # k + 1
    BY <2>3, <1>1, <1>2, <1>4
  <2>4. CASE i # k + 1 /\ j # k + 1
    BY <2>4, <1>1, <1>4 DEF CallsMarked
  <2> QED
    BY <2>1, <2>2, <2>3, <2>4
<1> QED
  BY <1>3, <1>4 DEF CallsMarked

LEMMA CallEnds ==
    ASSUME NEW s, NEW t, NEW k, NEW p, CallsMarked(s, p), Keeps(s, t, k),
           NEW j \in 1..Len(s), j > k, s[j].at \in Calls,
           NoneAbove(t, k, Calls)
    PROVE  CallsMarked(t, p \ {s[j].ref})
<1>1. \A i \in 1..Len(t) : t[i].at \in Calls
                              => i \in 1..Len(s) /\ i # j /\ t[i] = s[i]
  BY DEF Keeps, NoneAbove
<1> QED
  BY <1>1 DEF CallsMarked

LEMMA QuietSweeps ==
    ASSUME NEW s, NEW t, NEW k, NEW g, NEW h, SweepFlagged(s, g), Keeps(s, t, k),
           g = 0 <=> h = 0,
           NoneAbove(s, k, Sweeps),
           NoneAbove(t, k, Sweeps)
    PROVE  SweepFlagged(t, h)
<1>1. \A i \in 1..Len(t) : t[i].at \in Sweeps => i \in 1..Len(s) /\ t[i] = s[i]
  BY DEF Keeps, NoneAbove
<1>2. \A i \in 1..Len(s) : s[i].at \in Sweeps => i \in 1..Len(t) /\ t[i] = s[i]
  BY DEF Keeps, NoneAbove
<1> QED
  BY <1>1, <1>2 DEF SweepFlagged

(* a HEAP_GC begins, or goes on, in frame k + 1 *)
LEMMA SweepAt ==
    ASSUME NEW s, NEW t, NEW k, NEW g, NEW h, SweepFlagged(s, g), Keeps(s, t, k),
           h # 0, k + 1 <= Len(t), t[k + 1].at \in Sweeps,
           g = 0 \/ (k + 1 <= Len(s) /\ s[k + 1].at \in Sweeps),
           NoneAbove(t, k + 1, Sweeps)
    PROVE  SweepFlagged(t, h)
<1>1. k \in Nat /\ Len(s) \in Nat /\ Len(t) \in Nat /\ k + 1 \in 1..Len(t)
  BY DEF Keeps, NoneAbove
<1>2. \A i \in 1..k : i \in 1..Len(s) /\ t[i] = s[i] /\ i # k + 1
  BY <1>1 DEF Keeps
<1>3. \A i \in 1..k : t[i].at \notin Sweeps
  <2> SUFFICES ASSUME NEW i \in 1..k, t[i].at \in Sweeps PROVE FALSE
    OBVIOUS
  <2>1. i \in 1..Len(s) /\ s[i].at \in Sweeps /\ i # k + 1
    BY <1>2
  <2>2. g # 0
    BY <2>1 DEF SweepFlagged
  <2>3. k + 1 \in 1..Len(s) /\ s[k + 1].at \in Sweeps
    BY <1>1, <2>2
  <2> QED
    BY <2>1, <2>3 DEF SweepFlagged
<1>4. \A i \in 1..Len(t) : t[i].at \in Sweeps => i = k + 1
  BY <1>1, <1>3 DEF NoneAbove
<1> QED
  BY <1>1, <1>4 DEF SweepFlagged

LEMMA SweepOver ==
    ASSUME NEW s, NEW t, NEW k, NEW g, SweepFlagged(s, g), Keeps(s, t, k),
           NEW j \in 1..Len(s), j > k, s[j].at \in Sweeps,
           NoneAbove(t, k, Sweeps)
    PROVE  SweepFlagged(t, 0)
<1>1. \A i \in 1..Len(t) : i <= k => i \in 1..Len(s) /\ t[i] = s[i] /\ i # j
  BY DEF Keeps
<1>2. \A i \in 1..Len(t) : i <= k \/ i > k
  BY DEF Keeps
<1>3. \A i \in 1..Len(t) : t[i].at \notin Sweeps
  BY <1>1, <1>2 DEF SweepFlagged, NoneAbove
<1> QED
  BY <1>3 DEF SweepFlagged

-----------------------------------------------------------------------------
(* What the operations on the stack keep *)
LEMMA PushKeeps ==
    ASSUME NEW s \in Seq(FrameType), NEW f \in FrameType
    PROVE  /\ Append(s, f) \in Seq(FrameType)
           /\ Keeps(s, Append(s, f), Len(s))
           /\ Len(Append(s, f)) = Len(s) + 1
           /\ Append(s, f)[Len(s) + 1] = f
BY DEF Keeps

LEMMA Push2Keeps ==
    ASSUME NEW s \in Seq(FrameType), NEW f \in FrameType, NEW g \in FrameType
    PROVE  LET t == s \o <<f, g>>
           IN  /\ t \in Seq(FrameType) /\ Keeps(s, t, Len(s))
               /\ Len(t) = Len(s) + 2
               /\ t[Len(s) + 1] = f /\ t[Len(s) + 2] = g
<1>1. s \o <<f, g>> \in Seq(FrameType) /\ Len(s \o <<f, g>>) = Len(s) + 2
  OBVIOUS
<1>2. /\ \A i \in 1..Len(s) : (s \o <<f, g>>)[i] = s[i]
      /\ (s \o <<f, g>>)[Len(s) + 1] = f /\ (s \o <<f, g>>)[Len(s) + 2] = g
  OBVIOUS
<1> QED
  BY <1>1, <1>2 DEF Keeps

LEMMA StackFacts ==
    ASSUME TypeInv
    PROVE  /\ stack \in Seq(FrameType) /\ Len(stack) = Depth
           /\ Depth \in Nat /\ Depth >= 1 /\ Top = stack[Depth]
           /\ Keeps(stack, stack, Depth)
<1>1. stack \in Seq(FrameType) /\ Len(stack) = Depth /\ Top = stack[Depth]
  BY DEF TypeInv, TypeOK, Depth, Top
<1>2. Depth \in Nat /\ Depth >= 1
  BY MaxDepthAssumption DEF TypeInv, TypeOK
<1> QED
  BY <1>1, <1>2 DEF Keeps

LEMMA CutKeeps ==
    ASSUME TypeInv, NEW k \in 0..Depth
    PROVE  /\ SubSeq(stack, 1, k) \in Seq(FrameType)
           /\ Len(SubSeq(stack, 1, k)) = k
           /\ Keeps(stack, SubSeq(stack, 1, k), k)
BY StackFacts DEF Keeps

LEMMA PopKeeps ==
    ASSUME TypeInv
    PROVE  Pop \in Seq(FrameType) /\ Len(Pop) = Depth - 1
           /\ Keeps(stack, Pop, Depth - 1)
BY CutKeeps, StackFacts DEF Pop

LEMMA BecomeKeeps ==
    ASSUME TypeInv, NEW f \in FrameType
    PROVE  /\ Become(f) \in Seq(FrameType) /\ Len(Become(f)) = Depth
           /\ Keeps(stack, Become(f), Depth - 1) /\ Become(f)[Depth] = f
<1>1. /\ Pop \in Seq(FrameType) /\ Len(Pop) = Depth - 1 /\ Depth \in Nat
      /\ Keeps(stack, Pop, Depth - 1) /\ Depth >= 1
  BY PopKeeps, StackFacts
<1>2. /\ Become(f) \in Seq(FrameType) /\ Len(Become(f)) = Depth
      /\ Keeps(Pop, Become(f), Depth - 1) /\ Become(f)[Depth] = f
  BY <1>1, PushKeeps DEF Become
<1> QED
  BY <1>1, <1>2 DEF Keeps

(* a call or a destructor on top of the frame f that replaced the top *)
LEMMA BecomePushKeeps ==
    ASSUME TypeInv, NEW f \in FrameType, NEW g \in FrameType
    PROVE  LET t == Append(Become(f), g)
           IN  /\ t \in Seq(FrameType) /\ Len(t) = Depth + 1
               /\ Keeps(stack, t, Depth - 1) /\ t[Depth] = f /\ t[Depth + 1] = g
<1>1. /\ Become(f) \in Seq(FrameType) /\ Len(Become(f)) = Depth
      /\ Keeps(stack, Become(f), Depth - 1) /\ Become(f)[Depth] = f
      /\ Depth \in Nat /\ Depth >= 1
  BY BecomeKeeps, StackFacts
<1>2. /\ Append(Become(f), g) \in Seq(FrameType)
      /\ Len(Append(Become(f), g)) = Depth + 1
      /\ Keeps(Become(f), Append(Become(f), g), Depth)
      /\ Append(Become(f), g)[Depth + 1] = g
  BY <1>1, PushKeeps
<1> QED
  BY <1>1, <1>2 DEF Keeps

(* A step that takes frames off the stack that are neither, and puts such on it *)
Loud == Calls \union Sweeps

LEMMA NoneBeyond ==
    ASSUME NEW k \in Nat, NEW t, NEW S,
           \/ Len(t) = k
           \/ Len(t) = k + 1 /\ t[k + 1].at \notin S
           \/ Len(t) = k + 2 /\ t[k + 1].at \notin S /\ t[k + 2].at \notin S
    PROVE  NoneAbove(t, k, S)
BY DEF NoneAbove

LEMMA QuietStep ==
    ASSUME CleanupInv, NEW k, Keeps(stack, stack', k),
           NoneAbove(stack, k, Sweeps),
           NoneAbove(stack', k, Loud),
           inProgress \subseteq inProgress', gcPass' = gcPass
    PROVE  CallsMarked(stack', inProgress') /\ SweepFlagged(stack', gcPass')
<1>1. NoneAbove(stack', k, Calls) /\ NoneAbove(stack', k, Sweeps)
  BY DEF NoneAbove, Loud
<1> QED
  BY <1>1, QuietCalls, QuietSweeps DEF CleanupInv

LEMMA QuietFrames ==
    /\ \A at \in {"drop", "dropAt", "copy", "store", "code", "envtFree"} : at \notin Loud
    /\ Frame("drop") \in FrameType /\ Frame("drop").at \notin Loud
    /\ \A s : Drop(s) \in FrameType /\ Drop(s).at \notin Loud
    /\ \A s \in Slots, at \in Places :
          LET f == [Frame(at) EXCEPT !.ref = s]
          IN  f \in FrameType /\ f.at = at /\ f.ref = s
    /\ \A s \in Slots, b \in Slots :
          LET f == [[Frame("copy") EXCEPT !.src = b] EXCEPT !.ref = s]
          IN  f \in FrameType /\ f.at = "copy"
<1>1. \A at \in {"drop", "dropAt", "copy", "store", "code", "envtFree"} : at \notin Loud
  BY DEF Loud, Calls, Sweeps
<1>2. Frame("drop") \in FrameType /\ Frame("drop").at = "drop"
  BY DEF Places, Frame, FrameType
<1>3. Frame("dropAt") \in FrameType /\ Frame("dropAt").at = "dropAt"
  BY DEF Places, Frame, FrameType
<1>4. \A s : Drop(s) \in FrameType /\ Drop(s).at \notin Loud
  BY <1>1, <1>2, <1>3 DEF Drop
<1>5. ASSUME NEW s \in Slots, NEW at \in Places
      PROVE  LET f == [Frame(at) EXCEPT !.ref = s]
             IN  f \in FrameType /\ f.at = at /\ f.ref = s
  BY DEF Frame, FrameType
<1>6. ASSUME NEW s \in Slots, NEW b \in Slots
      PROVE  LET f == [[Frame("copy") EXCEPT !.src = b] EXCEPT !.ref = s]
             IN  f \in FrameType /\ f.at = "copy"
  BY DEF Frame, FrameType, Places
<1> QED
  BY <1>1, <1>2, <1>4, <1>5, <1>6

-----------------------------------------------------------------------------
(* One lemma per kind of step *)
StackKept == CallsMarked(stack', inProgress') /\ SweepFlagged(stack', gcPass')

(* statements that overwrite a slot: a frame for the assignment, one for the
   old value *)
LEMMA OverwriteKept ==
    ASSUME CleanupInv, NEW f \in FrameType, f.at \in {"copy", "store"}, NEW s,
           stack' = stack \o <<f, Drop(s)>>, UNCHANGED <<inProgress, gcPass>>
    PROVE  StackKept
<1>1. /\ stack \in Seq(FrameType) /\ Len(stack) = Depth /\ Depth \in Nat
  BY StackFacts DEF CleanupInv
<1>2. /\ Keeps(stack, stack', Depth) /\ Len(stack') = Depth + 2
      /\ stack'[Depth + 1] = f /\ stack'[Depth + 2] = Drop(s)
  <2> DEFINE g == Drop(s)
  <2>1. g \in FrameType /\ stack' = stack \o <<f, g>>
    BY QuietFrames
  <2> HIDE DEF g
  <2>2. /\ Keeps(stack, stack', Depth) /\ Len(stack') = Depth + 2
        /\ stack'[Depth + 1] = f /\ stack'[Depth + 2] = g
    BY <1>1, <2>1, Push2Keeps
  <2> QED
    BY <2>2 DEF g
<1>3. f.at \notin Loud /\ Drop(s).at \notin Loud
  BY QuietFrames
<1>4. NoneAbove(stack', Depth, Loud)
  BY <1>1, <1>2, <1>3, NoneBeyond
<1>5. NoneAbove(stack, Depth, Sweeps)
  BY <1>1, NoneBeyond
<1> QED
  BY <1>2, <1>4, <1>5, QuietStep DEF StackKept

LEMMA PtrFreeKept ==
    ASSUME CleanupInv, stack' = Append(stack, Frame("drop")),
           UNCHANGED <<inProgress, gcPass>>
    PROVE  StackKept
<1>1. /\ stack \in Seq(FrameType) /\ Len(stack) = Depth /\ Depth \in Nat
  BY StackFacts DEF CleanupInv
<1>2. /\ Keeps(stack, stack', Depth) /\ Len(stack') = Depth + 1
      /\ stack'[Depth + 1] = Frame("drop")
  BY <1>1, PushKeeps, QuietFrames
<1>3. NoneAbove(stack', Depth, Loud)
  BY <1>1, <1>2, QuietFrames, NoneBeyond
<1>4. NoneAbove(stack, Depth, Sweeps)
  BY <1>1, NoneBeyond
<1> QED
  BY <1>2, <1>3, <1>4, QuietStep DEF StackKept

(* a frame that is not one of HEAP_GC goes, or a destructor replaces it *)
LEMMA PopKept ==
    ASSUME CleanupInv, Top.at \notin Sweeps, UNCHANGED <<inProgress, gcPass>>,
           stack' = Pop \/ stack' = Become(Frame("drop"))
    PROVE  StackKept
<1> DEFINE k == Depth - 1
<1>1. /\ Len(stack) = k + 1 /\ k \in Nat /\ Top = stack[k + 1] /\ TypeInv
      /\ Depth = k + 1
  BY StackFacts DEF CleanupInv
<1>2. Keeps(stack, stack', k) /\ NoneAbove(stack', k, Loud)
  <2>1. CASE stack' = Pop
    BY <2>1, <1>1, PopKeeps, NoneBeyond
  <2>2. CASE stack' = Become(Frame("drop"))
    <3>1. /\ Keeps(stack, stack', k) /\ Len(stack') = k + 1
          /\ stack'[k + 1] = Frame("drop")
      BY <2>2, <1>1, BecomeKeeps, QuietFrames
    <3> QED
      BY <3>1, <1>1, QuietFrames, NoneBeyond
  <2> QED
    BY <2>1, <2>2
<1> HIDE DEF k
<1>3. NoneAbove(stack, k, Sweeps)
  BY <1>1, NoneBeyond
<1> QED
  BY <1>2, <1>3, QuietStep DEF StackKept

LEMMA DropLastObjKept ==
    ASSUME CleanupInv, DropLastObj
    PROVE  StackKept
<1> DEFINE r == Dropped
           f == [Frame(IF Top.at = "drop" THEN "base" ELSE "baseAt") EXCEPT !.ref = r]
           code == [Frame("code") EXCEPT !.ref = r]
           k == Depth - 1
<1>1. /\ Len(stack) = Depth /\ Depth \in Nat /\ Depth >= 1 /\ Top = stack[Depth]
      /\ TypeInv
  BY StackFacts DEF CleanupInv
<1>2. /\ r \in Slots /\ r \notin inProgress /\ Top.at \in {"drop", "dropAt"}
      /\ inProgress' = inProgress \union {r} /\ gcPass' = gcPass
  BY SlotFacts DEF DropLastObj, Dropping
<1>3. /\ f \in FrameType /\ f.ref = r /\ f.at \in {"base", "baseAt"}
      /\ code \in FrameType /\ code.at = "code"
  BY <1>2 DEF Frame, FrameType, Places
<1> HIDE DEF f, code
<1>4. stack' = Become(f) \/ stack' = Append(Become(f), code)
  BY DEF DropLastObj, f, code
<1>5. /\ Keeps(stack, stack', Depth - 1) /\ Len(stack') \in {Depth, Depth + 1}
      /\ stack'[Depth] = f
      /\ Len(stack') = Depth + 1 => stack'[Depth + 1] = code
  <2>1. CASE stack' = Become(f)
    BY <2>1, <1>1, <1>3, BecomeKeeps
  <2>2. CASE stack' = Append(Become(f), code)
    BY <2>2, <1>1, <1>3, BecomePushKeeps
  <2> QED
    BY <1>4, <2>1, <2>2
<1> HIDE DEF k
<1>6. /\ Keeps(stack, stack', k) /\ stack'[k + 1] = f
      /\ NoneAbove(stack', k + 1, Loud)
  <2>1. CASE Len(stack') = Depth
    BY <2>1, <1>1, <1>5, NoneBeyond DEF k
  <2>2. CASE Len(stack') = Depth + 1
    <3>1. stack'[Depth + 1].at \notin Loud
      BY <2>2, <1>3, <1>5, QuietFrames
    <3> QED
      BY <2>2, <3>1, <1>1, <1>5, NoneBeyond DEF k
  <2> QED
    BY <1>5, <2>1, <2>2
<1>7. /\ NoneAbove(stack', k + 1, Calls)
      /\ NoneAbove(stack', k, Sweeps) /\ NoneAbove(stack, k, Sweeps)
  <2>1. f.at \notin Sweeps /\ stack[k + 1].at \notin Sweeps
    BY <1>1, <1>2, <1>3 DEF k, Sweeps
  <2>2. NoneAbove(stack, k, Sweeps)
    BY <2>1, <1>1, NoneBeyond DEF k
  <2>3. \A i \in 1..Len(stack') : i > k => i = k + 1 \/ i > k + 1
    BY <1>1, <1>5 DEF k
  <2> QED
    BY <2>1, <2>2, <2>3, <1>6 DEF NoneAbove, Loud
<1>8. k + 1 <= Len(stack') /\ k + 1 <= Len(stack)
  BY <1>1, <1>5 DEF k
<1>9. CallsMarked(stack', inProgress')
  BY <1>2, <1>3, <1>6, <1>7, <1>8, NewCall DEF CleanupInv
<1>10. SweepFlagged(stack', gcPass')
  BY <1>2, <1>6, <1>7, QuietSweeps DEF CleanupInv
<1> QED
  BY <1>9, <1>10 DEF StackKept

LEMMA BaseFreeKept ==
    ASSUME CleanupInv, BaseFree
    PROVE  StackKept
<1> DEFINE at == IF Top.at = "baseCatch" THEN "baseThrow" ELSE "baseEnd"
           f == [Top EXCEPT !.at = at]
           k == Depth - 1
<1>1. /\ Len(stack) = Depth /\ Depth \in Nat /\ Depth >= 1 /\ Top = stack[Depth]
      /\ TypeInv /\ Top \in FrameType
  BY StackFacts, TopFacts DEF CleanupInv
<1>2. /\ Top.at \in {"base", "baseAt", "baseCatch"}
      /\ inProgress' = inProgress /\ gcPass' = gcPass
  BY DEF BaseFree
<1>3. /\ f \in FrameType /\ f.ref = Top.ref /\ f.at \in {"baseThrow", "baseEnd"}
  BY <1>1 DEF FrameType, Places
<1> HIDE DEF f
<1>4. stack' = Become(f) \/ stack' = Append(Become(f), Frame("drop"))
  BY DEF BaseFree, f
<1>5. /\ Keeps(stack, stack', Depth - 1) /\ Len(stack') \in {Depth, Depth + 1}
      /\ stack'[Depth] = f
      /\ Len(stack') = Depth + 1 => stack'[Depth + 1] = Frame("drop")
  <2>1. CASE stack' = Become(f)
    BY <2>1, <1>1, <1>3, BecomeKeeps
  <2>2. CASE stack' = Append(Become(f), Frame("drop"))
    <3> DEFINE g == Frame("drop")
    <3>1. g \in FrameType /\ stack' = Append(Become(f), g)
      BY <2>2, QuietFrames
    <3> HIDE DEF g
    <3>2. /\ Keeps(stack, stack', Depth - 1) /\ Len(stack') = Depth + 1
          /\ stack'[Depth] = f /\ stack'[Depth + 1] = g
      BY <3>1, <1>1, <1>3, BecomePushKeeps
    <3> QED
      BY <3>2 DEF g
  <2> QED
    BY <1>4, <2>1, <2>2
<1> HIDE DEF k
<1>6. /\ Keeps(stack, stack', k) /\ stack'[k + 1] = f
      /\ NoneAbove(stack', k + 1, Loud)
  <2>1. CASE Len(stack') = Depth
    BY <2>1, <1>1, <1>5, NoneBeyond DEF k
  <2>2. CASE Len(stack') = Depth + 1
    <3>1. stack'[Depth + 1].at \notin Loud
      BY <2>2, <1>3, <1>5, QuietFrames
    <3> QED
      BY <2>2, <3>1, <1>1, <1>5, NoneBeyond DEF k
  <2> QED
    BY <1>5, <2>1, <2>2
<1>7. /\ NoneAbove(stack', k + 1, Calls)
      /\ NoneAbove(stack', k, Sweeps) /\ NoneAbove(stack, k, Sweeps)
  <2>1. f.at \notin Sweeps /\ stack[k + 1].at \notin Sweeps
    BY <1>1, <1>2, <1>3 DEF k, Sweeps
  <2>2. NoneAbove(stack, k, Sweeps)
    BY <2>1, <1>1, NoneBeyond DEF k
  <2>3. \A i \in 1..Len(stack') : i > k => i = k + 1 \/ i > k + 1
    BY <1>1, <1>5 DEF k
  <2> QED
    BY <2>1, <2>2, <2>3, <1>6 DEF NoneAbove, Loud
<1>8. k + 1 <= Len(stack') /\ k + 1 <= Len(stack)
  BY <1>1, <1>5 DEF k
<1>9. CallsMarked(stack', inProgress')
  <2>1. stack[k + 1].at \in Calls /\ stack[k + 1].ref = f.ref /\ f.ref \in inProgress
    BY <1>1, <1>2, <1>3, <1>8 DEF k, CleanupInv, CallsMarked, Calls
  <2> QED
    BY <2>1, <1>2, <1>6, <1>7, <1>8, NewCall DEF CleanupInv
<1>10. SweepFlagged(stack', gcPass')
  BY <1>2, <1>6, <1>7, QuietSweeps DEF CleanupInv
<1> QED
  BY <1>9, <1>10 DEF StackKept


LEMMA BaseEndKept ==
    ASSUME CleanupInv, BaseEnd
    PROVE  StackKept
<1> DEFINE k == Depth - 1
<1>1. /\ Len(stack) = k + 1 /\ k \in Nat /\ Top = stack[k + 1] /\ TypeInv
  BY StackFacts DEF CleanupInv
<1>2. /\ Top.at = "baseEnd" /\ inProgress' = inProgress \ {Top.ref}
      /\ gcPass' = gcPass /\ stack' = Pop
  BY DEF BaseEnd, Unmark
<1>3. Keeps(stack, stack', k) /\ Len(stack') = k
  BY <1>1, <1>2, PopKeeps
<1> HIDE DEF k
<1>4. NoneAbove(stack', k, Calls) /\ NoneAbove(stack', k, Sweeps)
  BY <1>1, <1>3, NoneBeyond
<1>5. NoneAbove(stack, k, Sweeps)
  BY <1>1, <1>2, NoneBeyond DEF Sweeps
<1>6. k + 1 \in 1..Len(stack) /\ k + 1 > k /\ stack[k + 1].at \in Calls
  BY <1>1, <1>2 DEF Calls
<1>7. CallsMarked(stack', inProgress')
  BY <1>1, <1>2, <1>3, <1>4, <1>6, CallEnds DEF CleanupInv
<1>8. SweepFlagged(stack', gcPass')
  BY <1>2, <1>3, <1>4, <1>5, QuietSweeps DEF CleanupInv
<1> QED
  BY <1>7, <1>8 DEF StackKept

LEMMA BaseThrowKept ==
    ASSUME CleanupInv, BaseThrow
    PROVE  StackKept
<1> DEFINE k == Depth - 2
<1>1. /\ Len(stack) = k + 2 /\ k \in Nat /\ Top = stack[k + 2] /\ TypeInv
      /\ stack[k + 1].at = "store" /\ Depth = k + 2
  <2>1. Top.at \in AssignAt
    BY DEF BaseThrow, AssignAt
  <2> QED
    BY <2>1, StackFacts, UnderAssignAt DEF CleanupInv
<1>2. /\ Top.at = "baseThrow" /\ inProgress' = inProgress \ {Top.ref}
      /\ gcPass' = gcPass /\ stack' = SubSeq(stack, 1, k)
  BY DEF BaseThrow, Unmark
<1>3. Keeps(stack, stack', k) /\ Len(stack') = k
  <2>1. k \in 0..Depth
    BY <1>1
  <2> QED
    BY <2>1, <1>1, <1>2, CutKeeps
<1> HIDE DEF k
<1>4. NoneAbove(stack', k, Calls) /\ NoneAbove(stack', k, Sweeps)
  BY <1>1, <1>3, NoneBeyond
<1>5. NoneAbove(stack, k, Sweeps)
  BY <1>1, <1>2, NoneBeyond DEF Sweeps
<1>6. k + 2 \in 1..Len(stack) /\ k + 2 > k /\ stack[k + 2].at \in Calls
  BY <1>1, <1>2 DEF Calls
<1>7. CallsMarked(stack', inProgress')
  BY <1>1, <1>2, <1>3, <1>4, <1>6, CallEnds DEF CleanupInv
<1>8. SweepFlagged(stack', gcPass')
  BY <1>2, <1>3, <1>4, <1>5, QuietSweeps DEF CleanupInv
<1> QED
  BY <1>7, <1>8 DEF StackKept

LEMMA EnvTReturnKept ==
    ASSUME CleanupInv, EnvTReturn
    PROVE  StackKept
<1> DEFINE k == Depth - 1
           f == [Top EXCEPT !.at = "envtFree"]
           g == Frame("drop")
<1>1. /\ Len(stack) = k + 1 /\ k \in Nat /\ Top = stack[k + 1] /\ TypeInv
      /\ Top \in FrameType /\ Depth = k + 1
  BY StackFacts, TopFacts DEF CleanupInv
<1>2. /\ Top.at = "envt" /\ inProgress' = inProgress \ {Top.ref}
      /\ gcPass' = gcPass /\ stack' = Append(Become(f), g)
  BY DEF EnvTReturn, Unmark
<1>3. f \in FrameType /\ f.at \notin Loud /\ g \in FrameType /\ g.at \notin Loud
  <2>1. f \in FrameType /\ f.at = "envtFree"
    BY <1>1 DEF FrameType, Places
  <2>2. f.at \notin Loud
    BY <2>1, QuietFrames
  <2> QED
    BY <2>1, <2>2, QuietFrames
<1> HIDE DEF f, g
<1>4. /\ Keeps(stack, stack', k) /\ Len(stack') = k + 2
      /\ stack'[k + 1] = f /\ stack'[k + 2] = g
  <2>1. /\ Keeps(stack, stack', Depth - 1) /\ Len(stack') = Depth + 1
        /\ stack'[Depth] = f /\ stack'[Depth + 1] = g
    BY <1>1, <1>2, <1>3, BecomePushKeeps
  <2> QED
    BY <2>1, <1>1
<1> HIDE DEF k
<1>5. NoneAbove(stack', k, Loud)
  BY <1>1, <1>3, <1>4, NoneBeyond
<1>6. NoneAbove(stack', k, Calls) /\ NoneAbove(stack', k, Sweeps)
  BY <1>5 DEF NoneAbove, Loud
<1>7. NoneAbove(stack, k, Sweeps)
  BY <1>1, <1>2, NoneBeyond DEF Sweeps
<1>8. k + 1 \in 1..Len(stack) /\ k + 1 > k /\ stack[k + 1].at \in Calls
  BY <1>1, <1>2 DEF Calls
<1>9. CallsMarked(stack', inProgress')
  BY <1>1, <1>2, <1>4, <1>6, <1>8, CallEnds DEF CleanupInv
<1>10. SweepFlagged(stack', gcPass')
  BY <1>2, <1>4, <1>6, <1>7, QuietSweeps DEF CleanupInv
<1> QED
  BY <1>9, <1>10 DEF StackKept

(* EnvT::ObjCleanup, on top of any stack for which the invariant holds *)
LEMMA EnvTCleanupKept ==
    ASSUME NEW r \in Objs, NEW below \in Seq(FrameType), r \notin inProgress,
           CallsMarked(below, inProgress), SweepFlagged(below, gcPass),
           EnvTCleanup(r, below), gcPass' = gcPass
    PROVE  StackKept
<1> DEFINE k == Len(below)
           f == [Frame("envt") EXCEPT !.ref = r]
           code == [Frame("code") EXCEPT !.ref = r]
           g == Frame("drop")
<1>1. k \in Nat /\ r \in Slots
  BY SlotFacts
<1>2. /\ f \in FrameType /\ f.at = "envt" /\ f.ref = r
      /\ code \in FrameType /\ code.at \notin Loud
      /\ g \in FrameType /\ g.at \notin Loud
  <2>1. f \in FrameType /\ f.at = "envt" /\ f.ref = r
    BY <1>1 DEF Frame, FrameType, Places
  <2>2. code \in FrameType /\ code.at = "code"
    BY <1>1 DEF Frame, FrameType, Places
  <2>3. code.at \notin Loud
    BY <2>2, QuietFrames
  <2>4. g \in FrameType /\ g.at \notin Loud
    BY QuietFrames
  <2> QED
    BY <2>1, <2>2, <2>3, <2>4
<1>3. \/ /\ stack' = below \o <<f, code>>
         /\ inProgress' = inProgress \union {r}
      \/ stack' = Append(below, g) /\ inProgress' = inProgress
  BY DEF EnvTCleanup
<1> HIDE DEF f, code, g
<1>4. CASE stack' = below \o <<f, code>> /\ inProgress' = inProgress \union {r}
  <2>1. /\ Keeps(below, stack', k) /\ Len(stack') = k + 2
        /\ stack'[k + 1] = f /\ stack'[k + 2] = code
    BY <1>2, <1>4, Push2Keeps
  <2> HIDE DEF k
  <2>2. NoneAbove(stack', k + 1, Loud)
    BY <1>1, <1>2, <2>1, NoneBeyond
  <2>3. NoneAbove(stack', k + 1, Calls)
    BY <2>2 DEF NoneAbove, Loud
  <2>4. NoneAbove(stack', k, Sweeps)
    BY <1>1, <1>2, <2>1, NoneBeyond DEF Sweeps, Loud
  <2>5. NoneAbove(below, k, Sweeps)
    BY <1>1, NoneBeyond DEF k
  <2>6. k + 1 <= Len(stack')
    BY <1>1, <2>1
  <2>7. /\ inProgress \subseteq inProgress' /\ stack'[k + 1].ref \in inProgress'
        /\ stack'[k + 1].ref \notin inProgress
    BY <1>2, <1>4, <2>1
  <2>8. CallsMarked(stack', inProgress')
    BY <2>1, <2>3, <2>6, <2>7, NewCall
  <2> QED
    BY <2>1, <2>4, <2>5, <2>8, QuietSweeps DEF StackKept
<1>5. CASE stack' = Append(below, g) /\ inProgress' = inProgress
  <2>1. Keeps(below, stack', k) /\ Len(stack') = k + 1 /\ stack'[k + 1] = g
    BY <1>2, <1>5, PushKeeps
  <2> HIDE DEF k
  <2>2. NoneAbove(stack', k, Loud)
    BY <1>1, <1>2, <2>1, NoneBeyond
  <2>3. NoneAbove(stack', k, Calls) /\ NoneAbove(stack', k, Sweeps)
    BY <2>2 DEF NoneAbove, Loud
  <2>4. NoneAbove(below, k, Sweeps)
    BY <1>1, NoneBeyond DEF k
  <2> QED
    BY <1>5, <2>1, <2>3, <2>4, QuietCalls, QuietSweeps DEF StackKept
<1> QED
  BY <1>3, <1>4, <1>5

LEMMA ObjDestroyKept ==
    ASSUME CleanupInv, NEW v \in Vars, ObjDestroy(v)
    PROVE  StackKept
<1>1. /\ holds[Var(v)] \in Objs /\ holds[Var(v)] \notin inProgress
      /\ EnvTCleanup(holds[Var(v)], stack) /\ gcPass' = gcPass
  BY DEF ObjDestroy, Cleanable
<1>2. stack \in Seq(FrameType)
  BY StackFacts DEF CleanupInv
<1> QED
  BY <1>1, <1>2, EnvTCleanupKept DEF CleanupInv

LEMMA CleanupThrowsKept ==
    ASSUME CleanupInv, CleanupThrows
    PROVE  StackKept
<1> DEFINE k == Depth - 2
           below == stack[k + 1]
<1>1. /\ Len(stack) = k + 2 /\ k \in Nat /\ k >= 1 /\ Depth = k + 2 /\ TypeInv
      /\ Depth - 1 = k + 1 /\ Depth - 3 = k - 1
      /\ stack[k + 2].at = "code" /\ below \in FrameType
      /\ stack[k].at = "gcObj" => k >= 2
  <2>1. Top.at = "code"
    BY DEF CleanupThrows
  <2> QED
    BY <2>1, StackFacts, UnderCode DEF CleanupInv
<1> HIDE DEF k
<1>2. CASE below.at = "base"
  BY <1>1, <1>2, Zenon DEF CleanupThrows, CleanupInv, StackKept
<1>3. CASE below.at = "baseAt"
  <2>1. /\ stack' = [Pop EXCEPT ![k + 1].at = "baseCatch"]
        /\ UNCHANGED <<inProgress, gcPass>>
    BY <1>1, <1>3 DEF CleanupThrows
  <2>2. /\ Pop \in Seq(FrameType) /\ Len(Pop) = k + 1
        /\ \A i \in 1..(k + 1) : Pop[i] = stack[i]
    BY <1>1, PopKeeps DEF Keeps
  <2> DEFINE f == [below EXCEPT !.at = "baseCatch"]
  <2>3. f \in FrameType /\ f.at = "baseCatch" /\ f.ref = below.ref
    BY <1>1 DEF FrameType, Places
  <2>4. stack' = [Pop EXCEPT ![k + 1] = f]
    <3>1. Pop[k + 1] = below
      BY <1>1, <2>2
    <3> QED
      BY <2>1, <3>1
  <2> HIDE DEF f, below
  <2>5. /\ Keeps(stack, stack', k) /\ Len(stack') = k + 1 /\ stack'[k + 1] = f
    BY <1>1, <2>2, <2>3, <2>4 DEF Keeps
  <2>6. NoneAbove(stack', k + 1, Calls)
    BY <1>1, <2>5, NoneBeyond
  <2>7. NoneAbove(stack', k, Sweeps)
    BY <1>1, <2>3, <2>5, NoneBeyond DEF Sweeps
  <2>8. NoneAbove(stack, k, Sweeps)
    BY <1>1, <1>3, NoneBeyond DEF Sweeps, below
  <2>9. /\ k + 1 <= Len(stack') /\ k + 1 <= Len(stack)
        /\ stack[k + 1].at \in Calls /\ stack[k + 1].ref = stack'[k + 1].ref
        /\ stack[k + 1].ref \in inProgress
    BY <1>1, <1>3, <2>3, <2>5 DEF below, Calls, CleanupInv, CallsMarked
  <2>10. CallsMarked(stack', inProgress')
    BY <2>1, <2>5, <2>6, <2>9, NewCall DEF CleanupInv
  <2> QED
    BY <2>1, <2>5, <2>7, <2>8, <2>10, QuietSweeps DEF CleanupInv, StackKept
<1>4. CASE below.at = "envt" /\ stack[k].at # "gcObj"
  <2>1. /\ stack' = SubSeq(stack, 1, k) /\ UNCHANGED <<inProgress, gcPass>>
    BY <1>1, <1>4 DEF CleanupThrows, Unwound, k
  <2>2. Keeps(stack, stack', k) /\ Len(stack') = k
    <3>1. k \in 0..Depth
      BY <1>1
    <3> QED
      BY <3>1, <1>1, <2>1, CutKeeps
  <2>3. NoneAbove(stack', k, Loud)
    BY <1>1, <2>2, NoneBeyond
  <2>4. NoneAbove(stack, k, Sweeps)
    BY <1>1, <1>4, NoneBeyond DEF Sweeps
  <2> QED
    BY <2>1, <2>2, <2>3, <2>4, QuietStep DEF StackKept
<1>5. CASE below.at = "envt" /\ stack[k].at = "gcObj"
  <2> DEFINE m == k - 1
  <2>1. /\ stack' = SubSeq(stack, 1, m) /\ inProgress' = inProgress /\ gcPass' = 0
    BY <1>1, <1>5 DEF CleanupThrows, Unwound, k
  <2>2. m \in Nat /\ m \in 0..Depth /\ k \in 1..Len(stack) /\ k > m
    BY <1>1
  <2>3. Keeps(stack, stack', m) /\ Len(stack') = m
    BY <1>1, <2>1, <2>2, CutKeeps
  <2> HIDE DEF m
  <2>4. NoneAbove(stack', m, Calls) /\ NoneAbove(stack', m, Sweeps)
    BY <2>2, <2>3, NoneBeyond
  <2>5. CallsMarked(stack', inProgress')
    BY <2>1, <2>3, <2>4, QuietCalls DEF CleanupInv
  <2>6. stack[k].at \in Sweeps
    BY <1>5 DEF Sweeps
  <2>7. SweepFlagged(stack', 0)
    BY <2>2, <2>3, <2>4, <2>6, SweepOver DEF CleanupInv
  <2> QED
    BY <2>1, <2>5, <2>7 DEF StackKept
<1> QED
  <2>1. below.at \in {"base", "baseAt", "envt"}
    BY <1>1 DEF CleanupThrows
  <2> QED
    BY <2>1, <1>2, <1>3, <1>4, <1>5

-----------------------------------------------------------------------------
(* The steps of HEAP_GC *)
LEMMA SweepFrames ==
    ASSUME TypeInv
    PROVE  /\ \A mode \in SUBSET {"ptr", "obj"} :
                 Sweep(mode) \in FrameType /\ Sweep(mode).at \in Sweeps
           /\ \A f : f.at \in Sweeps => f.at \notin Calls
BY SweepType DEF Sweeps, Calls

LEMMA HeapGCKept ==
    ASSUME CleanupInv, NEW mode \in GCModes, HeapGC(mode)
    PROVE  StackKept
<1> DEFINE k == Depth
           f == Sweep(mode)
<1>1. Len(stack) = k /\ k \in Nat /\ TypeInv /\ stack \in Seq(FrameType)
  BY StackFacts DEF CleanupInv
<1>2. f \in FrameType /\ f.at \in Sweeps /\ f.at \notin Calls
  BY <1>1, SweepFrames, GCModesAssumption
<1>3. /\ gcPass = 0 /\ gcPass' = 1 /\ inProgress' = inProgress
      /\ stack' = Append(stack, f)
  BY DEF HeapGC
<1> HIDE DEF f, k
<1>4. Keeps(stack, stack', k) /\ Len(stack') = k + 1 /\ stack'[k + 1] = f
  BY <1>1, <1>2, <1>3, PushKeeps
<1>5. NoneAbove(stack', k, Calls) /\ NoneAbove(stack', k + 1, Sweeps)
  BY <1>1, <1>2, <1>4, NoneBeyond
<1>6. k + 1 <= Len(stack') /\ stack'[k + 1].at \in Sweeps /\ gcPass' # 0
  BY <1>1, <1>2, <1>3, <1>4
<1>7. CallsMarked(stack', inProgress')
  BY <1>3, <1>4, <1>5, QuietCalls DEF CleanupInv
<1>8. SweepFlagged(stack', gcPass')
  BY <1>2, <1>3, <1>4, <1>5, <1>6, SweepAt DEF CleanupInv
<1> QED
  BY <1>7, <1>8 DEF StackKept

(* the frame of HEAP_GC changes, and may call a destructor *)
LEMMA SweepGoesOn ==
    ASSUME CleanupInv, Top.at \in Sweeps, NEW f \in FrameType, f.at \in Sweeps,
           NEW t, NEW g, g \in {1, 2},
           t = Become(f) \/ t = Append(Become(f), Frame("drop"))
    PROVE  CallsMarked(t, inProgress) /\ SweepFlagged(t, g)
<1> DEFINE k == Depth - 1
           d == Frame("drop")
<1>1. /\ Len(stack) = k + 1 /\ k \in Nat /\ Top = stack[k + 1] /\ TypeInv
      /\ Depth = k + 1
  BY StackFacts DEF CleanupInv
<1>2. d \in FrameType /\ d.at \notin Loud
  BY QuietFrames
<1> HIDE DEF d
<1>3. /\ Keeps(stack, t, k) /\ t[k + 1] = f
      /\ \/ Len(t) = k + 1
         \/ Len(t) = k + 2 /\ t[k + 2] = d
  <2>1. CASE t = Become(f)
    BY <2>1, <1>1, BecomeKeeps
  <2>2. CASE t = Append(Become(f), Frame("drop"))
    <3>1. t = Append(Become(f), d)
      BY <2>2 DEF d
    <3>2. /\ Keeps(stack, t, Depth - 1) /\ Len(t) = Depth + 1
          /\ t[Depth] = f /\ t[Depth + 1] = d
      BY <3>1, <1>1, <1>2, BecomePushKeeps
    <3> QED
      BY <3>2, <1>1
  <2> QED
    BY <2>1, <2>2
<1> HIDE DEF k
<1>4. f.at \notin Calls /\ d.at \notin Calls /\ d.at \notin Sweeps
  BY <1>1, <1>2, SweepFrames DEF Loud
<1>5. NoneAbove(t, k, Calls)
  BY <1>1, <1>3, <1>4, NoneBeyond
<1>6. NoneAbove(t, k + 1, Sweeps)
  <2>1. k + 1 \in Nat /\ (Len(t) = k + 1 \/ (Len(t) = k + 1 + 1 /\ t[k + 1 + 1] = d))
    BY <1>1, <1>3
  <2> QED
    BY <2>1, <1>4, NoneBeyond
<1>7. /\ k + 1 <= Len(t) /\ k + 1 <= Len(stack) /\ stack[k + 1].at \in Sweeps
      /\ t[k + 1].at \in Sweeps /\ g # 0
  BY <1>1, <1>3
<1>8. CallsMarked(t, inProgress)
  BY <1>3, <1>5, QuietCalls DEF CleanupInv
<1>9. SweepFlagged(t, g)
  BY <1>3, <1>6, <1>7, SweepAt DEF CleanupInv
<1> QED
  BY <1>8, <1>9

(* while a frame of HEAP_GC is there, the flag is set *)
LEMMA SweepRuns ==
    ASSUME CleanupInv, Top.at \in Sweeps
    PROVE  gcPass \in {1, 2} /\ TypeInv /\ Top \in FrameType
<1>1. Depth \in 1..Len(stack) /\ Top = stack[Depth] /\ gcPass \in 0..2 /\ TypeInv
      /\ Top \in FrameType
  BY StackFacts, TopFacts DEF CleanupInv, TypeInv, TypeOK
<1>2. gcPass # 0
  BY <1>1 DEF CleanupInv, SweepFlagged
<1> QED
  BY <1>1, <1>2

LEMMA GCObjKept ==
    ASSUME CleanupInv, GCObj
    PROVE  StackKept
<1> DEFINE r == First(Top.todo)
           f == [Top EXCEPT !.todo = @ \ {r}]
           next == Become(f)
<1>1. Top.at = "gcObj" /\ gcPass' = gcPass /\ Top.at \in Sweeps
  BY DEF GCObj, Sweeps
<1>2. gcPass \in {1, 2} /\ TypeInv /\ Top \in FrameType
  BY <1>1, SweepRuns
<1>3. f \in FrameType /\ f.at \in Sweeps
  BY <1>1, <1>2 DEF FrameType
<1>4. CallsMarked(next, inProgress) /\ SweepFlagged(next, gcPass)
  BY <1>1, <1>2, <1>3, SweepGoesOn
<1>5. next \in Seq(FrameType)
  BY <1>2, <1>3, BecomeKeeps
<1>6. CASE Cleanable(r)
  <2>1. r \in Objs /\ r \notin inProgress /\ EnvTCleanup(r, next)
    BY <1>6 DEF GCObj, Cleanable
  <2> QED
    BY <2>1, <1>1, <1>4, <1>5, EnvTCleanupKept
<1>7. CASE ~Cleanable(r)
  <2>1. stack' = next /\ inProgress' = inProgress
    BY <1>7 DEF GCObj
  <2> QED
    BY <2>1, <1>1, <1>4 DEF StackKept
<1> QED
  BY <1>6, <1>7

LEMMA GCNextKept ==
    ASSUME CleanupInv, GCObjEnd \/ GCPtr \/ GCAgain
    PROVE  StackKept
<1>1. Top.at \in Sweeps /\ inProgress' = inProgress
  BY DEF GCObjEnd, GCPtr, GCAgain, Sweeps
<1>2. gcPass \in {1, 2} /\ TypeInv /\ Top \in FrameType
  BY <1>1, SweepRuns
<1>3. gcPass' \in {1, 2}
  BY <1>2 DEF GCObjEnd, GCPtr, GCAgain
<1>4. PICK f \in FrameType : /\ f.at \in Sweeps
                             /\ \/ stack' = Become(f)
                                \/ stack' = Append(Become(f), Frame("drop"))
  <2>1. CASE GCObjEnd
    <3> DEFINE f == [Frame("gcPtr") EXCEPT
                       !.mode = Top.mode,
                       !.todo = IF "ptr" \in Top.mode
                                THEN (live \intersect Ptrs) \ Top.keep ELSE {}]
    <3>1. Top.mode \subseteq {"ptr", "obj"} /\ live \intersect Ptrs \subseteq Refs
      BY <1>2, SlotFacts DEF FrameType
    <3>2. f \in FrameType /\ f.at = "gcPtr"
      BY <3>1 DEF Frame, FrameType, Places
    <3>3. stack' = Become(f)
      BY <2>1 DEF GCObjEnd
    <3> HIDE DEF f
    <3> QED
      BY <3>2, <3>3 DEF Sweeps
  <2>2. CASE GCPtr
    <3> DEFINE f == [Top EXCEPT !.todo = @ \ {First(Top.todo)}]
    <3>1. f \in FrameType /\ f.at \in Sweeps
      BY <1>1, <1>2 DEF FrameType
    <3>2. stack' = Become(f) \/ stack' = Append(Become(f), Frame("drop"))
      BY <2>2 DEF GCPtr
    <3> HIDE DEF f
    <3> QED
      BY <3>1, <3>2
  <2>3. CASE GCAgain
    <3>1. Top.mode \in SUBSET {"ptr", "obj"}
      BY <1>2 DEF FrameType
    <3>2. Sweep(Top.mode) \in FrameType /\ Sweep(Top.mode).at \in Sweeps
      BY <1>2, <3>1, SweepFrames
    <3>3. stack' = Become(Sweep(Top.mode))
      BY <2>3 DEF GCAgain
    <3> QED
      BY <3>2, <3>3
  <2> QED
    BY <2>1, <2>2, <2>3
<1> QED
  BY <1>1, <1>3, <1>4, SweepGoesOn DEF StackKept

LEMMA GCEndKept ==
    ASSUME CleanupInv, GCEnd
    PROVE  StackKept
<1> DEFINE k == Depth - 1
<1>1. /\ Len(stack) = k + 1 /\ k \in Nat /\ Top = stack[k + 1] /\ TypeInv
  BY StackFacts DEF CleanupInv
<1>2. /\ Top.at \in Sweeps /\ gcPass' = 0 /\ inProgress' = inProgress /\ stack' = Pop
  BY DEF GCEnd, Sweeps
<1>3. Keeps(stack, stack', k) /\ Len(stack') = k
  BY <1>1, <1>2, PopKeeps
<1> HIDE DEF k
<1>4. NoneAbove(stack', k, Calls) /\ NoneAbove(stack', k, Sweeps)
  BY <1>1, <1>3, NoneBeyond
<1>5. k + 1 \in 1..Len(stack) /\ k + 1 > k
  BY <1>1
<1>6. CallsMarked(stack', inProgress')
  BY <1>2, <1>3, <1>4, QuietCalls DEF CleanupInv
<1>7. SweepFlagged(stack', 0)
  BY <1>1, <1>2, <1>3, <1>4, <1>5, SweepOver DEF CleanupInv
<1> QED
  BY <1>2, <1>6, <1>7 DEF StackKept

-----------------------------------------------------------------------------
LEMMA CleanupInit == Init => CleanupInv
<1> SUFFICES ASSUME Init PROVE CleanupInv
  OBVIOUS
<1>1. TypeInv
  BY InitType
<1>2. Len(stack) = 1 /\ stack[1].at = "main" /\ gcPass = 0
  BY DEF Init, Frame
<1>3. \A i \in 1..Len(stack) : stack[i].at \notin Calls /\ stack[i].at \notin Sweeps
  BY <1>2 DEF Calls, Sweeps
<1> QED
  BY <1>1, <1>2, <1>3 DEF CleanupInv, CallsMarked, SweepFlagged

(* steps that leave the stack, the marks and the flag alone *)
LEMMA SameKept ==
    ASSUME CleanupInv, UNCHANGED <<stack, inProgress, gcPass>>
    PROVE  StackKept
BY Zenon DEF CleanupInv, StackKept

LEMMA HeapGCNestedKept ==
    ASSUME CleanupInv, HeapGCNested
    PROVE  StackKept
<1>1. UNCHANGED <<stack, inProgress>> /\ gcPass # 0 /\ gcPass' # 0
  BY DEF HeapGCNested
<1> QED
  BY <1>1 DEF CleanupInv, StackKept, SweepFlagged, CallsMarked

LEMMA AssigningFrames ==
    ASSUME NEW s \in Slots
    PROVE  /\ [Frame("store") EXCEPT !.ref = s] \in FrameType
           /\ [Frame("store") EXCEPT !.ref = s].at \in {"copy", "store"}
           /\ \A b \in Slots :
                 LET f == [[Frame("copy") EXCEPT !.src = b] EXCEPT !.ref = s]
                 IN  f \in FrameType /\ f.at \in {"copy", "store"}
BY DEF Frame, FrameType, Places

LEMMA StatementKept ==
    ASSUME CleanupInv, Statement
    PROVE  StackKept
<1>1. /\ Lvalues \subseteq VarSlots \union Ptrs /\ Members \subseteq Refs
      /\ VarSlots \subseteq Slots /\ Ptrs \subseteq Slots /\ Refs \subseteq Slots
      /\ VarSlots \intersect Objs = {}
      /\ \A v \in Vars : Var(v) \in VarSlots
  BY NamedFacts, SlotFacts DEF CleanupInv
<1>2. ASSUME NEW v \in Vars, NEW b, PtrNew(v, b) PROVE StackKept
  <2> DEFINE f == [Frame("store") EXCEPT !.ref = Var(v)]
  <2>1. /\ f \in FrameType /\ f.at \in {"copy", "store"}
        /\ Drop(Var(v)) = Frame("drop")
    BY <1>1, AssigningFrames DEF Drop
  <2>2. stack' = stack \o <<f, Drop(Var(v))>> /\ UNCHANGED <<inProgress, gcPass>>
    BY <1>2, <2>1 DEF PtrNew
  <2> HIDE DEF f
  <2> QED
    BY <2>1, <2>2, OverwriteKept
<1>3. ASSUME NEW s \in Slots, UNCHANGED <<inProgress, gcPass>>,
             stack' = stack \o <<[Frame("store") EXCEPT !.ref = s], Drop(s)>>
      PROVE  StackKept
  BY <1>3, AssigningFrames, OverwriteKept
<1>4. ASSUME NEW v \in Vars, ObjNew(v) PROVE StackKept
  BY <1>1, <1>3, <1>4 DEF ObjNew, Overwrite
<1>5. ASSUME NEW a \in Slots, Clear(a) PROVE StackKept
  BY <1>3, <1>5 DEF Clear, Overwrite
<1>6. ASSUME NEW a \in Slots, NEW b, AssignMember(a, b) PROVE StackKept
  BY <1>3, <1>6 DEF AssignMember, Overwrite
<1>7. ASSUME NEW a \in Slots, NEW b \in Slots, Assign(a, b) PROVE StackKept
  <2> DEFINE f == [[Frame("copy") EXCEPT !.src = b] EXCEPT !.ref = a]
  <2>1. f \in FrameType /\ f.at \in {"copy", "store"}
    BY AssigningFrames
  <2>2. stack' = stack \o <<f, Drop(a)>> /\ UNCHANGED <<inProgress, gcPass>>
    BY <1>7 DEF Assign, Overwrite
  <2> HIDE DEF f
  <2> QED
    BY <2>1, <2>2, OverwriteKept
<1>8. ASSUME NEW v \in Vars, PtrFree(v) PROVE StackKept
  BY <1>8, PtrFreeKept DEF PtrFree
<1>9. ASSUME NEW v \in Vars, TouchDying(v) \/ \E on \in BOOLEAN : HeapRefcount(v, on)
      PROVE  StackKept
  <2>1. UNCHANGED <<stack, inProgress, gcPass>>
    BY <1>9 DEF TouchDying, HeapRefcount
  <2> QED
    BY <2>1, SameKept
<1>10. ASSUME ObjNewRejected \/ ObjNewFailed PROVE StackKept
  BY <1>10, SameKept DEF ObjNewRejected, ObjNewFailed
<1>11. ASSUME \E mode \in GCModes : HeapGC(mode) PROVE StackKept
  BY <1>11, HeapGCKept
<1>12. Self \subseteq Slots \/ ~CodeRuns \/ Top.at = "main"
  BY NamedFacts DEF CleanupInv, CodeRuns
<1>13. Top.at = "main" => Self = {}
  BY DEF Self
<1>14. CASE \E v \in Vars :
               \/ \E b \in Lvalues \union {Null} : PtrNew(v, b)
               \/ ObjNew(v) \/ PtrFree(v) \/ ObjDestroy(v) \/ TouchDying(v)
               \/ \E on \in BOOLEAN : HeapRefcount(v, on)
  BY <1>14, <1>2, <1>4, <1>8, <1>9, ObjDestroyKept
<1>15. CASE \E a \in Lvalues, b \in Lvalues \union Self : Assign(a, b)
  <2>1. PICK a \in Lvalues, b \in Lvalues \union Self : Assign(a, b)
    BY <1>15
  <2>2. CodeRuns
    BY <2>1 DEF Assign, May
  <2> QED
    BY <2>1, <2>2, <1>1, <1>7, <1>12, <1>13
<1>16. CASE \/ \E a \in Members, b \in VarSlots \union Self : AssignMember(a, b)
            \/ \E a \in VarSlots, b \in Members : AssignMember(a, b)
            \/ \E a \in VarSlots \union Members : Clear(a)
  BY <1>16, <1>1, <1>5, <1>6
<1> QED
  BY <1>10, <1>11, <1>14, <1>15, <1>16, HeapGCNestedKept DEF Statement

LEMMA CppStepKept ==
    ASSUME CleanupInv, CppStep
    PROVE  StackKept
<1>1. ASSUME CopyEnd \/ StoreEnd \/ DropOne \/ DropLastPtr \/ EnvTFree
      PROVE  StackKept
  <2>1. /\ Top.at \notin Sweeps /\ UNCHANGED <<inProgress, gcPass>>
        /\ stack' = Pop \/ stack' = Become(Frame("drop"))
    BY <1>1 DEF CopyEnd, StoreEnd, DropOne, DropLastPtr, EnvTFree, Dropping, Sweeps
  <2> QED
    BY <2>1, PopKept
<1>2. ASSUME UseAfterFree \/ DropAsserts PROVE StackKept
  BY <1>2, SameKept DEF UseAfterFree, DropAsserts
<1> QED
  BY <1>1, <1>2, DropLastObjKept, BaseFreeKept, BaseEndKept, BaseThrowKept,
     EnvTReturnKept, GCObjKept, GCNextKept, GCEndKept DEF CppStep

LEMMA CleanupNext == CleanupInv /\ [Next]_vars => CleanupInv'
<1> SUFFICES ASSUME CleanupInv, [Next]_vars PROVE CleanupInv'
  OBVIOUS
<1>1. TypeInv'
  BY NextType DEF CleanupInv
<1>2. StackKept
  <2>1. CASE UNCHANGED vars
    BY <2>1, SameKept DEF vars
  <2>2. CASE CleanupReturns
    <3>1. /\ Top.at \notin Sweeps /\ stack' = Pop /\ UNCHANGED <<inProgress, gcPass>>
      BY <2>2 DEF CleanupReturns, Sweeps
    <3> QED
      BY <3>1, PopKept
  <2> QED
    BY <2>1, <2>2, StatementKept, CppStepKept, CleanupThrowsKept
       DEF Next, CleanupEnds, Halted
<1> QED
  BY <1>1, <1>2 DEF CleanupInv, StackKept

(* A CLEANUP method always stands on its own call of ObjCleanup. *)
LEMMA CleanupInvExclusive == CleanupInv => CleanupExclusive
<1> SUFFICES ASSUME CleanupInv, NEW i \in 1..Depth, NEW j \in 1..Depth,
                    stack[i].at = "code", stack[j].at = "code",
                    stack[i].ref = stack[j].ref
             PROVE  i = j
  BY DEF CleanupExclusive
<1>1. Len(stack) = Depth /\ Depth \in Nat /\ stack[1].at = "main"
  BY StackFacts DEF CleanupInv, TypeInv, ShapeOf
<1>2. i \in 2..Len(stack) /\ j \in 2..Len(stack)
  BY <1>1
<1>3. /\ stack[i - 1].at \in {"base", "baseAt", "envt"}
      /\ stack[i - 1].ref = stack[i].ref
      /\ stack[j - 1].at \in {"base", "baseAt", "envt"}
      /\ stack[j - 1].ref = stack[j].ref
  BY <1>2 DEF CleanupInv, TypeInv, ShapeOf, StandsOn
<1>4. i - 1 \in 1..Len(stack) /\ j - 1 \in 1..Len(stack)
  BY <1>2, <1>1
<1>5. i - 1 = j - 1
  BY <1>3, <1>4 DEF CleanupInv, CallsMarked, Calls
<1> QED
  BY <1>5, <1>2

LEMMA CleanupInvFlag == CleanupInv => GCFlag
<1> SUFFICES ASSUME CleanupInv PROVE GCFlag
  OBVIOUS
<1> DEFINE S == {i \in 1..Depth : stack[i].at \in {"gcObj", "gcPtr"}}
<1>1. Len(stack) = Depth
  BY StackFacts DEF CleanupInv
<1>2. gcPass = 0 => S = {}
  BY <1>1 DEF CleanupInv, SweepFlagged, Sweeps
<1>3. gcPass # 0 => Cardinality(S) = 1
  <2> SUFFICES ASSUME gcPass # 0 PROVE Cardinality(S) = 1
    OBVIOUS
  <2>1. PICK i \in S : S = {i}
    BY <1>1 DEF CleanupInv, SweepFlagged, Sweeps
  <2> QED
    BY <2>1, FS_Singleton
<1> QED
  BY <1>2, <1>3 DEF GCFlag

(* No object is cleaned up twice at once: for any number of objects, and
   whatever their CLEANUP methods do to themselves and to each other. *)
THEOREM CleanupIsExclusive == Spec => []CleanupExclusive
<1>1. Init => CleanupInv
  BY CleanupInit
<1>2. CleanupInv /\ [Next]_vars => CleanupInv'
  BY CleanupNext
<1>3. CleanupInv => CleanupExclusive
  BY CleanupInvExclusive
<1> QED
  BY <1>1, <1>2, <1>3, PTL DEF Spec

(* The flag of HEAP_GC is set exactly while one HEAP_GC runs, also after
   errors in the CLEANUP methods it called. *)
THEOREM SweepFlagHolds == Spec => []GCFlag
<1>1. Init => CleanupInv
  BY CleanupInit
<1>2. CleanupInv /\ [Next]_vars => CleanupInv'
  BY CleanupNext
<1>3. CleanupInv => GCFlag
  BY CleanupInvFlag
<1> QED
  BY <1>1, <1>2, <1>3, PTL DEF Spec

-----------------------------------------------------------------------------
(* The counts are exact: every reference is followed from slot to slot     *)
(* through destructors, CLEANUP methods and HEAP_GC.  It follows that      *)
(* reference counting leaves no dangling reference.                        *)

(* Activations that own the reference in their temporary; activations of
   ObjCleanup whose object FreeObjHeap has removed. *)
Owners == {"drop", "dropAt", "store", "base", "baseAt", "baseCatch",
           "baseThrow", "baseEnd", "envt"}
Freed == {"baseEnd", "baseThrow"}

Num(h, r) == Cardinality({x \in Slots : h[x] = r})

(* Some part of the state names heap variable r. *)
Known(r) ==
    \/ r \in live
    \/ \E x \in Slots : holds[x] = r
    \/ \E i \in 1..Depth : stack[i].ref = r

(* Slots that hold nothing: the contents of what is not on the heap, the
   temporaries nobody owns, the targets of unfinished assignments. *)
DeadEmpty == \A r \in Refs \ live : holds[r] = Null
TmpsOwned == \A i \in 1..MaxDepth :
                holds[Tmp(i)] # Null => i <= Depth /\ stack[i].at \in Owners
DyingEmpty == \A i \in 1..Depth :
                 stack[i].at \in Assigning => holds[stack[i].ref] = Null
(* No slot is the target of two unfinished assignments. *)
DyingOnce ==
    \A i, j \in 1..Depth :
        stack[i].at \in Assigning /\ stack[j].at \in Assigning
            /\ stack[i].ref = stack[j].ref => i = j
(* Identifiers not handed out yet are known nowhere. *)
FreshUnknown ==
    \A r \in Refs : r[2] >= heapIx => ~Known(r) /\ holds[<<"leak", r[2]>>] = Null
FreedDead == \A i \in 1..Depth : stack[i].at \in Freed => stack[i].ref \notin live
Counted == \A r \in live : count[r] = Num(holds, r)

Exact == /\ DeadEmpty /\ TmpsOwned /\ DyingEmpty /\ DyingOnce
         /\ FreshUnknown /\ FreedDead /\ Counted

CountInv == TypeInv /\ (~stale => Exact)

-----------------------------------------------------------------------------
(* Counting holders *)
LEMMA SlotsFinite == IsFiniteSet(Slots)
<1>1. IsFiniteSet(Ix) /\ IsFiniteSet(1..MaxDepth)
  BY FS_Interval, MaxIxAssumption, MaxDepthAssumption DEF Ix
<1>2. \A x : IsFiniteSet({x})
  BY FS_Singleton
<1>3. /\ IsFiniteSet({"var"} \X Vars) /\ IsFiniteSet({"tmp"} \X (1..MaxDepth))
      /\ IsFiniteSet({"ptr"} \X Ix) /\ IsFiniteSet({"obj"} \X Ix)
      /\ IsFiniteSet({"leak"} \X Ix)
  BY <1>1, <1>2, VarsAssumption, FS_Product
<1> QED
  BY <1>3, FS_Union DEF Slots, VarSlots, TmpSlots, LeakSlots, Refs, Ptrs, Objs

LEMMA NumType ==
    ASSUME NEW h, NEW r
    PROVE  /\ IsFiniteSet({x \in Slots : h[x] = r})
           /\ Num(h, r) \in Nat
<1>1. {x \in Slots : h[x] = r} \in SUBSET Slots
  OBVIOUS
<1>2. IsFiniteSet({x \in Slots : h[x] = r})
  BY <1>1, SlotsFinite, FS_Subset
<1> QED
  BY <1>2, FS_CardinalityType DEF Num

(* h after slot s is given v *)
Put(h, s, v) == [h EXCEPT ![s] = v]
One(b) == IF b THEN 1 ELSE 0
Holdings == [Slots -> Refs \union {Null}]

LEMMA PutFacts ==
    ASSUME NEW h \in Holdings, NEW s \in Slots, NEW v \in Refs \union {Null}
    PROVE  /\ Put(h, s, v) \in Holdings
           /\ Put(h, s, v)[s] = v
           /\ \A x \in Slots : x # s => Put(h, s, v)[x] = h[x]
BY DEF Put, Holdings

(* What one changed slot does to the number of holders of r. *)
LEMMA PutNum ==
    ASSUME NEW h \in Holdings, NEW s \in Slots, NEW v \in Refs \union {Null}, NEW r
    PROVE  /\ Num(h, r) \in Nat /\ Num(Put(h, s, v), r) \in Nat
           /\ Num(Put(h, s, v), r) = Num(h, r) + One(v = r) - One(h[s] = r)
<1> DEFINE H == {x \in Slots : h[x] = r}
           G == {x \in Slots : Put(h, s, v)[x] = r}
<1>1. IsFiniteSet(H) /\ Cardinality(H) \in Nat /\ Num(h, r) = Cardinality(H)
      /\ Num(Put(h, s, v), r) = Cardinality(G) /\ Num(Put(h, s, v), r) \in Nat
  BY NumType, FS_CardinalityType DEF Num
<1>2. s \in H <=> h[s] = r
  OBVIOUS
<1>3. CASE v = r
  <2>1. G = H \union {s}
    BY <1>3, PutFacts
  <2> HIDE DEF H, G
  <2>2. Cardinality(G) = IF s \in H THEN Cardinality(H) ELSE Cardinality(H) + 1
    BY <2>1, <1>1, FS_AddElement
  <2> QED
    BY <2>2, <1>1, <1>2, <1>3 DEF One
<1>4. CASE v # r
  <2>1. G = H \ {s}
    BY <1>4, PutFacts
  <2> HIDE DEF H, G
  <2>2. Cardinality(G) = IF s \in H THEN Cardinality(H) - 1 ELSE Cardinality(H)
    BY <2>1, <1>1, FS_RemoveElement
  <2> QED
    BY <2>2, <1>1, <1>2, <1>4 DEF One
<1> QED
  BY <1>3, <1>4

(* A slot that holds r counts. *)
LEMMA HolderCounts ==
    ASSUME NEW h, NEW s \in Slots, NEW r, h[s] = r
    PROVE  Num(h, r) >= 1
<1>1. IsFiniteSet({x \in Slots : h[x] = r}) /\ s \in {x \in Slots : h[x] = r}
  BY NumType
<1>2. Cardinality({x \in Slots : h[x] = r}) # 0
  BY <1>1, FS_EmptySet
<1> QED
  BY <1>2, NumType DEF Num

-----------------------------------------------------------------------------
(* What a step must respect when it keeps the k lowest frames: it fills only
   slots that may hold something, empties what leaves the heap, the frames it
   puts on the stack own what their temporaries hold, ... *)
FillsFree(k) ==
    \A x \in Slots : holds[x] = Null /\ holds'[x] # Null =>
        \/ \E i \in 1..MaxDepth : i > k /\ x = Tmp(i)
        \/ /\ x \notin TmpSlots /\ (x \in Refs => x \in live')
           /\ \A i \in 1..k : stack[i].at \in Assigning => stack[i].ref # x
EmptiesDead == \A r \in live \ live' : holds'[r] = Null
TmpsAbove(k) ==
    \A i \in 1..MaxDepth : i > k /\ holds'[Tmp(i)] # Null
                              => i <= Len(stack') /\ stack'[i].at \in Owners
TargetsAbove(k) ==
    \A i \in 1..Len(stack') : i > k /\ stack'[i].at \in Assigning =>
        /\ holds'[stack'[i].ref] = Null
        /\ i = k + 1
        /\ \A j \in 1..k : stack[j].at \in Assigning
                              => stack[j].ref # stack'[i].ref
FreedAbove(k) ==
    \A i \in 1..Len(stack') : i > k /\ stack'[i].at \in Freed
                                 => stack'[i].ref \notin live'
(* ... it creates only what nobody names, and names nothing that is not
   handed out. *)
Told(q) == q \in Refs /\ q[2] >= heapIx' => Known(q)
Creates ==
    /\ heapIx' >= heapIx
    /\ \A r \in live' \ live : ~Known(r) /\ r[2] < heapIx'
Tells(k) ==
    /\ \A x \in Slots : holds'[x] = holds[x] \/ Told(holds'[x])
    /\ \A i \in 1..Len(stack') : i > k => Told(stack'[i].ref)
    /\ \A x \in LeakSlots : holds'[x] = holds[x] \/ x[2] < heapIx'

LEMMA AssignTargets ==
    ASSUME TypeInv, NEW i \in 1..Depth, stack[i].at \in Assigning
    PROVE  stack[i].ref \in VarSlots \union Refs
<1>1. i \in 2..Len(stack)
  BY StackFacts DEF TypeInv, ShapeOf, Assigning
<1> QED
  BY <1>1 DEF TypeInv, ShapeOf, StandsOn

LEMMA EmptyKept ==
    ASSUME TypeInv, TypeInv', DeadEmpty, TmpsOwned, DyingEmpty,
           NEW k, Keeps(stack, stack', k), FillsFree(k), EmptiesDead,
           TmpsAbove(k), TargetsAbove(k)
    PROVE  DeadEmpty' /\ TmpsOwned' /\ DyingEmpty'
<1>1. /\ Depth = Len(stack) /\ Depth' = Len(stack') /\ k \in Nat
      /\ k <= Len(stack) /\ k <= Len(stack') /\ Len(stack) \in Nat
      /\ Len(stack') \in Nat
      /\ \A i \in 1..k : stack'[i] = stack[i]
  BY DEF Depth, Keeps
<1>2. DeadEmpty'
  <2> SUFFICES ASSUME NEW r \in Refs \ live', holds'[r] # Null PROVE FALSE
    BY DEF DeadEmpty
  <2>1. r \notin live /\ r \in Slots /\ \A i : r # Tmp(i)
    BY SlotFacts DEF EmptiesDead
  <2>2. holds[r] = Null
    BY <2>1 DEF DeadEmpty
  <2> QED
    BY <2>1, <2>2 DEF FillsFree
<1>3. TmpsOwned'
  <2> SUFFICES ASSUME NEW i \in 1..MaxDepth, holds'[Tmp(i)] # Null
               PROVE  i <= Len(stack') /\ stack'[i].at \in Owners
    BY <1>1 DEF TmpsOwned
  <2>1. CASE i > k
    BY <2>1 DEF TmpsAbove
  <2>2. CASE i <= k
    <3>1. Tmp(i) \in Slots /\ Tmp(i) \in TmpSlots
      BY SlotFacts
    <3>2. holds[Tmp(i)] # Null
      <4> SUFFICES ASSUME holds[Tmp(i)] = Null PROVE FALSE
        OBVIOUS
      <4>1. PICK j \in 1..MaxDepth : j > k /\ Tmp(i) = Tmp(j)
        BY <3>1 DEF FillsFree
      <4>2. i = j
        BY <4>1, SlotFacts
      <4> QED
        BY <4>1, <4>2, <2>2, <1>1
    <3>3. stack[i].at \in Owners /\ i \in 1..k
      BY <3>2, <2>2, <1>1 DEF TmpsOwned
    <3> QED
      BY <3>3, <2>2, <1>1
  <2> QED
    BY <2>1, <2>2, <1>1, MaxDepthAssumption
<1>4. DyingEmpty'
  <2> SUFFICES ASSUME NEW i \in 1..Len(stack'), stack'[i].at \in Assigning
               PROVE  holds'[stack'[i].ref] = Null
    BY <1>1 DEF DyingEmpty
  <2>1. CASE i > k
    BY <2>1 DEF TargetsAbove
  <2>2. CASE i <= k
    <3>1. i \in 1..k /\ i \in 1..Depth /\ stack'[i] = stack[i]
      BY <2>2, <1>1
    <3>2. holds[stack[i].ref] = Null /\ stack[i].ref \in VarSlots \union Refs
      BY <3>1, AssignTargets DEF DyingEmpty
    <3>3. stack[i].ref \in Slots /\ \A j : stack[i].ref # Tmp(j)
      BY <3>2, SlotFacts
    <3> QED
      BY <3>1, <3>2, <3>3 DEF FillsFree
  <2> QED
    BY <2>1, <2>2, <1>1
<1> QED
  BY <1>2, <1>3, <1>4

LEMMA OnceKept ==
    ASSUME TypeInv, DyingOnce, NEW k, Keeps(stack, stack', k), TargetsAbove(k)
    PROVE  DyingOnce'
<1>1. /\ Depth = Len(stack) /\ Depth' = Len(stack') /\ k \in Nat
      /\ Len(stack) \in Nat /\ Len(stack') \in Nat
      /\ \A i \in 1..Len(stack') :
            i > k \/ (i \in 1..k /\ i \in 1..Depth /\ stack'[i] = stack[i])
  BY DEF Depth, Keeps
<1> SUFFICES ASSUME NEW i \in 1..Len(stack'), NEW j \in 1..Len(stack'),
                    stack'[i].at \in Assigning, stack'[j].at \in Assigning,
                    stack'[i].ref = stack'[j].ref
             PROVE  i = j
  BY <1>1 DEF DyingOnce
<1>2. CASE i > k /\ j > k
  BY <1>2 DEF TargetsAbove
<1>3. CASE i > k /\ ~(j > k)
  BY <1>3, <1>1 DEF TargetsAbove
<1>4. CASE ~(i > k) /\ j > k
  BY <1>4, <1>1 DEF TargetsAbove
<1>5. CASE ~(i > k) /\ ~(j > k)
  BY <1>5, <1>1 DEF DyingOnce
<1> QED
  BY <1>2, <1>3, <1>4, <1>5

LEMMA FreedKept ==
    ASSUME TypeInv, FreedDead, NEW k, Keeps(stack, stack', k), FreedAbove(k),
           Creates
    PROVE  FreedDead'
<1>1. /\ Depth = Len(stack) /\ Depth' = Len(stack')
      /\ \A i \in 1..Len(stack') :
            i > k \/ (i \in 1..Depth /\ stack'[i] = stack[i])
  BY DEF Depth, Keeps
<1> SUFFICES ASSUME NEW i \in 1..Len(stack'), stack'[i].at \in Freed,
                    stack'[i].ref \in live'
             PROVE  FALSE
  BY <1>1 DEF FreedDead
<1>2. i \in 1..Depth /\ stack'[i] = stack[i]
  BY <1>1 DEF FreedAbove
<1>3. stack[i].ref \notin live
  BY <1>2 DEF FreedDead
<1> QED
  BY <1>2, <1>3 DEF Creates, Known

LEMMA FreshKept ==
    ASSUME TypeInv, TypeInv', FreshUnknown, NEW k, Keeps(stack, stack', k),
           Creates, Tells(k)
    PROVE  FreshUnknown'
<1>1. /\ Depth = Len(stack) /\ Depth' = Len(stack')
      /\ \A i \in 1..Len(stack') :
            i > k \/ (i \in 1..Depth /\ stack'[i] = stack[i])
  BY DEF Depth, Keeps
<1> SUFFICES ASSUME NEW r \in Refs, r[2] >= heapIx'
             PROVE  ~Known(r)' /\ holds'[<<"leak", r[2]>>] = Null
  BY DEF FreshUnknown
<1>2. r[2] \in Ix /\ r[2] \in Nat /\ heapIx \in Nat /\ heapIx' \in Nat
  BY MaxIxAssumption DEF Refs, Ptrs, Objs, Ix, TypeInv, TypeOK
<1>3. r[2] >= heapIx
  BY <1>2 DEF Creates
<1>4. ~Known(r) /\ holds[<<"leak", r[2]>>] = Null
  BY <1>3 DEF FreshUnknown
<1>5. r \notin live'
  BY <1>2, <1>4 DEF Creates, Known
<1>6. \A x \in Slots : holds'[x] # r
  BY <1>4 DEF Tells, Told, Known
<1>7. \A i \in 1..Len(stack') : stack'[i].ref # r
  BY <1>1, <1>4 DEF Tells, Told, Known
<1>8. holds'[<<"leak", r[2]>>] = Null
  <2>1. <<"leak", r[2]>> \in LeakSlots /\ <<"leak", r[2]>>[2] = r[2]
    BY <1>2 DEF LeakSlots
  <2> QED
    BY <2>1, <1>2, <1>4 DEF Tells
<1> QED
  BY <1>1, <1>5, <1>6, <1>7, <1>8 DEF Known

(* A step that respects all this keeps the invariant. *)
Respects(k) ==
    /\ FillsFree(k) /\ EmptiesDead /\ TmpsAbove(k) /\ TargetsAbove(k)
    /\ FreedAbove(k) /\ Creates /\ Tells(k)

LEMMA ExactKept ==
    ASSUME TypeInv, TypeInv', Exact, NEW k, Keeps(stack, stack', k), Respects(k),
           Counted'
    PROVE  Exact'
<1>1. DeadEmpty' /\ TmpsOwned' /\ DyingEmpty'
  BY EmptyKept DEF Exact, Respects
<1>2. DyingOnce'
  BY OnceKept DEF Exact, Respects
<1>3. FreedDead' /\ FreshUnknown'
  BY FreedKept, FreshKept DEF Exact, Respects
<1> QED
  BY <1>1, <1>2, <1>3 DEF Exact

-----------------------------------------------------------------------------
(* What the common changes of slots do to the number of holders *)
LEMMA NullFacts ==
    /\ Null \notin Refs
    /\ \A r \in Refs : One(Null = r) = 0 /\ r \in Slots
    /\ \A q : Null[2] = 0 /\ One(q = q) = 1
BY SlotFacts DEF One, Null

(* h after a reference moved from s to t; h after an assignment to s started,
   whose frame has new in t and whose destructor has the old value in u *)
Moved(h, s, t) == [h EXCEPT ![s] = Null, ![t] = h[s]]
Overwritten(h, s, t, u, new) == [h EXCEPT ![s] = Null, ![t] = new, ![u] = h[s]]

LEMMA MoveNum ==
    ASSUME NEW h \in Holdings, NEW s \in Slots, NEW t \in Slots, s # t,
           NEW q \in Refs, h[t] # q
    PROVE  Num(Moved(h, s, t), q) = Num(h, q)
<1> DEFINE g == Put(h, s, Null)
<1>1. /\ g \in Holdings /\ g[t] = h[t] /\ h[s] \in Refs \union {Null}
      /\ Num(h, q) \in Nat /\ Num(g, q) \in Nat
      /\ Num(g, q) = Num(h, q) + One(Null = q) - One(h[s] = q)
  BY PutFacts, PutNum DEF Holdings
<1>2. Moved(h, s, t) = Put(g, t, h[s])
  BY DEF Put, Moved
<1> HIDE DEF g
<1>3. Num(Put(g, t, h[s]), q) = Num(g, q) + One(h[s] = q) - One(g[t] = q)
  BY <1>1, PutNum
<1>4. One(Null = q) = 0 /\ One(g[t] = q) = 0 /\ One(h[s] = q) \in Nat
  BY <1>1, NullFacts DEF One
<1> QED
  BY <1>1, <1>2, <1>3, <1>4

LEMMA OverwriteNum ==
    ASSUME NEW h \in Holdings, NEW s \in Slots, NEW t \in Slots, NEW u \in Slots,
           s # t, s # u, t # u, h[t] = Null, h[u] = Null,
           NEW new \in Refs \union {Null}, NEW q \in Refs
    PROVE  Num(Overwritten(h, s, t, u, new), q) = Num(h, q) + One(new = q)
<1> DEFINE g == Put(h, t, new)
<1>0. g \in Holdings /\ \A x \in Slots : x # t => g[x] = h[x]
  BY PutFacts
<1>1. g \in Holdings /\ g[u] = Null /\ g[s] = h[s]
  BY <1>0
<1>6. /\ Num(h, q) \in Nat
      /\ Num(g, q) = Num(h, q) + One(new = q) - One(Null = q)
  BY PutNum
<1>2. Overwritten(h, s, t, u, new) = Moved(g, s, u)
  BY <1>1 DEF Put, Holdings, Overwritten, Moved
<1> HIDE DEF g
<1>3. g[u] # q
  BY <1>1, NullFacts
<1>4. Num(Moved(g, s, u), q) = Num(g, q)
  BY <1>1, <1>3, MoveNum
<1>5. One(Null = q) = 0 /\ One(new = q) \in Nat
  BY NullFacts DEF One
<1> QED
  BY <1>2, <1>4, <1>5, <1>6

(* heap variable r is erased and slot t gets its contents *)
LEMMA EraseNum ==
    ASSUME NEW h \in Holdings, NEW r \in Refs, NEW t \in Slots, r # t,
           h[t] \in {Null, r}, NEW q \in Refs, q # r
    PROVE  Num(Moved(h, r, t), q) = Num(h, q)
<1>1. h[t] # q /\ r \in Slots
  BY NullFacts
<1> QED
  BY <1>1, MoveNum

(* The reference to r is counted; the one in slot s is not any more. *)
LEMMA CountSteps ==
    ASSUME TypeInv, Counted
    PROVE  /\ \A r, q \in Refs : q \in live =>
                 IncRef(count, r)[q] = Num(holds, q) + One(r = q)
           /\ \A q \in live : IncRef(count, Null)[q] = Num(holds, q)
           /\ \A s \in Slots : \A q \in live :
                 DecRefQuiet(holds[s])[q] = Num(holds, q) - One(holds[s] = q)
<1>1. count \in [Refs -> Nat] /\ live \subseteq Refs
  BY DEF TypeInv, TypeOK
<1>2. \A r, q \in Refs : q \in live =>
         IncRef(count, r)[q] = Num(holds, q) + One(r = q)
  BY <1>1, NumType DEF Counted, IncRef, One
<1>3. \A q \in live : IncRef(count, Null)[q] = Num(holds, q)
  BY <1>1, NullFacts DEF Counted, IncRef
<1>4. ASSUME NEW s \in Slots, NEW q \in live
      PROVE  DecRefQuiet(holds[s])[q] = Num(holds, q) - One(holds[s] = q)
  <2>1. count[q] = Num(holds, q) /\ Num(holds, q) \in Nat
    BY NumType DEF Counted
  <2>2. holds[s] = q => Num(holds, q) >= 1
    BY HolderCounts
  <2> QED
    BY <1>1, <2>1, <2>2 DEF DecRefQuiet, One
<1> QED
  BY <1>2, <1>3, <1>4

-----------------------------------------------------------------------------
(* An assignment starts. *)
LEMMA OverwriteFrames ==
    ASSUME TypeInv, Room(2), NEW f \in FrameType, NEW s,
           stack' = stack \o <<f, Drop(s)>>
    PROVE  /\ Keeps(stack, stack', Depth) /\ Len(stack') = Depth + 2
           /\ stack'[Depth + 1] = f /\ stack'[Depth + 2] = Drop(s)
           /\ Drop(s).at \in {"drop", "dropAt"} /\ Drop(s).ref = Null
           /\ Len(stack) = Depth /\ Depth \in Nat /\ Depth + 2 <= MaxDepth
           /\ Depth + 1 \in 1..MaxDepth /\ Depth + 2 \in 1..MaxDepth
<1>1. /\ stack \in Seq(FrameType) /\ Len(stack) = Depth /\ Depth \in Nat
  BY StackFacts
<1>2. Drop(s) \in FrameType
  BY QuietFrames
<1>3. /\ Keeps(stack, stack', Depth) /\ Len(stack') = Depth + 2
      /\ stack'[Depth + 1] = f /\ stack'[Depth + 2] = Drop(s)
  <2> DEFINE g == Drop(s)
  <2>1. g \in FrameType /\ stack' = stack \o <<f, g>>
    BY <1>2
  <2> HIDE DEF g
  <2>2. /\ Keeps(stack, stack', Depth) /\ Len(stack') = Depth + 2
        /\ stack'[Depth + 1] = f /\ stack'[Depth + 2] = g
    BY <1>1, <2>1, Push2Keeps
  <2> QED
    BY <2>2 DEF g
<1>4. Drop(s).at \in {"drop", "dropAt"} /\ Drop(s).ref = Null
  BY DEF Drop, Frame
<1>5. /\ Depth + 2 <= MaxDepth
      /\ Depth + 1 \in 1..MaxDepth /\ Depth + 2 \in 1..MaxDepth
  BY <1>1, MaxDepthAssumption DEF Room
<1> QED
  BY <1>1, <1>3, <1>4, <1>5

(* slots other than these three only change in heap variables just created *)
OthersSame(s) ==
    \A x \in Slots \ {s, Tmp(Depth + 1), Tmp(Depth + 2)} :
        \/ holds'[x] = holds[x]
        \/ x \in Refs /\ x \in live' /\ ~Known(x) /\ Told(holds'[x])

LEMMA OverwriteRespects ==
    ASSUME TypeInv, TypeInv', Exact, Room(2),
           NEW s \in VarSlots \union Refs, ~Dying(s), s \in Refs => s \in live,
           NEW f \in FrameType, f.at \in Assigning, f.ref = s,
           NEW new, Told(new), f.at = "copy" => new = Null,
           stack' = stack \o <<f, Drop(s)>>, OthersSame(s),
           holds'[s] = Null, holds'[Tmp(Depth + 1)] = new,
           holds'[Tmp(Depth + 2)] = holds[s], live \subseteq live', Creates
    PROVE  Keeps(stack, stack', Depth) /\ Respects(Depth)
<1> DEFINE d == Depth
<1>1. /\ Keeps(stack, stack', d) /\ Len(stack') = d + 2
      /\ stack'[d + 1] = f /\ stack'[d + 2] = Drop(s)
      /\ Drop(s).at \in {"drop", "dropAt"} /\ Drop(s).ref = Null
      /\ Len(stack) = d /\ d \in Nat /\ d + 2 <= MaxDepth
      /\ d + 1 \in 1..MaxDepth /\ d + 2 \in 1..MaxDepth
  BY OverwriteFrames
<1>2. /\ s \in Slots /\ Tmp(d + 1) \in Slots /\ Tmp(d + 2) \in Slots
      /\ s # Tmp(d + 1) /\ s # Tmp(d + 2) /\ Tmp(d + 1) # Tmp(d + 2)
      /\ s \notin LeakSlots /\ Tmp(d + 1) \notin LeakSlots
      /\ Tmp(d + 2) \notin LeakSlots
      /\ \A r \in Refs : r \notin LeakSlots
  BY <1>1, SlotFacts
<1>3. \A i \in 1..Len(stack') : i > d => i = d + 1 \/ i = d + 2
  BY <1>1
<1>4. \A r : Known(r) => Told(r)
  BY DEF Told
<1>5. FillsFree(d)
  <2> SUFFICES ASSUME NEW x \in Slots, holds[x] = Null, holds'[x] # Null
               PROVE  \/ \E i \in 1..MaxDepth : i > d /\ x = Tmp(i)
                      \/ /\ x \notin TmpSlots /\ (x \in Refs => x \in live')
                         /\ \A i \in 1..d : stack[i].at \in Assigning
                                               => stack[i].ref # x
    BY DEF FillsFree
  <2>1. CASE x \in {Tmp(d + 1), Tmp(d + 2)}
    BY <2>1, <1>1
  <2>2. CASE x \notin {Tmp(d + 1), Tmp(d + 2)}
    <3>1. x \in Refs /\ x \in live' /\ ~Known(x)
      BY <2>2, <1>2 DEF OthersSame
    <3>2. x \notin TmpSlots
      BY <3>1 DEF Refs, Ptrs, Objs, TmpSlots
    <3> QED
      BY <3>1, <3>2 DEF Known
  <2> QED
    BY <2>1, <2>2
<1>6. EmptiesDead
  BY DEF EmptiesDead
<1>7. TmpsAbove(d)
  <2> SUFFICES ASSUME NEW i \in 1..MaxDepth, i > d, holds'[Tmp(i)] # Null
               PROVE  i <= Len(stack') /\ stack'[i].at \in Owners
    BY DEF TmpsAbove
  <2>1. CASE i = d + 1
    BY <2>1, <1>1 DEF Owners, Assigning
  <2>2. CASE i = d + 2
    BY <2>2, <1>1 DEF Owners
  <2>3. CASE i # d + 1 /\ i # d + 2
    <3>1. Tmp(i) \in Slots \ {s, Tmp(d + 1), Tmp(d + 2)} /\ Tmp(i) \notin Refs
      BY <2>3, SlotFacts DEF Refs, Ptrs, Objs, Tmp
    <3>2. holds[Tmp(i)] = Null
      BY <1>1 DEF Exact, TmpsOwned
    <3> QED
      BY <3>1, <3>2 DEF OthersSame
  <2> QED
    BY <2>1, <2>2, <2>3
<1>8. TargetsAbove(d)
  <2> SUFFICES ASSUME NEW i \in 1..Len(stack'), i > d, stack'[i].at \in Assigning
               PROVE  /\ holds'[stack'[i].ref] = Null /\ i = d + 1
                      /\ \A j \in 1..d : stack[j].at \in Assigning
                                             => stack[j].ref # stack'[i].ref
    BY DEF TargetsAbove
  <2>1. i # d + 2
    BY <1>1 DEF Assigning
  <2>2. i = d + 1 /\ stack'[i].ref = s
    BY <1>1, <1>3, <2>1
  <2>3. \A j \in 1..d : stack[j].at \in Assigning => stack[j].ref # s
    BY DEF Dying, Assigning
  <2> QED
    BY <2>2, <2>3
<1>9. FreedAbove(d)
  BY <1>1, <1>3 DEF FreedAbove, Freed, Assigning
<1>10. Tells(d)
  <2>1. ASSUME NEW x \in Slots PROVE holds'[x] = holds[x] \/ Told(holds'[x])
    <3>1. CASE x = s
      BY <3>1, NullFacts DEF Told
    <3>2. CASE x = Tmp(d + 1)
      BY <3>2
    <3>3. CASE x = Tmp(d + 2)
      BY <3>3, <1>2, <1>4 DEF Known
    <3>4. CASE x \notin {s, Tmp(d + 1), Tmp(d + 2)}
      BY <3>4 DEF OthersSame
    <3> QED
      BY <3>1, <3>2, <3>3, <3>4
  <2>2. Told(s) /\ Told(Null)
    BY NullFacts DEF Told, Known
  <2>3. \A x \in LeakSlots : holds'[x] = holds[x]
    BY <1>2, SlotFacts DEF OthersSame
  <2> QED
    BY <1>1, <1>3, <2>1, <2>2, <2>3 DEF Tells
<1> QED
  BY <1>1, <1>5, <1>6, <1>7, <1>8, <1>9, <1>10 DEF Respects

LEMMA TmpFree ==
    ASSUME TypeInv, Exact, NEW i \in 1..MaxDepth,
           i > Depth \/ stack[i].at \notin Owners
    PROVE  holds[Tmp(i)] = Null /\ Tmp(i) \in Slots
BY StackFacts, SlotFacts DEF Exact, TmpsOwned

LEMMA OverwriteExact ==
    ASSUME TypeInv, TypeInv', Exact, Room(2),
           NEW s \in VarSlots \union Refs, ~Dying(s), s \in Refs => s \in live,
           NEW f \in FrameType, f.at \in Assigning, f.ref = s,
           NEW new \in Refs \union {Null}, Told(new), f.at = "copy" => new = Null,
           stack' = stack \o <<f, Drop(s)>>,
           holds' = [holds EXCEPT ![s] = Null, ![Tmp(Depth + 1)] = new,
                                  ![Tmp(Depth + 2)] = holds[s]],
           live \subseteq live', Creates,
           \A q \in live' : count'[q] = Num(holds, q) + One(new = q)
    PROVE  Exact'
<1>1. /\ Depth + 1 \in 1..MaxDepth /\ Depth + 2 \in 1..MaxDepth /\ Depth \in Nat
  BY OverwriteFrames
<1>2. /\ s \in Slots /\ s # Tmp(Depth + 1) /\ s # Tmp(Depth + 2)
      /\ Tmp(Depth + 1) # Tmp(Depth + 2)
  BY <1>1, SlotFacts
<1>3. /\ Tmp(Depth + 1) \in Slots /\ Tmp(Depth + 2) \in Slots
      /\ holds[Tmp(Depth + 1)] = Null /\ holds[Tmp(Depth + 2)] = Null
  BY <1>1, TmpFree
<1>4. holds \in Holdings /\ live' \subseteq Refs
  BY DEF TypeInv, TypeOK, Holdings
<1>5. /\ holds'[s] = Null /\ holds'[Tmp(Depth + 1)] = new
      /\ holds'[Tmp(Depth + 2)] = holds[s] /\ OthersSame(s)
  BY <1>2, <1>3, <1>4 DEF Holdings, OthersSame
<1>6. Keeps(stack, stack', Depth) /\ Respects(Depth)
  BY <1>5, OverwriteRespects
<1>7. ASSUME NEW q \in live'
      PROVE  Num(holds', q) = Num(holds, q) + One(new = q)
  <2>1. q \in Refs
    BY <1>4
  <2>2. Num(Overwritten(holds, s, Tmp(Depth + 1), Tmp(Depth + 2), new), q)
           = Num(holds, q) + One(new = q)
    BY <1>2, <1>3, <1>4, <2>1, OverwriteNum
  <2> QED
    BY <2>2 DEF Overwritten
<1>8. Counted'
  <2> SUFFICES ASSUME NEW q \in live' PROVE count'[q] = Num(holds', q)
    BY DEF Counted, Num
  <2>1. count'[q] = Num(holds, q) + One(new = q)
    OBVIOUS
  <2> QED
    BY <1>7, <2>1, Zenon
<1> QED
  BY <1>6, <1>8, ExactKept

LEMMA UnknownNum ==
    ASSUME NEW r, ~Known(r)
    PROVE  Num(holds, r) = 0
<1>1. {x \in Slots : holds[x] = r} = {}
  BY DEF Known
<1> QED
  BY <1>1, FS_EmptySet DEF Num

(* The reference to the next heap variable is known nowhere yet. *)
LEMMA NextFresh ==
    ASSUME TypeInv, Exact, NEW r \in Refs, r[2] = heapIx
    PROVE  /\ ~Known(r) /\ r \notin live /\ Num(holds, r) = 0
           /\ holds[r] = Null /\ holds[<<"leak", heapIx>>] = Null
<1>1. ~Known(r) /\ holds[<<"leak", heapIx>>] = Null
  BY MaxIxAssumption DEF Exact, FreshUnknown, TypeInv, TypeOK
<1>2. r \notin live
  BY <1>1 DEF Known
<1> QED
  BY <1>1, <1>2, UnknownNum DEF Exact, DeadEmpty

LEMMA ObjNewExact ==
    ASSUME TypeInv, TypeInv', Exact, NEW v \in Vars, ObjNew(v)
    PROVE  Exact'
<1> DEFINE f == [Frame("store") EXCEPT !.ref = Var(v)]
           r == Obj(heapIx)
<1>1. /\ Var(v) \in VarSlots /\ Var(v) \in Slots /\ Var(v) \notin Refs
      /\ Var(v) \notin Objs
  BY SlotFacts
<1>2. f \in FrameType /\ f.at = "store" /\ f.ref = Var(v)
  BY <1>1, AssignFrames
<1>3. /\ r \in Refs /\ r[2] = heapIx /\ heapIx \in Nat
      /\ heapIx' = heapIx + 1
  BY SlotFacts, MaxIxAssumption DEF ObjNew, TypeInv, TypeOK, Ix, Obj
<1>4. ~Known(r) /\ r \notin live /\ Num(holds, r) = 0
  BY <1>3, NextFresh
<1>5. stack' = stack \o <<f, Drop(Var(v))>>
  BY DEF ObjNew, Overwrite
<1>6. holds' = [holds EXCEPT ![Var(v)] = Null, ![Tmp(Depth + 1)] = r,
                             ![Tmp(Depth + 2)] = holds[Var(v)]]
  BY DEF ObjNew, Overwrite
<1>7. live' = live \union {r} /\ count' = [count EXCEPT ![r] = 1]
  BY DEF ObjNew
<1>8. Room(2) /\ ~Dying(Var(v))
  BY DEF ObjNew
<1> HIDE DEF f, r
<1>9. Creates /\ Told(r)
  BY <1>3, <1>4, <1>7 DEF Creates, Told
<1>10. \A q \in live' : count'[q] = Num(holds, q) + One(r = q)
  BY <1>3, <1>4, <1>7, NumType DEF Exact, Counted, TypeInv, TypeOK, One
<1>11. live \subseteq live'
  BY <1>7
<1>12. f.at \in Assigning /\ (f.at = "copy" => r = Null)
  BY <1>2 DEF Assigning
<1> QED
  BY <1>1, <1>2, <1>3, <1>5, <1>6, <1>8, <1>9, <1>10, <1>11, <1>12, OverwriteExact

LEMMA LvalueFacts ==
    ASSUME TypeInv
    PROVE  /\ \A a \in Lvalues \union Members \union VarSlots :
                 a \in VarSlots \union Refs /\ a \in Slots /\ (a \in Refs => a \in live)
           /\ Top.at \in {"main", "code"} => Self \subseteq Slots
<1>1. live \subseteq Refs
  BY DEF TypeInv, TypeOK
<1>2. Top.at = "main" => Self = {}
  BY DEF Self
<1> QED
  BY <1>1, <1>2, NamedFacts, SlotFacts DEF Lvalues, Members, Named

(* Nothing is created or destroyed. *)
LEMMA NothingNew ==
    ASSUME UNCHANGED <<live, heapIx>>, TypeInv
    PROVE  /\ Creates /\ EmptiesDead /\ live \subseteq live'
           /\ \A r : Known(r) => Told(r)
           /\ Told(Null)
BY NullFacts, MaxIxAssumption
   DEF Creates, EmptiesDead, Told, TypeInv, TypeOK

LEMMA AssignExact ==
    ASSUME TypeInv, TypeInv', Exact, NEW a \in VarSlots \union Refs,
           a \in Refs => a \in live, NEW b \in Slots, Assign(a, b)
    PROVE  Exact'
<1> DEFINE f == [[Frame("copy") EXCEPT !.src = b] EXCEPT !.ref = a]
<1>1. f \in FrameType /\ f.at = "copy" /\ f.ref = a
  BY SlotFacts DEF Frame, FrameType, Places
<1>2. /\ Room(2) /\ ~Dying(a) /\ UNCHANGED <<live, heapIx, count>>
      /\ stack' = stack \o <<f, Drop(a)>>
      /\ holds' = [holds EXCEPT ![a] = Null, ![Tmp(Depth + 1)] = Null,
                                ![Tmp(Depth + 2)] = holds[a]]
  BY DEF Assign, Overwrite
<1> HIDE DEF f
<1>3. Creates /\ live \subseteq live' /\ Told(Null)
  BY <1>2, NothingNew
<1>4. \A q \in live' : count'[q] = Num(holds, q) + One(Null = q)
  BY <1>2, NullFacts, NumType DEF Exact, Counted, TypeInv, TypeOK
<1>5. f.at \in Assigning
  BY <1>1 DEF Assigning
<1> QED
  BY <1>1, <1>2, <1>3, <1>4, <1>5, OverwriteExact

LEMMA ClearExact ==
    ASSUME TypeInv, TypeInv', Exact, NEW a \in VarSlots \union Refs,
           a \in Refs => a \in live, Clear(a)
    PROVE  Exact'
<1> DEFINE f == [Frame("store") EXCEPT !.ref = a]
<1>1. f \in FrameType /\ f.at = "store" /\ f.ref = a
  BY SlotFacts, AssignFrames
<1>2. /\ Room(2) /\ ~Dying(a) /\ UNCHANGED <<live, heapIx, count>>
      /\ stack' = stack \o <<f, Drop(a)>>
      /\ holds' = [holds EXCEPT ![a] = Null, ![Tmp(Depth + 1)] = Null,
                                ![Tmp(Depth + 2)] = holds[a]]
  BY DEF Clear, Overwrite
<1> HIDE DEF f
<1>3. Creates /\ live \subseteq live' /\ Told(Null)
  BY <1>2, NothingNew
<1>4. \A q \in live' : count'[q] = Num(holds, q) + One(Null = q)
  BY <1>2, NullFacts, NumType DEF Exact, Counted, TypeInv, TypeOK
<1>5. f.at \in Assigning
  BY <1>1 DEF Assigning
<1> QED
  BY <1>1, <1>2, <1>3, <1>4, <1>5, OverwriteExact

LEMMA AssignMemberExact ==
    ASSUME TypeInv, TypeInv', Exact, NEW a \in VarSlots \union Refs,
           a \in Refs => a \in live, NEW b \in Slots, AssignMember(a, b)
    PROVE  Exact'
<1> DEFINE f == [Frame("store") EXCEPT !.ref = a]
           new == holds[b]
<1>1. f \in FrameType /\ f.at = "store" /\ f.ref = a
  BY SlotFacts, AssignFrames
<1>2. /\ Room(2) /\ ~Dying(a) /\ UNCHANGED <<live, heapIx>>
      /\ count' = IncRef(count, new)
      /\ stack' = stack \o <<f, Drop(a)>>
      /\ holds' = [holds EXCEPT ![a] = Null, ![Tmp(Depth + 1)] = new,
                                ![Tmp(Depth + 2)] = holds[a]]
  BY DEF AssignMember, Overwrite
<1>3. new \in Refs \union {Null} /\ (Known(new) \/ new = Null)
  BY DEF TypeInv, TypeOK, Known
<1> HIDE DEF f, new
<1>4. Creates /\ live \subseteq live' /\ Told(new)
  BY <1>2, <1>3, NothingNew
<1>5. \A q \in live' : count'[q] = Num(holds, q) + One(new = q)
  <2>1. live \subseteq Refs
    BY DEF TypeInv, TypeOK
  <2>2. CASE new \in Refs
    BY <2>1, <2>2, <1>2, CountSteps DEF Exact
  <2>3. CASE new = Null
    <3>1. \A q \in live : count'[q] = Num(holds, q) /\ Num(holds, q) \in Nat
      BY <2>3, <1>2, CountSteps, NumType DEF Exact
    <3>2. \A q \in live : One(new = q) = 0
      BY <2>1, <2>3, NullFacts DEF One
    <3> QED
      BY <3>1, <3>2, <1>2
  <2> QED
    BY <1>3, <2>2, <2>3
<1>6. f.at \in Assigning /\ f.at # "copy"
  BY <1>1 DEF Assigning
<1> QED
  BY <1>1, <1>2, <1>3, <1>4, <1>5, <1>6, OverwriteExact

LEMMA PtrNewExact ==
    ASSUME TypeInv, TypeInv', Exact, NEW v \in Vars, NEW b \in Slots \union {Null},
           PtrNew(v, b)
    PROVE  Exact'
<1> DEFINE f == [Frame("store") EXCEPT !.ref = Var(v)]
           r == Ptr(heapIx)
           s == Var(v)
           t == Tmp(Depth + 1)
           u == Tmp(Depth + 2)
           content == IF b = Null THEN Null ELSE holds[b]
           h == Put(holds, r, content)
<1>1. s \in VarSlots /\ s \in Slots /\ s \notin Refs /\ s \notin Objs
  BY SlotFacts
<1>2. f \in FrameType /\ f.at = "store" /\ f.ref = s
  BY <1>1, AssignFrames
<1>3. /\ r \in Refs /\ r \in Slots /\ r[2] = heapIx /\ heapIx \in Nat
      /\ heapIx' = heapIx + 1
  BY SlotFacts, MaxIxAssumption DEF PtrNew, TypeInv, TypeOK, Ix, Ptr
<1>4. ~Known(r) /\ r \notin live /\ Num(holds, r) = 0
  BY <1>3, NextFresh
<1>5. content \in Refs \union {Null} /\ (content = Null \/ Known(content))
  BY DEF TypeInv, TypeOK, Known
<1>6. /\ stack' = stack \o <<f, Drop(s)>>
      /\ live' = live \union {r}
      /\ count' = [IncRef(count, content) EXCEPT ![r] = 1]
      /\ Room(2) /\ ~Dying(s)
  BY <1>1 DEF PtrNew, Drop
<1>7. holds' = Overwritten(h, s, t, u, r)
  <2>1. s # r /\ holds \in Holdings
    BY <1>1, <1>3 DEF TypeInv, TypeOK, Holdings
  <2>2. h[s] = holds[s]
    BY <2>1, <1>1, <1>3, <1>5, PutFacts
  <2>3. holds' = [holds EXCEPT ![r] = content, ![s] = Null, ![t] = r,
                               ![u] = holds[s]]
    BY DEF PtrNew
  <2> QED
    BY <2>2, <2>3 DEF Put, Overwritten
<1>8. /\ Depth + 1 \in 1..MaxDepth /\ Depth + 2 \in 1..MaxDepth /\ Depth \in Nat
  BY <1>2, <1>6, OverwriteFrames
<1>9. /\ t \in Slots /\ u \in Slots /\ holds[t] = Null /\ holds[u] = Null
      /\ s # t /\ s # u /\ t # u /\ r # t /\ r # u /\ s # r
  BY <1>1, <1>3, <1>8, TmpFree, SlotFacts
<1> HIDE DEF f, r, s, t, u, content
<1>10. h \in Holdings /\ h[t] = Null /\ h[u] = Null
       /\ \A x \in Slots : x # r => h[x] = holds[x]
  <2>1. holds \in Holdings
    BY DEF TypeInv, TypeOK, Holdings
  <2>2. h \in Holdings /\ \A x \in Slots : x # r => h[x] = holds[x]
    BY <2>1, <1>3, <1>5, PutFacts
  <2> QED
    BY <2>2, <1>9
<1>11. \A q \in Refs : /\ Num(holds, q) \in Nat
                       /\ Num(h, q) = Num(holds, q) + One(content = q)
  <2> SUFFICES ASSUME NEW q \in Refs
               PROVE  /\ Num(holds, q) \in Nat
                      /\ Num(h, q) = Num(holds, q) + One(content = q)
    OBVIOUS
  <2>1. holds \in Holdings /\ holds[r] = Null
    BY <1>3, NextFresh DEF TypeInv, TypeOK, Holdings
  <2>2. /\ Num(holds, q) \in Nat
        /\ Num(h, q) = Num(holds, q) + One(content = q) - One(holds[r] = q)
    BY <2>1, <1>3, <1>5, PutNum
  <2>3. One(holds[r] = q) = 0 /\ One(content = q) \in Nat
    BY <2>1, NullFacts DEF One
  <2> QED
    BY <2>2, <2>3
<1> HIDE DEF h
<1>12. Creates /\ Told(r) /\ Told(content) /\ live \subseteq live'
  <2>1. Told(Null)
    BY NullFacts DEF Told
  <2> QED
    BY <2>1, <1>3, <1>4, <1>5, <1>6 DEF Creates, Told
<1>13. /\ holds'[s] = Null /\ holds'[t] = r /\ holds'[u] = holds[s]
       /\ holds'[r] = h[r]
       /\ \A x \in Slots \ {s, t, u, r} : holds'[x] = holds[x]
  BY <1>1, <1>3, <1>7, <1>9, <1>10 DEF Overwritten, Holdings
<1>14. OthersSame(s)
  <2>1. holds'[r] = content
    <3>1. holds \in Holdings
      BY DEF TypeInv, TypeOK, Holdings
    <3> QED
      BY <3>1, <1>3, <1>5, <1>13, PutFacts DEF h
  <2> QED
    BY <2>1, <1>3, <1>4, <1>6, <1>12, <1>13 DEF OthersSame, t, u
<1>15. Keeps(stack, stack', Depth) /\ Respects(Depth)
  <2>1. f.at \in Assigning /\ (f.at = "copy" => r = Null) /\ (s \in Refs => s \in live)
    BY <1>1, <1>2 DEF Assigning
  <2>2. /\ holds'[s] = Null /\ holds'[Tmp(Depth + 1)] = r
        /\ holds'[Tmp(Depth + 2)] = holds[s]
    BY <1>13 DEF t, u
  <2> QED
    BY <2>1, <2>2, <1>1, <1>2, <1>6, <1>12, <1>14, OverwriteRespects
<1>16. Counted'
  <2> SUFFICES ASSUME NEW q \in live' PROVE count'[q] = Num(holds', q)
    BY DEF Counted, Num
  <2>1. q \in Refs /\ count \in [Refs -> Nat]
    BY <1>6 DEF TypeInv, TypeOK
  <2>2. Num(holds', q) = Num(h, q) + One(r = q)
    BY <2>1, <1>1, <1>3, <1>7, <1>9, <1>10, OverwriteNum
  <2>3. Num(holds', q) = Num(holds, q) + One(content = q) + One(r = q)
    BY <2>1, <2>2, <1>11
  <2>4. CASE q = r
    <3>1. One(content = q) = 0 /\ One(r = q) = 1
      BY <2>4, <1>3, <1>4, <1>5, NullFacts DEF One
    <3>2. count'[q] = 1
      BY <2>1, <2>4, <1>6, IncRefType
    <3> QED
      BY <3>1, <3>2, <2>3, <2>4, <1>4
  <2>5. CASE q # r
    <3>1. q \in live /\ One(r = q) = 0 /\ One(content = q) \in Nat
      BY <2>5, <1>6 DEF One
    <3>2. count'[q] = IncRef(count, content)[q]
      BY <2>1, <2>5, <1>6, IncRefType
    <3>3. IncRef(count, content)[q] = Num(holds, q) + One(content = q)
      <4>1. CASE content \in Refs
        BY <4>1, <3>1, <2>1, CountSteps DEF Exact
      <4>2. CASE content = Null
        <5>1. IncRef(count, content)[q] = Num(holds, q) /\ Num(holds, q) \in Nat
          BY <4>2, <3>1, CountSteps, NumType DEF Exact
        <5>2. One(content = q) = 0
          BY <4>2, <2>1, NullFacts DEF One
        <5> QED
          BY <5>1, <5>2
      <4> QED
        BY <4>1, <4>2, <1>5
    <3>4. Num(holds, q) \in Nat
      BY NumType
    <3> QED
      BY <3>1, <3>2, <3>3, <3>4, <2>3
  <2> QED
    BY <2>4, <2>5
<1> QED
  BY <1>15, <1>16, ExactKept

(* The count and the holders of what is not touched stay. *)
LEMMA ObjNewRejectedExact ==
    ASSUME TypeInv, TypeInv', Exact, ObjNewRejected
    PROVE  Exact'
<1> DEFINE r == Obj(heapIx)
           s == <<"leak", heapIx>>
<1>1. /\ r \in Refs /\ r[2] = heapIx /\ heapIx \in Nat /\ s[2] = heapIx
      /\ heapIx' = heapIx + 1 /\ s \in LeakSlots /\ s \in Slots
  BY SlotFacts, MaxIxAssumption DEF ObjNewRejected, TypeInv, TypeOK, Ix, Obj
<1>2. ~Known(r) /\ r \notin live /\ Num(holds, r) = 0 /\ holds[s] = Null
  BY <1>1, NextFresh
<1>3. /\ live' = live \union {r} /\ count' = [count EXCEPT ![r] = 1]
      /\ holds' = Put(holds, s, r) /\ UNCHANGED stack
  BY DEF ObjNewRejected, Put
<1> HIDE DEF r, s
<1>4. holds \in Holdings
  BY DEF TypeInv, TypeOK, Holdings
<1>5. holds'[s] = r /\ \A x \in Slots : x # s => holds'[x] = holds[x]
  BY <1>1, <1>3, <1>4, PutFacts
<1>6. /\ Keeps(stack, stack', Depth) /\ Len(stack') = Depth /\ Depth \in Nat
  BY <1>3, StackFacts
<1>7. Creates /\ Told(r) /\ EmptiesDead
  BY <1>1, <1>2, <1>3 DEF Creates, Told, EmptiesDead
<1>8. FillsFree(Depth)
  <2>1. /\ s \notin TmpSlots /\ s \notin Refs
        /\ \A i \in 1..Depth : stack[i].at \in Assigning => stack[i].ref # s
    <3>1. s \notin VarSlots \union Refs /\ s \notin TmpSlots
      BY <1>1, SlotFacts DEF LeakSlots, TmpSlots
    <3> QED
      BY <3>1, AssignTargets
  <2> QED
    BY <2>1, <1>5 DEF FillsFree
<1>9. TmpsAbove(Depth)
  <2>1. \A i \in 1..MaxDepth : Tmp(i) # s /\ Tmp(i) \in Slots
    BY <1>1, SlotFacts
  <2> QED
    BY <2>1, <1>5, <1>6, TmpFree DEF TmpsAbove
<1>10. TargetsAbove(Depth) /\ FreedAbove(Depth)
  BY <1>6 DEF TargetsAbove, FreedAbove
<1>11. Tells(Depth)
  BY <1>1, <1>5, <1>6, <1>7, SlotFacts DEF Tells
<1>12. Counted'
  <2> SUFFICES ASSUME NEW q \in live' PROVE count'[q] = Num(holds', q)
    BY DEF Counted, Num
  <2>1. q \in Refs /\ count \in [Refs -> Nat]
    BY <1>1, <1>3 DEF TypeInv, TypeOK
  <2>2. /\ Num(holds, q) \in Nat
        /\ Num(holds', q) = Num(holds, q) + One(r = q) - One(holds[s] = q)
    BY <2>1, <1>1, <1>3, <1>4, PutNum
  <2>3. One(holds[s] = q) = 0
    BY <2>1, <1>2, NullFacts DEF One
  <2> QED
    BY <2>1, <2>2, <2>3, <1>2, <1>3 DEF Exact, Counted, One
<1> QED
  BY <1>6, <1>7, <1>8, <1>9, <1>10, <1>11, <1>12, ExactKept DEF Respects

-----------------------------------------------------------------------------
(* Steps that leave the heap and the references alone *)
FramesQuiet(k) ==
    \A i \in 1..Len(stack') : i > k =>
        /\ stack'[i].at \notin Assigning
        /\ stack'[i].at \in Freed => stack'[i].ref \notin live
        /\ stack'[i].ref = Null \/ Known(stack'[i].ref)

LEMMA QuietExact ==
    ASSUME TypeInv, TypeInv', Exact, UNCHANGED <<live, count, holds>>,
           heapIx' >= heapIx, NEW k, Keeps(stack, stack', k), FramesQuiet(k),
           TmpsAbove(k)
    PROVE  Exact'
<1>1. FillsFree(k) /\ EmptiesDead /\ Creates
  BY DEF FillsFree, EmptiesDead, Creates
<1>2. TargetsAbove(k) /\ FreedAbove(k)
  BY DEF FramesQuiet, TargetsAbove, FreedAbove
<1>3. Tells(k)
  BY NullFacts DEF FramesQuiet, Tells, Told
<1>4. Counted'
  BY DEF Exact, Counted, Num
<1> QED
  BY <1>1, <1>2, <1>3, <1>4, ExactKept DEF Respects

(* Above the stack, and in the frames that own nothing, temporaries are empty. *)
LEMMA TmpsEmptyAbove ==
    ASSUME TypeInv, Exact, UNCHANGED holds, NEW k \in Nat,
           \A i \in 1..Depth : i > k => \/ stack[i].at \notin Owners
                                        \/ /\ i <= Len(stack')
                                           /\ stack'[i].at \in Owners
    PROVE  TmpsAbove(k)
<1> SUFFICES ASSUME NEW i \in 1..MaxDepth, i > k, holds[Tmp(i)] # Null
             PROVE  i <= Len(stack') /\ stack'[i].at \in Owners
  BY DEF TmpsAbove
<1>1. i \in 1..Depth /\ stack[i].at \in Owners
  BY StackFacts DEF Exact, TmpsOwned
<1> QED
  BY <1>1

LEMMA SameExact ==
    ASSUME TypeInv, TypeInv', Exact, UNCHANGED <<live, count, holds, stack>>,
           heapIx' >= heapIx
    PROVE  Exact'
<1>1. /\ Keeps(stack, stack', Depth) /\ Len(stack') = Depth /\ Depth \in Nat
  BY StackFacts
<1>2. FramesQuiet(Depth)
  BY <1>1 DEF FramesQuiet
<1>3. TmpsAbove(Depth)
  BY <1>1, TmpsEmptyAbove
<1> QED
  BY <1>1, <1>2, <1>3, QuietExact

(* a frame goes that owns nothing *)
LEMMA PopExact ==
    ASSUME TypeInv, TypeInv', Exact, UNCHANGED <<live, count, holds, heapIx>>,
           stack' = Pop, Top.at \notin Owners
    PROVE  Exact'
<1> DEFINE k == Depth - 1
<1>1. /\ Keeps(stack, stack', k) /\ Len(stack') = k /\ k \in Nat
      /\ Depth = k + 1 /\ stack[k + 1] = Top
  BY StackFacts, PopKeeps
<1>2. heapIx' >= heapIx
  BY MaxIxAssumption DEF TypeInv, TypeOK
<1> HIDE DEF k
<1>3. FramesQuiet(k)
  BY <1>1 DEF FramesQuiet
<1>4. TmpsAbove(k)
  BY <1>1, TmpsEmptyAbove
<1> QED
  BY <1>1, <1>2, <1>3, <1>4, QuietExact

(* a frame takes the place of the top *)
LEMMA BecomeExact ==
    ASSUME TypeInv, TypeInv', Exact, UNCHANGED <<live, count, holds, heapIx>>,
           NEW f \in FrameType, stack' = Become(f),
           f.at \notin Assigning, f.at \in Freed => f.ref \notin live,
           f.ref = Null \/ Known(f.ref),
           Top.at \in Owners => f.at \in Owners
    PROVE  Exact'
<1> DEFINE k == Depth - 1
<1>1. /\ Keeps(stack, stack', k) /\ Len(stack') = k + 1 /\ k \in Nat
      /\ Depth = k + 1 /\ stack[k + 1] = Top /\ stack'[k + 1] = f
  BY StackFacts, BecomeKeeps
<1>2. heapIx' >= heapIx
  BY MaxIxAssumption DEF TypeInv, TypeOK
<1> HIDE DEF k
<1>3. \A i \in 1..(k + 1) : i > k => i = k + 1
  BY <1>1
<1>4. FramesQuiet(k)
  BY <1>1, <1>3 DEF FramesQuiet
<1>5. TmpsAbove(k)
  BY <1>1, <1>3, TmpsEmptyAbove
<1> QED
  BY <1>1, <1>2, <1>4, <1>5, QuietExact

(* ResetHeap with nothing on the heap and no reference left *)
LEMMA ResetExact ==
    ASSUME TypeInv', UNCHANGED <<live, holds>>, live = {}, Mentioned = {Null}
    PROVE  Exact'
<1>1. \A s \in Slots : holds'[s] = Null
  BY DEF Mentioned
<1>2. Depth' = Len(stack') /\ \A i \in 1..Len(stack') : stack'[i].ref = Null
  <2>1. DOMAIN stack' = 1..Len(stack')
    BY DEF TypeInv, TypeOK
  <2> QED
    BY <2>1 DEF Mentioned, Depth
<1>3. live' = {}
  OBVIOUS
<1>4. \A i \in 1..Len(stack') : stack'[i].at \notin Assigning
  <2> SUFFICES ASSUME NEW i \in 1..Len(stack'), stack'[i].at \in Assigning
               PROVE  FALSE
    OBVIOUS
  <2>1. i \in 2..Len(stack')
    BY DEF TypeInv, ShapeOf, Assigning
  <2>2. stack'[i].ref \in VarSlots \union Refs
    BY <2>1 DEF TypeInv, ShapeOf, StandsOn
  <2> QED
    BY <2>2, <1>2, SlotFacts
<1>5. DeadEmpty' /\ FreedDead' /\ Counted'
  BY <1>1, <1>3, SlotFacts DEF DeadEmpty, FreedDead, Counted
<1>6. TmpsOwned'
  BY <1>1, SlotFacts DEF TmpsOwned
<1>7. DyingEmpty' /\ DyingOnce'
  BY <1>2, <1>4 DEF DyingEmpty, DyingOnce
<1>8. FreshUnknown'
  <2> SUFFICES ASSUME NEW r \in Refs
               PROVE  ~Known(r)' /\ holds'[<<"leak", r[2]>>] = Null
    BY DEF FreshUnknown
  <2>1. r # Null /\ r[2] \in Ix
    BY SlotFacts DEF Refs, Ptrs, Objs
  <2>2. <<"leak", r[2]>> \in Slots
    BY <2>1, SlotFacts
  <2> QED
    BY <2>1, <2>2, <1>1, <1>2, <1>3 DEF Known
<1> QED
  BY <1>5, <1>6, <1>7, <1>8 DEF Exact

-----------------------------------------------------------------------------
(* A heap variable leaves the heap: the frames above the k lowest that are
   not the destructor of its contents. *)
FramesErase(k, r) ==
    \A j \in 1..Len(stack') : j > k /\ j < Len(stack') =>
        /\ stack'[j].at \notin Assigning
        /\ stack'[j].at \in Freed => stack'[j].ref \notin live \ {r}
        /\ stack'[j].ref = Null \/ Known(stack'[j].ref)
        /\ j <= Depth /\ stack[j].at \in Owners => stack'[j].at \in Owners

LEMMA EraseExact ==
    ASSUME TypeInv, TypeInv', Exact, NEW r \in live, NEW i \in 1..MaxDepth,
           Erase(r, i), holds[Tmp(i)] \in {Null, r}, UNCHANGED heapIx,
           NEW k \in Nat, k < i, Depth <= i, Keeps(stack, stack', k),
           Len(stack') = i, stack'[i] = Frame("drop"), FramesErase(k, r)
    PROVE  Exact'
<1> DEFINE t == Tmp(i)
<1>1. /\ r \in Refs /\ r \in Slots /\ t \in Slots /\ t \notin LeakSlots
      /\ r # t /\ r \notin LeakSlots
      /\ holds \in Holdings /\ holds[r] \in Refs \union {Null}
  BY SlotFacts DEF TypeInv, TypeOK, Holdings
<1>2. /\ live' = live \ {r} /\ count' = [count EXCEPT ![r] = 0]
      /\ holds' = Moved(holds, r, t)
  BY DEF Erase, Moved
<1> HIDE DEF t
<1>3. /\ holds'[r] = Null /\ holds'[t] = holds[r]
      /\ \A x \in Slots : x # r /\ x # t => holds'[x] = holds[x]
  BY <1>1, <1>2 DEF Moved, Holdings
<1>4. /\ Frame("drop").at = "drop" /\ Frame("drop").ref = Null
      /\ \A j \in 1..Len(stack') : j = i \/ j < i
  BY MaxDepthAssumption DEF Frame
<1>5. FillsFree(k)
  BY <1>3 DEF FillsFree, t
<1>6. EmptiesDead
  BY <1>2, <1>3 DEF EmptiesDead
<1>7. TmpsAbove(k)
  <2> SUFFICES ASSUME NEW j \in 1..MaxDepth, j > k, holds'[Tmp(j)] # Null
               PROVE  j <= Len(stack') /\ stack'[j].at \in Owners
    BY DEF TmpsAbove
  <2>1. CASE j = i
    BY <2>1, <1>4 DEF Owners
  <2>2. CASE j # i
    <3>1. holds'[Tmp(j)] = holds[Tmp(j)]
      BY <2>2, <1>1, <1>3, SlotFacts DEF t
    <3>2. j <= Depth /\ stack[j].at \in Owners
      BY <3>1 DEF Exact, TmpsOwned
    <3>3. j \in 1..Len(stack') /\ j < Len(stack')
      BY <2>2, <3>2, StackFacts
    <3> QED
      BY <3>2, <3>3 DEF FramesErase
  <2> QED
    BY <2>1, <2>2
<1>8. TargetsAbove(k)
  BY <1>4 DEF TargetsAbove, FramesErase, Assigning
<1>9. FreedAbove(k)
  BY <1>2, <1>4 DEF FreedAbove, FramesErase, Freed
<1>10. Creates
  BY <1>2, MaxIxAssumption DEF Creates, TypeInv, TypeOK
<1>11. Tells(k)
  <2>1. \A q : Known(q) \/ q = Null => Told(q)
    BY NullFacts DEF Told
  <2>2. Told(holds[r]) /\ Told(Null)
    BY <1>1, <2>1 DEF Known
  <2>3. \A x \in LeakSlots : holds'[x] = holds[x]
    BY <1>1, <1>3, SlotFacts
  <2>4. \A j \in 1..Len(stack') : j > k => Told(stack'[j].ref)
    BY <1>4, <2>1 DEF FramesErase
  <2> QED
    BY <1>3, <2>2, <2>3, <2>4 DEF Tells
<1>12. Counted'
  <2> SUFFICES ASSUME NEW q \in live' PROVE count'[q] = Num(holds', q)
    BY DEF Counted, Num
  <2>1. q \in Refs /\ q # r /\ q \in live /\ count \in [Refs -> Nat]
    BY <1>2 DEF TypeInv, TypeOK
  <2>2. Num(holds', q) = Num(holds, q)
    BY <2>1, <1>1, <1>2, EraseNum DEF t
  <2> QED
    BY <2>1, <2>2, <1>2 DEF Exact, Counted
<1> QED
  BY <1>5, <1>6, <1>7, <1>8, <1>9, <1>10, <1>11, <1>12, ExactKept DEF Respects

(* the destructor of the contents stands on the same frames, ... *)
LEMMA ErasePush ==
    ASSUME TypeInv, TypeInv', Exact, NEW r \in live, Room(1),
           Erase(r, Depth + 1), stack' = Append(stack, Frame("drop")),
           UNCHANGED heapIx
    PROVE  Exact'
<1>1. /\ stack \in Seq(FrameType) /\ Len(stack) = Depth /\ Depth \in Nat
  BY StackFacts
<1>2. /\ Keeps(stack, stack', Depth) /\ Len(stack') = Depth + 1
      /\ stack'[Depth + 1] = Frame("drop")
  BY <1>1, PushKeeps, QuietFrames
<1>3. Depth + 1 \in 1..MaxDepth /\ Depth < Depth + 1 /\ Depth <= Depth + 1
  BY <1>1, RoomFacts
<1>4. holds[Tmp(Depth + 1)] \in {Null, r}
  BY <1>1, <1>3, TmpFree
<1>5. FramesErase(Depth, r)
  BY <1>1, <1>2 DEF FramesErase
<1> QED
  BY <1>1, <1>2, <1>3, <1>4, <1>5, EraseExact

(* ... on a frame that takes the place of the top, ... *)
LEMMA EraseBecomePush ==
    ASSUME TypeInv, TypeInv', Exact, NEW r \in live, Room(1),
           Erase(r, Depth + 1), NEW f \in FrameType,
           stack' = Append(Become(f), Frame("drop")), UNCHANGED heapIx,
           f.at \notin Assigning, f.at \in Freed => f.ref \notin live \ {r},
           f.ref = Null \/ Known(f.ref), Top.at \in Owners => f.at \in Owners
    PROVE  Exact'
<1> DEFINE k == Depth - 1
           g == Frame("drop")
<1>1. /\ Depth = k + 1 /\ k \in Nat /\ stack[k + 1] = Top /\ Depth \in Nat
  BY StackFacts
<1>2. g \in FrameType
  BY QuietFrames
<1> HIDE DEF g
<1>3. /\ Keeps(stack, stack', k) /\ Len(stack') = Depth + 1
      /\ stack'[Depth] = f /\ stack'[Depth + 1] = g
  BY <1>2, BecomePushKeeps DEF g
<1>4. Depth + 1 \in 1..MaxDepth /\ k < Depth + 1 /\ Depth <= Depth + 1
  BY <1>1, RoomFacts
<1>5. holds[Tmp(Depth + 1)] \in {Null, r}
  BY <1>1, <1>4, TmpFree
<1> HIDE DEF k
<1>6. \A j \in 1..Len(stack') : j > k /\ j < Len(stack') => j = Depth
  BY <1>1, <1>3
<1>7. FramesErase(k, r)
  BY <1>1, <1>3, <1>6 DEF FramesErase
<1> QED
  BY <1>1, <1>3, <1>4, <1>5, <1>7, EraseExact DEF g

(* ... or in the place of the top. *)
LEMMA EraseBecome ==
    ASSUME TypeInv, TypeInv', Exact, NEW r \in live,
           Erase(r, Depth), stack' = Become(Frame("drop")), UNCHANGED heapIx,
           holds[Tmp(Depth)] = r \/ Top.at \notin Owners
    PROVE  Exact'
<1> DEFINE k == Depth - 1
           g == Frame("drop")
<1>1. /\ Depth = k + 1 /\ k \in Nat /\ stack[k + 1] = Top /\ Depth \in Nat
      /\ Depth \in 1..MaxDepth
  BY StackFacts, TopFacts
<1>2. g \in FrameType
  BY QuietFrames
<1> HIDE DEF g
<1>3. /\ Keeps(stack, stack', k) /\ Len(stack') = Depth /\ stack'[Depth] = g
  BY <1>2, BecomeKeeps DEF g
<1>4. holds[Tmp(Depth)] \in {Null, r}
  BY <1>1, TmpFree
<1>5. k < Depth /\ Depth <= Depth
  BY <1>1
<1> HIDE DEF k
<1>6. FramesErase(k, r)
  BY <1>1, <1>3 DEF FramesErase
<1> QED
  BY <1>1, <1>3, <1>4, <1>5, <1>6, EraseExact DEF g

-----------------------------------------------------------------------------
(* The steps that erase *)
LEMMA PtrFreeExact ==
    ASSUME TypeInv, TypeInv', Exact, NEW v \in Vars, PtrFree(v)
    PROVE  Exact'
<1>1. /\ holds[Var(v)] \in live /\ Room(1) /\ Erase(holds[Var(v)], Depth + 1)
      /\ stack' = Append(stack, Frame("drop")) /\ UNCHANGED heapIx
  BY DEF PtrFree
<1> QED
  BY <1>1, ErasePush

LEMMA DropLastPtrExact ==
    ASSUME TypeInv, TypeInv', Exact, DropLastPtr
    PROVE  Exact'
<1>1. /\ Dropped \in live /\ Erase(Dropped, Depth)
      /\ stack' = Become(Frame("drop")) /\ UNCHANGED heapIx
      /\ holds[Tmp(Depth)] = Dropped
  BY DEF DropLastPtr, Dropped
<1> QED
  BY <1>1, EraseBecome

LEMMA EnvTFreeExact ==
    ASSUME TypeInv, TypeInv', Exact, EnvTFree
    PROVE  Exact'
<1>1. Top.at \notin Owners /\ UNCHANGED heapIx
  BY DEF EnvTFree, Owners
<1>2. CASE Top.ref \in live
  <2>1. Erase(Top.ref, Depth) /\ stack' = Become(Frame("drop"))
    BY <1>2 DEF EnvTFree
  <2> QED
    BY <2>1, <1>1, <1>2, EraseBecome
<1>3. CASE Top.ref \notin live
  <2>1. stack' = Pop /\ UNCHANGED <<live, count, holds>>
    BY <1>3 DEF EnvTFree, Kept
  <2> QED
    BY <2>1, <1>1, PopExact
<1> QED
  BY <1>2, <1>3

LEMMA KnownFrames ==
    ASSUME TypeInv, NEW i \in 1..Depth
    PROVE  Known(stack[i].ref)
BY DEF Known

LEMMA KnownTop ==
    ASSUME TypeInv
    PROVE  Known(Top.ref)
BY KnownFrames, StackFacts

LEMMA BaseFreeExact ==
    ASSUME TypeInv, TypeInv', Exact, BaseFree
    PROVE  Exact'
<1> DEFINE at == IF Top.at = "baseCatch" THEN "baseThrow" ELSE "baseEnd"
           f == [Top EXCEPT !.at = at]
           r == Top.ref
<1>1. f \in FrameType /\ f.ref = r /\ f.at \in Freed /\ f.at \in Owners
  BY TopFacts DEF FrameType, Places, Freed, Owners
<1>2. f.at \notin Assigning /\ UNCHANGED heapIx /\ Known(f.ref)
  BY <1>1, KnownTop DEF Assigning, Freed, BaseFree
<1> HIDE DEF f
<1>3. CASE r \in live
  <2>1. /\ Room(1) /\ Erase(r, Depth + 1)
        /\ stack' = Append(Become(f), Frame("drop"))
    BY <1>3 DEF BaseFree, f
  <2>2. f.ref \notin live \ {r}
    BY <1>1
  <2> QED
    BY <2>1, <2>2, <1>1, <1>2, <1>3, EraseBecomePush
<1>4. CASE r \notin live
  <2>1. stack' = Become(f) /\ UNCHANGED <<live, count, holds>>
    BY <1>4 DEF BaseFree, Kept, f
  <2> QED
    BY <2>1, <1>1, <1>2, <1>4, BecomeExact
<1> QED
  BY <1>3, <1>4

(* The next step of a sweep *)
LEMMA NextSweep ==
    ASSUME TypeInv, NEW S, S \subseteq Top.todo, Top.at \in Sweeps
    PROVE  LET f == [Top EXCEPT !.todo = S]
           IN  /\ f \in FrameType /\ f.at = Top.at
               /\ f.at \notin Assigning /\ f.at \notin Freed /\ Known(f.ref)
               /\ Top.at \notin Owners
<1>1. Top \in FrameType /\ Top.todo \subseteq Refs
  BY TopFacts, FrameFacts
<1>2. /\ [Top EXCEPT !.todo = S] \in FrameType
      /\ [Top EXCEPT !.todo = S].at = Top.at
      /\ [Top EXCEPT !.todo = S].ref = Top.ref
  BY <1>1 DEF FrameType
<1> QED
  BY <1>2, KnownTop DEF Sweeps, Assigning, Freed, Owners

LEMMA GCPtrExact ==
    ASSUME TypeInv, TypeInv', Exact, GCPtr
    PROVE  Exact'
<1> DEFINE r == First(Top.todo)
           f == [Top EXCEPT !.todo = @ \ {r}]
<1>1. /\ f \in FrameType /\ f.at \notin Assigning /\ f.at \notin Freed
      /\ Known(f.ref) /\ Top.at \notin Owners /\ UNCHANGED heapIx
  BY NextSweep DEF GCPtr, Sweeps
<1> HIDE DEF f
<1>2. CASE r \in live
  <2>1. /\ Room(1) /\ Erase(r, Depth + 1)
        /\ stack' = Append(Become(f), Frame("drop"))
    BY <1>2 DEF GCPtr, f
  <2> HIDE DEF r
  <2> QED
    BY <2>1, <1>1, <1>2, EraseBecomePush
<1>3. CASE r \notin live
  <2>1. stack' = Become(f) /\ UNCHANGED <<live, count, holds>>
    BY <1>3 DEF GCPtr, Kept, f
  <2> QED
    BY <2>1, <1>1, BecomeExact
<1> QED
  BY <1>2, <1>3

-----------------------------------------------------------------------------
(* EnvT::ObjCleanup counts SELF before it calls CLEANUP. *)
LEMMA EnvTCallExact ==
    ASSUME TypeInv, TypeInv', Exact, NEW r \in live, NEW k \in Nat, k <= Depth,
           Keeps(stack, stack', k), Len(stack') = Depth + 2,
           stack'[Depth + 1].at = "envt", stack'[Depth + 1].ref = r,
           stack'[Depth + 2].at = "code", stack'[Depth + 2].ref = r,
           \A i \in 1..Depth : i > k =>
              /\ stack'[i].at \notin Assigning /\ stack'[i].at \notin Freed
              /\ Known(stack'[i].ref) /\ stack[i].at \notin Owners,
           Depth + 1 \in 1..MaxDepth, UNCHANGED <<live, heapIx>>,
           holds' = Put(holds, Tmp(Depth + 1), r),
           count' = [count EXCEPT ![r] = @ + 1]
    PROVE  Exact'
<1> DEFINE t == Tmp(Depth + 1)
           d == Depth
<1>1. /\ r \in Refs /\ t \in Slots /\ t \notin LeakSlots /\ holds \in Holdings
      /\ holds[t] = Null /\ d \in Nat /\ live \subseteq Refs
      /\ count \in [Refs -> Nat]
  <2>1. t \in Slots /\ t \notin LeakSlots /\ holds[t] = Null
    BY SlotFacts, TmpFree, StackFacts
  <2>2. /\ holds \in Holdings /\ live \subseteq Refs /\ count \in [Refs -> Nat]
        /\ r \in Refs /\ d \in Nat
    BY StackFacts DEF TypeInv, TypeOK, Holdings
  <2> QED
    BY <2>1, <2>2
<1> HIDE DEF t, d
<1>2. holds'[t] = r /\ \A x \in Slots : x # t => holds'[x] = holds[x]
  BY <1>1, PutFacts DEF t
<1>3. \A i \in 1..Len(stack') : i <= d \/ i = d + 1 \/ i = d + 2
  BY <1>1 DEF d
<1>4. FillsFree(k)
  BY <1>1, <1>2 DEF FillsFree, t, d
<1>5. EmptiesDead /\ Creates /\ Told(r)
  BY NothingNew DEF Known
<1>6. TmpsAbove(k)
  <2> SUFFICES ASSUME NEW i \in 1..MaxDepth, i > k, holds'[Tmp(i)] # Null
               PROVE  i <= Len(stack') /\ stack'[i].at \in Owners
    BY DEF TmpsAbove
  <2>1. CASE i = d + 1
    BY <2>1, <1>1 DEF Owners, d
  <2>2. CASE i # d + 1
    <3>1. holds[Tmp(i)] # Null
      BY <2>2, <1>2, SlotFacts DEF t, d
    <3>2. i \in 1..Depth /\ stack[i].at \in Owners
      BY <3>1, <1>1 DEF Exact, TmpsOwned, d
    <3> QED
      BY <3>2
  <2> QED
    BY <2>1, <2>2
<1>7. TargetsAbove(k)
  BY <1>1, <1>3 DEF TargetsAbove, Assigning, d
<1>8. FreedAbove(k)
  <2>1. \A i \in 1..Len(stack') : i > k => stack'[i].at \notin Freed
    BY <1>1, <1>3 DEF Freed, d
  <2> QED
    BY <2>1 DEF FreedAbove
<1>9. Tells(k)
  <2>1. \A i \in 1..Len(stack') : i > k => Told(stack'[i].ref)
    BY <1>1, <1>3, <1>5 DEF Told, d
  <2>2. \A x \in LeakSlots : holds'[x] = holds[x]
    BY <1>1, <1>2, SlotFacts
  <2> QED
    BY <2>1, <2>2, <1>2, <1>5 DEF Tells
<1>10. Counted'
  <2> SUFFICES ASSUME NEW q \in live PROVE count'[q] = Num(holds', q)
    BY DEF Counted, Num
  <2>1. q \in Refs /\ count[q] = Num(holds, q)
    BY <1>1 DEF Exact, Counted
  <2>2. /\ Num(holds, q) \in Nat
        /\ Num(holds', q) = Num(holds, q) + One(r = q) - One(holds[t] = q)
    BY <2>1, <1>1, PutNum DEF t
  <2>3. One(holds[t] = q) = 0
    BY <2>1, <1>1, NullFacts DEF One
  <2> QED
    BY <2>1, <2>2, <2>3, <1>1 DEF One
<1> QED
  BY <1>4, <1>5, <1>6, <1>7, <1>8, <1>9, <1>10, ExactKept DEF Respects

LEMMA EnvTCleanupExact ==
    ASSUME TypeInv, TypeInv', Exact, NEW r \in live \intersect Objs,
           UNCHANGED heapIx, NEW below \in Seq(FrameType), Len(below) = Depth,
           NEW k \in Nat, k <= Depth, Keeps(stack, below, k),
           \A i \in 1..Depth : i > k =>
              /\ below[i].at \notin Assigning /\ below[i].at \notin Freed
              /\ Known(below[i].ref) /\ stack[i].at \notin Owners,
           EnvTCleanup(r, below)
    PROVE  Exact'
<1> DEFINE f == [Frame("envt") EXCEPT !.ref = r]
           code == [Frame("code") EXCEPT !.ref = r]
           g == Frame("drop")
<1>1. /\ f \in FrameType /\ f.at = "envt" /\ f.ref = r
      /\ code \in FrameType /\ code.at = "code" /\ code.ref = r
      /\ g \in FrameType /\ Depth \in Nat /\ r \in Refs
  <2>1. r \in Slots /\ r \in Refs
    BY SlotFacts
  <2>2. f \in FrameType /\ f.at = "envt" /\ f.ref = r
    BY <2>1 DEF Frame, FrameType, Places
  <2>3. code \in FrameType /\ code.at = "code" /\ code.ref = r
    BY <2>1 DEF Frame, FrameType, Places
  <2> QED
    BY <2>1, <2>2, <2>3, QuietFrames, StackFacts
<1> HIDE DEF f, code, g
<1>2. CASE HasCleanup(r)
  <2>1. /\ Depth + 2 <= MaxDepth /\ stack' = below \o <<f, code>>
        /\ holds' = Put(holds, Tmp(Depth + 1), r)
        /\ count' = [count EXCEPT ![r] = @ + 1]
        /\ UNCHANGED live
    <3>1. /\ Len(below) + 1 + 1 <= MaxDepth /\ stack' = below \o <<f, code>>
          /\ holds' = Put(holds, Tmp(Len(below) + 1), r)
          /\ count' = [count EXCEPT ![r] = @ + 1]
          /\ UNCHANGED live
      BY <1>2, Zenon DEF EnvTCleanup, Put, f, code
    <3> QED
      BY <1>1, <3>1
  <2>2. /\ Keeps(below, stack', Depth) /\ Len(stack') = Depth + 2
        /\ stack'[Depth + 1] = f /\ stack'[Depth + 2] = code
    BY <1>1, <2>1, Push2Keeps
  <2>3. /\ Keeps(stack, stack', k)
        /\ \A i \in 1..Depth : stack'[i] = below[i]
    BY <2>2 DEF Keeps
  <2>4. Depth + 1 \in 1..MaxDepth
    BY <1>1, <2>1, MaxDepthAssumption
  <2> QED
    BY <1>1, <2>1, <2>2, <2>3, <2>4, EnvTCallExact
<1>3. CASE ~HasCleanup(r)
  <2>1. /\ Depth + 1 <= MaxDepth /\ stack' = Append(below, g)
        /\ Erase(r, Depth + 1)
    BY <1>1, <1>3 DEF EnvTCleanup, g
  <2>2. /\ Keeps(below, stack', Depth) /\ Len(stack') = Depth + 1
        /\ stack'[Depth + 1] = g
    BY <1>1, <2>1, PushKeeps
  <2>3. /\ Keeps(stack, stack', k)
        /\ \A i \in 1..Depth : stack'[i] = below[i]
    BY <2>2 DEF Keeps
  <2>4. /\ Depth + 1 \in 1..MaxDepth /\ k < Depth + 1 /\ Depth <= Depth + 1
        /\ \A i \in 1..(Depth + 1) : i < Depth + 1 => i \in 1..Depth
    BY <1>1, <2>1, MaxDepthAssumption
  <2>5. holds[Tmp(Depth + 1)] \in {Null, r}
    BY <1>1, <2>4, TmpFree
  <2>6. FramesErase(k, r)
    BY <2>2, <2>3, <2>4 DEF FramesErase
  <2> QED
    BY <2>1, <2>2, <2>3, <2>4, <2>5, <2>6, EraseExact DEF g
<1> QED
  BY <1>2, <1>3

LEMMA ObjDestroyExact ==
    ASSUME TypeInv, TypeInv', Exact, NEW v \in Vars, ObjDestroy(v)
    PROVE  Exact'
<1>1. /\ holds[Var(v)] \in live \intersect Objs /\ UNCHANGED heapIx
      /\ EnvTCleanup(holds[Var(v)], stack)
  BY DEF ObjDestroy, Cleanable
<1>2. /\ stack \in Seq(FrameType) /\ Len(stack) = Depth /\ Depth \in Nat
      /\ Keeps(stack, stack, Depth) /\ Depth <= Depth
      /\ \A i \in 1..Depth : ~(i > Depth)
  BY StackFacts
<1> QED
  BY <1>1, <1>2, EnvTCleanupExact

LEMMA GCObjExact ==
    ASSUME TypeInv, TypeInv', Exact, GCObj
    PROVE  Exact'
<1> DEFINE r == First(Top.todo)
           f == [Top EXCEPT !.todo = @ \ {r}]
           below == Become(f)
           k == Depth - 1
<1>1. /\ f \in FrameType /\ f.at \notin Assigning /\ f.at \notin Freed
      /\ Known(f.ref) /\ Top.at \notin Owners /\ UNCHANGED heapIx
  BY NextSweep DEF GCObj, Sweeps
<1> HIDE DEF f, r
<1>2. /\ below \in Seq(FrameType) /\ Len(below) = Depth
      /\ Keeps(stack, below, k) /\ below[Depth] = f
  BY <1>1, BecomeKeeps
<1>3. Depth = k + 1 /\ k \in Nat /\ k <= Depth /\ stack[Depth] = Top
  BY StackFacts
<1>4. CASE Cleanable(r)
  <2>1. r \in live \intersect Objs /\ EnvTCleanup(r, below)
    BY <1>4 DEF GCObj, Cleanable, f, r
  <2> HIDE DEF below, k
  <2>2. \A i \in 1..Depth : i > k => i = Depth
    BY <1>3
  <2> QED
    BY <2>1, <2>2, <1>1, <1>2, <1>3, EnvTCleanupExact
<1>5. CASE ~Cleanable(r)
  <2>1. stack' = Become(f) /\ UNCHANGED <<live, count, holds>>
    BY <1>5 DEF GCObj, Kept, f, r
  <2> QED
    BY <2>1, <1>1, BecomeExact
<1> QED
  BY <1>4, <1>5

-----------------------------------------------------------------------------
(* The reference in the temporary of frame m is released. *)
LEMMA ReleaseExact ==
    ASSUME TypeInv, TypeInv', Exact, NEW m \in 1..Depth,
           UNCHANGED <<live, heapIx>>, holds' = Put(holds, Tmp(m), Null),
           \A q \in live : count'[q] = Num(holds, q) - One(holds[Tmp(m)] = q),
           NEW k \in Nat, Keeps(stack, stack', k), FramesQuiet(k),
           \A i \in 1..Depth : i > k => i = m \/ stack[i].at \notin Owners
    PROVE  Exact'
<1> DEFINE t == Tmp(m)
<1>1. /\ t \in Slots /\ holds \in Holdings /\ live \subseteq Refs
      /\ Null \in Refs \union {Null}
  BY SlotFacts, TopFacts, MaxDepthAssumption DEF TypeInv, TypeOK, Holdings
<1> HIDE DEF t
<1>2. holds'[t] = Null /\ \A x \in Slots : x # t => holds'[x] = holds[x]
  BY <1>1, PutFacts DEF t
<1>3. FillsFree(k)
  BY <1>2 DEF FillsFree
<1>4. /\ EmptiesDead /\ Creates /\ Told(Null)
      /\ \A r : Known(r) => Told(r)
  BY NothingNew
<1>5. TmpsAbove(k)
  <2> SUFFICES ASSUME NEW i \in 1..MaxDepth, i > k, holds'[Tmp(i)] # Null
               PROVE  FALSE
    BY DEF TmpsAbove
  <2>1. i # m /\ holds[Tmp(i)] # Null
    BY <1>2, SlotFacts DEF t
  <2>2. i \in 1..Depth /\ stack[i].at \in Owners
    BY <2>1, StackFacts DEF Exact, TmpsOwned
  <2> QED
    BY <2>1, <2>2
<1>6. TargetsAbove(k) /\ FreedAbove(k)
  BY DEF TargetsAbove, FreedAbove, FramesQuiet
<1>7. Tells(k)
  <2>1. \A x \in LeakSlots : holds'[x] = holds[x] \/ x = t
    BY <1>2, SlotFacts
  <2>2. t \notin LeakSlots
    BY SlotFacts DEF t
  <2>3. \A i \in 1..Len(stack') : i > k => Told(stack'[i].ref)
    BY <1>4 DEF FramesQuiet
  <2> QED
    BY <2>1, <2>2, <2>3, <1>2, <1>4 DEF Tells
<1>8. Counted'
  <2> SUFFICES ASSUME NEW q \in live PROVE count'[q] = Num(holds', q)
    BY DEF Counted, Num
  <2>1. /\ Num(holds, q) \in Nat
        /\ Num(holds', q) = Num(holds, q) + One(Null = q) - One(holds[t] = q)
    BY <1>1, PutNum DEF t
  <2>2. One(Null = q) = 0 /\ One(holds[t] = q) \in Nat
    BY <1>1, NullFacts DEF One
  <2> QED
    BY <2>1, <2>2 DEF t
<1> QED
  BY <1>3, <1>4, <1>5, <1>6, <1>7, <1>8, ExactKept DEF Respects

(* what is left when the top frame, or the top and more, is gone *)
LEMMA NothingAbove ==
    ASSUME NEW k, Len(stack') = k, k \in Nat
    PROVE  FramesQuiet(k)
BY DEF FramesQuiet

LEMMA DropOneExact ==
    ASSUME TypeInv, TypeInv', Exact, DropOne
    PROVE  Exact'
<1> DEFINE k == Depth - 1
<1>1. /\ Keeps(stack, stack', k) /\ Len(stack') = k /\ k \in Nat
      /\ Depth = k + 1 /\ Depth \in 1..Depth
  BY StackFacts, PopKeeps DEF DropOne
<1>2. /\ UNCHANGED <<live, heapIx>> /\ holds' = Put(holds, Tmp(Depth), Null)
  BY DEF DropOne, Put
<1>3. \A q \in live : count'[q] = Num(holds, q) - One(holds[Tmp(Depth)] = q)
  <2>1. CASE Dropped \notin live
    <3>1. UNCHANGED count
      BY <2>1 DEF DropOne
    <3>2. \A q \in live : count[q] = Num(holds, q) /\ Num(holds, q) \in Nat
      BY NumType DEF Exact, Counted
    <3>3. \A q \in live : One(holds[Tmp(Depth)] = q) = 0
      BY <2>1 DEF One, Dropped
    <3> HIDE DEF k
    <3> QED
      BY <3>1, <3>2, <3>3
  <2>2. CASE Dropped \in live
    <3>1. count' = [count EXCEPT ![Dropped] = @ - 1]
      BY <2>2 DEF DropOne
    <3> QED
      BY <2>2, <3>1, NumType
         DEF Exact, Counted, Dropped, One, TypeInv, TypeOK
  <2> QED
    BY <2>1, <2>2
<1> HIDE DEF k
<1>4. FramesQuiet(k) /\ \A i \in 1..Depth : i > k => i = Depth
  BY <1>1, NothingAbove
<1> QED
  BY <1>1, <1>2, <1>3, <1>4, ReleaseExact

LEMMA DropLastObjExact ==
    ASSUME TypeInv, TypeInv', Exact, DropLastObj
    PROVE  Exact'
<1> DEFINE r == Dropped
           f == [Frame(IF Top.at = "drop" THEN "base" ELSE "baseAt") EXCEPT !.ref = r]
           code == [Frame("code") EXCEPT !.ref = r]
           k == Depth - 1
<1>1. /\ Depth = k + 1 /\ k \in Nat /\ Top = stack[k + 1] /\ Depth \in Nat
      /\ Depth \in 1..Depth /\ Tmp(Depth) \in Slots
  BY StackFacts, TopFacts, SlotFacts
<1>2. /\ r \in Slots /\ r \in Refs /\ r \in live
      /\ Known(r) /\ count[r] = 1 /\ UNCHANGED <<live, heapIx>>
  BY <1>1, SlotFacts DEF DropLastObj, LastRef, Known, Dropped
<1>3. /\ f \in FrameType /\ f.ref = r /\ f.at \in {"base", "baseAt"}
  BY <1>2 DEF Frame, FrameType, Places
<1>4. /\ code \in FrameType /\ code.at = "code" /\ code.ref = r
  BY <1>2 DEF Frame, FrameType, Places
<1>5. CASE HasCleanup(r)
  <2>1. stack' = Append(Become(f), code) /\ UNCHANGED <<count, holds>>
    BY <1>5 DEF DropLastObj
  <2> HIDE DEF f, code, r
  <2>2. /\ Keeps(stack, stack', k) /\ Len(stack') = Depth + 1
        /\ stack'[Depth] = f /\ stack'[Depth + 1] = code
    BY <2>1, <1>3, <1>4, BecomePushKeeps
  <2> HIDE DEF k
  <2>3. \A i \in 1..(Depth + 1) : i > k => i = Depth \/ i = Depth + 1
    BY <1>1
  <2>4. FramesQuiet(k)
    BY <2>2, <2>3, <1>2, <1>3, <1>4 DEF FramesQuiet, Assigning, Freed
  <2>5. \A i \in 1..Depth : i > k => i <= Len(stack') /\ stack'[i].at \in Owners
    BY <2>2, <1>1, <1>3 DEF Owners
  <2>6. TmpsAbove(k)
    BY <2>1, <2>5, <1>1, TmpsEmptyAbove
  <2>7. heapIx' >= heapIx
    BY <1>2, MaxIxAssumption DEF TypeInv, TypeOK
  <2> QED
    BY <2>1, <2>2, <2>4, <2>6, <2>7, <1>2, QuietExact
<1>6. CASE ~HasCleanup(r)
  <2>1. /\ stack' = Become(f) /\ count' = [count EXCEPT ![r] = 0]
        /\ holds' = Put(holds, Tmp(Depth), Null)
    BY <1>6 DEF DropLastObj, Put
  <2>2. \A q \in live : count'[q] = Num(holds, q) - One(holds[Tmp(Depth)] = q)
    BY <2>1, <1>2, NumType DEF Exact, Counted, Dropped, One, TypeInv, TypeOK
  <2> HIDE DEF f, code, r
  <2>3. /\ Keeps(stack, stack', k) /\ Len(stack') = Depth /\ stack'[Depth] = f
    BY <2>1, <1>3, BecomeKeeps
  <2> HIDE DEF k
  <2>4. \A i \in 1..Depth : i > k => i = Depth
    BY <1>1
  <2>5. FramesQuiet(k)
    BY <2>3, <2>4, <1>2, <1>3 DEF FramesQuiet, Assigning, Freed
  <2> QED
    BY <2>1, <2>2, <2>3, <2>4, <2>5, <1>1, <1>2, ReleaseExact
<1> QED
  BY <1>5, <1>6

(* DecRefObj of the object in the temporary of frame m *)
LEMMA QuietCounts ==
    ASSUME TypeInv, Exact, NEW m \in 1..Depth
    PROVE  \A q \in live :
              DecRefQuiet(holds[Tmp(m)])[q] = Num(holds, q) - One(holds[Tmp(m)] = q)
<1>1. Tmp(m) \in Slots
  BY SlotFacts, TopFacts, MaxDepthAssumption
<1> QED
  BY <1>1, CountSteps DEF Exact

LEMMA BaseEndExact ==
    ASSUME TypeInv, TypeInv', Exact, BaseEnd
    PROVE  Exact'
<1> DEFINE k == Depth - 1
<1>1. /\ Keeps(stack, stack', k) /\ Len(stack') = k /\ k \in Nat
      /\ Depth = k + 1 /\ Depth \in 1..Depth
  BY StackFacts, PopKeeps DEF BaseEnd
<1>2. /\ UNCHANGED <<live, heapIx>> /\ holds' = Put(holds, Tmp(Depth), Null)
      /\ count' = DecRefQuiet(holds[Tmp(Depth)])
  BY DEF BaseEnd, Put
<1> HIDE DEF k
<1>3. \A q \in live : count'[q] = Num(holds, q) - One(holds[Tmp(Depth)] = q)
  BY <1>1, <1>2, QuietCounts
<1>4. FramesQuiet(k) /\ \A i \in 1..Depth : i > k => i = Depth
  BY <1>1, NothingAbove
<1> QED
  BY <1>1, <1>2, <1>3, <1>4, ReleaseExact

LEMMA CleanupThrowsExact ==
    ASSUME TypeInv, TypeInv', Exact, CleanupThrows
    PROVE  Exact'
<1> DEFINE k == Depth - 2
           below == stack[k + 1]
<1>1. /\ Len(stack) = k + 2 /\ k \in Nat /\ k >= 1 /\ Depth = k + 2
      /\ Depth - 1 = k + 1 /\ Depth - 3 = k - 1
      /\ stack[k + 2].at = "code" /\ below \in FrameType
      /\ stack[k].at = "gcObj" => k >= 2
  <2>1. Top.at = "code"
    BY DEF CleanupThrows
  <2> QED
    BY <2>1, StackFacts, UnderCode
<1> HIDE DEF k
<1>2. UNCHANGED <<live, heapIx>> /\ heapIx' >= heapIx
  BY MaxIxAssumption DEF CleanupThrows, TypeInv, TypeOK
<1>3. CASE below.at = "base"
  <2>1. UNCHANGED <<count, holds, stack>>
    BY <1>1, <1>3, Zenon DEF CleanupThrows
  <2> QED
    BY <2>1, <1>2, SameExact
<1>4. CASE below.at = "baseAt"
  <2>1. /\ stack' = [Pop EXCEPT ![k + 1].at = "baseCatch"]
        /\ UNCHANGED <<count, holds>>
    BY <1>1, <1>4 DEF CleanupThrows
  <2>2. /\ Pop \in Seq(FrameType) /\ Len(Pop) = k + 1
        /\ \A i \in 1..(k + 1) : Pop[i] = stack[i]
    BY <1>1, PopKeeps DEF Keeps
  <2> DEFINE f == [below EXCEPT !.at = "baseCatch"]
  <2>3. f \in FrameType /\ f.at = "baseCatch" /\ f.ref = below.ref
    BY <1>1 DEF FrameType, Places
  <2>4. stack' = [Pop EXCEPT ![k + 1] = f]
    <3>1. Pop[k + 1] = below
      BY <1>1, <2>2
    <3> QED
      BY <2>1, <3>1
  <2>5. Known(below.ref)
    <3>1. k + 1 \in 1..Depth
      BY <1>1
    <3> QED
      BY <3>1, KnownFrames
  <2> HIDE DEF f, below
  <2>6. /\ Keeps(stack, stack', k) /\ Len(stack') = k + 1 /\ stack'[k + 1] = f
    BY <1>1, <2>2, <2>3, <2>4 DEF Keeps
  <2>7. \A i \in 1..Len(stack') : i > k => i = k + 1
    BY <1>1, <2>6
  <2>8. FramesQuiet(k)
    BY <2>3, <2>5, <2>6, <2>7 DEF FramesQuiet, Assigning, Freed
  <2>9. \A i \in 1..Depth : i > k => i = k + 1 \/ i = k + 2
    BY <1>1
  <2>10. /\ stack[k + 2].at \notin Owners
         /\ k + 1 <= Len(stack') /\ stack'[k + 1].at \in Owners
    BY <1>1, <2>3, <2>6 DEF Owners
  <2>11. TmpsAbove(k)
    BY <1>1, <2>1, <2>9, <2>10, TmpsEmptyAbove
  <2> QED
    BY <1>2, <2>1, <2>6, <2>8, <2>11, QuietExact
<1>5. CASE below.at = "envt"
  <2> DEFINE n == IF stack[k].at = "gcObj" THEN k - 1 ELSE k
  <2>1. /\ stack' = SubSeq(stack, 1, n)
        /\ holds' = Put(holds, Tmp(k + 1), Null)
        /\ count' = DecRefQuiet(holds[Tmp(k + 1)])
    BY <1>1, <1>5 DEF CleanupThrows, Put, k
  <2>2. n \in Nat /\ n \in 0..Depth /\ k + 1 \in 1..Depth
    BY <1>1
  <2>3. Keeps(stack, stack', n) /\ Len(stack') = n
    BY <2>1, <2>2, CutKeeps
  <2>4. \A i \in 1..Depth : i > n => i = k + 1 \/ stack[i].at \notin Owners
    <3>1. ASSUME NEW i \in 1..Depth, i > n
          PROVE  i = k + 1 \/ i = k + 2 \/ (i = k /\ stack[k].at = "gcObj")
      BY <1>1, <3>1
    <3>2. stack[k + 2].at \notin Owners
      BY <1>1 DEF Owners
    <3>3. stack[k].at = "gcObj" => stack[k].at \notin Owners
      BY DEF Owners
    <3> QED
      BY <3>1, <3>2, <3>3
  <2> HIDE DEF n
  <2>5. \A q \in live : count'[q] = Num(holds, q) - One(holds[Tmp(k + 1)] = q)
    BY <2>1, <2>2, QuietCounts
  <2>6. FramesQuiet(n)
    BY <2>2, <2>3, NothingAbove
  <2> QED
    BY <1>2, <2>1, <2>2, <2>3, <2>4, <2>5, <2>6, ReleaseExact
<1> QED
  <2>1. below.at \in {"base", "baseAt", "envt"}
    BY <1>1 DEF CleanupThrows
  <2> QED
    BY <2>1, <1>3, <1>4, <1>5

-----------------------------------------------------------------------------
(* The end of an assignment: the target receives a reference that the state
   already names. *)
LEMMA EndRespects ==
    ASSUME TypeInv, Exact, Top.at \in Assigning, Alive(Top.ref), stack' = Pop,
           UNCHANGED <<live, heapIx>>, Told(holds'[Top.ref]),
           \A x \in Slots \ {Top.ref} : holds'[x] \in {holds[x], Null},
           holds'[Tmp(Depth)] = Null
    PROVE  /\ Keeps(stack, stack', Depth - 1) /\ Respects(Depth - 1)
           /\ holds[Top.ref] = Null
<1> DEFINE k == Depth - 1
<1>1. /\ Keeps(stack, stack', k) /\ Len(stack') = k /\ k \in Nat
      /\ Depth = k + 1 /\ Depth \in 1..Depth /\ stack[Depth] = Top
      /\ Depth \in Nat
  BY StackFacts, PopKeeps
<1>2. /\ Top.ref \in VarSlots \union Refs /\ Top.ref \in Slots
      /\ Top.ref \notin TmpSlots /\ Top.ref \notin LeakSlots
  <2>1. Top.ref \in VarSlots \union Refs
    BY <1>1, AssignTargets
  <2> QED
    BY <2>1, SlotFacts DEF VarSlots, Refs, Ptrs, Objs, TmpSlots
<1>3. holds[Top.ref] = Null
  BY <1>1 DEF Exact, DyingEmpty
<1>4. \A j \in 1..k : stack[j].at \in Assigning => stack[j].ref # Top.ref
  BY <1>1 DEF Exact, DyingOnce
<1> HIDE DEF k
<1>5. FillsFree(k)
  BY <1>2, <1>4 DEF FillsFree, Alive
<1>6. EmptiesDead /\ Creates /\ \A r : (Known(r) \/ r = Null) => Told(r)
  BY NothingNew
<1>7. TmpsAbove(k)
  <2> SUFFICES ASSUME NEW i \in 1..MaxDepth, i > k, holds'[Tmp(i)] # Null
               PROVE  FALSE
    BY DEF TmpsAbove
  <2>1. Tmp(i) \in Slots /\ Tmp(i) # Top.ref
    BY <1>2, SlotFacts
  <2>2. holds[Tmp(i)] # Null /\ i # Depth
    BY <2>1
  <2>3. i <= Depth
    BY <2>2 DEF Exact, TmpsOwned
  <2> QED
    BY <2>2, <2>3, <1>1
<1>8. TargetsAbove(k) /\ FreedAbove(k)
  BY <1>1 DEF TargetsAbove, FreedAbove
<1>9. Tells(k)
  <2>1. \A x \in Slots : holds'[x] = holds[x] \/ Told(holds'[x])
    BY <1>6
  <2>2. \A x \in LeakSlots : holds'[x] = holds[x] \/ x[2] < heapIx'
    <3> SUFFICES ASSUME NEW x \in LeakSlots, holds[x] # Null,
                        ~(x[2] < heapIx)
                 PROVE  FALSE
      BY <1>2, SlotFacts
    <3>1. PICK i \in Ix : x = <<"leak", i>>
      BY DEF LeakSlots
    <3>2. Ptr(i) \in Refs /\ Ptr(i)[2] = i /\ i \in Nat /\ heapIx \in Nat
          /\ x[2] = i
      BY <3>1, SlotFacts, MaxIxAssumption DEF Ix, Ptr, TypeInv, TypeOK
    <3>3. i >= heapIx
      BY <3>2
    <3> QED
      BY <3>1, <3>2, <3>3 DEF Exact, FreshUnknown
  <2> QED
    BY <2>1, <2>2, <1>1 DEF Tells
<1> QED
  BY <1>1, <1>3, <1>5, <1>6, <1>7, <1>8, <1>9 DEF Respects, k

LEMMA CopyEndExact ==
    ASSUME TypeInv, TypeInv', Exact, CopyEnd
    PROVE  Exact'
<1> DEFINE s == Top.ref
           new == holds[Top.src]
<1>1. /\ Top.at = "copy" /\ Top.at \in Assigning /\ Alive(s) /\ stack' = Pop
      /\ UNCHANGED <<live, heapIx>>
      /\ count' = IncRef(count, new) /\ holds' = Put(holds, s, new)
  BY DEF CopyEnd, Assigning, Put
<1>2. Top = stack[Depth] /\ Depth \in 1..Depth /\ Top.at # "main"
      /\ Tmp(Depth) \in Slots /\ Depth \in 1..MaxDepth
  BY <1>1, StackFacts, TopFacts, SlotFacts
<1>3. s \in VarSlots \union Refs /\ s \in Slots /\ s # Tmp(Depth)
  BY <1>1, <1>2, AssignTargets, SlotFacts
<1>4. /\ Top.src \in Slots /\ holds \in Holdings
      /\ new \in Refs \union {Null}
  BY <1>1, <1>2, TopFacts DEF StandsOn, TypeInv, TypeOK, Holdings
<1> HIDE DEF s, new
<1>5. holds'[s] = new /\ \A x \in Slots : x # s => holds'[x] = holds[x]
  BY <1>1, <1>3, <1>4, PutFacts
<1>6. Told(new)
  BY <1>1, <1>4, NothingNew DEF Known, new
<1>7. holds'[Tmp(Depth)] = Null
  BY <1>1, <1>2, <1>3, <1>5, TmpFree DEF Owners
<1>8. /\ Keeps(stack, stack', Depth - 1) /\ Respects(Depth - 1)
      /\ holds[s] = Null
  BY <1>1, <1>5, <1>6, <1>7, EndRespects DEF s
<1>9. Counted'
  <2> SUFFICES ASSUME NEW q \in live PROVE count'[q] = Num(holds', q)
    BY <1>1 DEF Counted, Num
  <2>1. q \in Refs
    BY DEF TypeInv, TypeOK
  <2>2. /\ Num(holds, q) \in Nat
        /\ Num(holds', q) = Num(holds, q) + One(new = q) - One(holds[s] = q)
    BY <1>1, <1>3, <1>4, PutNum
  <2>3. One(holds[s] = q) = 0 /\ One(new = q) \in Nat
    BY <2>1, <1>8, NullFacts DEF One
  <2>4. CASE new = Null
    <3>1. One(new = q) = 0
      BY <2>1, <2>4, NullFacts
    <3>2. count'[q] = Num(holds, q)
      BY <1>1, <2>4, CountSteps DEF Exact
    <3> QED
      BY <3>1, <3>2, <2>2, <2>3
  <2>5. CASE new \in Refs
    <3>1. count'[q] = Num(holds, q) + One(new = q)
      BY <1>1, <2>1, <2>5, CountSteps DEF Exact
    <3> QED
      BY <3>1, <2>2, <2>3
  <2> QED
    BY <1>4, <2>4, <2>5
<1> QED
  BY <1>8, <1>9, ExactKept

LEMMA StoreEndExact ==
    ASSUME TypeInv, TypeInv', Exact, StoreEnd
    PROVE  Exact'
<1> DEFINE s == Top.ref
           t == Tmp(Depth)
<1>1. /\ Top.at \in Assigning /\ Alive(s) /\ stack' = Pop
      /\ UNCHANGED <<live, heapIx, count>>
      /\ holds' = [holds EXCEPT ![s] = holds[t], ![t] = Null]
  BY DEF StoreEnd, Assigning
<1>2. Top = stack[Depth] /\ Depth \in 1..Depth /\ t \in Slots
  BY StackFacts, TopFacts, SlotFacts
<1>3. s \in VarSlots \union Refs /\ s \in Slots /\ s # t
  BY <1>1, <1>2, AssignTargets, SlotFacts
<1>4. holds \in Holdings /\ holds[t] \in Refs \union {Null}
  BY <1>2 DEF TypeInv, TypeOK, Holdings
<1> HIDE DEF s, t
<1>5. /\ holds' = Moved(holds, t, s) /\ holds'[s] = holds[t] /\ holds'[t] = Null
      /\ \A x \in Slots : x # s => holds'[x] \in {holds[x], Null}
  <2>1. holds' = Put(Put(holds, s, holds[t]), t, Null)
    BY <1>1 DEF Put
  <2>2. holds' = Moved(holds, t, s)
    BY <1>1, <1>2, <1>3, <1>4 DEF Moved, Holdings
  <2>3. holds'[s] = holds[t] /\ holds'[t] = Null
    BY <1>2, <1>3, <1>4, <2>1, PutFacts
  <2>4. \A x \in Slots : x # s /\ x # t => holds'[x] = holds[x]
    BY <1>2, <1>3, <1>4, <2>1, PutFacts
  <2> QED
    BY <2>2, <2>3, <2>4
<1>6. Told(holds[t])
  BY <1>1, <1>2, <1>4, NothingNew DEF Known
<1>7. /\ Keeps(stack, stack', Depth - 1) /\ Respects(Depth - 1)
      /\ holds[s] = Null
  BY <1>1, <1>5, <1>6, EndRespects DEF s, t
<1>8. Counted'
  <2> SUFFICES ASSUME NEW q \in live PROVE count[q] = Num(holds', q)
    BY <1>1 DEF Counted, Num
  <2>1. q \in Refs /\ holds[s] # q
    BY <1>7, NullFacts DEF TypeInv, TypeOK
  <2>2. Num(holds', q) = Num(holds, q)
    BY <2>1, <1>2, <1>3, <1>4, <1>5, MoveNum
  <2> QED
    BY <2>2 DEF Exact, Counted
<1> QED
  BY <1>7, <1>8, ExactKept

-----------------------------------------------------------------------------
(* SELF of an object that HEAP_GC or OBJ_DESTROY cleaned up goes to the
   destructor that drops it. *)
LEMMA EnvTReturnExact ==
    ASSUME TypeInv, TypeInv', Exact, EnvTReturn
    PROVE  Exact'
<1> DEFINE k == Depth - 1
           f == [Top EXCEPT !.at = "envtFree"]
           g == Frame("drop")
           s == Tmp(Depth)
           t == Tmp(Depth + 1)
<1>1. /\ Depth = k + 1 /\ k \in Nat /\ stack[k + 1] = Top /\ Depth \in Nat
      /\ Depth \in 1..MaxDepth
  BY StackFacts, TopFacts
<1>2. /\ Room(1) /\ stack' = Append(Become(f), g) /\ holds' = Moved(holds, s, t)
      /\ UNCHANGED <<live, count, heapIx>>
  BY DEF EnvTReturn, Moved
<1>3. /\ f \in FrameType /\ f.at = "envtFree" /\ f.ref = Top.ref
      /\ g \in FrameType /\ g.at = "drop" /\ g.ref = Null
  <2>1. f \in FrameType /\ f.at = "envtFree" /\ f.ref = Top.ref
    BY TopFacts DEF FrameType, Places
  <2> QED
    BY <2>1, QuietFrames DEF Frame
<1> HIDE DEF f, g
<1>4. /\ Keeps(stack, stack', k) /\ Len(stack') = k + 2
      /\ stack'[k + 1] = f /\ stack'[k + 2] = g
  <2>1. /\ Keeps(stack, stack', k) /\ Len(stack') = Depth + 1
        /\ stack'[Depth] = f /\ stack'[Depth + 1] = g
    BY <1>2, <1>3, BecomePushKeeps
  <2> QED
    BY <2>1, <1>1
<1>5. Depth + 1 \in 1..MaxDepth /\ Depth + 1 > Depth
  BY <1>1, <1>2, RoomFacts
<1>6. /\ s \in Slots /\ t \in Slots /\ s # t /\ holds[t] = Null
      /\ s \notin LeakSlots /\ t \notin LeakSlots
      /\ holds \in Holdings
  BY <1>1, <1>5, TmpFree, SlotFacts DEF TypeInv, TypeOK, Holdings
<1>7. Known(Top.ref) /\ Known(holds[s])
  BY <1>6, KnownTop DEF Known
<1> HIDE DEF k, s, t
<1>9. holds'[s] = Null /\ holds'[t] = holds[s]
  BY <1>2, <1>6 DEF Moved, Holdings
<1>10. \A x \in Slots : x # s /\ x # t => holds'[x] = holds[x]
  BY <1>2, <1>6 DEF Moved, Holdings
<1>11. \A i \in 1..Len(stack') : i > k => i = k + 1 \/ i = k + 2
  BY <1>1, <1>4
<1>12. FillsFree(k)
  BY <1>1, <1>5, <1>9, <1>10 DEF FillsFree, t
<1>13. EmptiesDead /\ Creates /\ \A r : Known(r) \/ r = Null => Told(r)
  BY <1>2, NothingNew
<1>14. TmpsAbove(k)
  <2> SUFFICES ASSUME NEW i \in 1..MaxDepth, i > k, holds'[Tmp(i)] # Null
               PROVE  i <= Len(stack') /\ stack'[i].at \in Owners
    BY DEF TmpsAbove
  <2>1. i # Depth
    BY <1>9 DEF s
  <2>2. CASE i = Depth + 1
    BY <2>2, <1>1, <1>3, <1>4 DEF Owners
  <2>3. CASE i # Depth + 1
    <3>1. Tmp(i) \in Slots /\ Tmp(i) # s /\ Tmp(i) # t
      BY <2>1, <2>3, SlotFacts DEF s, t
    <3>2. holds[Tmp(i)] # Null
      BY <3>1, <1>10
    <3>3. i <= Depth
      BY <3>2 DEF Exact, TmpsOwned
    <3> QED
      BY <3>3, <2>1, <1>1
  <2> QED
    BY <2>2, <2>3
<1>15. TargetsAbove(k) /\ FreedAbove(k)
  BY <1>3, <1>4, <1>11 DEF TargetsAbove, FreedAbove, Assigning, Freed
<1>16. Tells(k)
  <2>1. \A i \in 1..Len(stack') : i > k => Told(stack'[i].ref)
    BY <1>3, <1>4, <1>7, <1>11, <1>13
  <2>2. \A x \in LeakSlots : holds'[x] = holds[x]
    BY <1>6, <1>10, SlotFacts
  <2> QED
    BY <2>1, <2>2, <1>7, <1>9, <1>10, <1>13 DEF Tells
<1>17. Counted'
  <2> SUFFICES ASSUME NEW q \in live PROVE count[q] = Num(holds', q)
    BY <1>2 DEF Counted, Num
  <2>1. q \in Refs /\ holds[t] # q
    BY <1>6, NullFacts DEF TypeInv, TypeOK
  <2>2. Num(holds', q) = Num(holds, q)
    BY <2>1, <1>2, <1>6, MoveNum
  <2> QED
    BY <2>2 DEF Exact, Counted
<1> QED
  BY <1>4, <1>12, <1>13, <1>14, <1>15, <1>16, <1>17, ExactKept DEF Respects

(* what an error that passes AssignAt leaves in the slots u, t and a *)
Thrown(h, u, t, a, b, w) ==
    [h EXCEPT ![u] = Null, ![t] = Null, ![a] = IF b THEN w ELSE @]

LEMMA ThrownSlots ==
    ASSUME NEW h \in Holdings, NEW u \in Slots, NEW t \in Slots, NEW a \in Slots,
           a # u, a # t, NEW b \in BOOLEAN, NEW w, h[a] = Null
    PROVE  Thrown(h, u, t, a, b, w)
              = Put(Put(Put(h, u, Null), t, Null), a, IF b THEN w ELSE Null)
<1>1. CASE b
  BY <1>1 DEF Put, Holdings, Thrown
<1>2. CASE ~b
  BY <1>2 DEF Put, Holdings, Thrown
<1> QED
  BY <1>1, <1>2

(* An error passes AssignAt: the target gets its old value back, which is gone,
   and the new reference, if it counted, makes the counts stale. *)
LEMMA BaseThrowExact ==
    ASSUME TypeInv, TypeInv', Exact, BaseThrow, ~stale'
    PROVE  Exact'
<1> DEFINE k == Depth - 2
           a == stack[k + 1].ref
           t == Tmp(k + 1)
           u == Tmp(k + 2)
           v == IF Alive(a) THEN Top.ref ELSE Null
           h == Put(holds, u, Null)
           g == Put(h, t, Null)
<1>1. /\ Len(stack) = k + 2 /\ k \in Nat /\ Top = stack[k + 2]
      /\ stack[k + 1].at = "store" /\ Depth = k + 2 /\ Depth - 1 = k + 1
      /\ a \in VarSlots \union Refs /\ Depth \in 1..MaxDepth
      /\ k + 1 \in 1..Depth /\ k + 2 \in 1..Depth /\ k \in 0..Depth
      /\ k + 1 \in 1..MaxDepth /\ k + 2 \in 1..MaxDepth
  <2>1. Top.at \in AssignAt
    BY DEF BaseThrow, AssignAt
  <2>2. /\ Depth > 2 /\ stack[Depth - 1].at = "store" /\ Len(stack) = Depth
        /\ stack[Depth - 1].ref \in VarSlots \union Refs /\ Depth \in Nat
        /\ Top = stack[Depth] /\ Depth \in 1..MaxDepth
    BY <2>1, StackFacts, TopFacts, UnderAssignAt
  <2>3. /\ k \in Nat /\ Depth = k + 2 /\ Depth - 1 = k + 1 /\ k \in 0..Depth
        /\ k + 1 \in 1..Depth /\ k + 2 \in 1..Depth
        /\ k + 1 \in 1..MaxDepth /\ k + 2 \in 1..MaxDepth
    BY <2>2, MaxDepthAssumption
  <2> QED
    BY <2>2, <2>3
<1>2. /\ Top.at = "baseThrow" /\ stack' = SubSeq(stack, 1, k)
      /\ UNCHANGED <<live, heapIx>> /\ holds[t] \notin live
      /\ count' = DecRefQuiet(holds[u])
      /\ holds' = [holds EXCEPT ![u] = Null, ![t] = Null,
                                ![a] = IF Alive(a) THEN Top.ref ELSE @]
  BY <1>1 DEF BaseThrow
<1>3. Keeps(stack, stack', k) /\ Len(stack') = k
  BY <1>1, <1>2, CutKeeps
<1> HIDE DEF k
<1>4. /\ a \in Slots /\ t \in Slots /\ u \in Slots /\ a # t /\ a # u /\ t # u
      /\ a \notin TmpSlots /\ a \notin LeakSlots
      /\ t \notin LeakSlots /\ u \notin LeakSlots
  <2>1. a \notin TmpSlots
    BY <1>1 DEF VarSlots, Refs, Ptrs, Objs, TmpSlots
  <2> QED
    BY <2>1, <1>1, SlotFacts
<1>5. /\ holds[a] = Null
      /\ \A j \in 1..k : stack[j].at \in Assigning => stack[j].ref # a
  BY <1>1 DEF Exact, DyingEmpty, DyingOnce, Assigning
<1>6. Top.ref \notin live /\ Top.ref \in Refs /\ Known(Top.ref)
  <2>1. Top.ref \in Objs
    BY <1>2, TopFacts DEF StandsOn, ObjCleanup
  <2> QED
    BY <2>1, <1>1, <1>2, SlotFacts, KnownTop DEF Exact, FreedDead, Freed
<1>7. /\ holds \in Holdings /\ v \in Refs \union {Null} /\ v \notin live
      /\ Null \in Refs \union {Null} /\ Null \notin live
  BY <1>6, NullFacts DEF TypeInv, TypeOK, Holdings
<1>8. holds' = Put(g, a, v)
  <2> DEFINE w == Top.ref
             ok == Alive(a)
  <2>1. ok \in BOOLEAN
    BY DEF Alive
  <2>2. holds' = Thrown(holds, u, t, a, ok, w)
    BY <1>2 DEF Thrown
  <2> HIDE DEF a, t, u, w, ok, v
  <2>3. holds' = Put(g, a, IF ok THEN w ELSE Null)
    BY <2>1, <2>2, <1>4, <1>5, <1>7, ThrownSlots
  <2> QED
    BY <2>3 DEF w, ok, v
<1> HIDE DEF a, t, u, v
<1>9. h \in Holdings /\ h[t] = holds[t] /\ h[a] = Null
  BY <1>4, <1>5, <1>7, PutFacts
<1>10. \A q \in live : Num(h, q) = Num(holds, q) - One(holds[u] = q)
                       /\ Num(h, q) \in Nat
  <2> SUFFICES ASSUME NEW q \in live
               PROVE  Num(h, q) = Num(holds, q) - One(holds[u] = q)
                      /\ Num(h, q) \in Nat
    OBVIOUS
  <2>1. /\ Num(holds, q) \in Nat /\ Num(h, q) \in Nat
        /\ Num(h, q) = Num(holds, q) + One(Null = q) - One(holds[u] = q)
    BY <1>4, <1>7, PutNum
  <2>2. One(Null = q) = 0 /\ One(holds[u] = q) \in Nat
    BY <1>7 DEF One
  <2> QED
    BY <2>1, <2>2
<1>11. /\ holds'[a] = v
       /\ \A x \in Slots : x # a => holds'[x] \in {holds[x], Null}
       /\ \A x \in Slots : x # a /\ x # t /\ x # u => holds'[x] = holds[x]
       /\ holds'[t] = Null /\ holds'[u] = Null
  <2>1. /\ g \in Holdings /\ g[t] = Null
        /\ \A x \in Slots : x # t => g[x] = h[x]
    <3>1. h \in Holdings /\ t \in Slots /\ Null \in Refs \union {Null}
      BY <1>4, <1>7, <1>9
    <3> HIDE DEF h
    <3> QED
      BY <3>1, PutFacts
  <2>2. h[u] = Null /\ \A x \in Slots : x # u => h[x] = holds[x]
    BY <1>4, <1>7, PutFacts
  <2> HIDE DEF g, h
  <2>3. holds'[a] = v /\ \A x \in Slots : x # a => holds'[x] = g[x]
    BY <2>1, <1>4, <1>7, <1>8, PutFacts
  <2> QED
    BY <2>1, <2>2, <2>3, <1>4
<1> HIDE DEF h
<1>12. \A q \in live : Num(g, q) = Num(h, q)
  <2> SUFFICES ASSUME NEW q \in live PROVE Num(g, q) = Num(h, q)
    OBVIOUS
  <2>1. /\ Num(h, q) \in Nat
        /\ Num(g, q) = Num(h, q) + One(Null = q) - One(h[t] = q)
    BY <1>4, <1>7, <1>9, PutNum
  <2>2. One(Null = q) = 0 /\ One(h[t] = q) = 0
    BY <1>2, <1>7, <1>9 DEF One
  <2> QED
    BY <2>1, <2>2
<1>13. g \in Holdings /\ g[a] = Null
  BY <1>4, <1>7, <1>9, PutFacts
<1> HIDE DEF g
<1>14. \A q \in live : Num(holds', q) = Num(g, q)
  <2> SUFFICES ASSUME NEW q \in live PROVE Num(holds', q) = Num(g, q)
    OBVIOUS
  <2>1. /\ Num(g, q) \in Nat
        /\ Num(holds', q) = Num(g, q) + One(v = q) - One(g[a] = q)
    BY <1>4, <1>7, <1>8, <1>13, PutNum
  <2>2. One(v = q) = 0 /\ One(g[a] = q) = 0
    BY <1>7, <1>13 DEF One
  <2> QED
    BY <2>1, <2>2
<1>15. Counted'
  <2> SUFFICES ASSUME NEW q \in live PROVE count'[q] = Num(holds', q)
    BY <1>2 DEF Counted, Num
  <2>1. count'[q] = Num(holds, q) - One(holds[u] = q)
    BY <1>1, <1>2, QuietCounts DEF u
  <2> QED
    BY <2>1, <1>10, <1>12, <1>14
<1>16. FillsFree(k)
  BY <1>4, <1>5, <1>7, <1>11, <1>2 DEF FillsFree, Alive, v
<1>17. /\ EmptiesDead /\ Creates /\ Told(v)
       /\ \A r : Known(r) \/ r = Null => Told(r)
  BY <1>2, <1>6, NothingNew DEF v
<1>18. TmpsAbove(k)
  <2> SUFFICES ASSUME NEW i \in 1..MaxDepth, i > k, holds'[Tmp(i)] # Null
               PROVE  FALSE
    BY DEF TmpsAbove
  <2>1. Tmp(i) \in Slots /\ Tmp(i) # a /\ i # k + 1 /\ i # k + 2
    BY <1>4, <1>11, SlotFacts DEF t, u
  <2>2. holds[Tmp(i)] # Null
    BY <2>1, <1>11
  <2>3. i <= Depth
    BY <2>2 DEF Exact, TmpsOwned
  <2> QED
    BY <2>1, <2>3, <1>1
<1>19. TargetsAbove(k) /\ FreedAbove(k)
  BY <1>1, <1>3 DEF TargetsAbove, FreedAbove
<1>20. Tells(k)
  <2>1. \A i \in 1..Len(stack') : ~(i > k)
    BY <1>1, <1>3
  <2>2. \A x \in LeakSlots : x \in Slots /\ x # a /\ (x # t /\ x # u)
    BY <1>4, SlotFacts
  <2>3. \A x \in LeakSlots : holds'[x] = holds[x]
    BY <2>2, <1>11
  <2> QED
    BY <2>1, <2>3, <1>11, <1>17 DEF Tells
<1> QED
  BY <1>3, <1>15, <1>16, <1>17, <1>18, <1>19, <1>20, ExactKept DEF Respects

-----------------------------------------------------------------------------
(* The steps of HEAP_GC, and the steps that change nothing here *)
LEMMA SweepFacts ==
    ASSUME TypeInv, NEW mode \in SUBSET {"ptr", "obj"}
    PROVE  /\ Sweep(mode) \in FrameType /\ Sweep(mode).at = "gcObj"
           /\ Sweep(mode).ref = Null
           /\ Sweep(mode).at \notin Assigning /\ Sweep(mode).at \notin Freed
<1>1. Sweep(mode) \in FrameType /\ Sweep(mode).at = "gcObj"
  BY SweepType
<1>2. Sweep(mode).ref = Null
  BY DEF Sweep, Frame
<1> QED
  BY <1>1, <1>2 DEF Assigning, Freed

LEMMA HeapGCExact ==
    ASSUME TypeInv, TypeInv', Exact, NEW mode \in GCModes, HeapGC(mode)
    PROVE  Exact'
<1> DEFINE f == Sweep(mode)
<1>1. /\ stack \in Seq(FrameType) /\ Len(stack) = Depth /\ Depth \in Nat
  BY StackFacts
<1>2. /\ f \in FrameType /\ f.ref = Null
      /\ f.at \notin Assigning /\ f.at \notin Freed
  BY SweepFacts, GCModesAssumption
<1>3. /\ stack' = Append(stack, f) /\ UNCHANGED <<live, count, holds, heapIx>>
  BY DEF HeapGC
<1> HIDE DEF f
<1>4. /\ Keeps(stack, stack', Depth) /\ Len(stack') = Depth + 1
      /\ stack'[Depth + 1] = f
  BY <1>1, <1>2, <1>3, PushKeeps
<1>5. \A i \in 1..Len(stack') : i > Depth => i = Depth + 1
  BY <1>1, <1>4
<1>6. FramesQuiet(Depth)
  BY <1>2, <1>4, <1>5 DEF FramesQuiet
<1>7. TmpsAbove(Depth) /\ heapIx' >= heapIx
  <2>1. TmpsAbove(Depth)
    BY <1>1, <1>3, TmpsEmptyAbove
  <2> QED
    BY <2>1, <1>3, MaxIxAssumption DEF TypeInv, TypeOK
<1> QED
  BY <1>1, <1>3, <1>4, <1>6, <1>7, QuietExact

(* ResetHeap hands identifiers out again only when nothing names one. *)
LEMMA ResetCases ==
    ASSUME ResetIfEmpty, ~stale'
    PROVE  \/ live = {} /\ Mentioned = {Null}
           \/ UNCHANGED heapIx
BY Zenon DEF ResetIfEmpty

LEMMA HeapGCNestedExact ==
    ASSUME TypeInv, TypeInv', Exact, HeapGCNested, ~stale'
    PROVE  Exact'
<1>1. UNCHANGED <<live, count, holds, stack>> /\ ResetIfEmpty
  BY DEF HeapGCNested
<1>2. CASE live = {} /\ Mentioned = {Null}
  BY <1>1, <1>2, ResetExact
<1>3. CASE UNCHANGED heapIx
  <2>1. heapIx' >= heapIx
    BY <1>3, MaxIxAssumption DEF TypeInv, TypeOK
  <2> QED
    BY <1>1, <2>1, SameExact
<1> QED
  BY <1>1, <1>2, <1>3, ResetCases

LEMMA GCEndExact ==
    ASSUME TypeInv, TypeInv', Exact, GCEnd, ~stale'
    PROVE  Exact'
<1>1. /\ UNCHANGED <<live, count, holds>> /\ stack' = Pop /\ ResetIfEmpty
      /\ Top.at \notin Owners
  BY DEF GCEnd, Owners
<1>2. CASE live = {} /\ Mentioned = {Null}
  BY <1>1, <1>2, ResetExact
<1>3. CASE UNCHANGED heapIx
  BY <1>1, <1>3, PopExact
<1> QED
  BY <1>1, <1>2, <1>3, ResetCases

LEMMA GCNextExact ==
    ASSUME TypeInv, TypeInv', Exact, GCObjEnd \/ GCAgain
    PROVE  Exact'
<1>1. /\ UNCHANGED <<live, count, holds, heapIx>> /\ Top.at \notin Owners
      /\ Top.mode \in SUBSET {"ptr", "obj"} /\ live \subseteq Refs
  BY TopFacts, FrameFacts DEF GCObjEnd, GCAgain, Owners, TypeInv, TypeOK
<1>2. CASE GCObjEnd
  <2> DEFINE S == IF "ptr" \in Top.mode THEN (live \intersect Ptrs) \ Top.keep
                                        ELSE {}
             f == [Frame("gcPtr") EXCEPT !.mode = Top.mode, !.todo = S]
  <2>1. S \subseteq Refs
    BY <1>1
  <2>2. stack' = Become(f)
    BY <1>2 DEF GCObjEnd
  <2> HIDE DEF S
  <2>3. f \in FrameType /\ f.at = "gcPtr" /\ f.ref = Null
    BY <1>1, <2>1 DEF Frame, FrameType, Places
  <2> HIDE DEF f
  <2>4. f.at \notin Assigning /\ f.at \notin Freed
    BY <2>3 DEF Assigning, Freed
  <2> QED
    BY <1>1, <2>2, <2>3, <2>4, BecomeExact
<1>3. CASE GCAgain
  <2> DEFINE f == Sweep(Top.mode)
  <2>1. stack' = Become(f)
    BY <1>3 DEF GCAgain
  <2>2. /\ f \in FrameType /\ f.ref = Null
        /\ f.at \notin Assigning /\ f.at \notin Freed
    BY <1>1, SweepFacts
  <2> HIDE DEF f
  <2> QED
    BY <1>1, <2>1, <2>2, BecomeExact
<1> QED
  BY <1>2, <1>3

LEMMA SameStepExact ==
    ASSUME TypeInv, TypeInv', Exact,
           \/ ObjNewFailed \/ UseAfterFree \/ DropAsserts \/ UNCHANGED vars
           \/ \E v \in Vars : TouchDying(v) \/ \E on \in BOOLEAN : HeapRefcount(v, on)
    PROVE  Exact'
<1>1. UNCHANGED <<live, count, holds, stack>>
      /\ (heapIx' = heapIx \/ heapIx' = heapIx + 1)
  BY DEF ObjNewFailed, UseAfterFree, DropAsserts, TouchDying, HeapRefcount, vars
<1>2. heapIx' >= heapIx
  BY <1>1, MaxIxAssumption DEF TypeInv, TypeOK
<1> QED
  BY <1>1, <1>2, SameExact

LEMMA CleanupReturnsExact ==
    ASSUME TypeInv, TypeInv', Exact, CleanupReturns
    PROVE  Exact'
<1>1. /\ UNCHANGED <<live, count, holds, heapIx>> /\ stack' = Pop
      /\ Top.at \notin Owners
  BY DEF CleanupReturns, Owners
<1> QED
  BY <1>1, PopExact

-----------------------------------------------------------------------------
(* Once the counts are stale they stay so. *)
LEMMA StaleStays ==
    ASSUME [Next]_vars, stale
    PROVE  stale'
<1>1. ASSUME Statement PROVE stale'
  <2>1. ASSUME NEW v \in Vars, NEW b, PtrNew(v, b) PROVE stale'
    BY <2>1, Zenon DEF PtrNew
  <2>2. ASSUME NEW v \in Vars,
               \/ ObjNew(v) \/ PtrFree(v) \/ ObjDestroy(v) \/ TouchDying(v)
               \/ \E on \in BOOLEAN : HeapRefcount(v, on)
        PROVE  stale'
    BY <2>2, Zenon DEF ObjNew, PtrFree, ObjDestroy, TouchDying, HeapRefcount
  <2>3. ASSUME ObjNewRejected \/ ObjNewFailed PROVE stale'
    BY <2>3, Zenon DEF ObjNewRejected, ObjNewFailed
  <2>4. ASSUME NEW a, NEW b, Assign(a, b) \/ AssignMember(a, b) PROVE stale'
    BY <2>4, Zenon DEF Assign, AssignMember
  <2>5. ASSUME NEW a, Clear(a) PROVE stale'
    BY <2>5, Zenon DEF Clear
  <2>6. ASSUME NEW mode, HeapGC(mode) PROVE stale'
    BY <2>6, Zenon DEF HeapGC
  <2>7. ASSUME HeapGCNested PROVE stale'
    BY <2>7, Zenon DEF HeapGCNested, ResetIfEmpty
  <2> QED
    BY <1>1, <2>1, <2>2, <2>3, <2>4, <2>5, <2>6, <2>7, Zenon DEF Statement
<1>2. ASSUME CppStep PROVE stale'
  <2>1. CASE CopyEnd \/ StoreEnd \/ UseAfterFree \/ DropOne \/ DropAsserts
    BY <2>1, Zenon DEF CopyEnd, StoreEnd, UseAfterFree, DropOne, DropAsserts
  <2>2. CASE DropLastPtr \/ DropLastObj \/ BaseFree \/ BaseEnd \/ BaseThrow
    BY <2>2, Zenon DEF DropLastPtr, DropLastObj, BaseFree, BaseEnd, BaseThrow
  <2>3. CASE EnvTReturn \/ EnvTFree \/ GCObj \/ GCObjEnd \/ GCPtr \/ GCAgain
    BY <2>3, Zenon DEF EnvTReturn, EnvTFree, GCObj, GCObjEnd, GCPtr, GCAgain
  <2>4. CASE GCEnd
    BY <2>4, Zenon DEF GCEnd, ResetIfEmpty
  <2> QED
    BY <1>2, <2>1, <2>2, <2>3, <2>4 DEF CppStep
<1>3. ASSUME CleanupReturns \/ CleanupThrows PROVE stale'
  BY <1>3, Zenon DEF CleanupReturns, CleanupThrows
<1>4. ASSUME UNCHANGED vars PROVE stale'
  BY <1>4, Zenon DEF vars
<1> QED
  BY <1>1, <1>2, <1>3, <1>4 DEF Next, CleanupEnds, Halted

LEMMA StatementExact ==
    ASSUME TypeInv, TypeInv', Exact, ~stale', Statement
    PROVE  Exact'
<1>1. /\ \A v \in Vars : Var(v) \in VarSlots
      /\ \A a \in Lvalues \union Members \union VarSlots :
            a \in VarSlots \union Refs /\ a \in Slots /\ (a \in Refs => a \in live)
      /\ Top.at \in {"main", "code"} => Self \subseteq Slots
      /\ Lvalues \subseteq Slots /\ Members \subseteq Slots /\ VarSlots \subseteq Slots
  BY LvalueFacts, SlotFacts
<1>2. CASE \E v \in Vars :
              \/ \E b \in Lvalues \union {Null} : PtrNew(v, b)
              \/ ObjNew(v) \/ PtrFree(v) \/ ObjDestroy(v)
  BY <1>1, <1>2, PtrNewExact, ObjNewExact, PtrFreeExact, ObjDestroyExact
<1>3. CASE \E v \in Vars : TouchDying(v) \/ \E on \in BOOLEAN : HeapRefcount(v, on)
  BY <1>3, SameStepExact
<1>4. CASE ObjNewRejected \/ ObjNewFailed
  BY <1>4, ObjNewRejectedExact, SameStepExact
<1>5. CASE \E a \in Lvalues, b \in Lvalues \union Self : Assign(a, b)
  <2>1. PICK a \in Lvalues, b \in Lvalues \union Self : Assign(a, b)
    BY <1>5
  <2>2. Top.at \in {"main", "code"}
    BY <2>1 DEF Assign, May, CodeRuns
  <2> QED
    BY <2>1, <2>2, <1>1, AssignExact
<1>6. CASE \E a \in Members, b \in VarSlots \union Self : AssignMember(a, b)
  <2>1. PICK a \in Members, b \in VarSlots \union Self : AssignMember(a, b)
    BY <1>6
  <2>2. Top.at \in {"main", "code"}
    BY <2>1 DEF AssignMember, May, CodeRuns
  <2> QED
    BY <2>1, <2>2, <1>1, AssignMemberExact
<1>7. CASE \E a \in VarSlots, b \in Members : AssignMember(a, b)
  <2>1. PICK a \in VarSlots, b \in Members : AssignMember(a, b)
    BY <1>7
  <2> QED
    BY <2>1, <1>1, AssignMemberExact
<1>8. CASE \E a \in VarSlots \union Members : Clear(a)
  BY <1>1, <1>8, ClearExact
<1>9. CASE (\E mode \in GCModes : HeapGC(mode)) \/ HeapGCNested
  BY <1>9, HeapGCExact, HeapGCNestedExact
<1> QED
  BY <1>2, <1>3, <1>4, <1>5, <1>6, <1>7, <1>8, <1>9 DEF Statement

LEMMA CppStepExact ==
    ASSUME TypeInv, TypeInv', Exact, ~stale', CppStep
    PROVE  Exact'
<1>1. CASE CopyEnd \/ StoreEnd \/ UseAfterFree
  BY <1>1, CopyEndExact, StoreEndExact, SameStepExact
<1>2. CASE DropOne \/ DropAsserts \/ DropLastPtr \/ DropLastObj
  BY <1>2, DropOneExact, SameStepExact, DropLastPtrExact, DropLastObjExact
<1>3. CASE BaseFree \/ BaseEnd \/ BaseThrow
  BY <1>3, BaseFreeExact, BaseEndExact, BaseThrowExact
<1>4. CASE EnvTReturn \/ EnvTFree
  BY <1>4, EnvTReturnExact, EnvTFreeExact
<1>5. CASE GCObj \/ GCObjEnd \/ GCPtr \/ GCAgain \/ GCEnd
  BY <1>5, GCObjExact, GCNextExact, GCPtrExact, GCEndExact
<1> QED
  BY <1>1, <1>2, <1>3, <1>4, <1>5 DEF CppStep

LEMMA CountNext == CountInv /\ [Next]_vars => CountInv'
<1> SUFFICES ASSUME CountInv, [Next]_vars PROVE CountInv'
  OBVIOUS
<1>1. TypeInv /\ TypeInv'
  BY NextType DEF CountInv
<1>2. ASSUME ~stale' PROVE Exact'
  <2>1. ~stale
    BY <1>2, StaleStays
  <2>2. Exact
    BY <2>1 DEF CountInv
  <2> QED
    BY <1>1, <1>2, <2>2, StatementExact, CppStepExact, SameStepExact,
       CleanupReturnsExact, CleanupThrowsExact DEF Next, CleanupEnds, Halted
<1> QED
  BY <1>1, <1>2 DEF CountInv

LEMMA CountInit == Init => CountInv
<1> SUFFICES ASSUME Init PROVE CountInv
  OBVIOUS
<1>1. TypeInv
  BY InitType
<1>2. /\ live = {} /\ heapIx = 1 /\ \A s \in Slots : holds[s] = Null
      /\ stack = <<Frame("main")>>
  BY DEF Init
<1>3. /\ Depth = 1 /\ stack[1].at = "main" /\ stack[1].ref = Null
  BY <1>2 DEF Depth, Frame
<1>4. \A i \in 1..Depth : /\ stack[i].at \notin Assigning
                          /\ stack[i].at \notin Freed /\ stack[i].ref = Null
  BY <1>3 DEF Assigning, Freed
<1>5. DeadEmpty /\ TmpsOwned /\ Counted /\ FreedDead
  BY <1>2, <1>4, SlotFacts DEF DeadEmpty, TmpsOwned, Counted, FreedDead
<1>6. DyingEmpty /\ DyingOnce
  BY <1>4 DEF DyingEmpty, DyingOnce
<1>7. FreshUnknown
  <2> SUFFICES ASSUME NEW r \in Refs
               PROVE  ~Known(r) /\ holds[<<"leak", r[2]>>] = Null
    BY DEF FreshUnknown
  <2>1. r # Null /\ r[2] \in Ix
    BY SlotFacts DEF Refs, Ptrs, Objs
  <2> QED
    BY <2>1, <1>2, <1>4, SlotFacts DEF Known
<1> QED
  BY <1>1, <1>5, <1>6, <1>7 DEF CountInv, Exact

-----------------------------------------------------------------------------
(* Reference counting *)
LEMMA HoldersCounted ==
    ASSUME CountInv, ~stale, NEW r \in live
    PROVE  count[r] = Cardinality(Holders(r)) /\ IsFiniteSet(Holders(r))
BY NumType DEF CountInv, Exact, Counted, Num, Holders

(* while the destructor of a reference runs, nothing else does *)
LEMMA DroppingSteps ==
    ASSUME Next, Dropping
    PROVE  DropOne \/ DropAsserts \/ DropLastPtr \/ DropLastObj
<1>1. Running /\ ~CodeRuns /\ Top.at \in {"drop", "dropAt"}
  BY DEF Dropping, CodeRuns
<1>2. ~Statement
  <2>1. \A op : ~May(op)
    BY <1>1 DEF May
  <2> QED
    BY <1>1, <2>1, Zenon
       DEF Statement, PtrNew, ObjNew, PtrFree, ObjDestroy, TouchDying, HeapRefcount,
           ObjNewRejected, ObjNewFailed, Assign, AssignMember, Clear, HeapGC,
           HeapGCNested
<1>3. ~CleanupEnds /\ ~Halted
  BY <1>1 DEF CleanupEnds, CleanupReturns, CleanupThrows, Halted
<1>4. ~CopyEnd /\ ~StoreEnd /\ ~UseAfterFree /\ ~BaseFree /\ ~BaseEnd /\ ~BaseThrow
  BY <1>1 DEF CopyEnd, StoreEnd, UseAfterFree, BaseFree, BaseEnd, BaseThrow
<1>5. ~EnvTReturn /\ ~EnvTFree /\ ~GCObj /\ ~GCObjEnd /\ ~GCPtr /\ ~GCAgain /\ ~GCEnd
  BY <1>1 DEF EnvTReturn, EnvTFree, GCObj, GCObjEnd, GCPtr, GCAgain, GCEnd
<1> QED
  BY <1>2, <1>3, <1>4, <1>5 DEF Next, CppStep

(* What dies, or whose CLEANUP starts, while a destructor runs *)
Dies == (live \ live') \union (inProgress' \ inProgress)

LEMMA OnlyLastDies ==
    ASSUME Next, Dropping, NEW r \in Dies
    PROVE  r = Dropped /\ r \in live /\ count[r] = 1
<1>1. ~DropOne /\ ~DropAsserts
  BY DEF DropOne, DropAsserts, Dies
<1>2. CASE DropLastPtr
  <2>1. live \ live' \subseteq {Dropped} /\ inProgress' = inProgress
    BY <1>2 DEF DropLastPtr, Erase
  <2> QED
    BY <2>1, <1>2 DEF DropLastPtr, LastRef, Dies
<1>3. CASE DropLastObj
  <2>1. inProgress' \ inProgress \subseteq {Dropped} /\ live' = live
    BY <1>3 DEF DropLastObj
  <2> QED
    BY <2>1, <1>3 DEF DropLastObj, LastRef, Dies
<1> QED
  BY <1>1, <1>2, <1>3, DroppingSteps

LEMMA DiesAlone ==
    ASSUME CountInv, ~stale, Next, Dropping, NEW r \in Dies
    PROVE  Holders(r) = {Tmp(Depth)}
<1>1. r = Dropped /\ r \in live /\ count[r] = 1
  BY OnlyLastDies
<1>2. Cardinality(Holders(r)) = 1 /\ IsFiniteSet(Holders(r))
  BY <1>1, HoldersCounted
<1>3. PICK x : Holders(r) = {x}
  BY <1>2, FS_Singleton
<1>4. Tmp(Depth) \in Holders(r)
  BY <1>1, TopFacts, SlotFacts DEF Holders, Dropped, CountInv
<1> QED
  BY <1>3, <1>4

LEMMA DropsCounted ==
    ASSUME CountInv, ~stale
    PROVE  CountPositive
<1> SUFFICES ASSUME Dropping, Dropped \in live PROVE count[Dropped] > 0
  BY DEF CountPositive
<1>1. Tmp(Depth) \in Slots
  BY TopFacts, SlotFacts DEF CountInv
<1>2. Num(holds, Dropped) >= 1
  BY <1>1, HolderCounts DEF Dropped
<1>3. count[Dropped] = Num(holds, Dropped)
  BY DEF CountInv, Exact, Counted
<1>4. Num(holds, Dropped) \in Nat
  BY NumType
<1> QED
  BY <1>2, <1>3, <1>4

(* RefHeap::count of every heap variable is the number of references to it,
   between any two C++ steps, whatever destructors, CLEANUP methods, PTR_FREE,
   OBJ_DESTROY and HEAP_GC have done before. *)
THEOREM CountsTellReferences == Spec => []CountExact
<1>1. Init => CountInv
  BY CountInit
<1>2. CountInv /\ [Next]_vars => CountInv'
  BY CountNext
<1>3. CountInv => CountExact
  BY HoldersCounted DEF CountExact
<1> QED
  BY <1>1, <1>2, <1>3, PTL DEF Spec

(* DecRef and DecRefObj free a heap variable, or start the CLEANUP of an object,
   only through the last reference to it. *)
THEOREM LastReferenceFrees == Spec => DiesUnreferenced
<1>1. Init => CountInv
  BY CountInit
<1>2. CountInv /\ [Next]_vars => CountInv'
  BY CountNext
<1>3. CountInv /\ [Next]_vars =>
        [Dropping /\ ~stale =>
           \A r \in (live \ live') \union (inProgress' \ inProgress) :
              Holders(r) = {Tmp(Depth)}]_vars
  BY DiesAlone DEF Dies
<1> QED
  BY <1>1, <1>2, <1>3, PTL DEF Spec, DiesUnreferenced

(* The assertion count > 0 of RefHeap::Dec holds until the counts are stale. *)
THEOREM DecNeverBelowZero == Spec => [](~stale => CountPositive)
<1>1. Init => CountInv
  BY CountInit
<1>2. CountInv /\ [Next]_vars => CountInv'
  BY CountNext
<1>3. CountInv => (~stale => CountPositive)
  BY DropsCounted
<1> QED
  BY <1>1, <1>2, <1>3, PTL DEF Spec

-----------------------------------------------------------------------------
(* Reference counting alone leaves no dangling reference *)

(* Programs that free nothing explicitly, whose CLEANUP methods do not copy
   SELF, and whose errors do not leave a CLEANUP *)
Frees == {"ptr_free", "obj_destroy", "heap_gc"}
CopiesSelf == {"assign", "member"}
Modest == /\ MainOps \intersect Frees = {}
          /\ CleanupOps \intersect (Frees \union CopiesSelf \union {"error"}) = {}

(* the activations such a program reaches; those that own a reference to an
   object that is being removed, or is *)
ModestPlaces == {"main", "code", "drop", "dropAt", "copy", "store", "base",
                 "baseAt", "baseEnd"}
Bases == {"base", "baseAt"}
Removing == Bases \union {"baseEnd"}

(* Only these hold what is not on the heap any more, an object whose CLEANUP is
   called because its last reference goes has no other reference, and what is
   copied is not a temporary. *)
SlotsSound ==
    \A s \in Slots : holds[s] \in live \union {Null}
                       \/ \E i \in 1..Depth : s = Tmp(i) /\ stack[i].at \in Removing
LastHeld ==
    \A i \in 1..Depth : stack[i].at \in Bases => Holders(stack[i].ref) \subseteq {Tmp(i)}
ModestFrames ==
    \A i \in 1..Depth : /\ stack[i].at \in ModestPlaces
                        /\ stack[i].at = "copy" => stack[i].src \notin TmpSlots

DanglingInv == CountInv /\ ~stale /\ SlotsSound /\ LastHeld /\ ModestFrames

-----------------------------------------------------------------------------
(* What a step passes from slot to slot: what was there, nothing, a heap
   variable it creates, or what a slot held that no removal owns. *)
Passable == Slots \ {Tmp(i) : i \in {j \in 1..Depth : stack[j].at \in Removing}}
PassedOn ==
    \A x \in Slots : \/ holds'[x] \in {holds[x], Null} \union (live' \ live)
                     \/ \E y \in Passable : holds'[x] = holds[y]
ErasedUnheld ==
    \A x \in Slots : holds'[x] \in live \ live' =>
        \E i \in 1..Len(stack') : x = Tmp(i) /\ stack'[i].at \in Removing
RemovalsEnd(k) ==
    \A i \in 1..Depth : i > k /\ stack[i].at \in Removing =>
        \/ holds'[Tmp(i)] = Null
        \/ i <= Len(stack') /\ stack'[i].at \in Removing
ModestAbove(k) ==
    \A i \in 1..Len(stack') : i > k =>
        /\ stack'[i].at \in ModestPlaces
        /\ stack'[i].at = "copy" => stack'[i].src \notin TmpSlots
        /\ stack'[i].at \in Bases =>
              \A x \in Slots : holds'[x] = stack'[i].ref => x = Tmp(i)

LEMMA DanglingKept ==
    ASSUME DanglingInv, TypeInv', [Next]_vars, ~stale', Creates,
           NEW k, Keeps(stack, stack', k), PassedOn, ErasedUnheld,
           RemovalsEnd(k), ModestAbove(k)
    PROVE  DanglingInv'
<1>1. CountInv' /\ TypeInv /\ Exact
  BY CountNext DEF DanglingInv, CountInv
<1>2. /\ Depth = Len(stack) /\ Depth' = Len(stack') /\ k \in Nat
      /\ Len(stack) \in Nat /\ Len(stack') \in Nat /\ k <= Len(stack')
      /\ k <= Len(stack)
      /\ \A i \in 1..Len(stack') :
            i > k \/ (i \in 1..k /\ i \in 1..Depth /\ stack'[i] = stack[i])
      /\ \A i \in 1..Depth : i > k \/ (i \in 1..Len(stack') /\ stack'[i] = stack[i])
  BY DEF Depth, Keeps
<1>3. SlotsSound'
  <2> SUFFICES ASSUME NEW x \in Slots, holds'[x] \notin live' \union {Null}
               PROVE  \E i \in 1..Len(stack') : x = Tmp(i) /\ stack'[i].at \in Removing
    BY <1>2 DEF SlotsSound
  <2>1. CASE holds'[x] \in live
    BY <2>1 DEF ErasedUnheld
  <2>2. CASE holds'[x] \notin live /\ holds'[x] = holds[x]
    <3>1. PICK i \in 1..Depth : x = Tmp(i) /\ stack[i].at \in Removing
      BY <2>2 DEF DanglingInv, SlotsSound
    <3>2. CASE i > k
      BY <3>1, <3>2, <1>2 DEF RemovalsEnd
    <3>3. CASE ~(i > k)
      BY <3>1, <3>3, <1>2
    <3> QED
      BY <3>2, <3>3
  <2>3. ASSUME NEW y \in Passable, holds'[x] = holds[y], holds'[x] \notin live
        PROVE  FALSE
    <3>1. y \in Slots /\ \A i \in 1..Depth : y = Tmp(i) => stack[i].at \notin Removing
      BY DEF Passable
    <3> QED
      BY <2>3, <3>1 DEF DanglingInv, SlotsSound
  <2> QED
    BY <2>1, <2>2, <2>3 DEF PassedOn
<1>4. LastHeld'
  <2> SUFFICES ASSUME NEW i \in 1..Len(stack'), stack'[i].at \in Bases,
                      NEW x \in Slots, holds'[x] = stack'[i].ref
               PROVE  x = Tmp(i)
    BY <1>2 DEF LastHeld, Holders
  <2>1. CASE i > k
    BY <2>1 DEF ModestAbove
  <2>2. CASE ~(i > k)
    <3> DEFINE r == stack[i].ref
    <3>1. i \in 1..Depth /\ stack'[i] = stack[i]
      BY <2>2, <1>2
    <3>2. /\ \A y \in Slots : holds[y] = r => y = Tmp(i)
          /\ Known(r) /\ holds'[x] = r
      BY <3>1, <1>1, KnownFrames DEF DanglingInv, LastHeld, Holders
    <3>3. r # Null
      <4>1. i \in 2..Len(stack)
        BY <3>1, <1>1, <1>2 DEF TypeInv, ShapeOf, Bases
      <4>2. r \in Objs
        BY <4>1, <3>1, <1>1 DEF TypeInv, ShapeOf, StandsOn, ObjCleanup, Bases
      <4> QED
        BY <4>2, SlotFacts
    <3> HIDE DEF r
    <3>4. r \notin live' \ live
      BY <3>2 DEF Creates
    <3>5. \A y \in Passable : holds[y] # r
      BY <3>1, <3>2 DEF Passable, Removing
    <3> QED
      BY <3>2, <3>3, <3>4, <3>5 DEF PassedOn
  <2> QED
    BY <2>1, <2>2
<1>5. ModestFrames'
  <2> SUFFICES ASSUME NEW i \in 1..Len(stack')
               PROVE  /\ stack'[i].at \in ModestPlaces
                      /\ stack'[i].at = "copy" => stack'[i].src \notin TmpSlots
    BY <1>2 DEF ModestFrames
  <2>1. CASE i > k
    BY <2>1 DEF ModestAbove
  <2>2. CASE ~(i > k)
    BY <2>2, <1>2 DEF DanglingInv, ModestFrames
  <2> QED
    BY <2>1, <2>2
<1> QED
  BY <1>1, <1>3, <1>4, <1>5 DEF DanglingInv

(* Nothing leaves the heap. *)
LEMMA NothingErased ==
    ASSUME DanglingInv, live \subseteq live'
    PROVE  ErasedUnheld
BY DEF ErasedUnheld

LEMMA SlotsPassable ==
    ASSUME TypeInv
    PROVE  /\ \A x \in Slots \ TmpSlots : x \in Passable
           /\ \A i \in 1..Depth : stack[i].at \notin Removing => Tmp(i) \in Passable
<1>1. \A i \in 1..Depth : i \in 1..MaxDepth
  BY TopFacts, MaxDepthAssumption
<1>2. \A i \in 1..Depth : Tmp(i) \in TmpSlots /\ Tmp(i) \in Slots
  BY <1>1, SlotFacts
<1>3. \A x \in Slots \ TmpSlots : x \in Passable
  BY <1>2 DEF Passable
<1>4. ASSUME NEW i \in 1..Depth, stack[i].at \notin Removing
      PROVE  Tmp(i) \in Passable
  <2> SUFFICES ASSUME NEW j \in 1..Depth, stack[j].at \in Removing, Tmp(i) = Tmp(j)
               PROVE  FALSE
    BY <1>2 DEF Passable
  <2>1. i = j
    BY SlotFacts
  <2> QED
    BY <2>1, <1>4
<1> QED
  BY <1>3, <1>4

(* An assignment starts: new is nothing, or held by a slot that is no temporary,
   or a heap variable just created. *)
LEMMA OverwriteModest ==
    ASSUME DanglingInv, TypeInv', [Next]_vars, ~stale', Creates, Room(2),
           live \subseteq live',
           NEW s \in VarSlots \union Refs, NEW f \in FrameType,
           f.at \in Assigning, f.at = "copy" => f.src \notin TmpSlots,
           stack' = stack \o <<f, Drop(s)>>,
           \A x \in Slots : \/ holds'[x] \in {holds[x], Null} \union (live' \ live)
                            \/ \E y \in Slots \ TmpSlots : holds'[x] = holds[y]
    PROVE  DanglingInv'
<1>1. TypeInv
  BY DEF DanglingInv, CountInv
<1>2. /\ Keeps(stack, stack', Depth) /\ Len(stack') = Depth + 2
      /\ stack'[Depth + 1] = f /\ stack'[Depth + 2] = Drop(s)
      /\ Drop(s).at \in {"drop", "dropAt"} /\ Depth \in Nat
  BY <1>1, OverwriteFrames
<1>3. \A i \in 1..Len(stack') : i > Depth => i = Depth + 1 \/ i = Depth + 2
  BY <1>2
<1>4. PassedOn
  BY <1>1, SlotsPassable DEF PassedOn
<1>5. RemovalsEnd(Depth)
  BY <1>2 DEF RemovalsEnd
<1>6. ModestAbove(Depth)
  BY <1>2, <1>3 DEF ModestAbove, ModestPlaces, Assigning, Bases
<1> QED
  BY <1>2, <1>4, <1>5, <1>6, NothingErased, DanglingKept

(* holds after an assignment to s starts *)
LEMMA OverwrittenHolds ==
    ASSUME TypeInv, Room(2), NEW s \in VarSlots \union Refs,
           NEW new \in Refs \union {Null},
           holds' = [holds EXCEPT ![s] = Null, ![Tmp(Depth + 1)] = new,
                                  ![Tmp(Depth + 2)] = holds[s]]
    PROVE  /\ s \in Slots \ TmpSlots
           /\ \A x \in Slots : holds'[x] \in {holds[x], Null, new, holds[s]}
<1>1. s \in Slots \ TmpSlots
  BY SlotFacts DEF VarSlots, Refs, Ptrs, Objs, TmpSlots
<1>2. holds \in Holdings
  BY DEF TypeInv, TypeOK, Holdings
<1> QED
  BY <1>1, <1>2 DEF Holdings

LEMMA AssignModest ==
    ASSUME DanglingInv, TypeInv', [Next]_vars, NEW a \in VarSlots \union Refs,
           NEW b \in Slots \ TmpSlots,
           Assign(a, b) \/ AssignMember(a, b) \/ Clear(a)
    PROVE  DanglingInv'
<1> DEFINE f == [[Frame("copy") EXCEPT !.src = b] EXCEPT !.ref = a]
           g == [Frame("store") EXCEPT !.ref = a]
<1>1. /\ TypeInv /\ UNCHANGED <<live, heapIx, stale>> /\ Room(2) /\ ~stale
  BY DEF Assign, AssignMember, Clear, DanglingInv, CountInv
<1>2. a \in Slots
  BY SlotFacts
<1>3. /\ f \in FrameType /\ f.at = "copy" /\ f.src = b
      /\ g \in FrameType /\ g.at = "store"
  BY <1>2 DEF Frame, FrameType, Places
<1>4. PICK new \in {Null, holds[b]} :
         holds' = [holds EXCEPT ![a] = Null, ![Tmp(Depth + 1)] = new,
                                ![Tmp(Depth + 2)] = holds[a]]
  BY DEF Assign, AssignMember, Clear, Overwrite
<1>5. stack' = stack \o <<f, Drop(a)>> \/ stack' = stack \o <<g, Drop(a)>>
  BY DEF Assign, AssignMember, Clear, Overwrite
<1>6. new \in Refs \union {Null}
  BY <1>1 DEF TypeInv, TypeOK
<1> HIDE DEF f, g
<1>7. /\ a \in Slots \ TmpSlots
      /\ \A x \in Slots : holds'[x] \in {holds[x], Null, new, holds[a]}
  BY <1>1, <1>4, <1>6, OverwrittenHolds
<1>8. \A x \in Slots : \/ holds'[x] \in {holds[x], Null} \union (live' \ live)
                       \/ \E y \in Slots \ TmpSlots : holds'[x] = holds[y]
  BY <1>7
<1>9. Creates /\ live \subseteq live' /\ ~stale'
  BY <1>1, NothingNew
<1> QED
  BY <1>1, <1>3, <1>5, <1>8, <1>9, OverwriteModest DEF Assigning

(* Creating a heap variable never makes the counts stale. *)
LEMMA CreatesNext ==
    ASSUME DanglingInv, NEW r \in Refs, r[2] = heapIx,
           heapIx' = heapIx + 1, live' = live \union {r}
    PROVE  Creates /\ live' \ live = {r}
<1>1. ~Known(r) /\ r \notin live
  BY NextFresh DEF DanglingInv, CountInv
<1>2. heapIx \in Nat
  BY MaxIxAssumption DEF DanglingInv, CountInv, TypeInv, TypeOK
<1> QED
  BY <1>1, <1>2 DEF Creates

LEMMA NewModest ==
    ASSUME DanglingInv, TypeInv', [Next]_vars, NEW v \in Vars,
           \/ ObjNew(v)
           \/ \E b \in (Slots \ TmpSlots) \union {Null} : PtrNew(v, b)
    PROVE  DanglingInv'
<1> DEFINE s == Var(v)
           g == [Frame("store") EXCEPT !.ref = s]
<1>1. /\ TypeInv /\ s \in VarSlots /\ s \in Slots /\ s \notin Objs /\ s \notin Refs
      /\ s \in Slots \ TmpSlots
  BY SlotFacts DEF DanglingInv, CountInv, VarSlots, TmpSlots
<1>2. UNCHANGED stale /\ Room(2) /\ ~stale' /\ heapIx' = heapIx + 1
      /\ heapIx \in Ix
  BY MaxIxAssumption DEF ObjNew, PtrNew, DanglingInv, CountInv, TypeInv, TypeOK, Ix
<1>3. g \in FrameType /\ g.at = "store"
  BY <1>1, AssignFrames
<1> HIDE DEF g
<1>4. CASE ObjNew(v)
  <2> DEFINE r == Obj(heapIx)
  <2>1. /\ live' = live \union {r} /\ r \in Refs /\ r[2] = heapIx
        /\ stack' = stack \o <<g, Drop(s)>>
        /\ holds' = [holds EXCEPT ![s] = Null, ![Tmp(Depth + 1)] = r,
                                  ![Tmp(Depth + 2)] = holds[s]]
    BY <1>2, <1>4, SlotFacts DEF ObjNew, Overwrite, g, Obj
  <2> HIDE DEF r, s
  <2>2. Creates /\ live' \ live = {r}
    BY <1>2, <2>1, CreatesNext
  <2>3. \A x \in Slots : holds'[x] \in {holds[x], Null, r, holds[s]}
    BY <1>1, <1>2, <2>1, OverwrittenHolds
  <2> QED
    BY <1>1, <1>2, <1>3, <2>1, <2>2, <2>3, OverwriteModest DEF Assigning
<1>5. ASSUME NEW b \in (Slots \ TmpSlots) \union {Null}, PtrNew(v, b)
      PROVE  DanglingInv'
  <2> DEFINE r == Ptr(heapIx)
             content == IF b = Null THEN Null ELSE holds[b]
  <2>1. /\ live' = live \union {r} /\ r \in Refs /\ r[2] = heapIx
        /\ stack' = stack \o <<g, Drop(s)>>
        /\ holds' = [holds EXCEPT ![r] = content, ![s] = Null,
                                  ![Tmp(Depth + 1)] = r,
                                  ![Tmp(Depth + 2)] = holds[s]]
    BY <1>1, <1>2, <1>5, SlotFacts DEF PtrNew, g, Ptr, Drop
  <2> HIDE DEF r, s, content
  <2>2. Creates /\ live' \ live = {r}
    BY <1>2, <2>1, CreatesNext
  <2>3. \A x \in Slots : holds'[x] \in {holds[x], Null, r, holds[s], content}
    BY <2>1 DEF DanglingInv, CountInv, TypeInv, TypeOK
  <2>4. content = Null \/ \E y \in Slots \ TmpSlots : content = holds[y]
    BY DEF content
  <2>5. \A x \in Slots : \/ holds'[x] \in {holds[x], Null} \union (live' \ live)
                         \/ \E y \in Slots \ TmpSlots : holds'[x] = holds[y]
    BY <1>1, <2>2, <2>3, <2>4 DEF s
  <2> QED
    BY <1>1, <1>2, <1>3, <2>1, <2>2, <2>5, OverwriteModest DEF Assigning
<1> QED
  BY <1>4, <1>5

LEMMA RejectedModest ==
    ASSUME DanglingInv, TypeInv', [Next]_vars, ObjNewRejected
    PROVE  DanglingInv'
<1> DEFINE r == Obj(heapIx)
           s == <<"leak", heapIx>>
<1>1. /\ TypeInv /\ UNCHANGED <<stack, stale>> /\ ~stale' /\ heapIx' = heapIx + 1
      /\ live' = live \union {r} /\ r \in Refs /\ r[2] = heapIx
      /\ holds' = Put(holds, s, r) /\ s \in Slots
  <2>1. heapIx \in Ix
    BY MaxIxAssumption DEF ObjNewRejected, DanglingInv, CountInv, TypeInv, TypeOK, Ix
  <2> QED
    BY <2>1, SlotFacts DEF ObjNewRejected, DanglingInv, CountInv, Obj, Put
<1> HIDE DEF r, s
<1>2. Creates /\ live' \ live = {r} /\ live \subseteq live'
  BY <1>1, CreatesNext
<1>3. holds \in Holdings
  BY <1>1 DEF TypeInv, TypeOK, Holdings
<1>4. PassedOn
  BY <1>1, <1>2, <1>3, PutFacts DEF PassedOn
<1>5. Keeps(stack, stack', Depth) /\ Len(stack') = Depth /\ Depth \in Nat
  BY <1>1, StackFacts
<1>6. RemovalsEnd(Depth) /\ ModestAbove(Depth)
  BY <1>5 DEF RemovalsEnd, ModestAbove
<1> QED
  BY <1>1, <1>2, <1>4, <1>5, <1>6, NothingErased, DanglingKept

(* Steps that create and destroy nothing, and empty slots at most *)
LEMMA EmptyingModest ==
    ASSUME DanglingInv, TypeInv', [Next]_vars, UNCHANGED <<live, stale>>,
           heapIx' >= heapIx, NEW k, Keeps(stack, stack', k),
           \A x \in Slots : holds'[x] \in {holds[x], Null},
           RemovalsEnd(k), ModestAbove(k)
    PROVE  DanglingInv'
<1>1. ~stale' /\ Creates /\ PassedOn /\ live \subseteq live'
  BY DEF DanglingInv, Creates, PassedOn
<1> QED
  BY <1>1, NothingErased, DanglingKept

LEMMA SameModest ==
    ASSUME DanglingInv, TypeInv', [Next]_vars,
           \/ ObjNewFailed \/ UseAfterFree \/ DropAsserts \/ UNCHANGED vars
           \/ \E v \in Vars : TouchDying(v) \/ \E on \in BOOLEAN : HeapRefcount(v, on)
    PROVE  DanglingInv'
<1>1. UNCHANGED <<live, holds, stack, stale>>
      /\ (heapIx' = heapIx \/ heapIx' = heapIx + 1)
  BY DEF ObjNewFailed, UseAfterFree, DropAsserts, TouchDying, HeapRefcount, vars
<1>2. heapIx' >= heapIx /\ TypeInv
  BY <1>1, MaxIxAssumption DEF DanglingInv, CountInv, TypeInv, TypeOK
<1>3. Keeps(stack, stack', Depth) /\ Len(stack') = Depth /\ Depth \in Nat
  BY <1>1, <1>2, StackFacts
<1>4. RemovalsEnd(Depth) /\ ModestAbove(Depth)
  BY <1>3 DEF RemovalsEnd, ModestAbove
<1> QED
  BY <1>1, <1>2, <1>3, <1>4, EmptyingModest

(* The top frame goes; what it owned is gone or somewhere else. *)
LEMMA PopModest ==
    ASSUME DanglingInv, TypeInv', [Next]_vars,
           UNCHANGED <<live, stale, heapIx>>, stack' = Pop, PassedOn,
           Top.at \in Removing => holds'[Tmp(Depth)] = Null
    PROVE  DanglingInv'
<1> DEFINE k == Depth - 1
<1>1. TypeInv /\ heapIx' >= heapIx
  BY MaxIxAssumption DEF DanglingInv, CountInv, TypeInv, TypeOK
<1>2. /\ Keeps(stack, stack', k) /\ Len(stack') = k /\ k \in Nat
      /\ Depth = k + 1 /\ Top = stack[Depth]
  BY <1>1, StackFacts, PopKeeps
<1>3. ~stale' /\ Creates /\ live \subseteq live'
  BY <1>1 DEF DanglingInv, Creates
<1> HIDE DEF k
<1>4. RemovalsEnd(k) /\ ModestAbove(k)
  <2>1. \A i \in 1..Depth : i > k => i = Depth
    BY <1>2
  <2> QED
    BY <1>2, <2>1 DEF RemovalsEnd, ModestAbove
<1> QED
  BY <1>2, <1>3, <1>4, NothingErased, DanglingKept

LEMMA EndModest ==
    ASSUME DanglingInv, TypeInv', [Next]_vars,
           CopyEnd \/ StoreEnd \/ DropOne \/ BaseEnd \/ CleanupReturns
    PROVE  DanglingInv'
<1>1. /\ TypeInv /\ UNCHANGED <<live, stale, heapIx>> /\ stack' = Pop
  BY DEF CopyEnd, StoreEnd, DropOne, BaseEnd, CleanupReturns, DanglingInv, CountInv
<1>2. /\ Depth \in 1..Depth /\ Top = stack[Depth] /\ holds \in Holdings
      /\ Tmp(Depth) \in Slots
  BY <1>1, StackFacts, TopFacts, SlotFacts DEF TypeInv, TypeOK, Holdings
<1>3. CASE CopyEnd
  <2> DEFINE a == Top.ref
             b == Top.src
  <2>1. /\ Top.at = "copy" /\ holds' = Put(holds, a, holds[b])
        /\ b \notin TmpSlots
    BY <1>2, <1>3 DEF CopyEnd, Put, DanglingInv, ModestFrames
  <2>2. a \in Slots /\ b \in Slots
    <3>1. a \in VarSlots \union Refs
      BY <1>1, <1>2, <2>1, AssignTargets DEF Assigning
    <3>2. b \in Slots
      BY <1>1, <2>1, TopFacts DEF StandsOn
    <3> QED
      BY <3>1, <3>2, SlotFacts
  <2> HIDE DEF a, b
  <2>3. \A x \in Slots : holds'[x] \in {holds[x], holds[b]}
    BY <1>2, <2>1, <2>2 DEF Put, Holdings
  <2>4. b \in Passable
    BY <1>1, <2>1, <2>2, SlotsPassable
  <2>5. PassedOn
    BY <2>3, <2>4 DEF PassedOn
  <2> QED
    BY <1>1, <2>1, <2>5, PopModest DEF Removing, Bases
<1>4. CASE StoreEnd
  <2> DEFINE a == Top.ref
             t == Tmp(Depth)
  <2>1. /\ Top.at = "store"
        /\ holds' = [holds EXCEPT ![a] = holds[t], ![t] = Null]
    BY <1>4 DEF StoreEnd
  <2>2. t \in Passable
    BY <1>1, <1>2, <2>1, SlotsPassable DEF Removing, Bases
  <2> HIDE DEF a, t
  <2>3. \A x \in Slots : holds'[x] \in {holds[x], holds[t], Null}
    BY <1>2, <2>1 DEF Holdings
  <2>4. PassedOn
    BY <2>2, <2>3 DEF PassedOn
  <2> QED
    BY <1>1, <2>1, <2>4, PopModest DEF Removing, Bases
<1>5. CASE DropOne \/ BaseEnd
  <2>1. holds' = Put(holds, Tmp(Depth), Null)
    BY <1>5 DEF DropOne, BaseEnd, Put
  <2>2. /\ holds'[Tmp(Depth)] = Null
        /\ \A x \in Slots : holds'[x] \in {holds[x], Null}
    BY <1>2, <2>1, PutFacts
  <2> QED
    BY <1>1, <2>2, PopModest DEF PassedOn
<1>6. CASE CleanupReturns
  <2>1. Top.at = "code" /\ UNCHANGED holds
    BY <1>6 DEF CleanupReturns
  <2> QED
    BY <1>1, <2>1, PopModest DEF PassedOn, Removing, Bases
<1> QED
  BY <1>3, <1>4, <1>5, <1>6

-----------------------------------------------------------------------------
(* The steps that destroy *)

(* what Erase( r, i) leaves in the slots when all references to r are in t *)
LEMMA ErasedHolds ==
    ASSUME TypeInv, NEW r \in Refs, NEW i \in 1..MaxDepth, Erase(r, i),
           NEW t \in TmpSlots, \A x \in Slots : holds[x] = r => x = t
    PROVE  /\ live' = live \ {r}
           /\ PassedOn
           /\ \A x \in Slots : holds'[x] = r => x = t /\ t # Tmp(i)
<1> DEFINE u == Tmp(i)
<1>1. /\ r \in Slots \ TmpSlots /\ u \in Slots /\ holds \in Holdings
  BY SlotFacts DEF TypeInv, TypeOK, Holdings, Refs, Ptrs, Objs, TmpSlots
<1>2. live' = live \ {r} /\ holds' = Moved(holds, r, u)
  BY DEF Erase, Moved
<1> HIDE DEF u
<1>3. holds'[u] = holds[r] /\ \A x \in Slots : x # u => holds'[x] \in {holds[x], Null}
  BY <1>1, <1>2, SlotFacts DEF Moved, Holdings
<1>4. r \in Passable
  BY <1>1, SlotsPassable
<1>5. PassedOn
  BY <1>3, <1>4 DEF PassedOn
<1>6. ASSUME NEW x \in Slots, holds'[x] = r PROVE x = t /\ t # u
  <2>1. holds[r] # r
    BY <1>1
  <2>2. x # u
    BY <1>3, <1>6, <2>1
  <2>3. holds[x] = r
    BY <1>3, <1>6, <2>2, SlotFacts
  <2> QED
    BY <2>2, <2>3
<1> QED
  BY <1>2, <1>5, <1>6 DEF u

LEMMA DropLastPtrModest ==
    ASSUME DanglingInv, TypeInv', [Next]_vars, DropLastPtr
    PROVE  DanglingInv'
<1> DEFINE k == Depth - 1
           g == Frame("drop")
           r == Dropped
<1>1. /\ TypeInv /\ UNCHANGED <<stale, heapIx>> /\ Dropping /\ Erase(r, Depth)
      /\ stack' = Become(g) /\ r \in live /\ r \in Refs /\ ~stale
  BY DEF DropLastPtr, DanglingInv, CountInv, TypeInv, TypeOK
<1>2. /\ Depth = k + 1 /\ k \in Nat /\ stack[Depth] = Top
      /\ Depth \in 1..MaxDepth /\ Tmp(Depth) \in TmpSlots
      /\ Top.at \notin Removing
  BY <1>1, StackFacts, TopFacts, SlotFacts DEF Dropping, Removing, Bases
<1>3. g \in FrameType /\ g.at = "drop"
  BY QuietFrames DEF Frame
<1> HIDE DEF g
<1>4. /\ Keeps(stack, stack', k) /\ Len(stack') = Depth /\ stack'[Depth] = g
  BY <1>1, <1>3, BecomeKeeps
<1>5. \A x \in Slots : holds[x] = r => x = Tmp(Depth)
  <2>1. Next \/ UNCHANGED vars
    OBVIOUS
  <2>2. r \in live \ live'
    BY <1>1 DEF Erase
  <2>3. Next
    BY <2>1, <2>2 DEF vars
  <2>4. r \in Dies
    BY <2>2 DEF Dies
  <2>5. Holders(r) = {Tmp(Depth)}
    BY <1>1, <2>3, <2>4, DiesAlone DEF DanglingInv
  <2> QED
    BY <2>5 DEF Holders
<1> HIDE DEF r, k
<1>6. /\ live' = live \ {r} /\ PassedOn
      /\ \A x \in Slots : holds'[x] # r
  BY <1>1, <1>2, <1>5, ErasedHolds
<1>7. Creates /\ ~stale'
  BY <1>1, <1>6, MaxIxAssumption DEF Creates, DanglingInv, CountInv, TypeInv, TypeOK
<1>8. ErasedUnheld
  BY <1>6 DEF ErasedUnheld
<1>9. RemovalsEnd(k) /\ ModestAbove(k)
  <2>1. \A i \in 1..Depth : i > k => i = Depth
    BY <1>2
  <2> QED
    BY <1>2, <1>3, <1>4, <2>1 DEF RemovalsEnd, ModestAbove, ModestPlaces, Bases
<1> QED
  BY <1>4, <1>6, <1>7, <1>8, <1>9, DanglingKept

LEMMA DropLastObjModest ==
    ASSUME DanglingInv, TypeInv', [Next]_vars, DropLastObj
    PROVE  DanglingInv'
<1> DEFINE r == Dropped
           f == [Frame(IF Top.at = "drop" THEN "base" ELSE "baseAt") EXCEPT !.ref = r]
           code == [Frame("code") EXCEPT !.ref = r]
           k == Depth - 1
<1>1. /\ TypeInv /\ UNCHANGED <<live, stale, heapIx>> /\ Dropping
      /\ r \in live /\ r \in Refs /\ r \in Slots /\ ~stale /\ heapIx' >= heapIx
      /\ r \in inProgress' \ inProgress
  BY MaxIxAssumption, SlotFacts
     DEF DropLastObj, DanglingInv, CountInv, TypeInv, TypeOK
<1>2. /\ Depth = k + 1 /\ k \in Nat /\ stack[Depth] = Top /\ Depth \in Nat
      /\ Depth \in 1..MaxDepth /\ Top.at \notin Removing
      /\ Tmp(Depth) \in Slots /\ holds \in Holdings
  BY <1>1, StackFacts, TopFacts, SlotFacts
     DEF Dropping, Removing, Bases, TypeInv, TypeOK, Holdings
<1>3. /\ f \in FrameType /\ f.ref = r /\ f.at \in Bases
      /\ code \in FrameType /\ code.at = "code"
  <2>1. f \in FrameType /\ f.ref = r /\ f.at \in {"base", "baseAt"}
    BY <1>1 DEF Frame, FrameType, Places
  <2>2. code \in FrameType /\ code.at = "code"
    BY <1>1 DEF Frame, FrameType, Places
  <2> QED
    BY <2>1, <2>2 DEF Bases
<1>4. \A x \in Slots : holds[x] = r => x = Tmp(Depth)
  <2>1. Next
    BY <1>1 DEF vars
  <2>2. r \in Dies
    BY <1>1 DEF Dies
  <2>3. Holders(r) = {Tmp(Depth)}
    BY <1>1, <2>1, <2>2, DiesAlone DEF DanglingInv
  <2> QED
    BY <2>3 DEF Holders
<1>5. \/ stack' = Become(f) /\ holds' = Put(holds, Tmp(Depth), Null)
      \/ stack' = Append(Become(f), code) /\ holds' = holds
  BY DEF DropLastObj, Put
<1>6. r # Null
  BY <1>1, NullFacts
<1> HIDE DEF r, f, code
<1>7. /\ Keeps(stack, stack', k) /\ stack'[Depth] = f
      /\ \/ Len(stack') = Depth
         \/ Len(stack') = Depth + 1 /\ stack'[Depth + 1] = code
  <2>1. CASE stack' = Become(f)
    BY <2>1, <1>1, <1>3, BecomeKeeps
  <2>2. CASE stack' = Append(Become(f), code)
    BY <2>2, <1>1, <1>3, BecomePushKeeps
  <2> QED
    BY <2>1, <2>2, <1>5
<1> HIDE DEF k
<1>8. \A x \in Slots : holds'[x] \in {holds[x], Null}
  BY <1>2, <1>5, PutFacts
<1>9. \A x \in Slots : holds'[x] = r => x = Tmp(Depth)
  BY <1>4, <1>6, <1>8
<1>10. RemovalsEnd(k)
  <2>1. \A i \in 1..Depth : i > k => i = Depth
    BY <1>2
  <2> QED
    BY <2>1, <1>2 DEF RemovalsEnd
<1>11. ModestAbove(k)
  <2>1. \A i \in 1..Len(stack') : i > k => i = Depth \/ i = Depth + 1
    BY <1>2, <1>7
  <2>2. ASSUME NEW i \in 1..Len(stack'), i > k
        PROVE  i = Depth \/ (i = Depth + 1 /\ stack'[i] = code)
    BY <2>1, <2>2, <1>2, <1>7
  <2> QED
    BY <2>2, <1>3, <1>7, <1>9 DEF ModestAbove, ModestPlaces, Bases
<1> QED
  BY <1>1, <1>7, <1>8, <1>10, <1>11, EmptyingModest

LEMMA BaseFreeModest ==
    ASSUME DanglingInv, TypeInv', [Next]_vars, BaseFree
    PROVE  DanglingInv'
<1> DEFINE r == Top.ref
           f == [Top EXCEPT !.at = "baseEnd"]
           g == Frame("drop")
           k == Depth - 1
<1>1. /\ TypeInv /\ UNCHANGED <<stale, heapIx>> /\ Running /\ ~stale
  BY DEF BaseFree, DanglingInv, CountInv
<1>2. /\ Depth = k + 1 /\ k \in Nat /\ stack[Depth] = Top /\ Depth \in Nat
      /\ Depth \in 1..MaxDepth /\ Depth \in 1..Depth /\ Tmp(Depth) \in TmpSlots
  BY <1>1, StackFacts, TopFacts, SlotFacts
<1>3. Top.at \in Bases
  <2>1. Top.at \in ModestPlaces
    BY <1>2 DEF DanglingInv, ModestFrames
  <2>2. Top.at \in {"base", "baseAt", "baseCatch"}
    BY DEF BaseFree
  <2> QED
    BY <2>1, <2>2 DEF ModestPlaces, Bases
<1>4. Top.at # "baseCatch"
  BY <1>3 DEF Bases
<1>5. /\ f \in FrameType /\ f.at = "baseEnd"
      /\ g \in FrameType /\ g.at = "drop"
  <2>1. f \in FrameType /\ f.at = "baseEnd"
    BY <1>1, TopFacts DEF FrameType, Places
  <2> QED
    BY <2>1, QuietFrames DEF Frame
<1>6. \A x \in Slots : holds[x] = r => x = Tmp(Depth)
  BY <1>2, <1>3 DEF DanglingInv, LastHeld, Holders
<1> HIDE DEF f, g
<1>7. CASE r \in live
  <2>1. /\ Room(1) /\ Erase(r, Depth + 1) /\ stack' = Append(Become(f), g)
    BY <1>4, <1>7 DEF BaseFree, f, g
  <2>2. /\ Keeps(stack, stack', k) /\ Len(stack') = Depth + 1
        /\ stack'[Depth] = f /\ stack'[Depth + 1] = g
    BY <1>1, <1>5, <2>1, BecomePushKeeps
  <2>3. r \in Refs /\ Depth + 1 \in 1..MaxDepth
    BY <1>1, <1>7, <2>1, RoomFacts DEF TypeInv, TypeOK
  <2> HIDE DEF r, k
  <2>4. /\ live' = live \ {r} /\ PassedOn
        /\ \A x \in Slots : holds'[x] = r => x = Tmp(Depth)
    BY <1>1, <1>2, <1>6, <2>1, <2>3, ErasedHolds
  <2>5. Creates /\ ~stale'
    BY <1>1, <2>4, MaxIxAssumption DEF Creates, TypeInv, TypeOK
  <2>6. ErasedUnheld
    <3>1. Depth \in 1..Len(stack') /\ stack'[Depth].at \in Removing
      BY <1>2, <1>5, <2>2 DEF Removing
    <3> QED
      BY <3>1, <2>4 DEF ErasedUnheld
  <2>7. RemovalsEnd(k)
    <3>1. \A i \in 1..Depth : i > k => i = Depth
      BY <1>2
    <3> QED
      BY <3>1, <1>2, <1>5, <2>2 DEF RemovalsEnd, Removing
  <2>8. ModestAbove(k)
    <3>1. \A i \in 1..Len(stack') : i > k => i = Depth \/ i = Depth + 1
      BY <1>2, <2>2
    <3> QED
      BY <3>1, <1>5, <2>2 DEF ModestAbove, ModestPlaces, Bases
  <2> QED
    BY <2>2, <2>4, <2>5, <2>6, <2>7, <2>8, DanglingKept
<1>8. CASE r \notin live
  <2>1. stack' = Become(f) /\ UNCHANGED <<live, holds>>
    BY <1>4, <1>8 DEF BaseFree, Kept, f
  <2>2. /\ Keeps(stack, stack', k) /\ Len(stack') = Depth /\ stack'[Depth] = f
    BY <1>1, <1>5, <2>1, BecomeKeeps
  <2>3. heapIx' >= heapIx
    BY <1>1, MaxIxAssumption DEF TypeInv, TypeOK
  <2> HIDE DEF k
  <2>4. \A i \in 1..Depth : i > k => i = Depth
    BY <1>2
  <2>5. RemovalsEnd(k) /\ ModestAbove(k)
    BY <1>2, <1>5, <2>2, <2>4
       DEF RemovalsEnd, ModestAbove, ModestPlaces, Removing, Bases
  <2> QED
    BY <1>1, <2>1, <2>2, <2>3, <2>5, EmptyingModest
<1> QED
  BY <1>7, <1>8

-----------------------------------------------------------------------------
LEMMA StatementModest ==
    ASSUME Modest, DanglingInv, TypeInv', [Next]_vars, Statement
    PROVE  DanglingInv'
<1>1. /\ \A a \in Lvalues \union Members \union VarSlots :
            a \in VarSlots \union Refs /\ a \in Slots \ TmpSlots
  BY LvalueFacts DEF DanglingInv, CountInv, VarSlots, Refs, Ptrs, Objs, TmpSlots
<1>2. \A op \in Frees : ~May(op)
  BY Zenon DEF Modest, May, Frees
<1>3. \A op \in CopiesSelf : May(op) => Self = {}
  BY DEF Modest, May, CodeRuns, CopiesSelf, Self
<1>4. CASE \E v \in Vars :
              \/ \E b \in Lvalues \union {Null} : PtrNew(v, b)
              \/ ObjNew(v) \/ PtrFree(v) \/ ObjDestroy(v)
  <2>1. ~(\E v \in Vars : PtrFree(v) \/ ObjDestroy(v))
    BY <1>2 DEF PtrFree, ObjDestroy, Frees
  <2>2. PICK v \in Vars : ObjNew(v) \/ \E b \in Lvalues \union {Null} : PtrNew(v, b)
    BY <1>4, <2>1
  <2>3. ObjNew(v) \/ \E b \in (Slots \ TmpSlots) \union {Null} : PtrNew(v, b)
    BY <1>1, <2>2
  <2> QED
    BY <2>3, NewModest
<1>5. CASE \E v \in Vars : TouchDying(v) \/ \E on \in BOOLEAN : HeapRefcount(v, on)
  BY <1>5, SameModest
<1>6. CASE ObjNewRejected \/ ObjNewFailed
  BY <1>6, RejectedModest, SameModest
<1>7. CASE \E a \in Lvalues, b \in Lvalues \union Self : Assign(a, b)
  <2>1. PICK a \in Lvalues, b \in Lvalues \union Self : Assign(a, b)
    BY <1>7
  <2>2. Self = {}
    BY <2>1, <1>3 DEF Assign, CopiesSelf
  <2>3. a \in VarSlots \union Refs /\ b \in Slots \ TmpSlots
    BY <2>1, <2>2, <1>1
  <2> QED
    BY <2>1, <2>3, AssignModest
<1>8. CASE \/ \E a \in Members, b \in VarSlots \union Self : AssignMember(a, b)
           \/ \E a \in VarSlots, b \in Members : AssignMember(a, b)
  <2>1. PICK a \in Members \union VarSlots, b \in VarSlots \union Members \union Self :
           AssignMember(a, b)
    BY <1>8
  <2>2. Self = {}
    BY <2>1, <1>3 DEF AssignMember, CopiesSelf
  <2>3. a \in VarSlots \union Refs /\ b \in Slots \ TmpSlots
    BY <2>1, <2>2, <1>1
  <2> QED
    BY <2>1, <2>3, AssignModest
<1>9. CASE \E a \in VarSlots \union Members : Clear(a)
  <2>1. PICK a \in VarSlots \union Members : Clear(a)
    BY <1>9
  <2>2. a \in VarSlots \union Refs /\ a \in Slots \ TmpSlots
    BY <2>1, <1>1
  <2> QED
    BY <2>1, <2>2, AssignModest
<1>10. CASE (\E mode \in GCModes : HeapGC(mode)) \/ HeapGCNested
  BY <1>2, <1>10 DEF HeapGC, HeapGCNested, Frees
<1> QED
  BY <1>4, <1>5, <1>6, <1>7, <1>8, <1>9, <1>10 DEF Statement

LEMMA CppStepModest ==
    ASSUME DanglingInv, TypeInv', [Next]_vars, CppStep
    PROVE  DanglingInv'
<1>1. Top.at \in ModestPlaces
  BY StackFacts DEF DanglingInv, CountInv, ModestFrames
<1>2. ~BaseThrow /\ ~EnvTReturn /\ ~EnvTFree /\ ~GCObj /\ ~GCObjEnd /\ ~GCPtr
      /\ ~GCAgain /\ ~GCEnd
  BY <1>1 DEF ModestPlaces, BaseThrow, EnvTReturn, EnvTFree, GCObj, GCObjEnd, GCPtr,
              GCAgain, GCEnd
<1>3. CASE CopyEnd \/ StoreEnd \/ DropOne \/ BaseEnd
  BY <1>3, EndModest
<1>4. CASE UseAfterFree \/ DropAsserts
  BY <1>4, SameModest
<1>5. CASE DropLastPtr \/ DropLastObj \/ BaseFree
  BY <1>5, DropLastPtrModest, DropLastObjModest, BaseFreeModest
<1> QED
  BY <1>2, <1>3, <1>4, <1>5 DEF CppStep

LEMMA DanglingNext ==
    ASSUME Modest, DanglingInv, [Next]_vars
    PROVE  DanglingInv'
<1>1. TypeInv'
  BY NextType DEF DanglingInv, CountInv
<1>2. ~CleanupThrows
  <2>1. Top.at = "code" => ~May("error")
    BY Zenon DEF Modest, May, CodeRuns
  <2> QED
    BY <2>1 DEF CleanupThrows
<1>3. CASE UNCHANGED vars
  BY <1>1, <1>3, SameModest
<1>4. CASE CleanupReturns
  BY <1>1, <1>4, EndModest
<1> QED
  BY <1>1, <1>2, <1>3, <1>4, StatementModest, CppStepModest
     DEF Next, CleanupEnds, Halted

LEMMA DanglingInit == Init => DanglingInv
<1> SUFFICES ASSUME Init PROVE DanglingInv
  OBVIOUS
<1>1. CountInv
  BY CountInit
<1>2. /\ ~stale /\ \A s \in Slots : holds[s] = Null
      /\ stack = <<Frame("main")>>
  BY DEF Init
<1>3. \A i \in 1..Depth : stack[i].at = "main"
  BY <1>2 DEF Depth, Frame
<1> QED
  BY <1>1, <1>2, <1>3
     DEF DanglingInv, SlotsSound, LastHeld, ModestFrames, ModestPlaces, Bases

LEMMA DanglingInvSound == DanglingInv => NoDangling
<1> SUFFICES ASSUME DanglingInv, NEW s \in VarSlots \union live
             PROVE  holds[s] \in live \union {Null}
  BY DEF NoDangling
<1>1. s \in Slots /\ \A i : s # Tmp(i)
  BY SlotFacts DEF DanglingInv, CountInv, TypeInv, TypeOK
<1> QED
  BY <1>1 DEF DanglingInv, SlotsSound

(* As long as a program calls neither PTR_FREE nor OBJ_DESTROY nor HEAP_GC, its
   CLEANUP methods do not copy SELF and end without an error, counting alone
   keeps every reference valid: no variable and no contents of a heap variable
   names what the destructors have removed. *)
THEOREM CountingLeavesNoneDangling ==
    ASSUME Modest
    PROVE  Spec => []NoDangling
<1>1. Init => DanglingInv
  BY DanglingInit
<1>2. DanglingInv /\ [Next]_vars => DanglingInv'
  BY DanglingNext
<1>3. DanglingInv => NoDangling
  BY DanglingInvSound
<1> QED
  BY <1>1, <1>2, <1>3, PTL DEF Spec
=============================================================================
