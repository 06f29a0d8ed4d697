-------------------------------- MODULE Heap --------------------------------
(***************************************************************************)
(* The dynamic heap of GDL: pointer and object heap variables, their       *)
(* reference counts, the CLEANUP methods that run when an object dies, and *)
(* the mark-and-sweep collector HEAP_GC.                                   *)
(*                                                                         *)
(* One thread runs everything, but the destructor of a reference can run   *)
(* interpreted code (CLEANUP), and that code can do anything to the heap   *)
(* before the destructor returns.  The C++ stack is therefore part of the  *)
(* state: "stack" holds one frame per C++ activation that can be suspended *)
(* while a CLEANUP method runs, and each action is one step of the top     *)
(* frame.                                                                  *)
(*                                                                         *)
(* A heap variable is named by its reference <<"ptr", id>> or <<"obj", id>>*)
(* and contains one reference (a pointer to a pointer, a member of an      *)
(* object); other contents do not matter here.                             *)
(***************************************************************************)
EXTENDS Naturals, Sequences, FiniteSets

CONSTANTS
    Vars,        \* variables the interpreted code shares (COMMON blocks)
    MaxIx,       \* bound: largest heap identifier a behaviour may allocate
    MaxDepth,    \* bound: largest number of frames on the C++ stack
    CleanupIds,  \* identifiers whose class, if an object, has a CLEANUP method
    GCModes,     \* keyword choices of HEAP_GC: sets of heaps it sweeps
    MainOps,     \* bound: the statements $MAIN$ uses
    CleanupOps   \* bound: the statements CLEANUP methods use

Ix == 1..MaxIx
Ptrs == {"ptr"} \X Ix
Objs == {"obj"} \X Ix
Refs == Ptrs \union Objs
Null == <<"null", 0>>

(* The places that can hold a reference: a variable, the contents of a heap
   variable, the temporary of a C++ frame, and a DObjGDL that obj_new lost. *)
VarSlots == {"var"} \X Vars
TmpSlots == {"tmp"} \X (1..MaxDepth)
LeakSlots == {"leak"} \X Ix
Slots == VarSlots \union Refs \union TmpSlots \union LeakSlots

Var(v) == <<"var", v>>
Tmp(i) == <<"tmp", i>>
Ptr(i) == <<"ptr", i>>
Obj(i) == <<"obj", i>>

ASSUME MaxIxAssumption == MaxIx \in Nat
ASSUME MaxDepthAssumption == MaxDepth \in Nat \ {0}
ASSUME VarsAssumption == IsFiniteSet(Vars)
ASSUME GCModesAssumption == GCModes \subseteq SUBSET {"ptr", "obj"}

VARIABLES
    live,        \* keys of GDLInterpreter::heap and objHeap
    count,       \* RefHeap::count
    enableGC,    \* RefHeap::enableGC
    holds,       \* the reference each slot holds
    heapIx,      \* GDLInterpreter::heapIx
    inProgress,  \* EnvBaseT::inProgress: objects whose CLEANUP is running
    gcPass,      \* static inProgress of EnvT::HeapGC: 0, 1 or 2
    stack,       \* C++ activations, $MAIN$ at the bottom
    stale,       \* history: the counts stopped telling the references (ResetHeap
                 \* ran while one was held, an error left AssignAt halfway)
    fate         \* "running", "terminated" or "undefined" (behaviour)

vars == <<live, count, enableGC, holds, heapIx, inProgress, gcPass, stack,
          stale, fate>>

-----------------------------------------------------------------------------
(* Frames *)

Places == {"main", "code",           \* interpreted code; a CLEANUP method
           "drop", "dropAt",         \* DecRef of the reference in its Tmp, in its
                                     \* destructor or in AssignAt
           "copy", "store",          \* assignment waiting for that DecRef
           "base", "baseEnd",        \* EnvBaseT::ObjCleanup in a destructor
           "baseAt",                 \* EnvBaseT::ObjCleanup in AssignAt
           "baseCatch", "baseThrow", \* its catch( ...)
           "envt", "envtFree",       \* EnvT::ObjCleanup
           "gcObj", "gcPtr"}         \* EnvT::HeapGC

FrameType == [at : Places, ref : Slots \union {Null}, src : Slots \union {Null},
              todo : SUBSET Refs, keep : SUBSET Refs, mode : SUBSET {"ptr", "obj"}]

Frame(at) == [at |-> at, ref |-> Null, src |-> Null,
              todo |-> {}, keep |-> {}, mode |-> {}]

Depth == Len(stack)
Top == stack[Depth]
Room(n) == Depth + n <= MaxDepth
Pop == SubSeq(stack, 1, Depth - 1)
Become(f) == Append(Pop, f)

(* A slot is dying while an assignment destroys its old value: C++ still has
   the old value in place, destroyed or no longer counted. *)
Dying(s) == \E i \in 1..Depth : stack[i].at \in {"copy", "store"}
                                 /\ stack[i].ref = s

Running == fate = "running"
CodeRuns == Running /\ Top.at \in {"main", "code"}
May(op) == CodeRuns /\ op \in (IF Top.at = "main" THEN MainOps ELSE CleanupOps)

-----------------------------------------------------------------------------
(* RefHeap and the two maps *)

IncRefMissed(cnt, r) == cnt
IncRef(cnt, r) == IF r \in live THEN [cnt EXCEPT ![r] = @ + 1] ELSE cnt

(* FreeHeapDirect, FreeObjHeapDirect: the key leaves the map first, then the
   contents are destroyed, by the frame put at depth i. *)
Erase(r, i) ==
    /\ live' = live \ {r}
    /\ count' = [count EXCEPT ![r] = 0]
    /\ enableGC' = [enableGC EXCEPT ![r] = TRUE]
    /\ holds' = [holds EXCEPT ![r] = Null, ![Tmp(i)] = holds[r]]
Kept == UNCHANGED <<live, count, enableGC, holds>>

(* The old value of slot s goes: a variable or the contents of a pointer by
   GDLDelete, a member by DecRef in AssignAt.  The frame f below finishes the
   assignment and meanwhile owns the reference new. *)
Drop(s) == Frame(IF s \in Objs THEN "dropAt" ELSE "drop")
Overwrite(f, s, new) ==
    /\ stack' = stack \o <<[f EXCEPT !.ref = s], Drop(s)>>
    /\ holds' = [holds EXCEPT ![s] = Null, ![Tmp(Depth + 1)] = new,
                              ![Tmp(Depth + 2)] = holds[s]]

-----------------------------------------------------------------------------
(* Interpreted code: $MAIN$ or a CLEANUP method *)

(* What a statement can name: a variable, *v of a pointer variable, and
   v.member or self.member of an object. *)
Named(kind) == {holds[s] : s \in VarSlots} \intersect live \intersect kind
Lvalues == VarSlots \union Named(Ptrs)
Members == Named(Objs) \union ({Top.ref} \intersect live)
Self == IF Top.at = "code" THEN {Tmp(Depth - 1)} ELSE {}

(* v = PTR_NEW( b), v = PTR_NEW( /ALLOCATE_HEAP) when b is Null *)
PtrNew(v, b) ==
    LET r == Ptr(heapIx)
        content == IF b = Null THEN Null ELSE holds[b]
    IN  /\ May("ptr_new") /\ heapIx <= MaxIx /\ Room(2)
        /\ ~Dying(Var(v)) /\ ~Dying(b)
        /\ heapIx' = heapIx + 1
        /\ live' = live \union {r}
        /\ count' = [IncRef(count, content) EXCEPT ![r] = 1]
        /\ enableGC' = [enableGC EXCEPT ![r] = TRUE]
        /\ stack' = stack \o <<[Frame("store") EXCEPT !.ref = Var(v)],
                               Frame("drop")>>
        /\ holds' = [holds EXCEPT ![r] = content, ![Var(v)] = Null,
                                  ![Tmp(Depth + 1)] = r,
                                  ![Tmp(Depth + 2)] = holds[Var(v)]]
        /\ UNCHANGED <<inProgress, gcPass, stale, fate>>

(* v = OBJ_NEW( class), INIT missing or returning true *)
ObjNew(v) ==
    LET r == Obj(heapIx)
    IN  /\ May("obj_new") /\ heapIx <= MaxIx /\ Room(2) /\ ~Dying(Var(v))
        /\ heapIx' = heapIx + 1
        /\ live' = live \union {r}
        /\ count' = [count EXCEPT ![r] = 1]
        /\ enableGC' = [enableGC EXCEPT ![r] = TRUE]
        /\ Overwrite(Frame("store"), Var(v), r)
        /\ UNCHANGED <<inProgress, gcPass, stale, fate>>

(* INIT returned false: obj_new returns a null object and forgets newObj,
   which keeps its reference for ever. *)
ObjNewRejected ==
    LET r == Obj(heapIx)
    IN  /\ May("obj_new_fails") /\ heapIx <= MaxIx
        /\ heapIx' = heapIx + 1
        /\ live' = live \union {r}
        /\ count' = [count EXCEPT ![r] = 1]
        /\ enableGC' = [enableGC EXCEPT ![r] = TRUE]
        /\ holds' = [holds EXCEPT ![<<"leak", heapIx>>] = r]
        /\ UNCHANGED <<inProgress, gcPass, stack, stale, fate>>

(* INIT threw: FreeObjHeap( objID) before newObj is deleted *)
ObjNewFailed ==
    /\ May("obj_new_fails") /\ heapIx <= MaxIx
    /\ heapIx' = heapIx + 1
    /\ UNCHANGED <<live, count, enableGC, holds, inProgress, gcPass, stack,
                   stale, fate>>

(* a = b with variables or dereferences: b is copied after the old value of
   a is gone (macro LEXPR). *)
Assign(a, b) ==
    /\ May("assign") /\ Room(2) /\ a # b /\ ~Dying(a) /\ ~Dying(b)
    /\ Overwrite([Frame("copy") EXCEPT !.src = b], a, Null)
    /\ UNCHANGED <<live, count, enableGC, heapIx, inProgress, gcPass, stale,
                   fate>>

(* a = 0: the right side is an owned temporary (ASSIGN_REPLACE). *)
Clear(a) ==
    /\ May("clear") /\ Room(2) /\ ~Dying(a)
    /\ Overwrite(Frame("store"), a, Null)
    /\ UNCHANGED <<live, count, enableGC, heapIx, inProgress, gcPass, stale,
                   fate>>

(* a = b with a member on either side: the new reference is counted first
   (AssignAt, or the temporary of a DOT node). *)
AssignMember(a, b) ==
    LET new == holds[b]
    IN  /\ May("member") /\ Room(2) /\ a # b /\ ~Dying(a) /\ ~Dying(b)
        /\ count' = IncRef(count, new)
        /\ Overwrite(Frame("store"), a, new)
        /\ UNCHANGED <<live, enableGC, heapIx, inProgress, gcPass, stale, fate>>

(* PTR_FREE, v: whatever the count is *)
PtrFree(v) ==
    LET r == holds[Var(v)]
    IN  /\ May("ptr_free") /\ Room(1) /\ ~Dying(Var(v)) /\ r \in live \intersect Ptrs
        /\ Erase(r, Depth + 1)
        /\ stack' = Append(stack, Frame("drop"))
        /\ UNCHANGED <<heapIx, inProgress, gcPass, stale, fate>>

(* HEAP_REFCOUNT( v, ENABLE=on, DISABLE=~on) *)
HeapRefcount(v, on) ==
    LET r == holds[Var(v)]
    IN  /\ May("heap_refcount") /\ ~Dying(Var(v)) /\ r \in live /\ enableGC[r] # on
        /\ enableGC' = [enableGC EXCEPT ![r] = on]
        /\ UNCHANGED <<live, count, holds, heapIx, inProgress, gcPass, stack,
                       stale, fate>>

(* a statement reads or writes a variable whose old value is being
   destroyed: it uses a deleted BaseGDL. *)
TouchDying(v) ==
    /\ CodeRuns /\ Top.at = "code" /\ Dying(Var(v))
    /\ fate' = "undefined"
    /\ UNCHANGED <<live, count, enableGC, holds, heapIx, inProgress, gcPass,
                   stack, stale>>

-----------------------------------------------------------------------------
(* The end of an assignment *)

Alive(s) == s \in Refs => s \in live

CopyEnd ==
    LET new == holds[Top.src]
    IN  /\ Running /\ Top.at = "copy" /\ Alive(Top.ref) /\ Alive(Top.src)
        /\ count' = IncRef(count, new)
        /\ holds' = [holds EXCEPT ![Top.ref] = new]
        /\ stack' = Pop
        /\ UNCHANGED <<live, enableGC, heapIx, inProgress, gcPass, stale, fate>>

StoreEnd ==
    /\ Running /\ Top.at = "store" /\ Alive(Top.ref)
    /\ holds' = [holds EXCEPT ![Top.ref] = holds[Tmp(Depth)],
                              ![Tmp(Depth)] = Null]
    /\ stack' = Pop
    /\ UNCHANGED <<live, count, enableGC, heapIx, inProgress, gcPass, stale,
                   fate>>

(* the target or the source went away with the old value *)
UseAfterFree ==
    /\ Running /\ Top.at \in {"copy", "store"}
    /\ ~Alive(Top.ref) \/ (Top.at = "copy" /\ ~Alive(Top.src))
    /\ fate' = "undefined"
    /\ UNCHANGED <<live, count, enableGC, holds, heapIx, inProgress, gcPass,
                   stack, stale>>

-----------------------------------------------------------------------------
(* ~Data_<SpDPtr>, ~Data_<SpDObj>: DecRef, DecRefObj of the reference in the
   temporary of the top frame *)

Dropping == Running /\ Top.at \in {"drop", "dropAt"}
Dropped == holds[Tmp(Depth)]
LastRefOr == count[Dropped] = 1 \/ enableGC[Dropped]
LastRef == count[Dropped] = 1 /\ enableGC[Dropped]

(* not on the heap, or still referenced, or not collected automatically *)
DropOne ==
    /\ Dropping
    /\ \/ Dropped \notin live /\ UNCHANGED count
       \/ /\ Dropped \in live /\ count[Dropped] > 0
          /\ ~LastRef \/ Dropped \in inProgress
          /\ count' = [count EXCEPT ![Dropped] = @ - 1]
    /\ holds' = [holds EXCEPT ![Tmp(Depth)] = Null]
    /\ stack' = Pop
    /\ UNCHANGED <<live, enableGC, heapIx, inProgress, gcPass, stale, fate>>

(* assert(count > 0) in RefHeap::Dec *)
DropAsserts ==
    /\ Dropping /\ Dropped \in live /\ count[Dropped] = 0
    /\ fate' = "terminated"
    /\ UNCHANGED <<live, count, enableGC, holds, heapIx, inProgress, gcPass,
                   stack, stale>>

(* FreeHeapDirect: the destructor goes on with the contents *)
DropLastPtr ==
    /\ Dropping /\ Dropped \in live \intersect Ptrs /\ LastRef
    /\ Erase(Dropped, Depth)
    /\ stack' = Become(Frame("drop"))
    /\ UNCHANGED <<heapIx, inProgress, gcPass, stale, fate>>

HasCleanupMissed(r) == FALSE
HasCleanup(r) == r[2] \in CleanupIds

(* callStack.back()->ObjCleanup( id), the version of EnvBaseT; SELF takes the
   count back to one *)
DropLastObj ==
    LET r == Dropped
        f == [Frame(IF Top.at = "drop" THEN "base" ELSE "baseAt") EXCEPT !.ref = r]
    IN  /\ Dropping /\ r \in (live \intersect Objs) \ inProgress /\ LastRef
        /\ inProgress' = inProgress \union {r}
        /\ IF HasCleanup(r)
           THEN /\ Room(1)
                /\ stack' = Append(Become(f), [Frame("code") EXCEPT !.ref = r])
                /\ UNCHANGED <<count, holds>>
           ELSE /\ stack' = Become(f)
                /\ count' = [count EXCEPT ![r] = 0]
                /\ holds' = [holds EXCEPT ![Tmp(Depth)] = Null]
        /\ UNCHANGED <<live, enableGC, heapIx, gcPass, stale, fate>>

(* FreeObjHeap once CLEANUP has returned or failed *)
BaseFree ==
    LET r == Top.ref
        f == [Top EXCEPT !.at = IF @ = "baseCatch" THEN "baseThrow" ELSE "baseEnd"]
    IN  /\ Running /\ Top.at \in {"base", "baseAt", "baseCatch"}
        /\ IF r \in live
           THEN /\ Room(1)
                /\ Erase(r, Depth + 1)
                /\ stack' = Append(Become(f), Frame("drop"))
           ELSE stack' = Become(f) /\ Kept
        /\ UNCHANGED <<heapIx, inProgress, gcPass, stale, fate>>

(* ~InProgressGuard, and inProgress.erase in EnvT::ObjCleanup *)
UnmarkForgotten(r) == inProgress
Unmark(r) == inProgress \ {r}

(* DecRefObj of an object that is in progress: ObjCleanup returns at once *)
DecRefQuiet(r) ==
    IF r \in live /\ count[r] > 0 THEN [count EXCEPT ![r] = @ - 1] ELSE count

(* the guards of ObjCleanup: first SELF, then inProgress *)
BaseEnd ==
    LET r == Top.ref
    IN  /\ Running /\ Top.at = "baseEnd"
        /\ count' = DecRefQuiet(holds[Tmp(Depth)])
        /\ holds' = [holds EXCEPT ![Tmp(Depth)] = Null]
        /\ inProgress' = Unmark(r)
        /\ stack' = Pop
        /\ UNCHANGED <<live, enableGC, heapIx, gcPass, stale, fate>>

(* The error goes on through the same guards and through AssignAt, which has
   counted the new reference and not yet replaced the old one. *)
BaseThrow ==
    LET a == stack[Depth - 1].ref
        new == holds[Tmp(Depth - 1)]
    IN  /\ Running /\ Top.at = "baseThrow"
        /\ count' = DecRefQuiet(holds[Tmp(Depth)])
        /\ holds' = [holds EXCEPT ![Tmp(Depth)] = Null, ![Tmp(Depth - 1)] = Null,
                                  ![a] = IF Alive(a) THEN Top.ref ELSE @]
        /\ inProgress' = Unmark(Top.ref)
        /\ stack' = SubSeq(stack, 1, Depth - 2)
        /\ stale' = (stale \/ new \in live)
        /\ UNCHANGED <<live, enableGC, heapIx, gcPass, fate>>

-----------------------------------------------------------------------------
(* EnvT::ObjCleanup, called by OBJ_DESTROY and by HEAP_GC.  below is the stack
   of the caller. *)

CleanableTwice(r) == r \in live \intersect Objs
Cleanable(r) == r \in (live \intersect Objs) \ inProgress

EnvTCleanup(r, below) ==
    LET i == Len(below) + 1
    IN  IF HasCleanup(r)
        THEN /\ i + 1 <= MaxDepth
             /\ stack' = below \o <<[Frame("envt") EXCEPT !.ref = r],
                                    [Frame("code") EXCEPT !.ref = r]>>
             /\ holds' = [holds EXCEPT ![Tmp(i)] = r]
             /\ count' = [count EXCEPT ![r] = @ + 1]
             /\ inProgress' = inProgress \union {r}
             /\ UNCHANGED <<live, enableGC>>
        ELSE /\ i <= MaxDepth
             /\ Erase(r, i)
             /\ stack' = Append(below, Frame("drop"))
             /\ UNCHANGED inProgress

ObjDestroy(v) ==
    /\ May("obj_destroy") /\ ~Dying(Var(v)) /\ Cleanable(holds[Var(v)])
    /\ EnvTCleanup(holds[Var(v)], stack)
    /\ UNCHANGED <<heapIx, gcPass, stale, fate>>

(* CLEANUP returned: inProgress.erase, then the guard of SELF *)
EnvTReturn ==
    /\ Running /\ Top.at = "envt" /\ Room(1)
    /\ inProgress' = Unmark(Top.ref)
    /\ stack' = Append(Become([Top EXCEPT !.at = "envtFree"]), Frame("drop"))
    /\ holds' = [holds EXCEPT ![Tmp(Depth)] = Null,
                              ![Tmp(Depth + 1)] = holds[Tmp(Depth)]]
    /\ UNCHANGED <<live, count, enableGC, heapIx, gcPass, stale, fate>>

EnvTFree ==
    /\ Running /\ Top.at = "envtFree"
    /\ IF Top.ref \in live
       THEN Erase(Top.ref, Depth) /\ stack' = Become(Frame("drop"))
       ELSE stack' = Pop /\ Kept
    /\ UNCHANGED <<heapIx, inProgress, gcPass, stale, fate>>

CleanupReturns ==
    /\ Running /\ Top.at = "code"
    /\ stack' = Pop
    /\ UNCHANGED <<live, count, enableGC, holds, heapIx, inProgress, gcPass,
                   stale, fate>>

(* catch( ...) of HeapGC when the error passes through it *)
UnwoundForgotten(passed) == gcPass
Unwound(passed) == IF passed THEN 0 ELSE gcPass

(* An error leaves CLEANUP.  EnvBaseT::ObjCleanup catches it, and throws it
   on into AssignAt or into a destructor (noexcept).  Under EnvT::ObjCleanup
   only the guards run: SELF is dropped while inProgress still holds the
   object, so nothing more is called, and nothing removes it from inProgress;
   HEAP_GC resets its own flag. *)
CleanupThrows ==
    LET below == stack[Depth - 1]
        gcBelow == stack[Depth - 2].at = "gcObj"
    IN  /\ Top.at = "code" /\ May("error")
        /\ \/ /\ below.at = "base"
              /\ fate' = "terminated"
              /\ UNCHANGED <<count, holds, gcPass, stack>>
           \/ /\ below.at = "baseAt"
              /\ stack' = [Pop EXCEPT ![Depth - 1].at = "baseCatch"]
              /\ UNCHANGED <<count, holds, gcPass, fate>>
           \/ /\ below.at = "envt"
              /\ holds' = [holds EXCEPT ![Tmp(Depth - 1)] = Null]
              /\ count' = DecRefQuiet(holds[Tmp(Depth - 1)])
              /\ stack' = SubSeq(stack, 1, IF gcBelow THEN Depth - 3
                                                      ELSE Depth - 2)
              /\ gcPass' = Unwound(gcBelow)
              /\ UNCHANGED fate
        /\ UNCHANGED <<live, enableGC, heapIx, inProgress, stale>>

-----------------------------------------------------------------------------
(* HEAP_GC *)

(* the least set of heap variables that holds the roots and the contents of
   its members: the recursion Add, AddPtr, AddObj, AddStruct *)
Reached(roots) ==
    LET Closed(S) == /\ roots \intersect live \subseteq S
                     /\ \A r \in S : holds[r] \in live => holds[r] \in S
    IN  {r \in live : \A S \in SUBSET live : Closed(S) => r \in S}

(* common blocks, and SELF of the CLEANUP methods on the call stack; C++
   temporaries are not searched *)
RootsOfCommons == {holds[s] : s \in VarSlots}
Roots == {holds[s] : s \in VarSlots}
           \union {stack[i].ref : i \in {j \in 1..Depth : stack[j].at = "code"}}

Sweep(mode) ==
    LET accessible == Reached(Roots)
    IN  [Frame("gcObj") EXCEPT
            !.mode = mode,
            !.todo = IF "obj" \in mode THEN (live \intersect Objs) \ accessible
                                       ELSE {},
            !.keep = accessible \intersect Ptrs]

(* in the order of the identifiers, as std::map iterates *)
First(S) == CHOOSE r \in S : \A q \in S : r[2] <= q[2]

Mentioned == {holds[s] : s \in Slots} \union {stack'[i].ref : i \in DOMAIN stack'}

(* heap_gc after HeapGC: ResetHeap of two empty heaps only restarts heapIx *)
ResetToZero ==
    IF live = {} THEN heapIx' = 0 /\ stale' = (stale \/ Mentioned # {Null})
                 ELSE UNCHANGED <<heapIx, stale>>
ResetIfEmpty ==
    IF live = {} THEN heapIx' = 1 /\ stale' = (stale \/ Mentioned # {Null})
                 ELSE UNCHANGED <<heapIx, stale>>

HeapGC(mode) ==
    /\ May("heap_gc") /\ Room(1) /\ gcPass = 0
    /\ gcPass' = 1
    /\ stack' = Append(stack, Sweep(mode))
    /\ UNCHANGED <<live, count, enableGC, holds, heapIx, inProgress, stale, fate>>

(* called within the CLEANUP of an object HEAP_GC is sweeping *)
HeapGCNestedLost ==
    /\ May("heap_gc") /\ gcPass > 0
    /\ UNCHANGED vars
HeapGCNested ==
    /\ May("heap_gc") /\ gcPass > 0
    /\ gcPass' = 2
    /\ UNCHANGED <<live, count, enableGC, holds, inProgress, stack, fate>>
    /\ ResetIfEmpty

GCObj ==
    LET r == First(Top.todo)
        next == Become([Top EXCEPT !.todo = @ \ {r}])
    IN  /\ Running /\ Top.at = "gcObj" /\ Top.todo # {}
        /\ IF Cleanable(r)
           THEN EnvTCleanup(r, next)
           ELSE stack' = next /\ Kept /\ UNCHANGED inProgress
        /\ UNCHANGED <<heapIx, gcPass, stale, fate>>

GCObjEnd ==
    /\ Running /\ Top.at = "gcObj" /\ Top.todo = {}
    /\ stack' = Become([Frame("gcPtr") EXCEPT
                          !.mode = Top.mode,
                          !.todo = IF "ptr" \in Top.mode
                                   THEN (live \intersect Ptrs) \ Top.keep
                                   ELSE {}])
    /\ UNCHANGED <<live, count, enableGC, holds, heapIx, inProgress, gcPass,
                   stale, fate>>

GCPtr ==
    LET r == First(Top.todo)
        next == Become([Top EXCEPT !.todo = @ \ {r}])
    IN  /\ Running /\ Top.at = "gcPtr" /\ Top.todo # {}
        /\ IF r \in live
           THEN /\ Room(1)
                /\ Erase(r, Depth + 1)
                /\ stack' = Append(next, Frame("drop"))
           ELSE stack' = next /\ Kept
        /\ UNCHANGED <<heapIx, inProgress, gcPass, stale, fate>>

GCForEver ==
    /\ Running /\ Top.at = "gcPtr" /\ Top.todo = {} /\ gcPass = 2
    /\ stack' = Become(Sweep(Top.mode))
    /\ UNCHANGED <<live, count, enableGC, holds, heapIx, inProgress, gcPass,
                   stale, fate>>
GCAgain ==
    /\ Running /\ Top.at = "gcPtr" /\ Top.todo = {} /\ gcPass = 2
    /\ gcPass' = 1
    /\ stack' = Become(Sweep(Top.mode))
    /\ UNCHANGED <<live, count, enableGC, holds, heapIx, inProgress, stale, fate>>

GCEnd ==
    /\ Running /\ Top.at = "gcPtr" /\ Top.todo = {} /\ gcPass # 2
    /\ gcPass' = 0
    /\ stack' = Pop
    /\ ResetIfEmpty
    /\ UNCHANGED <<live, count, enableGC, holds, inProgress, fate>>

-----------------------------------------------------------------------------
Init ==
    /\ live = {}
    /\ count = [r \in Refs |-> 0]
    /\ enableGC = [r \in Refs |-> TRUE]
    /\ holds = [s \in Slots |-> Null]
    /\ heapIx = 1
    /\ inProgress = {}
    /\ gcPass = 0
    /\ stack = <<Frame("main")>>
    /\ stale = FALSE
    /\ fate = "running"

Statement ==
    \/ \E v \in Vars :
          \/ \E b \in Lvalues \union {Null} : PtrNew(v, b)
          \/ ObjNew(v) \/ PtrFree(v) \/ ObjDestroy(v) \/ TouchDying(v)
          \/ \E on \in BOOLEAN : HeapRefcount(v, on)
    \/ ObjNewRejected \/ ObjNewFailed
    \/ \E a \in Lvalues, b \in Lvalues \union Self : Assign(a, b)
    \/ \E a \in Members, b \in VarSlots \union Self : AssignMember(a, b)
    \/ \E a \in VarSlots, b \in Members : AssignMember(a, b)
    \/ \E a \in VarSlots \union Members : Clear(a)
    \/ \E mode \in GCModes : HeapGC(mode)
    \/ HeapGCNested

CppStep ==
    \/ CopyEnd \/ StoreEnd \/ UseAfterFree
    \/ DropOne \/ DropAsserts \/ DropLastPtr \/ DropLastObj
    \/ BaseFree \/ BaseEnd \/ BaseThrow
    \/ EnvTReturn \/ EnvTFree
    \/ GCObj \/ GCObjEnd \/ GCPtr \/ GCAgain \/ GCEnd

CleanupEnds == CleanupReturns \/ CleanupThrows

(* the process is gone, or anything may happen *)
Halted == ~Running /\ UNCHANGED vars

Next == Statement \/ CleanupEnds \/ CppStep \/ Halted

Spec == Init /\ [][Next]_vars

-----------------------------------------------------------------------------
(* Type correctness; a dead identifier keeps the defaults of RefHeap. *)
TypeOK ==
    /\ live \subseteq Refs
    /\ count \in [Refs -> Nat]
    /\ enableGC \in [Refs -> BOOLEAN]
    /\ holds \in [Slots -> Refs \union {Null}]
    /\ heapIx \in 1..(MaxIx + 1)
    /\ inProgress \subseteq Objs
    /\ gcPass \in 0..2
    /\ stack \in Seq(FrameType)
    /\ Depth \in 1..MaxDepth
    /\ stale \in BOOLEAN
    /\ fate \in {"running", "terminated", "undefined"}

Holders(r) == {s \in Slots : holds[s] = r}

(* The count of every heap variable is the number of references to it, in
   every interleaving of destructors, CLEANUP methods and HEAP_GC, whatever
   PTR_FREE and OBJ_DESTROY did before; until ResetHeap hands an identifier
   out again that a variable still holds. *)
CountExact ==
    Running /\ ~stale => \A r \in live : count[r] = Cardinality(Holders(r))

(* Reference counting destroys a heap variable, or starts the CLEANUP of an
   object, only when the reference being dropped is the only one. *)
DiesUnreferenced ==
    [][Dropping /\ ~stale =>
         \A r \in (live \ live') \union (inProgress' \ inProgress) :
            Holders(r) = {Tmp(Depth)}]_vars

(* No object has two CLEANUP calls on the stack at once, although CLEANUP can
   destroy, drop and collect its own object. *)
CleanupExclusive ==
    \A i, j \in 1..Depth :
        stack[i].at = "code" /\ stack[j].at = "code"
            /\ stack[i].ref = stack[j].ref => i = j

(* HEAP_GC sweeps at most once at a time, and its flag says so: an error in a
   CLEANUP method does not leave it disabled. *)
GCFlag ==
    LET sweeps == {i \in 1..Depth : stack[i].at \in {"gcObj", "gcPtr"}}
    IN  IF gcPass = 0 THEN sweeps = {} ELSE Cardinality(sweeps) = 1

(* No reference is dropped more often than it was counted: the assertion of
   RefHeap::Dec. *)
CountPositive == Dropping /\ Dropped \in live => count[Dropped] > 0

(* No variable and no contents names a heap variable that is gone: for
   programs without PTR_FREE, OBJ_DESTROY and HEAP_GC whose CLEANUP methods
   neither copy SELF nor fail.  A copy of SELF outlives the object; and the
   variable that AssignAt was about to write keeps its old reference when the
   CLEANUP of that object fails. *)
NoDangling ==
    Running => \A s \in VarSlots \union live : holds[s] \in live \union {Null}

=============================================================================
