----------------------------- MODULE HeapSweep ------------------------------
(* What HEAP_GC promises.  "doomed" remembers the heap variables nothing could
   reach when a HEAP_GC statement ran, the nested ones included. *)
EXTENDS Heap

VARIABLE doomed

GCStatement == (\E mode \in GCModes : HeapGC(mode)) \/ HeapGCNested

(* what interpreted code can name: the variables, and the SELF of every CLEANUP
   method that has not returned *)
Nameable ==
    {holds[s] : s \in VarSlots}
      \union {holds[Tmp(i - 1)] : i \in {j \in 1..Depth : stack[j].at = "code"}}
Unreachable == live \ Reached(Nameable)

SweepInit == Init /\ doomed = {}

SweepNext ==
    /\ Next
    /\ doomed' = IF GCStatement THEN doomed \union Unreachable
                 ELSE IF GCEnd \/ gcPass' = 0 THEN {}
                 ELSE doomed

SweepSpec == SweepInit /\ [][SweepNext]_<<vars, doomed>>

(* HEAP_GC never frees a pointer that a variable or the SELF of a running
   CLEANUP method can reach, as long as CLEANUP methods only let go of
   references: the marks it sweeps by are older than those methods. *)
SweepSparesReachable ==
    [][Running /\ Top.at = "gcPtr" => Reached(Nameable) \ live' = {}]_vars

(* When HEAP_GC returns, what was unreachable at any HEAP_GC statement that
   ran meanwhile is gone: the calls within CLEANUP are not lost.  For CLEANUP
   methods that do not fail, and HEAP_GC without /PTR and /OBJ. *)
SweepCollectsDoomed ==
    [][GCEnd => doomed \intersect live = {}]_<<vars, doomed>>

(* the scheduling of one thread: a CLEANUP method terminates, and so does
   the C++ code around it *)
FairSpec ==
    SweepSpec /\ WF_<<vars, doomed>>(SweepNext /\ CppStep)
              /\ SF_<<vars, doomed>>(SweepNext /\ CleanupReturns)

(* HEAP_GC returns, however often CLEANUP methods call it again. *)
SweepEnds == gcPass > 0 ~> gcPass = 0 \/ ~Running

(* Every CLEANUP that begins comes to its end, and its object can be found
   again if its identifier comes back: for CLEANUP methods that do not fail.
   The object of one that fails under OBJ_DESTROY or HEAP_GC is left in
   inProgress (EnvT::ObjCleanup, envt.cpp:686). *)
CleanupFinishes ==
    \A o \in Objs : o \in inProgress ~> o \notin inProgress \/ ~Running
=============================================================================
