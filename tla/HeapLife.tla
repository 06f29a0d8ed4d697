------------------------------ MODULE HeapLife ------------------------------
(* The heap implements the life cycle of objects. *)
EXTENDS Heap

Frames(places, o) == {i \in 1..Depth : stack[i].at \in places
                                         /\ stack[i].ref = o}

Phase(o) ==
    IF o \notin live THEN "absent"
    ELSE IF Frames({"code"}, o) # {} THEN "cleaning"
    ELSE IF Frames({"base", "baseAt", "envt", "envtFree"}, o) # {} THEN "cleaned"
    ELSE IF Frames({"baseCatch"}, o) # {} THEN "failed"
    ELSE IF o \in inProgress THEN "stuck"
    ELSE "alive"

Life == INSTANCE ObjLife WITH
            Objects <- Objs,
            WithCleanup <- {o \in Objs : o[2] \in CleanupIds},
            phase <- [o \in Objs |-> Phase(o)]

(* Every behaviour of the heap follows the life cycle: no path through the
   two ObjCleanup, FreeObjHeap, DecRefObj and HeapGC removes an object whose
   CLEANUP has not returned. *)
ObjectsLive == Life!Spec
=============================================================================
