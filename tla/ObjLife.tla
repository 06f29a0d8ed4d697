------------------------------- MODULE ObjLife ------------------------------
(***************************************************************************)
(* What the heap promises about the life of an object whatever order its   *)
(* references are dropped in: it is never removed before its CLEANUP has   *)
(* returned, never while CLEANUP runs, and an object whose CLEANUP failed  *)
(* is removed without another call or never touched again.  A CLEANUP that *)
(* returned may run again before the removal.                              *)
(***************************************************************************)
CONSTANTS Objects,     \* possible objects
          WithCleanup  \* those whose class has a CLEANUP method

VARIABLE phase

Phases == {"absent", "alive", "cleaning", "cleaned", "failed", "stuck"}

Move(o, from, to) == /\ phase[o] \in from
                     /\ phase' = [phase EXCEPT ![o] = to]

Init == phase = [o \in Objects |-> "absent"]

Create(o) == Move(o, {"absent"}, "alive")
CleanupBegins(o) == o \in WithCleanup /\ Move(o, {"alive", "cleaned"}, "cleaning")
CleanupReturns(o) == Move(o, {"cleaning"}, "cleaned")
CleanupFails(o) == \E to \in {"failed", "stuck"} : Move(o, {"cleaning"}, to)
SkipCleanup(o) == o \notin WithCleanup /\ Move(o, {"alive"}, "cleaned")
Remove(o) == Move(o, IF o \in WithCleanup THEN {"cleaned", "failed"}
                                          ELSE {"alive", "cleaned"}, "absent")

Next == \E o \in Objects :
           \/ Create(o) \/ CleanupBegins(o) \/ CleanupReturns(o)
           \/ CleanupFails(o) \/ SkipCleanup(o) \/ Remove(o)

Spec == Init /\ [][Next]_phase
=============================================================================
