----------------------------- MODULE MCDispatch -----------------------------
(* Bounds of the run: stacks of three, with every statement, setting and    *)
(* user; and stacks so high that a line typed at an inner prompt calls      *)
(* routines and is stopped in them, with one setting of ON_ERROR and        *)
(* neither call-backs nor ON_IOERROR.                                       *)
EXTENDS Dispatch, TLC

Low ==
    /\ Len(callStack) <= 3
    /\ Len(acts) <= 3 \/ (Len(acts) = 4 /\ InLoop(acts))

Plain ==
    /\ \A i \in DOMAIN callStack : callStack[i].onError \in {-1, 2} /\ ~callStack[i].ioError
    /\ \A i \in DOMAIN acts : acts[i].kind # "event"
    /\ ~thrown.io
    /\ ~leaked

Explored == Low \/ Plain
=============================================================================
