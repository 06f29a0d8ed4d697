------------------------------ MODULE Dispatch ------------------------------
(***************************************************************************)
(* How an error of a program finds its handler (GDLInterpreter::statement, *)
(* DInterpreter::InnerInterpreterLoop, EXECUTE, RETALL).                   *)
(*                                                                         *)
(* Two stacks grow and shrink together: the call stack of environments,    *)
(* one for $MAIN$ and for every routine, which holds what ON_IOERROR,      *)
(* CATCH and ON_ERROR asked for, and the stack of C++ activations, of the  *)
(* routines, of the lines EXECUTE and the prompts run, and of the inner    *)
(* interpreter loops that STOP and errors open.  An error is a C++         *)
(* exception that leaves activation after activation; each looks at the    *)
(* environment that is then on top of the call stack.                      *)
(*                                                                         *)
(* A statement is one step: it may raise an error wherever it stands.      *)
(* Typed lines and the strings of EXECUTE are one statement.  The main     *)
(* program of .RUN, batch files and nested statement lists are left out.   *)
(***************************************************************************)
EXTENDS Integers, Sequences, FiniteSets, SequencesExt, FiniteSetsExt

CONSTANTS
    OnErrors,       \* what ON_ERROR is called with
    MaxStack,       \* bound: environments
    MaxActs,        \* bound: activations; opening an inner loop adds one
    Ops             \* what programs and users do

AllOps == {"execute", "ioerror", "catch", "cancel", "stop", "retall", "reset", "event", "skip"}

ASSUME OnErrorsAssumption == OnErrors \subseteq 0 .. 3
ASSUME BoundsAssumption == MaxStack \in Nat \ {0} /\ MaxActs \in Nat
ASSUME OpsAssumption == Ops \subseteq AllOps

VARIABLES
    callStack,      \* the environments
    acts,           \* the activations
    enable,         \* interruptEnable: an error may open an inner loop
    inner,          \* inInnerInterpreterLoop
    thrown,         \* the error that is under way
    expect,         \* history: where it has to end, by the rules
    leaked,         \* history: an error has left a call-back's environment behind
    prompt          \* history: what the user is doing at the innermost inner loop

vars == <<callStack, acts, enable, inner, thrown, expect, leaked, prompt>>

-----------------------------------------------------------------------------
(* Environments and activations *)

Env == [onError : -1 .. 3, ioError : BOOLEAN, catch : BOOLEAN]

NewEnv == [onError |-> -1, ioError |-> FALSE, catch |-> FALSE]

Loops == {"stop", "halt"}                   \* InnerInterpreterLoop, by STOP and by an error
Runs == {"line", "call", "execute", "event"}    \* a statement loop

(* at: the statement that runs is one of a routine's body, or of a line;   *)
(* or the loop is over, with RC_OK, RC_RETURN or RC_ABORT.                 *)
(* env: the position in the call stack of the environment it runs in.      *)
(* saved: the value guard of execute().                                    *)
Act == [kind : Loops \cup Runs, at : {"body", "line", "end", "return", "abort"},
        env : Nat, saved : BOOLEAN]

NoError == [up |-> FALSE, io |-> FALSE, target |-> 0, lined |-> FALSE]

NoExpect == [at |-> 0, jump |-> FALSE]

(* none: no inner loop is open.  waits: the innermost one asks for a line. *)
(* typed: a line typed there is under way; dropped: one of its errors has  *)
(* been ignored already.  stale: the inner loop was left by .CONTINUE,     *)
(* .STEP, RETURN, RETALL or .RESET_SESSION, or a call-back came while it   *)
(* waited, and no inner loop has asked for a line since.                   *)
Prompts == {"none", "waits", "typed", "dropped", "stale"}

TypeOK ==
    /\ callStack \in Seq(Env) /\ Len(callStack) \in 1 .. MaxStack
    /\ acts \in Seq(Act) /\ Len(acts) <= MaxActs + 1
    /\ enable \in BOOLEAN
    /\ inner \in BOOLEAN
    /\ thrown \in [up : BOOLEAN, io : BOOLEAN, target : 0 .. MaxStack, lined : BOOLEAN]
    /\ expect \in [at : 0 .. MaxActs + 1, jump : BOOLEAN]
    /\ leaked \in BOOLEAN
    /\ prompt \in Prompts

Init ==
    /\ callStack = <<NewEnv>>
    /\ acts = <<>>
    /\ enable = TRUE
    /\ inner = FALSE
    /\ thrown = NoError
    /\ expect = NoExpect
    /\ leaked = FALSE
    /\ prompt = "none"

Back == Last(callStack)

Top == Last(acts)

Below == Front(acts)

NewAct(kind, at, env) == [kind |-> kind, at |-> at, env |-> env, saved |-> enable]

(* The prompt of the main loop, or of an inner one. *)
AtPrompt == ~thrown.up /\ (acts # <<>> => Top.kind \in Loops)

Stands == acts # <<>> /\ Top.kind \in Runs /\ Top.at \in {"body", "line"}

Running == ~thrown.up /\ Stands

Room == Len(acts) < MaxActs

TopAt(at) == [acts EXCEPT ![Len(acts)].at = at]

(* The statement is done; a line has only one. *)
Stepped(as) ==
    IF as # <<>> /\ Last(as).at = "line" THEN [as EXCEPT ![Len(as)].at = "end"] ELSE as

\* Plausible error: the guard takes one environment too many.
CutTooFar(stack, n) == SubSeq(stack, 1, n - 1)

Cut(stack, n) == IF Len(stack) > n THEN SubSeq(stack, 1, n) ELSE stack

-----------------------------------------------------------------------------
(* What an environment asks for *)

Asks(env) ==
    /\ callStack' = [callStack EXCEPT ![Len(callStack)] = env]
    /\ acts' = Stepped(acts)
    /\ UNCHANGED <<enable, inner, thrown, expect, leaked, prompt>>

(* ON_IOERROR names a label, which a line cannot have. *)
OnIoError(set) ==
    /\ "ioerror" \in Ops
    /\ Running
    /\ Top.at = "body"
    /\ Asks([Back EXCEPT !.ioError = set])

(* CATCH remembers the statement after it: a line has none. *)
Catch ==
    /\ "catch" \in Ops
    /\ Running
    /\ Asks([Back EXCEPT !.catch = Top.at = "body"])

CatchCancel ==
    /\ "cancel" \in Ops
    /\ Running
    /\ Asks([Back EXCEPT !.catch = FALSE])

OnError(value) ==
    /\ Running
    /\ Asks([Back EXCEPT !.onError = value])

-----------------------------------------------------------------------------
(* Activations *)

InLoop(as) == as # <<>> /\ Last(as).kind \in Loops

TypeLine ==
    /\ AtPrompt
    /\ Room
    /\ acts' = Append(acts, NewAct("line", "line", Len(callStack)))
    /\ prompt' = IF prompt = "waits" THEN "typed" ELSE prompt
    /\ UNCHANGED <<callStack, enable, inner, thrown, expect, leaked>>

\* Plausible error: the environment of a call is not guarded.
GuardedNever(act) == FALSE

(* StackGuard: the environment goes with the activation.  The call-backs   *)
(* of IDL_IDLBridge push theirs without one.                               *)
Guarded(act) == act.kind = "call"

Enters(kind) ==
    /\ Room
    /\ Len(callStack) < MaxStack
    /\ callStack' = Append(callStack, NewEnv)
    /\ acts' = Append(acts, NewAct(kind, "body", Len(callStack) + 1))
    /\ UNCHANGED <<enable, inner, thrown, expect, leaked>>

Call == Running /\ Enters("call") /\ UNCHANGED prompt

(* g2gEventDispatcher, from GetLine at a prompt, or from WAIT. *)
Event ==
    /\ "event" \in Ops
    /\ ~thrown.up
    /\ ~Stands => AtPrompt
    /\ Enters("event")
    /\ prompt' = IF InLoop(acts) THEN "stale" ELSE prompt

Execute ==
    /\ "execute" \in Ops
    /\ Running
    /\ Room
    /\ acts' = Append(acts, NewAct("execute", "line", Len(callStack)))
    /\ enable' = FALSE
    /\ UNCHANGED <<callStack, inner, thrown, expect, leaked, prompt>>

(* RETURN, or the end of a routine. *)
Return ==
    /\ Running
    /\ \E how \in {"end", "return"} :
        /\ how = "end" => Top.at = "body"
        /\ acts' = TopAt(how)
    /\ UNCHANGED <<callStack, enable, inner, thrown, expect, leaked, prompt>>

Over == ~thrown.up /\ acts # <<>> /\ Top.kind \in Runs /\ Top.at \in {"end", "return", "abort"}

(* The activation of a routine, or of a call-back, is left in order. *)
LeaveCall ==
    /\ Over
    /\ Top.kind \in {"call", "event"}
    /\ callStack' = IF Top.kind = "event" THEN Front(callStack)
                    ELSE Cut(callStack, Top.env - 1)
    /\ acts' = Stepped(Below)
    /\ UNCHANGED <<enable, inner, thrown, expect, leaked, prompt>>

LeaveExecute ==
    /\ Over
    /\ Top.kind = "execute"
    /\ acts' = Stepped(Below)
    /\ enable' = Top.saved
    /\ UNCHANGED <<callStack, inner, thrown, expect, leaked, prompt>>

(* The line is done: an inner loop prompts again. *)
AsksAgain(as) ==
    /\ inner' = IF InLoop(as) THEN TRUE ELSE inner
    /\ prompt' = IF InLoop(as) THEN "waits" ELSE prompt

(* A typed RETURN leaves the inner loop with RC_RETURN; after any other    *)
(* line the loop prompts again, the flag cleared and set.                  *)
LeaveLine ==
    /\ Over
    /\ Top.kind = "line"
    /\ IF InLoop(Below) /\ Top.at = "return"
       THEN /\ acts' = [Front(Below) EXCEPT ![Len(Below) - 1].at = "return"]
            /\ prompt' = "stale"
            /\ UNCHANGED inner
       ELSE /\ acts' = Below
            /\ AsksAgain(Below)
    /\ UNCHANGED <<callStack, enable, thrown, expect, leaked>>

-----------------------------------------------------------------------------
(* Inner loops *)

(* NewInterpreterInstance: at the main prompt's own line there is none. *)
StaysInMain(lined) == Len(callStack) <= 1 /\ ~lined

Opens(kind) ==
    /\ acts' = Append(acts, NewAct(kind, "body", Len(callStack)))
    /\ inner' = TRUE
    /\ prompt' = "waits"

(* STOP, within EXECUTE too (DEBUG_PROCESS_STOP), and Control-C. *)
Stop ==
    /\ "stop" \in Ops
    /\ Running
    /\ IF StaysInMain(Len(acts) > 1) THEN acts' = TopAt("abort") /\ UNCHANGED <<inner, prompt>>
                                     ELSE Opens("stop")
    /\ UNCHANGED <<callStack, enable, thrown, expect, leaked>>

(* .CONTINUE and .STEP: InnerInterpreterLoop returns RC_OK, the flag set.  *)
(* After an error the statement that failed is executed again.             *)
Continue ==
    /\ ~thrown.up
    /\ InLoop(acts)
    /\ acts' = IF Top.kind = "stop" THEN Stepped(Below) ELSE Below
    /\ prompt' = "stale"
    /\ UNCHANGED <<callStack, enable, inner, thrown, expect, leaked>>

(* .SKIP moves the statement to go on with, maybe past the last one. *)
Skip ==
    /\ "skip" \in Ops
    /\ ~thrown.up
    /\ InLoop(acts)
    /\ acts' = [acts EXCEPT ![Len(acts) - 1].at = "end"]
    /\ UNCHANGED <<callStack, enable, inner, thrown, expect, leaked, prompt>>

-----------------------------------------------------------------------------
(* RETALL *)

(* What is left when every guard on the way has gone: RetAllException is   *)
(* caught by InterpreterLoop only, and finds the flag as it was.           *)
Unguarded ==
    LET calls == {i \in DOMAIN acts : Guarded(acts[i])}
    IN IF calls = {} THEN callStack ELSE Cut(callStack, acts[Min(calls)].env - 1)

\* Plausible error: interruptEnable is set back by execute(), not by a guard.
UnsavedLate == enable

Unsaved ==
    LET saving == {i \in DOMAIN acts : acts[i].kind = "execute"}
    IN IF saving = {} THEN enable ELSE acts[Min(saving)].saved

InnerLoops == \E i \in DOMAIN acts : acts[i].kind \in Loops

Unwinds(stack) ==
    /\ callStack' = stack
    /\ acts' = <<>>
    /\ enable' = Unsaved
    /\ leaked' = (leaked \/ \E i \in DOMAIN acts : acts[i].kind = "event")
    /\ prompt' = IF InnerLoops THEN "stale" ELSE prompt
    /\ UNCHANGED <<inner, thrown, expect>>

RetAll == "retall" \in Ops /\ Running /\ Unwinds(Unguarded)

(* .RESET_SESSION ends the environment on top, and asserts that it was all. *)
Reset == "reset" \in Ops /\ AtPrompt /\ Unwinds(Append(Front(Unguarded), NewEnv))

-----------------------------------------------------------------------------
(* Errors *)

(* The walk over nested ON_ERROR, 2. *)
Walked[i \in Nat] ==
    IF i > 1 /\ callStack[i].onError = 2 THEN Walked[i - 1] ELSE i

\* Plausible error: the caller of the routine, whatever it asked for itself.
TargetNotNested ==
    LET set == {i \in DOMAIN callStack : callStack[i].onError # -1}
        ix == Max(set)
    IN IF set = {} THEN 0
       ELSE CASE callStack[ix].onError = 0 -> Len(callStack)
              [] callStack[ix].onError = 1 -> 1
              [] callStack[ix].onError = 2 -> IF ix = 1 THEN 1 ELSE ix - 1
              [] callStack[ix].onError = 3 -> ix

(* The first ON_ERROR setting from the top decides where to stop. *)
Target ==
    LET set == {i \in DOMAIN callStack : callStack[i].onError # -1}
        ix == Max(set)
    IN IF set = {} THEN 0
       ELSE CASE callStack[ix].onError = 0 -> Len(callStack)
              [] callStack[ix].onError = 1 -> 1
              [] callStack[ix].onError = 2 -> IF ix = 1 THEN 1 ELSE Walked[ix - 1]
              [] callStack[ix].onError = 3 -> ix

(* The rules: ON_ERROR stops the error where it happens (0), at $MAIN$     *)
(* (1), in the nearest caller that did not ask for 2 itself (2), or in the *)
(* routine that asked (3); on the way there the innermost routine with     *)
(* CATCH, or ON_IOERROR for an error of input or output, takes it; it does *)
(* not leave EXECUTE nor the line that was typed.  The first error of a    *)
(* line typed at an inner prompt is ignored where it happens.              *)
StopsAt ==
    LET Asked(i) == callStack[i].onError # -1
        ix == Max({i \in DOMAIN callStack : Asked(i)})
    IN IF \A i \in DOMAIN callStack : ~Asked(i) THEN Len(callStack)
       ELSE CHOOSE n \in DOMAIN callStack :
            CASE callStack[ix].onError = 0 -> n = Len(callStack)
              [] callStack[ix].onError = 1 -> n = 1
              [] callStack[ix].onError = 2 ->
                    /\ n <= ix
                    /\ \A i \in n + 1 .. ix : callStack[i].onError = 2
                    /\ n = ix => n = 1
                    /\ n > 1 => callStack[n].onError # 2
              [] callStack[ix].onError = 3 -> n = ix

Rules(io) ==
    LET EnvOf(i) == callStack[acts[i].env]
        Handles(i) == (io /\ EnvOf(i).ioError) \/ EnvOf(i).catch
        Ends(i) == /\ acts[i].kind \in Runs
                   /\ Handles(i) \/ acts[i].env = StopsAt \/ acts[i].kind \in {"line", "execute"}
        at == Max({i \in DOMAIN acts : Ends(i)} \cup {0})
    IN IF prompt = "typed" THEN [at |-> Len(acts), jump |-> FALSE]
                           ELSE [at |-> at, jump |-> at # 0 /\ Handles(at)]

Raise(io) ==
    /\ Running
    /\ thrown' = [up |-> TRUE, io |-> io, target |-> 0, lined |-> Len(acts) > 1]
    /\ expect' = Rules(io)
    /\ UNCHANGED <<callStack, acts, enable, inner, leaked, prompt>>

Caught == thrown.up /\ acts # <<>> /\ Top.kind \in Runs

Handled == thrown' = NoError /\ expect' = NoExpect

\* Plausible error: every error of the line is ignored, not the first alone.
FlagKept == inner

(* SetInnerInterpeterLoop, once an error was ignored. *)
FlagAfter == FALSE

(* "Errors while typing commands in inner loop should be ignored." *)
Ignore ==
    /\ Caught
    /\ inner
    /\ inner' = FlagAfter
    /\ acts' = TopAt("end")
    /\ prompt' = IF ~InnerLoops THEN "none"
                 ELSE IF prompt = "typed" THEN "dropped" ELSE "stale"
    /\ Handled
    /\ UNCHANGED <<callStack, enable, leaked>>

Jumps == (thrown.io /\ Back.ioError) \/ Back.catch

Jump ==
    /\ Caught
    /\ ~inner
    /\ Jumps
    /\ acts' = TopAt("body")
    /\ Handled
    /\ UNCHANGED <<callStack, enable, inner, leaked, prompt>>

Passed == Caught /\ ~inner /\ ~Jumps

TargetEnv == IF thrown.target = 0 THEN Target ELSE thrown.target

Halts == TargetEnv \in {0, Len(callStack)}

Halt ==
    /\ Passed
    /\ Halts
    /\ IF enable /\ ~StaysInMain(thrown.lined)
       THEN Opens("halt")
       ELSE acts' = TopAt("abort") /\ UNCHANGED <<inner, prompt>>
    /\ Handled
    /\ UNCHANGED <<callStack, enable, leaked>>

(* The error leaves the activation act, the last of as. *)
Leaves(as, target) ==
    LET act == Last(as)
    IN /\ callStack' = IF Guarded(act) THEN Cut(callStack, act.env - 1) ELSE callStack
       /\ leaked' = (leaked \/ act.kind = "event")
       /\ enable' = IF act.kind = "execute" THEN act.saved ELSE enable
       /\ IF act.kind \in {"call", "event"}
          THEN /\ acts' = Front(as)
               /\ thrown' = [thrown EXCEPT !.target = target]
               /\ UNCHANGED <<inner, expect, prompt>>
          ELSE /\ acts' = Stepped(Front(as))
               /\ IF act.kind = "line" THEN AsksAgain(Front(as)) ELSE UNCHANGED <<inner, prompt>>
               /\ Handled

Rethrow ==
    /\ Passed
    /\ ~Halts
    /\ Leaves(acts, TargetEnv)

(* A call-back that fails while an inner loop waits for a line takes the   *)
(* loop with it.  STOP opens it inside the try block of the statement, an  *)
(* error outside of it.                                                    *)
LeaveLoop ==
    /\ thrown.up
    /\ InLoop(acts)
    /\ IF Top.kind = "stop"
       THEN acts' = Below /\ UNCHANGED <<callStack, enable, inner, thrown, expect, leaked, prompt>>
       ELSE Leaves(Below, thrown.target)

(* The handler of InterpreterLoop. *)
LeaveMain ==
    /\ thrown.up
    /\ acts = <<>>
    /\ Handled
    /\ UNCHANGED <<callStack, acts, enable, inner, leaked, prompt>>

-----------------------------------------------------------------------------
Statement ==
    \/ \E set \in BOOLEAN : OnIoError(set)
    \/ Catch \/ CatchCancel
    \/ \E value \in OnErrors : OnError(value)
    \/ Call \/ Execute \/ Return \/ Stop \/ RetAll
    \/ \E io \in BOOLEAN : (io => "ioerror" \in Ops) /\ Raise(io)

User == TypeLine \/ Event \/ Continue \/ Skip \/ Reset

Dispatch == Ignore \/ Jump \/ Halt \/ Rethrow \/ LeaveLoop \/ LeaveMain

Next == Statement \/ User \/ LeaveCall \/ LeaveExecute \/ LeaveLine \/ Dispatch

Spec == Init /\ [][Next]_vars

-----------------------------------------------------------------------------
(* What the dispatch of errors promises *)

(* A statement runs in the environment its activation was started for: the *)
(* handlers that are looked up, and the variables that are named, are      *)
(* those of the routine whose statement it is.  At the main prompt there   *)
(* is only $MAIN$.                                                         *)
InOwnEnv ==
    ~leaked /\ ~thrown.up => Len(callStack) = IF acts = <<>> THEN 1 ELSE Top.env

(* The guard of EXECUTE: an error opens an inner loop unless some EXECUTE  *)
(* is under way, whatever errors, RETALL and typed lines came between.     *)
EnabledOutside == enable <=> \A i \in DOMAIN acts : acts[i].kind # "execute"

(* An error ends in the activation the rules name when it is raised, and   *)
(* there by a jump to a handler when the rules say so: no CATCH and no     *)
(* ON_IOERROR on the way is missed, none beyond it is reached.  Claimed of  *)
(* programs in which no inner loop was left since the last inner prompt:   *)
(* after .CONTINUE, .STEP, RETURN or RETALL out of one, and for a          *)
(* call-back that came at its prompt, the next error may be ignored        *)
(* wherever it happens, a CATCH on the way or not (OnlyTypedIgnored).      *)
HandledByRules ==
    [][thrown.up /\ ~thrown'.up /\ ~leaked' /\ prompt # "stale" =>
        /\ Len(acts) = expect.at
        /\ (Len(acts') = Len(acts) /\ Last(acts').at = "body") <=> expect.jump]_vars

(* Only errors of a line typed at an inner prompt are ignored              *)
(* (GDLInterpreter.cpp:431, "errors while typing commands in inner loop    *)
(* ... should be ignored").                                                *)
TypedInLoop == \E i \in DOMAIN acts : i > 1 /\ acts[i].kind = "line" /\ acts[i - 1].kind \in Loops

OnlyTypedIgnored ==
    [][thrown.up /\ ~thrown'.up /\ inner /\ ~inner' => TypedInLoop]_vars
=============================================================================
