------------------------------- MODULE Bridge -------------------------------
(***************************************************************************)
(* IDL_IDLBridge (gdl2gdl.cpp, and the client's side of dinterpreter.cpp): *)
(* one master GDL and the GDL processes its objects started.  A command    *)
(* goes through a pipe, its answer comes back through a message queue that *)
(* holds one message.  Answers are read by the master itself when it waits *)
(* for them, and by a detached thread, the spy, when it does not.  Spy and *)
(* master share g2gMap without a lock; a call-back asked for by the spy    *)
(* goes through an event queue to the master.                              *)
(*                                                                         *)
(* A command, and its answer, is its number; 0 is the first sign of life   *)
(* of a client.  Status 2 stands for 2, 3 and 4: answered.  What a         *)
(* variable's transfer adds to a command (its shared memory) is left out:  *)
(* gmem_setvar and gmem_getvar are waiting commands.                       *)
(***************************************************************************)
EXTENDS Integers, Sequences, SequencesExt

CONSTANTS
    Clients,        \* process numbers of the clients, the order of g2gMap
    Served,         \* bound: the clients that get commands
    WithCallback,   \* the clients whose object has a CALLBACK procedure
    Spies,
    MaxCommands,    \* bound: commands per client
    MaxDepth,       \* bound: C++ frames of the master; gmem_exit adds two
    Ops             \* what programs and clients do

AllOps == {"nowait", "wait", "status", "abort", "exit", "halt", "stop", "die"}

ASSUME ClientsAssumption ==
    Clients \subseteq Nat /\ Clients # {} /\ Served \cup WithCallback \subseteq Clients
ASSUME BoundsAssumption == MaxCommands \in Nat /\ MaxDepth \in Nat
ASSUME OpsAssumption == Ops \subseteq AllOps

Exit == MaxCommands + 1             \* the command EXIT
Commands == 1 .. MaxCommands
Frames == [at : {"fork", "fork_spy", "send", "call", "wait", "callback", "event", "exit"},
           on : Clients]
Causes == {"early", "stop", "cut", "abort", "spies", "mixed"}

Idle == [status |-> 0, nowait |-> FALSE]

VARIABLES
    mapped,         \* the clients of g2gMap
    entry,          \* g2gMap: status (0 idle, 1 busy, 2 answered), nowait
    frames,         \* what the master is doing, innermost last
    queue,          \* gdl2gdlCallbackQueue
    spy,            \* where every spy is, and at which client
    up,             \* the master's process lives
    pipe,           \* commands written and not yet read by a client
    client,         \* what a client does
    cmd,            \* the command it executes
    sig,            \* sigControlC of a client
    box,            \* the message queue of a client
    sent,           \* history: number of the last command
    blame           \* history: what a program did that the protocol does not bear

master == <<mapped, entry, frames, queue, up, sent, blame>>
process == <<client, cmd, sig>>
vars == <<mapped, entry, frames, queue, spy, up, pipe, client, cmd, sig, box, sent, blame>>

TypeOK ==
    /\ mapped \subseteq Clients
    /\ entry \in [Clients -> [status : 0 .. 2, nowait : BOOLEAN]]
    /\ frames \in Seq(Frames) /\ Len(frames) <= MaxDepth + 1
    /\ queue \in Seq(Clients)
    /\ spy \in [Spies -> [at : {"off", "loop", "scan", "read", "report"}, on : Clients]]
    /\ up \in BOOLEAN
    /\ pipe \in [Clients -> Seq(Commands \cup {Exit})]
    /\ client \in [Clients -> {"unborn", "starting", "idle", "busy", "stopped", "inner", "gone"}]
    /\ cmd \in [Clients -> Commands \cup {0}]
    /\ sig \in [Clients -> BOOLEAN]
    /\ box \in [Clients -> Seq(Commands \cup {0})] /\ \A c \in Clients : Len(box[c]) <= 1
    /\ sent \in [Clients -> Commands \cup {0}]
    /\ blame \in [Clients -> SUBSET Causes]

Init ==
    /\ mapped = {}
    /\ entry = [c \in Clients |-> Idle]
    /\ frames = <<>>
    /\ queue = <<>>
    /\ spy = [s \in Spies |-> [at |-> "off", on |-> Min(Clients)]]
    /\ up = TRUE
    /\ pipe = [c \in Clients |-> <<>>]
    /\ client = [c \in Clients |-> "unborn"]
    /\ cmd = [c \in Clients |-> 0]
    /\ sig = [c \in Clients |-> FALSE]
    /\ box = [c \in Clients |-> <<>>]
    /\ sent = [c \in Clients |-> 0]
    /\ blame = [c \in Clients |-> {}]

-----------------------------------------------------------------------------
(* The master's frames *)

Top(at, c) == up /\ frames # <<>> /\ Last(frames) = [at |-> at, on |-> c]

Pushed(at, c) == Append(frames, [at |-> at, on |-> c])

Replaced(at, c) == Append(Front(frames), [at |-> at, on |-> c])

Doing(at, c) == \E i \in DOMAIN frames : frames[i] = [at |-> at, on |-> c]

(* The program of the master, or of a call-back, runs. *)
ProgramRuns ==
    /\ up
    /\ frames # <<>> => Last(frames).at \in {"callback", "event"}
    /\ Len(frames) < MaxDepth

Waits(c) == Top("wait", c)

SpyAt(at, c) == \E s \in Spies : spy[s] = [at |-> at, on |-> c]

(* A call-back of c is under way, or on its way. *)
CallbackPending(c) ==
    \/ c \in Range(queue)
    \/ Doing("callback", c) \/ Doing("event", c)
    \/ c \in WithCallback /\ SpyAt("report", c)

(* A command that is not waited for, while the end of a call-back may yet  *)
(* reset the entry; any command while the client is being given up; a      *)
(* command that is waited for, while the entry still says that it is not.  *)
SendCauses(c, at) ==
    {cause \in {"early", "mixed"} :
        IF cause = "early" THEN Doing("exit", c) \/ (at = "send" /\ CallbackPending(c))
                           ELSE at = "call" /\ entry[c].nowait}

(* An Abort when no command runs, or when the spy may take the answer. *)
AbortCauses(c) == {cause \in {"abort"} : client[c] # "busy" \/ SpyAt("read", c)}

Blamed(c, causes) == blame' = [blame EXCEPT ![c] = @ \cup causes]

(* g2gMap.at of a client that was given up throws: the master is back at   *)
(* its prompt, and an OBJ_DESTROY whose call-back it was in is cut off.    *)
Thrown ==
    /\ frames' = <<>>
    /\ blame' = [c \in Clients |-> blame[c] \cup {cause \in {"cut"} : Doing("exit", c)}]

-----------------------------------------------------------------------------
(* IDL_IDLBridge::Init *)

\* Plausible error: the map is looked at after the client was inserted.
SpyNeededLate(c) == mapped \cup {c} = {}

SpyNeeded(c) == mapped = {}

(* The entry is made, its nowait not initialized; then the master waits    *)
(* for the client's first message.                                         *)
GmemFork(c) ==
    /\ ProgramRuns
    /\ client[c] = "unborn"
    /\ mapped' = mapped \cup {c}
    /\ \E nw \in BOOLEAN : entry' = [entry EXCEPT ![c] = [status |-> 0, nowait |-> nw]]
    /\ client' = [client EXCEPT ![c] = "starting"]
    /\ frames' = Pushed(IF SpyNeeded(c) THEN "fork_spy" ELSE "fork", c)
    /\ UNCHANGED <<queue, spy, up, pipe, cmd, sig, box, sent, blame>>

ForkDone(c) ==
    /\ Top("fork", c)
    /\ box[c] # <<>>
    /\ box' = [box EXCEPT ![c] = <<>>]
    /\ frames' = Front(frames)
    /\ UNCHANGED <<mapped, entry, queue, spy, up, pipe, process, sent, blame>>

FreeSpies == {s \in Spies : spy[s].at = "off"}

(* The first client of an empty map brings a spy, the old one may be there. *)
ForkDoneSpy(c) ==
    /\ Top("fork_spy", c)
    /\ box[c] # <<>>
    /\ FreeSpies # {}
    /\ box' = [box EXCEPT ![c] = <<>>]
    /\ spy' = [spy EXCEPT ![CHOOSE s \in FreeSpies : TRUE].at = "loop"]
    /\ frames' = Front(frames)
    /\ blame' = IF FreeSpies # Spies
                THEN [d \in Clients |-> blame[d] \cup {"spies"}] ELSE blame
    /\ UNCHANGED <<mapped, entry, queue, up, pipe, process, sent>>

-----------------------------------------------------------------------------
(* Execute, SetVar, GetVar *)

\* Plausible error: the client is not asked whether it is busy.
NotBusyUnasked(c) == TRUE

NotBusy(c) == entry[c].status # 1

(* gdl_ipc_write_to_client marks the client busy ... *)
GmemSend(c, at) ==
    /\ ProgramRuns
    /\ c \in mapped \cap Served
    /\ NotBusy(c)
    /\ sent[c] < MaxCommands
    /\ entry' = [entry EXCEPT ![c].status = 1]
    /\ frames' = Pushed(at, c)
    /\ Blamed(c, SendCauses(c, at))
    /\ UNCHANGED <<mapped, queue, spy, up, pipe, process, box, sent>>

(* A command written to a pipe nobody reads ends the master (SIGPIPE).     *)
Written(c, command) ==
    IF client[c] = "gone" THEN up' = FALSE /\ UNCHANGED pipe
    ELSE pipe' = [pipe EXCEPT ![c] = Append(@, command)] /\ UNCHANGED up

(* ... then says whether it will wait, and writes the command. *)
WriteToClient(c, at) ==
    /\ Top(at, c)
    /\ entry' = [entry EXCEPT ![c].nowait = (at = "send")]
    /\ sent' = [sent EXCEPT ![c] = @ + 1]
    /\ Written(c, sent[c] + 1)
    /\ frames' = IF at = "send" THEN Front(frames) ELSE Replaced("wait", c)
    /\ UNCHANGED <<mapped, queue, spy, process, box, blame>>

(* gdl_ipc_read_client_wait: the answer, then the call-back. *)
ReadClientWait(c) ==
    /\ Waits(c)
    /\ box[c] # <<>>
    /\ box' = [box EXCEPT ![c] = <<>>]
    /\ entry' = [entry EXCEPT ![c].status = 2]
    /\ frames' = IF c \in WithCallback THEN Replaced("callback", c) ELSE Front(frames)
    /\ UNCHANGED <<mapped, queue, spy, up, pipe, process, sent, blame>>

(* The end of g2gPerformCallbackProcedure, which looks for the client.     *)
CallbackDone(c) ==
    /\ Top("callback", c)
    /\ IF c \in mapped
       THEN frames' = Front(frames) /\ entry' = [entry EXCEPT ![c] = Idle] /\ UNCHANGED blame
       ELSE Thrown /\ UNCHANGED entry
    /\ UNCHANGED <<mapped, queue, spy, up, pipe, process, box, sent>>

-----------------------------------------------------------------------------
(* Status, Abort, OBJ_DESTROY *)

\* Plausible error: a client that is busy is forgotten as well.
ForgetsAny(c) == entry[c].status # 0

Forgets(c) == entry[c].status = 2

(* gmem_status forgets an answer once it was told. *)
GmemStatus(c) ==
    /\ "status" \in Ops
    /\ ProgramRuns
    /\ c \in mapped
    /\ Forgets(c)
    /\ entry' = [entry EXCEPT ![c].status = 0]
    /\ UNCHANGED <<mapped, frames, queue, spy, up, pipe, process, box, sent, blame>>

(* A client that reads its input forgets the signal with the next line.    *)
Interrupt(c) == sig' = [sig EXCEPT ![c] = client[c] = "busy"]

(* gmem_abort waits for an answer, whether the client has one to give.     *)
GmemAbort(c) ==
    /\ "abort" \in Ops
    /\ ProgramRuns
    /\ c \in mapped \cap Served
    /\ entry' = [entry EXCEPT ![c] = [status |-> 1, nowait |-> FALSE]]
    /\ Interrupt(c)
    /\ frames' = Pushed("wait", c)
    /\ Blamed(c, AbortCauses(c))
    /\ UNCHANGED <<mapped, queue, spy, up, pipe, client, cmd, box, sent>>

(* gmem_exit, called by Cleanup: a busy client is interrupted, and its     *)
(* call-back told so ...                                                   *)
GmemExit(c) ==
    /\ "exit" \in Ops
    /\ ProgramRuns
    /\ c \in mapped
    /\ ~Doing("exit", c)
    /\ IF NotBusy(c)
       THEN frames' = Pushed("exit", c) /\ UNCHANGED <<entry, sig>>
       ELSE /\ entry' = [entry EXCEPT ![c].status = 2]
            /\ Interrupt(c)
            /\ frames' = IF c \in WithCallback
                         THEN Append(Pushed("exit", c), [at |-> "callback", on |-> c])
                         ELSE Pushed("exit", c)
    /\ UNCHANGED <<mapped, queue, spy, up, pipe, client, cmd, box, sent, blame>>

(* ... then the client is told to end, and the entry erased. *)
GmemExitDone(c) ==
    /\ Top("exit", c)
    /\ Written(c, Exit)
    /\ mapped' = mapped \ {c}
    /\ entry' = [entry EXCEPT ![c] = Idle]
    /\ frames' = Front(frames)
    /\ UNCHANGED <<queue, spy, process, box, sent, blame>>

-----------------------------------------------------------------------------
(* g2gEventDispatcher, called at the prompt and by WAIT *)

(* The call-back of the first event; an object that is gone throws, and    *)
(* the event is lost.                                                      *)
Dispatched(below) ==
    IF queue = <<>> THEN frames' = below /\ UNCHANGED <<queue, blame>>
    ELSE /\ queue' = Tail(queue)
         /\ IF Head(queue) \in mapped
            THEN frames' = Append(below, [at |-> "event", on |-> Head(queue)]) /\ UNCHANGED blame
            ELSE Thrown

EventDispatcher ==
    /\ ProgramRuns
    /\ queue # <<>>
    /\ Dispatched(frames)
    /\ UNCHANGED <<mapped, entry, spy, up, pipe, process, box, sent>>

(* The call-back returns: the client is idle, and the next event's turn.   *)
EventDone(c) ==
    /\ Top("event", c)
    /\ IF c \in mapped
       THEN /\ entry' = [entry EXCEPT ![c] = Idle]
            /\ Dispatched(Front(frames))
       ELSE Thrown /\ UNCHANGED <<entry, queue>>
    /\ UNCHANGED <<mapped, spy, up, pipe, process, box, sent>>

-----------------------------------------------------------------------------
(* g2gAsynchronousReturnTrap, the spy *)

(* The next entry of the map, or the sleep at its end. *)
After(s) ==
    LET later == {c \in mapped : c > spy[s].on}
    IN IF later = {} THEN [at |-> "loop", on |-> Min(Clients)]
                     ELSE [at |-> "scan", on |-> Min(later)]

SpyMoves(s, to) == spy' = [spy EXCEPT ![s] = to]

(* The thread ends when the map is empty. *)
SpyLoop(s) ==
    /\ up
    /\ spy[s].at = "loop"
    /\ SpyMoves(s, IF mapped = {} THEN [spy[s] EXCEPT !.at = "off"]
                                  ELSE [at |-> "scan", on |-> Min(mapped)])
    /\ UNCHANGED <<master, pipe, process, box>>

\* Plausible error: every busy client is read from.
AnyBusy(c) == entry[c].status = 1

Spied(c) == entry[c].status = 1 /\ entry[c].nowait

SpyScan(s) ==
    /\ up
    /\ spy[s].at = "scan"
    /\ spy[s].on \in mapped
    /\ SpyMoves(s, IF Spied(spy[s].on) THEN [spy[s] EXCEPT !.at = "read"] ELSE After(s))
    /\ UNCHANGED <<master, pipe, process, box>>

(* The entry the iterator stands on was erased: undefined. *)
SpyScanErased(s) ==
    /\ up
    /\ spy[s].at = "scan"
    /\ spy[s].on \notin mapped
    /\ SpyMoves(s, After(s))
    /\ up' \in BOOLEAN
    /\ UNCHANGED <<mapped, entry, frames, queue, pipe, process, box, sent, blame>>

(* gdl_ipc_read_client_nowait: a message that is there, or none. *)
SpyRead(s) ==
    LET c == spy[s].on
    IN /\ up
       /\ spy[s].at = "read"
       /\ c \in mapped
       /\ IF box[c] = <<>> THEN SpyMoves(s, After(s)) /\ UNCHANGED <<box, entry>>
          ELSE /\ box' = [box EXCEPT ![c] = <<>>]
               /\ entry' = [entry EXCEPT ![c].status = 2]
               /\ SpyMoves(s, [spy[s] EXCEPT !.at = "report"])
       /\ UNCHANGED <<mapped, frames, queue, up, pipe, process, sent, blame>>

(* ReportUsingCallBack *)
SpyReport(s) ==
    LET c == spy[s].on
    IN /\ up
       /\ spy[s].at = "report"
       /\ c \in mapped
       /\ queue' = IF c \in WithCallback THEN Append(queue, c) ELSE queue
       /\ SpyMoves(s, After(s))
       /\ UNCHANGED <<mapped, entry, frames, up, pipe, process, box, sent, blame>>

(* g2gMap.at of an erased entry throws, and nobody catches in a thread.    *)
SpyThrows(s) ==
    /\ up
    /\ spy[s].at \in {"read", "report"}
    /\ spy[s].on \notin mapped
    /\ up' = FALSE
    /\ UNCHANGED <<mapped, entry, frames, queue, spy, pipe, process, box, sent, blame>>

-----------------------------------------------------------------------------
(* The client *)

\* Plausible error: the message queue has room for more than one answer.
AnsweredAtOnce(c) == box' = [box EXCEPT ![c] = Append(@, cmd[c])]

(* gdl_ipc_ClientSendReturn blocks while the queue is full. *)
Answered(c) == box[c] = <<>> /\ box' = [box EXCEPT ![c] = <<cmd[c]>>]

(* The command is over; a signal that was not seen goes with the next line. *)
Over(c, then) ==
    /\ client' = [client EXCEPT ![c] = then]
    /\ cmd' = [cmd EXCEPT ![c] = 0]
    /\ sig' = [sig EXCEPT ![c] = FALSE]

(* gdl_ipc_ClientSignalsOperationsOK *)
ClientStarts(c) ==
    /\ up
    /\ client[c] = "starting"
    /\ client' = [client EXCEPT ![c] = "idle"]
    /\ box' = [box EXCEPT ![c] = <<0>>]
    /\ UNCHANGED <<master, spy, pipe, cmd, sig>>

(* The next line of the pipe; the inner loop executes it and answers nothing. *)
ClientReads(c) ==
    /\ up
    /\ client[c] \in {"idle", "inner"}
    /\ pipe[c] # <<>>
    /\ Head(pipe[c]) # Exit
    /\ pipe' = [pipe EXCEPT ![c] = Tail(@)]
    /\ IF client[c] = "idle"
       THEN client' = [client EXCEPT ![c] = "busy"] /\ cmd' = [cmd EXCEPT ![c] = Head(pipe[c])]
       ELSE UNCHANGED <<client, cmd>>
    /\ UNCHANGED <<master, spy, sig, box>>

ClientExits(c) ==
    /\ up
    /\ client[c] \in {"idle", "inner"}
    /\ pipe[c] # <<>>
    /\ Head(pipe[c]) = Exit
    /\ Over(c, "gone")
    /\ pipe' = [pipe EXCEPT ![c] = <<>>]
    /\ UNCHANGED <<master, spy, box>>

(* The command ends, with success, an error or an interruption. *)
ClientAnswers(c) ==
    /\ up
    /\ client[c] \in {"busy", "stopped"}
    /\ Answered(c)
    /\ Over(c, "idle")
    /\ UNCHANGED <<master, spy, pipe>>

(* An error or an interruption inside a routine: NewInterpreterInstance    *)
(* starts an inner loop, which answers nothing.                            *)
ClientHalts(c) ==
    /\ up
    /\ "halt" \in Ops \/ client[c] = "stopped"
    /\ client[c] \in {"busy", "stopped"}
    /\ Over(c, "inner")
    /\ UNCHANGED <<master, spy, pipe, box>>

(* STOP answers, and is an error as well. *)
ClientStops(c) ==
    /\ up
    /\ "stop" \in Ops
    /\ cmd[c] = 1       \* bound: in the first command
    /\ client[c] = "busy"
    /\ Answered(c)
    /\ client' = [client EXCEPT ![c] = "stopped"]
    /\ Blamed(c, {"stop"})
    /\ UNCHANGED <<mapped, entry, frames, queue, up, sent, spy, pipe, cmd, sig>>

ClientDies(c) ==
    /\ up
    /\ "die" \in Ops
    /\ c \in Served
    /\ client[c] \notin {"unborn", "gone"}
    /\ Over(c, "gone")
    /\ pipe' = [pipe EXCEPT ![c] = <<>>]
    /\ UNCHANGED <<master, spy, box>>

-----------------------------------------------------------------------------
Master(c) ==
    \/ GmemFork(c) \/ ForkDone(c) \/ ForkDoneSpy(c)
    \/ \E at \in {"send", "call"} : WriteToClient(c, at)
    \/ "nowait" \in Ops /\ GmemSend(c, "send")
    \/ "wait" \in Ops /\ GmemSend(c, "call")
    \/ ReadClientWait(c) \/ CallbackDone(c)
    \/ GmemStatus(c) \/ GmemAbort(c) \/ GmemExit(c) \/ GmemExitDone(c)
    \/ EventDone(c)

Spy(s) == SpyLoop(s) \/ SpyScan(s) \/ SpyScanErased(s) \/ SpyRead(s) \/ SpyReport(s) \/ SpyThrows(s)

Client(c) ==
    \/ ClientStarts(c) \/ ClientReads(c) \/ ClientExits(c) \/ ClientAnswers(c)
    \/ ClientHalts(c) \/ ClientStops(c) \/ ClientDies(c)

Next ==
    \/ \E c \in Clients : Master(c) \/ Client(c)
    \/ EventDispatcher
    \/ \E s \in Spies : Spy(s)

(* A thread that can run runs; the master goes on with what it began; an   *)
(* interrupted command ends.  A command may run for ever, and no program   *)
(* has to call anything.                                                   *)
Fairness ==
    /\ \A s \in Spies : WF_vars(Spy(s))
    /\ \A c \in Clients : /\ WF_vars(ReadClientWait(c))
                          /\ WF_vars(\E at \in {"send", "call"} : WriteToClient(c, at))
                          /\ WF_vars(sig[c] /\ (ClientAnswers(c) \/ ClientHalts(c)))

Spec == Init /\ [][Next]_vars

FairSpec == Spec /\ Fairness

-----------------------------------------------------------------------------
(* What the bridge promises *)

Blameless(c, causes) == blame[c] \cap causes = {}

(* The answer in the queue is the answer to the last command, so that the  *)
(* master never takes the result of one command for that of another        *)
(* (GetVar would return the value of the variable asked for before).       *)
AnswersLastCommand ==
    \A c \in Clients :
        box[c] # <<>> /\ Blameless(c, {"early", "stop", "cut"}) => box[c] = <<sent[c]>>

(* A client that has a command to execute, or an answer to give, is known  *)
(* to be busy, and refuses commands.                                       *)
Outstanding(c) == pipe[c] # <<>> \/ client[c] = "busy" \/ (box[c] # <<>> /\ sent[c] # 0)

BusyIsKnown ==
    \A c \in mapped :
        up /\ Outstanding(c) /\ ~Doing("exit", c) /\ Blameless(c, {"early", "stop", "cut"})
            => entry[c].status = 1

(* A master that waits for a client which has answered, or was interrupted *)
(* by Abort, goes on: unless the client halted in a routine or died, or    *)
(* the spy could take the answer from it (see SendCauses, AbortCauses and  *)
(* ForkDoneSpy for the three ways).                                        *)
WaitEnds ==
    \A c \in Clients :
        (Waits(c) /\ (box[c] # <<>> \/ (client[c] = "busy" /\ sig[c])))
            ~> \/ ~Waits(c)
               \/ client[c] \in {"inner", "gone"}
               \/ ~Blameless(c, {"abort", "spies", "mixed"})

(* The answer to a command nobody waits for reaches the map. *)
AnswerReported ==
    \A c \in Clients :
        (up /\ c \in mapped /\ Spied(c) /\ box[c] # <<>>)
            ~> (up /\ c \in mapped => ~Spied(c))
=============================================================================
