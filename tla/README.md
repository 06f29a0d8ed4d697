# The run-time core of GDL in TLA+

GDL (GNU Data Language) interprets IDL programs. One thread runs the interpreter; only
data-parallel loops of the numeric library use more. The run-time core is nevertheless
full of interleavings: the destructor of a C++ value may run a CLEANUP method written in
IDL, which may do anything to the heap the destructor is in the middle of changing; an
error unwinds the interpreter through code that has done half of its work; the numbers of
heap variables, file units and windows are used again while old ones are still held;
several GDL processes share semaphores, memory and message queues, one of them with a
thread of its own. This project models the parts whose state outlives
a statement, checks them with TLC on small instances and proves what matters most with
TLAPS. Line numbers below are those of `src/src/` at the commit beside this directory.

Contents: 1 inventory, 2 modules, 3 runs, bounds and fairness, 4 proofs, 5 what the models
abstract, 6 findings and divergences, 7 plan.

## 1. Inventory

| Component | Sources (src/src) | State | Operations | Model |
|---|---|---|---|---|
| Dynamic heap | GDLInterpreter.hpp, objects.hpp, datatypes.cpp, datatypesref.cpp, envt.cpp, basic_fun.cpp, basic_pro.cpp | `heap`, `objHeap`, reference counts, `heapIx`, `EnvBaseT::inProgress`, the flag of HEAP_GC | PTR_NEW, OBJ_NEW, assignment, PTR_FREE, OBJ_DESTROY, HEAP_REFCOUNT, HEAP_GC, CLEANUP | `Heap`, `ObjLife`, `HeapLife`, `HeapSweep`, `HeapProofs`, `HeapLifeProofs` |
| Logical units, journal | io.cpp, io.hpp, objects.cpp, basic_pro.cpp, gdljournal.cpp | `fileUnits`, `gdljournal`, !JOURNAL | GET_LUN, OPENR/W/U, CLOSE, FREE_LUN, SPAWN, SOCKET, TRUNCATE_LUN, JOURNAL, .RESET_SESSION | `FileUnits`, `FileUnitsProofs` |
| Semaphores | semshm.cpp | `sem_map` of every process; the system's semaphores | SEM_CREATE, SEM_LOCK, SEM_RELEASE, SEM_DELETE, exit | `Semaphores`, `SemaphoresProofs` |
| Error dispatch, call stack | GDLInterpreter.cpp, envt.cpp, dinterpreter.cpp, prognode.cpp, basic_fun.cpp, basic_pro.cpp | `callStack`, CATCH, ON_ERROR and ON_IOERROR of every environment, `interruptEnable`, `inInnerInterpreterLoop`, the C++ stack | raise, unwind, dispatch, EXECUTE, STOP, .CONTINUE, .SKIP, RETALL, .RESET_SESSION, call-backs | `Dispatch`, `DispatchProofs` |
| Shared memory | shm.cpp, basegdl.cpp, basic_fun.cpp | `shmList` of every process, the system's objects, mappings and addresses | SHMMAP, SHMVAR, SHMUNMAP, end of a mapped variable, TEMPORARY, exit, death | `SharedMemory`, `SharedMemoryProofs` |
| Graphics windows | graphicsdevice.cpp, devicex.hpp, devicewx.hpp, plotting_windows.cpp | `winList`, `oList`, `actWin`, `oIx` | WINDOW, WSET, WDELETE, WSHOW, windows the user closes | planned |
| IDL_IDLBridge | gdl2gdl.cpp, dinterpreter.cpp, gdleventhandler.cpp | `g2gMap`, pipes, message queues, the queue of call-backs | fork, send with and without waiting, status, abort, exit; the polling thread; the client's loop | `Bridge`, `BridgeProofs` |
| Widgets and events | gdlwidget.cpp, widget.cpp, gdleventhandler.cpp | widget tree, event queues | WIDGET_*, XMANAGER | planned, after windows |
| HASH, LIST | hash.cpp, list.cpp, datatypes.cpp | TABLE_DATA, TABLE_COUNT, TABLE_BITS; nodes of a list | HASH(), `h[k] = v`, SET, HASKEY, subscripts, REMOVE, `+`, copies | `Hash` implements `KeyMap`, `HashProofs`; LIST is not modelled |
| Associated variables | assocdata.cpp | number of a unit, offset | ASSOC, indexing | planned, on `FileUnits` |
| SAVE and RESTORE | saverestore.cpp | none of its own | reads and writes a format; PTR_NEW and OBJ_NEW as seen by the heap | not modelled |
| Interpreter control flow | GDLInterpreter.cpp, prognode*.cpp, gdlc.i.g | the tree of the program | evaluation | only what it does to references and errors |
| Array indexing | arrayindex*.hpp, dimension.hpp | none | index computation | candidate for operators |
| Conversions, operators | convert2.cpp, basic_op*.cpp, datatypes.cpp | none | element-wise arithmetic | floating point, out of reach |
| Sorting, WHERE | sorting.cpp, where.cpp | none | parallel over disjoint ranges | candidate for operators |
| Formatted I/O | ofmt.cpp, ifmt.cpp, format.g, print.cpp, read.cpp | the units' | layout of characters | not modelled |
| File system library | file.cpp | none | wrappers of system calls | not modelled |
| Plotting | plotting*.cpp, gdlgstream.cpp | plot regions | drawing through PLplot | not modelled |
| Dynamic modules, Python | gdlpython.cpp | foreign | calls into foreign code | not modelled |
| Scientific wrappers | gsl_fun.cpp, hdf_fun.cpp, ncdf_cl.cpp, fftw.cpp, grib.cpp | library handles | thin wrappers | not modelled |
| Generated parsers | GDLLexer.cpp, GDLParser.cpp, GDLTreeParser.cpp, FMTParser.cpp | none | generated by ANTLR | not modelled |
| IDL library | pro/*.pro | none | run on the interpreter | not modelled |

### How they interact

* Interpreted code calls the library through `EnvT`; the library calls interpreted code
  back through `GDLInterpreter::call_fun` and `call_pro` (INIT, CLEANUP, event handlers,
  EXECUTE). The shared state is static: `GDLInterpreter::heap`, `objHeap`, `heapIx`,
  `callStack`, `EnvBaseT::inProgress`, `fileUnits`, the list of graphics devices.
* Values own references: the destructor, the copy constructor and the assignment of
  `Data_<SpDPtr>` and `Data_<SpDObj>` call `DecRef`/`IncRef`, so every component that
  stores a value (variables, structures, LIST, HASH, user values of widgets) takes part
  in reference counting without naming it.
* An error is a C++ exception. `GDLInterpreter::statement` catches it and decides from
  ON_IOERROR, CATCH and ON_ERROR where interpretation goes on; what lies between is
  unwound by guards. Call-backs of the bridge and of widgets run while a prompt waits for a
  line, so their errors pass through the loop that waits.
* The bridge's polling thread and the interpreter share `g2gMap` without a lock; call-backs
  go through a queue the interpreter's event loop empties. The client is a GDL whose prompt
  reads a pipe and whose answer is a message in a queue of one.
* Variables on shared memory know their segment by its address; `GDLDelete` asks
  `shm_unreference` before it deletes any variable that does not own its storage.
* `gdlexit` calls `sem_onexit`; several GDL processes meet in semaphores, shared memory and
  the message queues of IDL_IDLBridge, and nowhere else.

### What is hard, and what would make it right

* **Heap.** A count is the number of references, always, also in the middle of an
  assignment; nothing referenced dies; CLEANUP runs at most once at a time, before the
  object goes, and its failure leaves the heap usable; HEAP_GC frees what is unreachable
  and nothing else, also when CLEANUP methods call it; it comes to an end.
* **Logical units.** A unit has one owner; GET_LUN never returns a unit somebody has; a
  unit that is given up can be had again; a failing OPEN leaves nothing behind that a later
  CLOSE acts upon (the file it deletes); the journal's unit is open while the interpreter
  writes to it.
* **Semaphores.** One process holds the lock, whichever others die, delete the semaphore
  or create it again; only its owner takes its name away.
* **Error dispatch.** The handler that runs is the one that was established, in its
  environment, with the call stack exactly as deep as that environment.
* **Shared memory.** The count of a segment is that of its variables; no variable is on memory
  given back; no segment is longer than the object below it; nothing is left behind when the
  last process that has to destroy it ends, and no process unlinks what is another's.
* **Bridge.** The answer that is taken is that of the last command; a client that works is
  known to be busy; a wait ends; an answer nobody waits for reaches the map.
* **HASH.** A key that is there is found after whatever sequence of statements; a search
  ends; there is a hole for an insertion; the table behaves as a map.
* **Windows** (not modelled). The active window is open.

PROJECT.json lists the hazards one by one with their lines, and for each the properties
that would notice.

## 2. Modules

| Module | What it is |
|---|---|
| `Heap` | the dynamic heap in micro-steps: one action per operation and per stretch of C++ code between two points where interpreted code may run |
| `ObjLife` | the abstract life of an object |
| `HeapLife` | `Heap` implements `ObjLife` (refinement mapping) |
| `HeapSweep` | what HEAP_GC promises, with a history variable, and its liveness |
| `FileUnits` | the units, the pool, the journal |
| `Semaphores` | the semaphores of several processes |
| `Bridge` | the master, its clients, the polling threads, pipes and message queues |
| `Dispatch` | the call stack and the C++ stack, from the raising of an error to its handler |
| `SharedMemory` | the segments of several processes and the system's objects |
| `KeyMap` | what a HASH promises: a map |
| `Hash` | the table of a HASH, and how it implements `KeyMap` |
| `HeapProofs`, `HeapLifeProofs`, `FileUnitsProofs`, `SemaphoresProofs`, `DispatchProofs`, `SharedMemoryProofs`, `BridgeProofs`, `HashProofs` | TLAPS proofs |
| `MCHeap`, `MCHeapLife`, `MCHeapSweep`, `MCFileUnits`, `MCSemaphores`, `MCBridge`, `MCDispatch`, `MCSharedMemory`, `MCHash` | model values and symmetry for TLC |

Every specification takes the vocabulary of programs as a CONSTANT (`MainOps`,
`CleanupOps`, `Ops`): a run checks all programs over a vocabulary, a theorem holds for
every vocabulary or names the one it needs.

### Heap

The C++ stack is part of the state. `stack` holds one frame for every C++ activation that
can be suspended while a CLEANUP method runs, and only the top frame moves:

| frame | C++ activation |
|---|---|
| `main`, `code` | interpreted code: `$MAIN$`, a CLEANUP method |
| `drop`, `dropAt` | `DecRef`/`DecRefObj` of one reference, in a destructor or in `AssignAt` |
| `copy`, `store` | an assignment that waits for the old value to be destroyed |
| `base`, `baseAt`, `baseCatch`, `baseEnd`, `baseThrow` | `EnvBaseT::ObjCleanup` (reference counting), its catch and its guards |
| `envt`, `envtFree` | `EnvT::ObjCleanup` (OBJ_DESTROY, HEAP_GC) |
| `gcObj`, `gcPtr` | `EnvT::HeapGC`, its two sweeps |

`holds` maps every place that can hold a reference to the reference it holds: variables,
contents of heap variables, temporaries of frames, and the object OBJ_NEW loses when INIT
returns false. The number of references to `r` is then the number of slots that hold `r`,
and `CountExact` compares it with `RefHeap::count`. `stale` is a history variable: the
counts have stopped telling the references, for one of the two reasons the code has when
variables hold one reference each (ResetHeap restarted the identifiers while one was held, or
an error left `AssignAt` after it counted the new reference; arrays of references have a
third, section 5). `fate` becomes "terminated" where the code calls
`std::terminate` (an error that leaves a destructor) or fails an assertion, and
"undefined" where it uses freed storage; nothing is claimed after that.

`ObjLife` is the abstract promise: an object with a CLEANUP method is not removed before a
CLEANUP of it has returned or failed, never while one runs; one whose CLEANUP failed is
removed without another call or never again touched. `HeapLife` computes the phase of an
object from the two maps and the frames, and TLC checks that every step of the heap is a
step of `ObjLife` or a stutter (`ObjectsLive`).

`HeapSweep` adds `doomed`, what nothing could name when a HEAP_GC statement ran (the nested
ones too), and states what has to hold when the sweep returns.

### FileUnits

`fileUnits` holds of every `GDLStream` the fields that several procedures set and reset:
the lock of GET_LUN, the kind of stream, the name, the mode, F77, the DELETE request, the
socket. Every action is one library procedure, since none of them calls interpreted code.
The answer of the operating system to an opening is a nondeterministic choice. `owned` and
`asked` are history variables: the units a procedure gave to the program and that it has
not given back, and for each unit the file whose present opening asked for deletion. A
compressed stream that is closed is `igzClosed`/`ogzClosed`: the C++ object stays, which
`InUse` takes for a unit in use.

### Semaphores

`linked` and `value` are the operating system's: the semaphore the name is bound to, and
the value of every semaphore ever created. `data` is the entry of the name in `sem_map` of
each process. SEM_CREATE takes two steps when the name is bound, since it calls `sem_open`
twice, and between them the name may have been unlinked or bound to another semaphore.
`token`, `holds` and `creator` are history variables: the semaphore a process decremented
and did not yet increment, that SEM_LOCK said 1 and SEM_RELEASE was not called since, and
who created a semaphore. A process may exit (`sem_onexit`) or be killed at any point.

### Bridge

A command and its answer are a number; `pipe[c]` is what was written to a client, `box[c]`
its message queue, which holds one message. `frames` is the master's C++ stack as far as it
can be suspended: inside the fork, between the two assignments to an entry of `g2gMap`,
in the wait for an answer, in a call-back, in the event dispatcher. A spy is the detached
thread that walks over `g2gMap`: its scan, its read of the queue and its report to the map
are three steps, and the master may move between any two. A client reads a command, executes
it, answers, halts in a routine or stops at the prompt of STOP, is interrupted, exits or
dies. `sent` and `blame` are history variables: the last command, and which of six things
happened that the protocol does not bear (a command while a call-back of that client is still
to come or its object is being destroyed; STOP in a client; an OBJ_DESTROY cut off by the
exception of a call-back that gave up its own client; Abort of an idle client; a second spy;
and commands of both kinds so close together that the spy reads a stale `nowait`). The
properties exclude the causes they name and nothing else.

### Dispatch

`callStack` holds the environments with what ON_ERROR, CATCH and ON_IOERROR asked for, and
`acts` the C++ activations: bodies of routines, lines of EXECUTE and of prompts, call-backs,
and the inner loops that STOP and errors open. Raising an error records in `expect` where the
rules want it handled: the innermost CATCH or ON_IOERROR that can be jumped to from there,
or the stop that ON_ERROR asks for. The error then leaves activation after activation, one
step each, with what the guards on the way cut and restore. `HandledByRules` compares the
activation that ends the error with the one the rules named at the start. `leaked` is set
when an error has left a call-back's environment on the call stack (section 6). `prompt` is a
history variable too: what the user does at the innermost inner loop. It is set by the user's
steps and never by the flag `inInnerInterpreterLoop`: the loop asks for a line (`waits`), a
line typed there is under way (`typed`) or has had an error ignored (`dropped`), no loop is
open (`none`), or a loop was left otherwise than by the end of a line, or a call-back came
while it asked (`stale`). The rules ask `prompt`, and the code asks the flag. Whether both
agree is part of `HandledByRules`; under `stale` they do not (section 6), and the property
claims nothing.

### SharedMemory

`named`, `size`, `mapped` are the system's: the object a handle stands for, the length of
objects, and which object a process has at an address. `shmList` is the table of segments
of each process, `var` the address a variable is on. SHMMAP takes up to three steps
(`shm_open` finds or does not find; create; `ftruncate` and `mmap`), so that another process
runs between any two. Addresses are reused freely. `excuse` records what makes a lost or a
left object nobody's fault: a process was killed or asked to keep a segment, a name was used
again, or another process unlinked what is not its own.

### Hash and KeyMap

`hash[h]` is the record of TABLE_DATA, TABLE_COUNT and the bit FOLD_CASE. `HashIndex` is the
loop of the code, one `Turn` per pass, with its search for a neighbour of a hole; insertion
grows, searches, and shifts towards the nearest hole above or, failing that, below. Two rank
functions stand for HashCompare with and without regard to case. Every statement is one
action. `kept` is a history variable: no entry came from a table of the other order.
`KeyMap` is the abstract specification, in which a HASH is a set of pairs: what each
statement does to the map, which of two equal keys stays, which value wins in `+`, what a
failing REMOVE of several keys has removed. Of a HASH that got its table from one with
FOLD_CASE by REMOVE(/ALL) or `+` it promises nothing; that is where the code's promise ends
(section 6). `ImplementsKeyMap` is the refinement.

## 3. Runs

| Run | Module, cfg | Shows |
|---|---|---|
| `heap_pointers` | MCHeap, HeapPointers | pointers only: counts exact and nothing referenced destroyed under PTR_NEW, assignment, PTR_FREE, HEAP_REFCOUNT, HEAP_GC |
| `heap_objects` | MCHeapLife, HeapObjects | objects whose CLEANUP assigns, destroys, collects and fails: counts exact, one CLEANUP per object at a time, the flag of HEAP_GC right, the life cycle implemented |
| `heap_dangling` | MCHeap, HeapDangling | no dangling reference in programs without PTR_FREE, OBJ_DESTROY and HEAP_GC whose CLEANUP methods neither copy SELF nor fail: every statement these conditions leave is in the vocabulary |
| `heap_sweep` | MCHeapSweep, HeapSweep | HEAP_GC frees no reachable pointer, collects what was unreachable, ends; every CLEANUP ends: for CLEANUP methods that let go of references, call HEAP_GC and do not fail |
| `units_all` | MCFileUnits, UnitsAll | every procedure, in any order: no unit is handed out twice |
| `units_journal` | MCFileUnits, UnitsJournal | the journal's unit stays open, CLOSE deletes only what was asked for, no unit is lost, for programs that neither compress nor end the journal, and use neither SOCKET, TRUNCATE_LUN nor .RESET_SESSION |
| `sem_lock` | MCSemaphores, SemLock | exclusive locks, and the table of DESTROY_SEMAPHORE, under deletes, exits and crashes |
| `bridge` | MCBridge, BridgeAll | the answer taken is that of the last command, busy clients are known to be, waits end and answers are reported |
| `dispatch` | MCDispatch, DispatchAll | every error ends where the rules say, statements run in their own environment, the first error of a line typed at an inner prompt is ignored where it happens, EXECUTE's guard is undone on every way out; `HandledByRules` not under `stale` |
| `shm` | MCSharedMemory, SharedAll | exact counts, backed segments, a name unlinked by its owner only, nothing left behind |
| `hash` | MCHash, HashAll | keys are found, searches end, the assertions of hash.cpp hold in tables of either order, and the tables implement maps |
| `dispatch_flag` | MCDispatch, DispatchFlag | a violation, see section 6 |

**Bounds.** `MaxIx` bounds the identifiers allocated, `MaxDepth` the frames; an action
that would pass a bound is not enabled. Two variables and two or three identifiers give a
cycle of two, a chain, an object that refers to itself, and an identifier that ResetHeap
hands out again. 12 frames hold three nested CLEANUP calls inside a sweep; what each
configuration leaves out is in its vocabulary. `MainOps` and `CleanupOps` divide the
statements among the runs, because everything at once is beyond TLC: pointers need no
CLEANUP and get three identifiers, objects get every CLEANUP statement and two. The units
run with one unit the program names and two of the pool, so that a unit can be taken while
another is free, lost or the journal's; two names and one descriptor are enough for a name
to be overwritten and a descriptor to be forgotten. `units_all` leaves DELETE and F77 out
(no unit's availability depends on them) and the unit the program names. Three processes and two semaphores let a name
be bound again while an older semaphore is in use, and let a third process lock while
two meet in SEM_CREATE; `MaxValue` 2 is one more than exclusion allows, so a surplus
release would be seen. `sem_lock` allows deadlock because all processes may have ended.
`bridge` has two clients, one with commands (two: one to be answered while the other is
sent) and a call-back, and two spies, since the second is started when the map was empty in
between; `MaxDepth` 2 lets a call-back wait for a command of its own (a call-back in an
OBJ_DESTROY in a call-back needs 4: the theorems hold for every depth). It and `shm` may stop:
commands and objects are bounded. `dispatch` explores two families of stacks (the CONSTRAINT
`Explored` of `MCDispatch`): three environments and three activations (an inner loop adds
one) with every statement and user, which gives a routine in an EXECUTE in a routine, and a
call-back in an inner loop; and four environments and six activations without call-backs,
ON_IOERROR and any ON_ERROR but 2, which gives a routine that stops, a line at its prompt and
two routines called by that line, an error of the inner of which is ignored and one of the
outer is not. `shm` has two processes, two handles, two variables, two lengths; one name is used
again for another handle. `hash` has two HASHes of four keys (two differ only in case) and
tables of 4 and 8 places, so that tables fill, grow, get holes and are shifted both ways;
entries are set or removed singly while the other HASH is empty (`Alone`), more entries are
inserted while there are at most `MaxEntries` (`MaxMixed` if a table is in the wrong order)
in all, and one key only takes two values: a value that goes astray is seen by that.

**Symmetry.** Variables, files and processes are interchangeable in the safety runs;
`heap_sweep` and `bridge`, which check liveness, use none.

**Fairness.** `heap_sweep` and `bridge` assume some. `FairSpec` of `HeapSweep` has weak fairness of the C++ steps
(one thread; C++ code that can go on does) and strong fairness of the return of a CLEANUP
method: a method that is entered again and again terminates, as a program whose loops end
does. Nothing is assumed of `$MAIN$`. Without the second assumption a CLEANUP that loops
would keep HEAP_GC from returning, in the code as in the model. `FairSpec` of `Bridge` has weak
fairness of each spy (a thread of its own, which sleeps and polls for ever), of the master's
wait (`mq_receive`, gdl2gdl.cpp:518, returns when there is a message; the spy may have taken
it first, so strong fairness is not assumed) and of the second half of a send, and of a client that was
interrupted: sigControlC is tested at every statement. A command that nobody interrupts may
run for ever, and no program has to call anything. That a search in a HASH ends needs no
fairness: `SearchEnds` bounds the passes of the loop by the size of the table. The liveness of SEM_LOCK
is not claimed: `sem_trywait` polls, and the code promises no turn.

**Mutants.** For every property of a passing run PROJECT.json names a plausible error (a
missed count, an OR for an AND, a guard dropped, a flag not reset, a root left out) under
which TLC finds the property violated.

## 4. Proofs

All theorems hold for every value of the constants under the assumptions named in the
modules (bounds are natural numbers, sets of names are disjoint, `Vars` is finite).

| Theorem | Statement | Condition |
|---|---|---|
| `TypeCorrect` (HeapProofs) | `Spec => []TypeOK` | |
| `CleanupIsExclusive`, `SweepFlagHolds` (HeapProofs) | `[]CleanupExclusive`, `[]GCFlag` | |
| `CountsTellReferences`, `LastReferenceFrees`, `DecNeverBelowZero` (HeapProofs) | `[]CountExact`, `DiesUnreferenced`, `[](~stale => CountPositive)` | `stale` is in the properties |
| `CountingLeavesNoneDangling` (HeapProofs) | `[]NoDangling` | `Modest`: no PTR_FREE, OBJ_DESTROY, HEAP_GC; CLEANUP neither copies SELF nor fails |
| `ObjectsFollowLife` (HeapLifeProofs) | `ObjectsLive`: `Heap` implements `ObjLife` | |
| `SweepSparesNameable` (HeapLifeProofs) | `SweepSparesReachable` | `OnlyLetGo`: CLEANUP methods clear, free, destroy, call HEAP_GC or fail, and neither create nor pass on references |
| `SweepCollectsUnreachable` (HeapLifeProofs) | `SweepCollectsDoomed` | `OnlyLetGo`; `NoErrors`: no CLEANUP fails; `FullSweeps`: HEAP_GC without /PTR and /OBJ |
| `UnitsTypeCorrect`, `UnitsHandedOutOnce` (FileUnitsProofs) | `[]TypeOK`, `[]NeverTwice` | |
| `JournalStaysOpen`, `DeletionIsAsked` (FileUnitsProofs) | `[]JournalOpen`, `DeletesOnlyAsked` | `NamesKept`: no SOCKET, TRUNCATE_LUN, .RESET_SESSION |
| `UnitsAreKept` (FileUnitsProofs) | `[]NoUnitLost` | `NoneLost`: no end of a journal, no COMPRESS |
| `SemTypeCorrect` (SemaphoresProofs) | `[]TypeOK` | |
| `LockIsExclusive` (SemaphoresProofs) | `[]MutualExclusion` | `FreshEntries`: a new entry before a released lock is used again |
| `TableIsKept` (SemaphoresProofs) | `UnlinksAsTable` | `NoneDestroys`: no DESTROY_SEMAPHORE=1 |
| `StatementsInOwnEnv`, `ExecuteIsGuarded` (DispatchProofs) | `[]InOwnEnv`, `[]EnabledOutside` | `leaked` is in the first |
| `DispatchTypes`, `ErrorsFollowRules` (DispatchProofs) | `[]TypeOK`, `HandledByRules` | `leaked` and `prompt # "stale"` are in the second |
| `BridgeTypes`, `AnswersAreOfLastCommand`, `BusyClientsAreKnown` (BridgeProofs) | `[]TypeOK`, `[]AnswersLastCommand`, `[]BusyIsKnown` | |
| `ShmTypeCorrect`, `CountsAreExact`, `SegmentsAreBacked` (SharedMemoryProofs) | `[]TypeOK`, `[]CountExact`, `[]Backed` | |
| `OwnersKeepNames`, `NoObjectIsLeft` (SharedMemoryProofs) | `[]OwnerKeepsName`, `[]NothingLeft` | the conditions are in the invariants: `excuse` |
| `HashTypes`, `SearchesEnd`, `AssertionsNeverFail` (HashProofs) | `[]TypeOK`, `[]SearchEnds`, `[]AssertionsHold` | |
| `EveryKeyIsFound`, `HashesAreMaps` (HashProofs) | `[]KeysFound`, `ImplementsKeyMap`: `Hash` implements `KeyMap` | `kept` is in both |

*Types of the heap.* `TypeOK` is not inductive: `CopyEnd` writes the slot its frame names,
and `BaseThrow` looks at the frame below. The invariant `TypeInv` adds `ShapeOf(stack)`:
`$MAIN$` is at the bottom, and every frame can stand on the one below it (`StandsOn`: a
method on the activation that called it, for the same object; the frames of `AssignAt` on
a `store`). There is one lemma for each of the ways a stack grows, shrinks or is replaced.

*One CLEANUP, one sweep.* `CallsMarked` says that every activation of `ObjCleanup` between
insertion and removal is recorded in `inProgress` and that no two are for one object;
that the guards test `inProgress` before they insert makes it inductive, and the errors
that unwind two or three frames are the delicate cases. `SweepFlagged` says that the
flag is set exactly if one HEAP_GC is on the stack. Each action is described as a change
above a frame (`Keeps`), so the part of the stack it does not touch needs no argument.

*Counts.* A count is the cardinality of a set of slots, and a step moves references between
several slots at once, with code in between that may do anything; the count is exact only
if one knows what the slots hold that nobody reads. `Exact` says it: the contents of what
is not on the heap are Null (`DeadEmpty`), and so are the temporaries that no activation
owns (`TmpsOwned`) and the target of an assignment that is still destroying the old value
(`DyingEmpty`), which no second assignment shares (`DyingOnce`); what an error leaves to be
put back is gone (`FreedDead`); and no slot, frame or leaked object names an identifier that
has not been handed out (`FreshUnknown`), so that PTR_NEW starts with a count of one.
`PutNum` says what a change of one slot does to the number of holders of each heap variable,
and every action is a composition of such changes with `Inc` and `Dec`. What a step does
above a frame is again described once (`Respects`). `CountInv` claims all this until `stale`
is set; `ResetHeap` and the unwinding of `AssignAt` by an error are the only two steps that
set it, and the theorem shows that no other needs to. `DiesUnreferenced` follows:
when DecRef finds a count of one, the temporary is the only holder.

*No dangling reference.* With exact counts a removal by DecRef takes the last reference
away, but CLEANUP runs before the removal with a reference in SELF, and could hand it on.
`DanglingInv` says that only the activations which remove an object hold what is not on the
heap (`SlotsSound`) and that an object whose CLEANUP was started by its last reference has
no other holder (`LastHeld`). `Modest` names the programs for which this is inductive: PTR_FREE,
OBJ_DESTROY and HEAP_GC remove what is referenced, a CLEANUP that copies SELF keeps a
reference to what will be removed when it returns, and an error puts the old value back.
It is a statement about programs, satisfied by those of `heap_dangling`; each of its parts,
dropped, gives a dangling reference.

*Life of objects.* `ObjectsFollowLife` is the refinement of `ObjLife`: the phase of an object
is read from the heap, `inProgress` and the frames that are for it, so that a step which
moves a frame must be shown to move one object along one arrow, and no other. `LifeInv`
strengthens the exclusion of CLEANUPs: a call of `ObjCleanup` stands for an object that is on
the heap until its removal and is gone after it (`FrameSound`); between the erasing from
`inProgress` and the removal by OBJ_DESTROY, when the destructor of SELF may start
a second CLEANUP, nothing but that one can be there for the object (`FreeSound`); a mark without
an object has a call which will remove it (`MarkedKnown`), and a new identifier is unmarked
(`Unborn`), which is why a new object is never in phase "stuck". `Keeps` reduces the phases
after a step to those of the frames it adds.

*What HEAP_GC spares.* The marks are made once and used after CLEANUP methods have run.
`Spared(A, g)` says of a set of heap variables that it holds what can be named and what
those contain, that the sweep of frame g has none of it left to remove, and that it was not
doomed; `Marked(g)` that there is one. The proof never asks what can be reached now: a step
that only lets go (`Releases`: whatever slot it changes holds nothing on the heap
afterwards) keeps the same set (`SparedKept`), so the reachable set, being the least one
(`ReachedFacts`), stays inside it. `LetsGo` is the delicate part: an assignment that
destroys an old value while HEAP_GC runs can only be that of Null, or put back, after an
error, what is no longer there. `OnlyLetGo` is needed: HEAP_GC frees a pointer that a CLEANUP
stored in a variable, since it does not look again.

That HEAP_GC collects everything it was asked for needs more (`CollectInv`). A doomed heap
variable that is still there is on the list of the sweep (`Listed`), or it is an object
whose CLEANUP the sweep has just called: the frame above HEAP_GC is its `envt` or
`envtFree` (`Handed`). Taking an object off the list without a CLEANUP is harmless, because the object
is gone or in progress; in progress and still there, it has a CLEANUP method below HEAP_GC
(`MarkedHeld`, `CodeAbove`), so SELF reaches it and it is not doomed (`PassedOver`). A call
of HEAP_GC within a CLEANUP can doom more than the list knows, and sets the flag to 2: the
list counts only while the flag is 1, and `GCAgain` makes it anew. `NoErrors` is needed:
an object whose CLEANUP failed stays marked, and no HEAP_GC collects it.

*Units.* `Held` (whoever has a unit holds its lock, nobody shares one) is carried through
openings, failures and closings by one lemma about changing one unit. For the journal and
for deletion the invariant `OpenInv` adds that a unit with a DELETE request is open on the
file of the opening that asked for it: this is what SOCKET (it overwrites the name),
TRUNCATE_LUN (it may leave a closed unit with its request) and .RESET_SESSION (it leaves
`gdljournal` behind) break, hence the condition. For `NoUnitLost` the invariant `LostInv`
says that a locked unit of the pool has an owner and that no stream is a closed compressed
one; the first is what the end of a journal breaks, the second what COMPRESS does, and
every other procedure keeps both.

*Semaphores.* A token is what a process took with `sem_trywait`. `TokenInv` says that a
holder has a token of its own entry's semaphore, that no two processes have a token of one
semaphore, that a semaphore with a token has value 0 and any other at most 1, and that
semaphores not yet created are in nobody's hands. Two locks then mean two tokens, hence two
semaphores. `SEM_RELEASE` without a token would put the value at 1 while another has the
token: the condition excludes it (section 6 tells how the code gets there). For the table,
`OwnerKeepsName` says that an entry that will unlink the name belongs to the only creator
of the semaphore the name is bound to.

*Dispatch.* `DispatchInv` describes the C++ stack against the call stack: the environment
of every activation exists, and an activation that pushed one stands above those before it
(`Standing`); unless an event's call-back left its environment behind, there is one
environment per such activation and `$MAIN$` (`Matching`); what every EXECUTE saved tells
whether it is outside all others (`Guarding`). The delicate steps are those that cut the
stack at several places at once, an error, RETALL and .RESET_SESSION: they cut to the
lowest activation of a kind, so that what remains is described by the same invariant.

The types need to know how the stack is built (`BuildInv`): routines and EXECUTE stand on an
activation that runs statements, and only an inner loop may be above the bound, because a
step that opens one has no guard on the height.

`HandledByRules` compares two things: the walk by which GDLInterpreter::statement
(GDLInterpreter.cpp:514-571, `Target`) finds the environment for ON_ERROR, and the activation that the rules, stated without
the walk (`StopsAt`), name at the time of the raise. The walk over nested ON_ERROR,2 is a
recursive function (`Walked`); that it satisfies its equation is proved from an explicit
witness, and what it yields from a least counterexample (`WalkedStep`, `WalkedValue`). Then
`TargetRules`: both agree in every state. The error is an action per activation it leaves, and
what is expected of it was fixed when it was raised, so the invariant (`Pending`) says that the
expectation is what one would still have of the stacks that are left: no activation that was
left was to take the error, and the environments below are lower than those that are gone.
The expectation of a typed line's first error rests on `Fits`: unless `prompt` is stale, it
tells where the inner loops stand on the C++ stack and whether the flag is set. That is what
shows that an error of the program, with no line being typed, is not dropped.
The proof attempt found a definition that was too loose: `StopsAt` has to say that the
nearest caller is not above the routine that asked, without which it could choose any
environment above it. TLC could not tell: it takes the first value that a CHOOSE allows.

*Shared memory.* `ShmInv` says that the segments of a process are at addresses of their own
with an object below each (`Placed`), that counts are exact (`Counted`) and every variable
is on some segment (`Covered`), that an object at an address has a size and one just
created has none (`SizeInv`), and what each call of SHMMAP in progress has in hand
(`CallInv`). One lemma about taking a reference off (`Unreferences`) carries SHMVAR, the end
of a variable and TEMPORARY: before it the count at one address is one more than it should
be (`Owed`). `Vars` is assumed finite because counts are cardinalities. `NamesInv` adds that
an object has one name, that no two segments which have to be destroyed have the same OS
handle, and that the handle a process has just created is nobody else's to unlink: without
the latter two an unlink by name could hit another segment.

*Bridge.* Both properties are about one client at a time, and `ClientInv` describes one:
what it looks like before its first sign of life and while it is told something (`Shape`);
that its last command is in one place only, the pipe, its hands or the queue (`Flight`);
and that its entry says so as long as the command is under way, while no call-back that
would reset the entry is pending unless the master itself waits (`Known`). The last two hold
unless the client is to blame for one of "early", "stop" and "cut". The frames of the master
below the top are call-backs, events and exits (`Settled`), so that a program which runs
interrupts no sending and no fork. Every step is about one client, and `Aside` says what it
leaves to the others; `Calm` says it of the ends of call-backs, where an exception may empty
the stack. It was TLC at a greater depth, with `BridgeInv` as invariant, that showed "cut" to
be needed: at `MaxDepth` 4 an OBJ_DESTROY is cut off by the exception of a call-back. The
theorems are about `Spec`, hence about `FairSpec` too.

*Hash.* `HashInv` is three facts about every table: it is an array of entries and holes within
the bound, its count is that of its entries (`Sound`), and if `kept` says so its entries ascend
in the order its bit names (`InOrder`). Everything else is about one statement and needs no
history. The loops of the code are recursive functions. `Loop` gives each a run, and `Turns`
carries an invariant from turn to turn by a least counterexample, since the library's
induction theorems cannot be used. The invariants: of a search (`SearchInv`), that the
interval gets shorter with every pass, ends at an entry or at the end of the table, and that
the entries outside it are on the right side of the key; so it ends, never finds its interval
"outside", and the place it gives for a key that is absent is between the smaller and the
larger ones (`Between`). Of a table that a hole is filled in, where each entry came from
(`Makes`): one lemma (`MadeFacts`) then serves the shift from below and the one from above.
Of a growth, that spreading by division gives entries places of their own in their order
(`Places`), because there are no more entries than places. Of a merge, that what was put out
is below all that is still to come (`Merged`). Of a removal of several keys, what is left
after n of them and which were there (`RemovedInv`). Each statement then has a lemma that it
keeps `HashInv` and is a step of `KeyMap` (`EveryStatement`). The ranks are any two functions to
numbers: the theorems hold for every pair of orders of the keys, and for batches of every
length. `MaxSize` is assumed to be at least 4, the size of the smallest table.

*Only model-checked.* `SweepEnds`, `CleanupFinishes` and the liveness of `Bridge`, which are
out of the prover's reach.

## 5. What the models abstract

*Heap.* A heap variable contains one reference; other contents do not matter. A variable is
no array: an element assigned through a one-element subscript (datatypesref.cpp:405-410,
541-546) is neither counted nor dropped, which is a further way for counts and references to
part, and is not modelled. All variables
are in COMMON blocks: their storage does not move and HEAP_GC searches them. INIT is not run
as code; its three outcomes are. An error in a method called by OBJ_DESTROY inside a method
goes on in the enclosing code, which stands for a handler there. Statements that touch a
member whose old value is being destroyed, and OBJ_DESTROY of an array, are left out; a
statement that touches a variable in that state is undefined. `assert` is active, as in a
build without NDEBUG. SAVE/RESTORE, LIST and HASH as owners of references, local variables
of routines and .RESET_SESSION are left out.

*Units.* Contents, positions and widths, XDR, swapping and VMS records, the standard units,
APPEND, the removal of files by other means and TRUNCATE_LUN of a pipe are left out. A
procedure that only reports an error (no unit available, the journal's unit refused) changes
nothing and has no action. SOCKET's descriptors are those of the process.

*Semaphores.* One name: names share nothing. The POSIX branch; a `sem_open` that fails for
another reason than EEXIST changes nothing. SEM_LOCK that answers 0 and SEM_RELEASE of a
lock that is not held are stuttering steps.

*Bridge.* The contents of commands and variables and their transfer through shared memory;
errors of the system calls. A client is forked once: process numbers are not used again. An
error or RETALL in a call-back's own code, which leaves gdl2gdl.cpp:96 or 192 without
resetting the entry and may cut off the OBJ_DESTROY around it, is not modelled; its effect on
the entry would be that of "cut". Nor are a client's .CONTINUE, .STEP and RETALL, which end a
command without an answer and leave the client at its prompt (dinterpreter.cpp:2020, 2047);
halting in a routine is the only unanswered command of the model.

*Dispatch.* What statements compute. Typed lines and EXECUTE's strings are one statement;
the main program of .RUN, batch files, nested statement lists, MESSAGE's error state,
ON_ERROR's messages and wrapped nodes, whose errors are thrown on before any handler is
looked for (GDLInterpreter.cpp:445), are left out.

*Shared memory.* POSIX objects with OFFSET 0; /SYSV and FILENAME are left out, and so are
types and dimensions: a segment has a length.

*HASH.* A statement is one step: no CLEANUP of a replaced value runs in between. Keys are
ranked; NaN, and 64-bit integers compared with doubles, for which HashCompare is no order
(datatypes.cpp:2145), are left out, as are ORDEREDHASH, LIST, values that are HASHes, nested
subscripts, EQ, NE, WHERE, TOSTRUCT and the heap variables of keys and values.

## 6. Findings and divergences

`dispatch_flag` ends with a violation: a routine that STOPs and is continued with .CONTINUE
leaves `inInnerInterpreterLoop` set (dinterpreter.cpp:1764), and its next error is dropped as
if it were one of a typed line, although GDLInterpreter.cpp:431 speaks of "errors while
typing commands in inner loop" only. A CATCH of that routine is missed then: it is the case
`HandledByRules` leaves out (`prompt = "stale"`).

The models also contain the following effects of the code. TLC reaches each when the
condition that excludes it is dropped from the property or the statement is added to the
vocabulary of the run named; no run of its own is kept for them.

Heap:

* `ResetHeap` (GDLInterpreter.hpp:723) restarts the identifiers when both
  heaps are empty, while variables may still hold references to freed heap variables. The
  next PTR_NEW hands an old identifier out, and dropping the old reference decrements the
  new variable's count, up to the assertion `count > 0` of objects.hpp:186.
* `EnvT::ObjCleanup` (envt.cpp:686) erases the object from `inProgress` only
  after CLEANUP returned. A CLEANUP that fails leaves it there (`CleanupFinishes`, in
  `heap_sweep` with `error`; `ObjectsLive` allows it as the phase "stuck"); HEAP_GC and OBJ_DESTROY
  skip it from then on ("no memory leaks, gc possible", GDLInterpreter.hpp:199;
  `EnvBaseT::ObjCleanup` has a guard for it, envt.cpp:618).
* The roots of HEAP_GC (envt.cpp:473) leave out what a suspended C++
  activation holds. A pointer that an assignment is about to store is freed when the
  destruction of the old value runs a CLEANUP that calls HEAP_GC, although that call is
  provided for (envt.cpp:455).

Units and semaphores:

* JOURNAL without argument (gdljournal.cpp:172) closes its unit
  without giving the lock back: every journal session costs a unit of the pool, until "All
  available logical units are currently in use." (basic_pro.cpp:443) is said with no file
  open.
* SEM_RELEASE (semshm.cpp:258) clears the flag of a copy of the record. The
  process's next SEM_LOCK answers 1 without asking the system, although another process
  may have taken the lock ("lock already held", semshm.cpp:239).
* A compressed file that is closed leaves a stream object that `InUse` counts
  (io.cpp:219): the unit is not handed out again until it is freed or opened otherwise
  (`NoUnitLost`, `units_journal` with `compress`).
* OPEN sets F77_UNFORMATTED before it refuses a unit that is open (io.cpp:636): the
  layout of the open file changes.
* SOCKET overwrites the descriptor of a unit that has one (io.cpp:730); the old socket
  is never closed.
* `.RESET_SESSION` destroys the units and leaves `gdljournal` pointing into them
  (objects.cpp:175): `JournalOpen` fails with `reset_session`.
* TRUNCATE_LUN accepts the journal's unit, and leaves a unit that it could not open again
  with its DELETE request (basic_pro_jmg.cpp:766, io.cpp:1007): `JournalOpen` fails with
  `truncate`.
* SEM_CREATE that finds the name bound and loses it before its second `sem_open` creates a
  semaphore of value 0 that it does not own: nobody can lock it, nobody unlinks it, and it
  outlives the process (semshm.cpp:128 says "remove semaphores created by this gdl
  process").
* `sem_unlink` goes by name: with DESTROY_SEMAPHORE=1 in one process the name of another
  process's semaphore is taken away and bound again, and the owner of the older one then
  unlinks the newer (`UnlinksAsTable` with `destroy`).

Bridge:

* The status of an entry is set before `nowait` (gdl2gdl.cpp:137): between the two the spy
  may take a command to wait for as one it reports, and take its answer; the master then
  waits for ever (`WaitEnds` without "mixed"). A second spy beside the first does the same.
* Abort of an idle client (962) waits for an answer that does not come.
* A client that runs STOP answers at the inner prompt and once more when the line is done:
  the second answer is taken for that of the next command (`AnswersLastCommand`). A command
  that is sent while a call-back of the client is still in the queue is forgotten when that
  call-back ends, and the next one is sent while it runs.
* A call-back that destroys its own object: when it returns, `g2gMap.at` (gdl2gdl.cpp:99
  and 194) throws, and the master is back at its prompt. If the call-back was called by the
  OBJ_DESTROY of another object, that one is cut off: its client lives on, interrupted, with
  an entry that says it has answered. This takes four frames of the master, more than the
  run's `MaxDepth`; it is what the causes of `AnswersLastCommand` and `BusyIsKnown` call
  "cut".
* A client that halts in a routine or dies leaves a waiting master waiting.

Error dispatch:

* A call-back's environment is pushed without a guard (gdl2gdl.cpp:190): after an error in
  it the call stack is deeper than what runs, up to the assertion of dinterpreter.cpp:2055.
  `InOwnEnv` and `HandledByRules` claim nothing after that.
* ON_ERROR 1 or 2 that reaches $MAIN$ inside a routine's call opens an inner loop,
  where the comment at dinterpreter.cpp:134 expects the main prompt.
* A CATCH that is jumped to from inside EXECUTE runs the rest of the routine inside the
  EXECUTE's statement loop, which then returns 1 and runs the rest again.

Shared memory:

* SHMMAP refuses a segment name that is taken only if the OS object exists (shm.cpp:172);
  otherwise the insertion fails silently (233) and the new mapping is lost.
* SHMMAP unlinks an object that it finds too short (181), also one whose creator is only
  about to give it a size (193-196): the creator's segment has lost its name.
* DESTROY_SEGMENT=1 unlinks by name (269), whoever's the name is by then
  (`OwnerKeepsName` without its condition).
* The descriptor of `shm_open` is closed after `mmap` (218), but not on the ways out before
  it: a segment name that is taken (175), an object that is too short (182), an `ftruncate`
  that fails (197).

HASH:

* A HASH got from one with FOLD_CASE by REMOVE(/ALL) (hash.cpp:1982) or `+` (1444, which
  says "merge sort them together") has the entries in the order without case, or merged by
  an order they are not in, and a zero in TABLE_BITS: keys that are there are not found and
  are inserted a second time (`KeysFound` without `kept`).
* In structure + HASH the structure wins, in HASH + structure too (1621-1650).
* REMOVE of several keys that fails at one of them has removed those before it, and their
  values are lost (2064).
* `h[k] = v` with a key that is there and SET store the new value over the old one, whose
  references are never given back (2264, 2403); InsertIntoHashTable deletes the old value
  first, while the entry still points to it (515).
* EQ and NE search the table of one HASH with the bit of the other.

## 7. Plan

1. Graphics windows: the two lists, the active window, windows the user closes; widgets on
   top of them; LIST; associated variables on top of `FileUnits`.
