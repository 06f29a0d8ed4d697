---------------------------- MODULE SharedMemory ----------------------------
(***************************************************************************)
(* Shared memory segments (shm.cpp): SHMMAP, SHMVAR, SHMUNMAP, the end of  *)
(* a variable and the end of a process, in several GDL processes.          *)
(*                                                                         *)
(* The system keeps objects of a size under names, the OS handles, and an  *)
(* object lives as long as a name or a mapping has it.  Every process      *)
(* keeps a table of segments, by names of its own, that counts the         *)
(* variables on a segment; a variable knows its segment by the address     *)
(* only, and the system may use an address again.                          *)
(*                                                                         *)
(* SHMMAP makes several calls of the system and other processes run in     *)
(* between; everything else of a process is one step.  POSIX segments      *)
(* with OFFSET = 0; /SYSV and FILENAME are left out.                       *)
(***************************************************************************)
EXTENDS Integers, FiniteSets, FiniteSetsExt

CONSTANTS
    Processes,
    Handles,        \* OS handles
    Names,          \* segment names of a process
    Vars,           \* variables of a process
    Sizes,          \* lengths that are asked for
    MaxObjects,     \* bound: objects that exist at a time
    MaxAddrs,       \* bound: addresses of a process
    Ops             \* what the programs do

AllOps == {"destroy", "keep", "die"}

ASSUME VarsAssumption == IsFiniteSet(Vars)
ASSUME SizesAssumption == Sizes \subseteq Nat \ {0}
ASSUME BoundsAssumption == MaxObjects \in Nat /\ MaxAddrs \in Nat
ASSUME OpsAssumption == Ops \subseteq AllOps

Objects == 1 .. MaxObjects
Addrs == 1 .. MaxAddrs
None == 0

(* DESTROY_SEGMENT: absent, different from zero, zero. *)
Keywords == {"unset"} \cup (Ops \cap {"destroy", "keep"})

(* SHMAP_STRUCT *)
Segment == [addr : Addrs \cup {None}, handle : Handles, length : Sizes, refcount : Nat,
            destroy : BOOLEAN, pending : BOOLEAN]

NoSegment == [addr |-> None]

(* A call of SHMMAP that is under way. *)
Call == [at : {"found", "short", "absent", "created"}, handle : Handles,
         object : Objects \cup {None}]

NoCall == [at |-> "none"]

(* What happened before: an object may be left because its process was     *)
(* asked to keep it, was killed, or has used a name again; it may be lost  *)
(* because another process found it too short or asked to destroy it.      *)
Excuses == {"nothing", "left", "lost"}

VARIABLES
    named,          \* the object an OS handle stands for
    size,           \* the size of every object
    shmList,        \* the segments of every process
    mapped,         \* the object at every address of a process
    var,            \* the address a variable's data are at; None when they are its own
    call,           \* where SHMMAP is
    excuse          \* history

vars == <<named, size, shmList, mapped, var, call, excuse>>

TypeOK ==
    /\ named \in [Handles -> Objects \cup {None}]
    /\ size \in [Objects -> Sizes \cup {0}]
    /\ shmList \in [Processes -> [Names -> Segment \cup {NoSegment}]]
    /\ mapped \in [Processes -> [Addrs -> Objects \cup {None}]]
    /\ var \in [Processes -> [Vars -> Addrs \cup {None}]]
    /\ call \in [Processes -> Call \cup {NoCall}]
    /\ excuse \in Excuses

Init ==
    /\ named = [h \in Handles |-> None]
    /\ size = [o \in Objects |-> 0]
    /\ shmList = [p \in Processes |-> [n \in Names |-> NoSegment]]
    /\ mapped = [p \in Processes |-> [a \in Addrs |-> None]]
    /\ var = [p \in Processes |-> [v \in Vars |-> None]]
    /\ call = [p \in Processes |-> NoCall]
    /\ excuse = "nothing"

Runs(p) == call[p] = NoCall

Listed(p, n) == shmList[p][n] # NoSegment

(* An object that has no name, no mapping and no descriptor is gone. *)
InUse ==
    {named[h] : h \in Handles} \cup {mapped[p][a] : p \in Processes, a \in Addrs}
        \cup {call[p].object : p \in {q \in Processes : ~Runs(q)}}

Collects ==
    size' = LET inUse == InUse' IN [o \in Objects |-> IF o \in inUse THEN size[o] ELSE 0]

-----------------------------------------------------------------------------
(* SHMMAP *)

(* shm_open of what exists.  Only then a name that is taken is refused.    *)
(* The other arguments are chosen where they are used.                     *)
ShmMapFound(p, h) ==
    /\ Runs(p)
    /\ named[h] # None
    /\ \E n \in Names : ~Listed(p, n)
    /\ call' = [call EXCEPT ![p] = [at |-> "found", handle |-> h, object |-> named[h]]]
    /\ UNCHANGED <<named, size, shmList, mapped, var, excuse>>

ShmMapAbsent(p, h) ==
    /\ Runs(p)
    /\ named[h] = None
    /\ call' = [call EXCEPT ![p] = [at |-> "absent", handle |-> h, object |-> None]]
    /\ UNCHANGED <<named, size, shmList, mapped, var, excuse>>

Destroys(keyword, creator) == keyword = "destroy" \/ (keyword = "unset" /\ creator)

Worse(what) == IF excuse = "nothing" THEN what ELSE excuse

(* mmap at some free address; insert keeps an entry that has the name. *)
Maps(p, n, length, keyword, creator) ==
    LET destroy == Destroys(keyword, creator)
    IN /\ \E a \in {x \in Addrs : mapped[p][x] = None} :
            /\ mapped' = [mapped EXCEPT ![p][a] = call[p].object]
            /\ shmList' = IF Listed(p, n) THEN shmList
                          ELSE [shmList EXCEPT ![p][n] =
                                  [addr |-> a, handle |-> call[p].handle, length |-> length,
                                   refcount |-> 0, destroy |-> destroy, pending |-> FALSE]]
       /\ excuse' = CASE destroy /\ ~creator -> "lost"
                      [] Listed(p, n) \/ (creator /\ ~destroy) -> Worse("left")
                      [] OTHER -> excuse
       /\ call' = [call EXCEPT ![p] = NoCall]

\* Plausible error: the size of what exists is not compared.
LongEnoughAlways(object, length) == TRUE

LongEnough(object, length) == length <= size[object]

(* fstat of the object found. *)
ShmMapExisting(p, n, length, keyword) ==
    /\ call[p].at = "found"
    /\ ~Listed(p, n)
    /\ IF LongEnough(call[p].object, length)
       THEN /\ Maps(p, n, length, keyword, FALSE)
            /\ UNCHANGED <<named, size, var>>
       ELSE /\ call' = [call EXCEPT ![p].at = "short"]
            /\ UNCHANGED <<named, size, shmList, mapped, var, excuse>>

(* Too short: shm_unlink, and the error. *)
ShmMapTooShort(p) ==
    /\ call[p].at = "short"
    /\ named' = [named EXCEPT ![call[p].handle] = None]
    /\ call' = [call EXCEPT ![p] = NoCall]
    /\ excuse' = "lost"
    /\ UNCHANGED <<shmList, mapped, var>>
    /\ Collects

(* shm_open with O_EXCL makes an object of size 0, or fails. *)
ShmMapCreate(p) ==
    /\ call[p].at = "absent"
    /\ IF named[call[p].handle] # None
       THEN /\ call' = [call EXCEPT ![p] = NoCall]
            /\ UNCHANGED named
       ELSE /\ Objects \ InUse # {}
            /\ LET o == Min(Objects \ InUse)
               IN /\ named' = [named EXCEPT ![call[p].handle] = o]
                  /\ call' = [call EXCEPT ![p].at = "created", ![p].object = o]
    /\ UNCHANGED <<size, shmList, mapped, var, excuse>>

(* ftruncate and mmap. *)
ShmMapTruncate(p, n, length, keyword) ==
    /\ call[p].at = "created"
    /\ size' = [size EXCEPT ![call[p].object] = length]
    /\ Maps(p, n, length, keyword, TRUE)
    /\ UNCHANGED <<named, var>>

-----------------------------------------------------------------------------
(* Variables, SHMUNMAP *)

\* Plausible error: DESTROY_SEGMENT_ON_UNMAP is not looked at.
UnlinksAlways(seg) == TRUE

Unlinks(seg) == seg.destroy

(* The entry goes: munmap, and shm_unlink of whatever has the OS handle. *)
Unmapped(p, n) ==
    LET seg == shmList[p][n]
    IN /\ mapped' = [mapped EXCEPT ![p][seg.addr] = None]
       /\ named' = IF Unlinks(seg) THEN [named EXCEPT ![seg.handle] = None] ELSE named

\* Plausible error: the other references are not looked at.
LastReferenceAny(seg) == seg.pending

(* seg: the entry, the reference already taken off. *)
LastReference(seg) == seg.pending /\ seg.refcount < 1

(* GDLDelete of the value of a variable (shm_unreference): list is the     *)
(* table at that moment.                                                   *)
Unreference(p, a, list) ==
    LET at == {n \in Names : list[p][n].addr = a}
        n == CHOOSE n \in at : TRUE
        seg == [list[p][n] EXCEPT !.refcount = @ - 1]
    IN IF a = None \/ at = {}
       THEN shmList' = list /\ UNCHANGED <<mapped, named>>
       ELSE IF LastReference(seg)
       THEN shmList' = [list EXCEPT ![p][n] = NoSegment] /\ Unmapped(p, n)
       ELSE shmList' = [list EXCEPT ![p][n] = seg] /\ UNCHANGED <<mapped, named>>

(* v = SHMVAR(n): the new value is there before the old one goes. *)
ShmVar(p, n, v) ==
    /\ Runs(p)
    /\ Listed(p, n)
    /\ ~shmList[p][n].pending
    /\ var' = [var EXCEPT ![p][v] = shmList[p][n].addr]
    /\ Unreference(p, var[p][v], [shmList EXCEPT ![p][n].refcount = @ + 1])
    /\ UNCHANGED <<call, excuse>>
    /\ Collects

(* v gets another value, a copy of a shared one included, or its routine   *)
(* ends.                                                                   *)
Delete(p, v) ==
    /\ Runs(p)
    /\ var[p][v] # None
    /\ var' = [var EXCEPT ![p][v] = None]
    /\ Unreference(p, var[p][v], shmList)
    /\ UNCHANGED <<call, excuse>>
    /\ Collects

(* w = TEMPORARY(v) *)
Temporary(p, v, w) ==
    /\ Runs(p)
    /\ v # w
    /\ var[p][v] # None
    /\ var' = [var EXCEPT ![p][v] = None, ![p][w] = var[p][v]]
    /\ Unreference(p, var[p][w], shmList)
    /\ UNCHANGED <<call, excuse>>
    /\ Collects

\* Plausible error: the references are not looked at.
UnreferencedAlways(seg) == TRUE

Unreferenced(seg) == seg.refcount = 0

ShmUnmap(p, n) ==
    /\ Runs(p)
    /\ Listed(p, n)
    /\ IF Unreferenced(shmList[p][n])
       THEN /\ shmList' = [shmList EXCEPT ![p][n] = NoSegment]
            /\ Unmapped(p, n)
       ELSE /\ shmList' = [shmList EXCEPT ![p][n].pending = TRUE]
            /\ UNCHANGED <<mapped, named>>
    /\ UNCHANGED <<var, call, excuse>>
    /\ Collects

-----------------------------------------------------------------------------
(* The end of a process; another one takes its place. *)

Reborn(p) ==
    /\ shmList' = [shmList EXCEPT ![p] = [n \in Names |-> NoSegment]]
    /\ mapped' = [mapped EXCEPT ![p] = [a \in Addrs |-> None]]
    /\ var' = [var EXCEPT ![p] = [v \in Vars |-> None]]
    /\ call' = [call EXCEPT ![p] = NoCall]

\* Plausible error: segments with an unmap pending are passed over.
TidiedUnlessPending(p) ==
    {shmList[p][n].handle : n \in {m \in Names :
        Listed(p, m) /\ Unlinks(shmList[p][m]) /\ ~shmList[p][m].pending}}

(* shm_tidy, which is registered with the first segment it has to unlink. *)
Tidied(p) ==
    {shmList[p][n].handle : n \in {m \in Names : Listed(p, m) /\ Unlinks(shmList[p][m])}}

Exit(p) ==
    /\ Runs(p)
    /\ named' = [h \in Handles |-> IF h \in Tidied(p) THEN None ELSE named[h]]
    /\ Reborn(p)
    /\ UNCHANGED excuse
    /\ Collects

(* Killed, at any point. *)
Die(p) ==
    /\ "die" \in Ops
    /\ Reborn(p)
    /\ excuse' = Worse("left")
    /\ UNCHANGED named
    /\ Collects

-----------------------------------------------------------------------------
Next ==
    \E p \in Processes :
        \/ \E h \in Handles : ShmMapFound(p, h) \/ ShmMapAbsent(p, h)
        \/ ShmMapTooShort(p) \/ ShmMapCreate(p)
        \/ \E n \in Names, length \in Sizes, keyword \in Keywords :
            \/ ShmMapExisting(p, n, length, keyword)
            \/ ShmMapTruncate(p, n, length, keyword)
        \/ \E n \in Names, v \in Vars : ShmVar(p, n, v)
        \/ \E v \in Vars : Delete(p, v)
        \/ \E v, w \in Vars : Temporary(p, v, w)
        \/ \E n \in Names : ShmUnmap(p, n)
        \/ Exit(p)
        \/ Die(p)

Spec == Init /\ [][Next]_vars

-----------------------------------------------------------------------------
(* What shared memory promises *)

(* The count of a segment is the number of the process's variables on it,  *)
(* and no variable is on memory the process has given back: whatever the   *)
(* order of SHMVAR, SHMUNMAP, assignments and a second use of a name, and  *)
(* although a variable knows its segment by a number that may be reused.   *)
CountExact ==
    \A p \in Processes :
        /\ \A n \in Names : Listed(p, n) =>
            shmList[p][n].refcount = Cardinality({v \in Vars : var[p][v] = shmList[p][n].addr})
        /\ \A v \in Vars : var[p][v] # None =>
            \E n \in Names : Listed(p, n) /\ shmList[p][n].addr = var[p][v]

(* A segment is never longer than the object below it, so that its memory  *)
(* can be touched: the object another process is only about to give a size *)
(* is not mapped.                                                          *)
Backed ==
    \A p \in Processes, n \in Names : Listed(p, n) =>
        /\ mapped[p][shmList[p][n].addr] # None
        /\ shmList[p][n].length <= size[mapped[p][shmList[p][n].addr]]

(* As long as no SHMMAP has found an object too short, and none has asked  *)
(* to destroy what another process made, the OS handle of a segment this   *)
(* process has to destroy stands for that very segment: others find it,    *)
(* and its own unlink hits nothing else.                                   *)
OwnerKeepsName ==
    excuse # "lost" =>
        \A p \in Processes, n \in Names :
            Listed(p, n) /\ shmList[p][n].destroy =>
                named[shmList[p][n].handle] = mapped[p][shmList[p][n].addr]

(* And if besides nobody asked to keep a segment, was killed, or used a    *)
(* name again, no object is left behind: each has a process that will      *)
(* unlink it, when it ends at the latest.                                  *)
NothingLeft ==
    excuse = "nothing" =>
        \A h \in Handles : named[h] # None =>
            \E p \in Processes :
                \/ call[p] # NoCall /\ call[p].at = "created" /\ call[p].object = named[h]
                \/ \E n \in Names : /\ Listed(p, n)
                                    /\ shmList[p][n].destroy
                                    /\ shmList[p][n].handle = h
=============================================================================
