----------------------------- MODULE Semaphores -----------------------------
(***************************************************************************)
(* The semaphores of GDL (semshm.cpp): SEM_CREATE, SEM_LOCK, SEM_RELEASE,  *)
(* SEM_DELETE and the end of a process, in several GDL processes that use  *)
(* the same name.  POSIX keeps the semaphore; every process keeps a record *)
(* of it in sem_map.  Different names share nothing, so one is modelled;   *)
(* the name may be bound to different semaphores one after the other,      *)
(* while processes still have the older ones open.                         *)
(*                                                                         *)
(* An action is what happens between two calls of the system: SEM_CREATE   *)
(* opens the semaphore twice when it exists, so it takes two steps.        *)
(***************************************************************************)
EXTENDS Integers

CONSTANTS
    Processes,
    MaxSems,        \* bound: semaphores created in a behaviour
    MaxValue,       \* bound: the value of a semaphore
    Ops             \* what the programs do

AllOps == {"release", "relock", "release_again", "create_again",
           "delete", "exit", "crash", "destroy", "keep"}

ASSUME SemsAssumption == MaxSems \in Nat /\ MaxValue \in Nat \ {0}
ASSUME OpsAssumption == Ops \subseteq AllOps

Sems == 1 .. MaxSems
NoSem == 0

(* DESTROY_SEMAPHORE: absent, different from zero, zero. *)
Keywords == {"unset"} \cup (IF "destroy" \in Ops THEN {"destroy"} ELSE {})
                      \cup (IF "keep" \in Ops THEN {"keep"} ELSE {})

(* sem_data_t; sem = NoSem when sem_map has no entry. *)
SemData == [sem : Sems \cup {NoSem}, deletable : BOOLEAN, owner : BOOLEAN, locked : BOOLEAN]

NoData == [sem |-> NoSem, deletable |-> FALSE, owner |-> FALSE, locked |-> FALSE]

VARIABLES
    linked,         \* the semaphore the name is bound to
    value,          \* the value of every semaphore
    created,        \* how many semaphores were created
    data,           \* what sem_map of every process holds
    at,             \* where a process is
    keyword,        \* DESTROY_SEMAPHORE of the SEM_CREATE that made the entry, or will
    token,          \* history: the semaphore a process has decremented
    holds,          \* history: SEM_LOCK said 1, and SEM_RELEASE was not called since
    creator         \* history: the process that created a semaphore

vars == <<linked, value, created, data, at, keyword, token, holds, creator>>

TypeOK ==
    /\ linked \in Sems \cup {NoSem}
    /\ value \in [Sems -> 0 .. MaxValue]
    /\ created \in 0 .. MaxSems
    /\ data \in [Processes -> SemData]
    /\ at \in [Processes -> {"run", "exists", "gone"}]
    /\ keyword \in [Processes -> {"unset", "destroy", "keep"}]
    /\ token \in [Processes -> Sems \cup {NoSem}]
    /\ holds \in [Processes -> BOOLEAN]
    /\ creator \in [Sems -> SUBSET Processes]

Init ==
    /\ linked = NoSem
    /\ value = [s \in Sems |-> 0]
    /\ created = 0
    /\ data = [p \in Processes |-> NoData]
    /\ at = [p \in Processes |-> "run"]
    /\ keyword = [p \in Processes |-> "unset"]
    /\ token = [p \in Processes |-> NoSem]
    /\ holds = [p \in Processes |-> FALSE]
    /\ creator = [s \in Sems |-> {}]

Has(p) == data[p].sem # NoSem

-----------------------------------------------------------------------------
(* SEM_CREATE *)

\* Plausible error: the owner is not asked for.
DeletableByAll(owner, kw) == kw = "unset" \/ kw = "destroy"

Deletable(owner, kw) == (kw = "unset" /\ owner) \/ kw = "destroy"

(* sem_add: the new entry, unless the name has one already. *)
Added(p, s, owner, kw) ==
    data' = IF Has(p) THEN data
            ELSE [data EXCEPT ![p] =
                    [sem |-> s, deletable |-> Deletable(owner, kw),
                     owner |-> owner, locked |-> FALSE]]

(* sem_open creates a semaphore of value v and binds the name to it. *)
NewSem(p, v) ==
    /\ linked = NoSem
    /\ created < MaxSems
    /\ created' = created + 1
    /\ linked' = created + 1
    /\ value' = [value EXCEPT ![created + 1] = v]
    /\ creator' = [creator EXCEPT ![created + 1] = {p}]

MayCreate(p) == at[p] = "run" /\ (Has(p) => "create_again" \in Ops)

(* The keyword is remembered for the entry it makes. *)
Asks(p, kw) == keyword' = IF Has(p) THEN keyword ELSE [keyword EXCEPT ![p] = kw]

SemCreate(p, kw) ==
    /\ MayCreate(p)
    /\ NewSem(p, 1)
    /\ Added(p, created + 1, TRUE, kw)
    /\ Asks(p, kw)
    /\ UNCHANGED <<at, token, holds>>

(* The name is bound: the first sem_open fails with EEXIST. *)
SemExists(p, kw) ==
    /\ MayCreate(p)
    /\ linked # NoSem
    /\ at' = [at EXCEPT ![p] = "exists"]
    /\ Asks(p, kw)
    /\ UNCHANGED <<linked, value, created, data, token, holds, creator>>

(* The second sem_open finds what the name is bound to now ...             *)
SemOpen(p) ==
    /\ at[p] = "exists"
    /\ linked # NoSem
    /\ Added(p, linked, FALSE, keyword[p])
    /\ at' = [at EXCEPT ![p] = "run"]
    /\ UNCHANGED <<linked, value, created, keyword, token, holds, creator>>

(* ... or creates a semaphore when the name was unlinked meanwhile.        *)
SemOpenGone(p) ==
    /\ at[p] = "exists"
    /\ NewSem(p, 0)
    /\ Added(p, created + 1, FALSE, keyword[p])
    /\ at' = [at EXCEPT ![p] = "run"]
    /\ UNCHANGED <<keyword, token, holds>>

-----------------------------------------------------------------------------
(* SEM_LOCK and SEM_RELEASE *)

Running(p) == at[p] = "run" /\ Has(p)

(* The flag says that the lock is held already. *)
SemLockHeld(p) ==
    /\ Running(p)
    /\ data[p].locked
    /\ token[p] = NoSem => "relock" \in Ops
    /\ holds' = [holds EXCEPT ![p] = TRUE]
    /\ UNCHANGED <<linked, value, created, data, at, keyword, token, creator>>

\* Plausible error: an off-by-one in the test.
CanTakeZero(s) == value[s] >= 0

(* sem_trywait succeeds; when it does not, SEM_LOCK changes nothing. *)
CanTake(s) == value[s] > 0

SemLock(p) ==
    /\ Running(p)
    /\ ~data[p].locked
    /\ CanTake(data[p].sem)
    /\ value' = [value EXCEPT ![data[p].sem] = @ - 1]
    /\ data' = [data EXCEPT ![p].locked = TRUE]
    /\ token' = [token EXCEPT ![p] = data[p].sem]
    /\ holds' = [holds EXCEPT ![p] = TRUE]
    /\ UNCHANGED <<linked, created, at, keyword, creator>>

(* SEM_RELEASE clears the flag of a copy of the entry.  Without the flag   *)
(* it does nothing.                                                        *)
SemRelease(p) ==
    /\ "release" \in Ops
    /\ Running(p)
    /\ data[p].locked
    /\ token[p] = NoSem => "release_again" \in Ops
    /\ value[data[p].sem] < MaxValue
    /\ value' = [value EXCEPT ![data[p].sem] = @ + 1]
    /\ token' = [token EXCEPT ![p] = NoSem]
    /\ holds' = [holds EXCEPT ![p] = FALSE]
    /\ UNCHANGED <<linked, created, data, at, keyword, creator>>

-----------------------------------------------------------------------------
(* SEM_DELETE, and the end of a process *)

(* What the name is bound to after p gave its entry up: sem_unlink takes   *)
(* the name away, whichever semaphore it is bound to.                      *)
Unlinked(p) == IF Has(p) /\ data[p].deletable THEN NoSem ELSE linked

(* The entry goes; a lock that was held is not given back. *)
Forget(p) ==
    /\ data' = [data EXCEPT ![p] = NoData]
    /\ token' = [token EXCEPT ![p] = NoSem]
    /\ holds' = [holds EXCEPT ![p] = FALSE]

SemDelete(p) ==
    /\ "delete" \in Ops
    /\ Running(p)
    /\ linked' = Unlinked(p)
    /\ Forget(p)
    /\ UNCHANGED <<value, created, at, keyword, creator>>

(* EXIT: gdlexit calls sem_onexit. *)
Exit(p) ==
    /\ "exit" \in Ops
    /\ at[p] = "run"
    /\ linked' = Unlinked(p)
    /\ Forget(p)
    /\ at' = [at EXCEPT ![p] = "gone"]
    /\ UNCHANGED <<value, created, keyword, creator>>

(* The process is killed, anywhere. *)
Crash(p) ==
    /\ "crash" \in Ops
    /\ at[p] # "gone"
    /\ Forget(p)
    /\ at' = [at EXCEPT ![p] = "gone"]
    /\ UNCHANGED <<linked, value, created, keyword, creator>>

-----------------------------------------------------------------------------
Next ==
    \/ \E p \in Processes, kw \in Keywords : SemCreate(p, kw)
    \/ \E p \in Processes, kw \in Keywords : SemExists(p, kw)
    \/ \E p \in Processes : SemOpen(p)
    \/ \E p \in Processes : SemOpenGone(p)
    \/ \E p \in Processes : SemLockHeld(p)
    \/ \E p \in Processes : SemLock(p)
    \/ \E p \in Processes : SemRelease(p)
    \/ \E p \in Processes : SemDelete(p)
    \/ \E p \in Processes : Exit(p)
    \/ \E p \in Processes : Crash(p)

Spec == Init /\ [][Next]_vars

-----------------------------------------------------------------------------
(* Properties *)

(* No two processes hold the lock of a semaphore at once: both were told 1 *)
(* by SEM_LOCK and neither called SEM_RELEASE since ("lock already held",  *)
(* semshm.cpp:239).  It must survive processes that end while they hold    *)
(* the lock, and semaphores that are unlinked while they are used.         *)
MutualExclusion ==
    \A p, q \in Processes :
        p # q /\ holds[p] /\ holds[q] => data[p].sem # data[q].sem

(* Whoever gives the semaphore up takes its name away only if the table of *)
(* DESTROY_SEMAPHORE says so (semshm.cpp:187): it asked for it, or it did  *)
(* not ask and is the owner, the process that created the semaphore the    *)
(* name is bound to.                                                       *)
UnlinksAsTable ==
    [][\A p \in Processes :
        Has(p) /\ ~Has(p)' /\ linked # NoSem /\ linked' = NoSem =>
            \/ keyword[p] = "destroy"
            \/ keyword[p] = "unset" /\ p \in creator[linked]]_vars

=============================================================================
