-------------------------- MODULE SemaphoresProofs --------------------------
(***************************************************************************)
(* Proofs about the semaphores, for every set of processes and every       *)
(* bound: types, mutual exclusion for programs that create the semaphore   *)
(* anew before they use the lock again after SEM_RELEASE, and the table of *)
(* DESTROY_SEMAPHORE for programs that never set the keyword.              *)
(***************************************************************************)
EXTENDS Semaphores, TLAPS

(***************************************************************************)
(* The processes go one by one: every step of Next is a step of one.       *)
(***************************************************************************)
Step(p, kw) ==
    \/ SemCreate(p, kw) \/ SemExists(p, kw) \/ SemOpen(p) \/ SemOpenGone(p)
    \/ SemLockHeld(p) \/ SemLock(p) \/ SemRelease(p)
    \/ SemDelete(p) \/ Exit(p) \/ Crash(p)

(* A step of Next is a step of some process (the disjuncts of Next). *)
LEMMA StepOfOne ==
    ASSUME Next
    PROVE  \E p \in Processes, kw \in Keywords : Step(p, kw)
  <1>1. "unset" \in Keywords
    BY DEF Keywords
  <1>2. QED
    BY <1>1 DEF Next, Step

-----------------------------------------------------------------------------
(* Types *)

(* The entry SEM_CREATE adds is a sem_data_t (sem_add). *)
LEMMA AddedType ==
    ASSUME data \in [Processes -> SemData],
           NEW p \in Processes, NEW s \in Sems, NEW owner \in BOOLEAN, NEW kw,
           Added(p, s, owner, kw)
    PROVE  data' \in [Processes -> SemData]
  <1>1. Deletable(owner, kw) \in BOOLEAN
    BY DEF Deletable
  <1> DEFINE entry == [sem |-> s, deletable |-> Deletable(owner, kw),
                       owner |-> owner, locked |-> FALSE]
  <1>2. entry \in SemData
    BY <1>1 DEF SemData
  <1>3. data' = data \/ data' = [data EXCEPT ![p] = entry]
    BY DEF Added
  <1> HIDE DEF entry
  <1>4. QED
    BY <1>2, <1>3

(* A semaphore is created within the bound (sem_open). *)
LEMMA NewSemType ==
    ASSUME TypeOK, NEW p \in Processes, NEW v \in 0 .. MaxValue, NewSem(p, v)
    PROVE  /\ created + 1 \in Sems
           /\ created' \in 0 .. MaxSems
           /\ linked' \in Sems \cup {NoSem}
           /\ value' \in [Sems -> 0 .. MaxValue]
           /\ creator' \in [Sems -> SUBSET Processes]
  <1>1. created + 1 \in Sems
    BY SemsAssumption DEF NewSem, TypeOK, Sems
  <1>2. created' \in 0 .. MaxSems
    BY SemsAssumption DEF NewSem, TypeOK
  <1>3. QED
    BY <1>1, <1>2 DEF NewSem, TypeOK

(* Giving the entry up leaves types alone (SEM_DELETE, EXIT). *)
LEMMA ForgetType ==
    ASSUME TypeOK, NEW p \in Processes, Forget(p)
    PROVE  /\ data' \in [Processes -> SemData]
           /\ token' \in [Processes -> Sems \cup {NoSem}]
           /\ holds' \in [Processes -> BOOLEAN]
  <1>1. NoData \in SemData
    BY DEF NoData, SemData
  <1>2. QED
    BY <1>1 DEF Forget, TypeOK

(* Every step of a process keeps the types. *)
LEMMA StepType ==
    ASSUME TypeOK, NEW p \in Processes, NEW kw \in Keywords, Step(p, kw)
    PROVE  TypeOK'
  <1>0. 0 \in 0 .. MaxValue /\ 1 \in 0 .. MaxValue
    BY SemsAssumption
  <1>k. kw \in {"unset", "destroy", "keep"}
    BY DEF Keywords
  <1>a. keyword' \in [Processes -> {"unset", "destroy", "keep"}] \/ ~Asks(p, kw)
    BY <1>k DEF Asks, TypeOK
  <1>d. data[p] \in SemData
    BY DEF TypeOK
  <1>1. CASE SemCreate(p, kw)
    <2>1. NewSem(p, 1) /\ Added(p, created + 1, TRUE, kw) /\ Asks(p, kw)
      BY <1>1 DEF SemCreate
    <2>2. /\ created + 1 \in Sems
          /\ created' \in 0 .. MaxSems
          /\ linked' \in Sems \cup {NoSem}
          /\ value' \in [Sems -> 0 .. MaxValue]
          /\ creator' \in [Sems -> SUBSET Processes]
      BY <2>1, <1>0, NewSemType
    <2>3. data' \in [Processes -> SemData]
      BY <2>1, <2>2, AddedType DEF TypeOK
    <2>4. QED
      BY <1>1, <2>1, <2>2, <2>3, <1>a DEF SemCreate, TypeOK
  <1>2. CASE SemExists(p, kw)
    BY <1>2, <1>a DEF SemExists, TypeOK
  <1>3. CASE SemOpen(p)
    <2>1. linked \in Sems
      BY <1>3 DEF SemOpen, TypeOK
    <2>2. data' \in [Processes -> SemData]
      BY <1>3, <2>1, AddedType DEF SemOpen, TypeOK
    <2>3. QED
      BY <1>3, <2>2 DEF SemOpen, TypeOK
  <1>4. CASE SemOpenGone(p)
    <2>1. NewSem(p, 0) /\ Added(p, created + 1, FALSE, keyword[p])
      BY <1>4 DEF SemOpenGone
    <2>2. /\ created + 1 \in Sems
          /\ created' \in 0 .. MaxSems
          /\ linked' \in Sems \cup {NoSem}
          /\ value' \in [Sems -> 0 .. MaxValue]
          /\ creator' \in [Sems -> SUBSET Processes]
      BY <2>1, <1>0, NewSemType
    <2>3. data' \in [Processes -> SemData]
      BY <2>1, <2>2, AddedType DEF TypeOK
    <2>4. QED
      BY <1>4, <2>2, <2>3 DEF SemOpenGone, TypeOK
  <1>5. CASE SemLockHeld(p)
    BY <1>5 DEF SemLockHeld, TypeOK
  <1>6. CASE SemLock(p)
    <2>1. data[p].sem \in Sems
      BY <1>6, <1>d DEF SemLock, Running, Has, SemData
    <2>2. value[data[p].sem] \in 0 .. MaxValue
      BY <2>1 DEF TypeOK
    <2>3. value[data[p].sem] - 1 \in 0 .. MaxValue
      BY <1>6, <2>2, SemsAssumption DEF SemLock, CanTake
    <2>4. value' \in [Sems -> 0 .. MaxValue]
      BY <1>6, <2>3 DEF SemLock, TypeOK
    <2>5. [data[p] EXCEPT !.locked = TRUE] \in SemData
      BY <1>d DEF SemData
    <2>6. data' \in [Processes -> SemData]
      BY <1>6, <2>5 DEF SemLock, TypeOK
    <2>7. QED
      BY <1>6, <2>1, <2>4, <2>6 DEF SemLock, TypeOK
  <1>7. CASE SemRelease(p)
    <2>1. data[p].sem \in Sems
      BY <1>7, <1>d DEF SemRelease, Running, Has, SemData
    <2>2. value[data[p].sem] \in 0 .. MaxValue
      BY <2>1 DEF TypeOK
    <2>3. value[data[p].sem] + 1 \in 0 .. MaxValue
      BY <1>7, <2>2, SemsAssumption DEF SemRelease
    <2>4. value' \in [Sems -> 0 .. MaxValue]
      BY <1>7, <2>3 DEF SemRelease, TypeOK
    <2>5. QED
      BY <1>7, <2>4 DEF SemRelease, TypeOK
  <1>8. CASE SemDelete(p)
    <2>1. linked' \in Sems \cup {NoSem}
      BY <1>8 DEF SemDelete, Unlinked, TypeOK
    <2>2. QED
      BY <1>8, <2>1, ForgetType DEF SemDelete, TypeOK
  <1>9. CASE Exit(p)
    <2>1. linked' \in Sems \cup {NoSem}
      BY <1>9 DEF Exit, Unlinked, TypeOK
    <2>2. QED
      BY <1>9, <2>1, ForgetType DEF Exit, TypeOK
  <1>10. CASE Crash(p)
    BY <1>10, ForgetType DEF Crash, TypeOK
  <1>11. QED
    BY <1>1, <1>2, <1>3, <1>4, <1>5, <1>6, <1>7, <1>8, <1>9, <1>10 DEF Step

(* Types hold in the beginning. *)
LEMMA InitType == Init => TypeOK
  <1>1. NoData \in SemData
    BY DEF NoData, SemData
  <1>2. QED
    BY <1>1, SemsAssumption DEF Init, TypeOK

(* The state of the semaphores keeps its types (semshm.cpp, for any number *)
(* of processes and any vocabulary of programs).                           *)
THEOREM SemTypeCorrect == Spec => []TypeOK
  <1>1. TypeOK /\ [Next]_vars => TypeOK'
    <2>1. ASSUME TypeOK, Next
          PROVE  TypeOK'
      BY <2>1, StepOfOne, StepType
    <2>2. ASSUME TypeOK, UNCHANGED vars
          PROVE  TypeOK'
      BY <2>2 DEF TypeOK, vars
    <2>3. QED
      BY <2>1, <2>2
  <1>2. QED
    BY InitType, <1>1, PTL DEF Spec

-----------------------------------------------------------------------------
(* Mutual exclusion *)

(* Programs create the semaphore anew before they use its lock again. *)
FreshEntries == {"relock", "release_again"} \cap Ops = {}

(* A process that holds the lock has decremented the semaphore of its      *)
(* entry; a semaphore that was decremented has the value 0 and was         *)
(* decremented by one process; the values of the others are 0 or 1.        *)
(* Semaphores yet to be created are nobody's.                              *)
HolderHasToken == \A p \in Processes : holds[p] => token[p] # NoSem
TokenOfEntry == \A p \in Processes :
    token[p] # NoSem => token[p] = data[p].sem /\ data[p].locked
TokenTakesValue == \A p \in Processes : token[p] # NoSem => value[token[p]] = 0
TokenAlone == \A p, q \in Processes : p # q => token[p] = NoSem \/ token[q] # token[p]
ValueBinary == \A s \in Sems : value[s] <= 1
EntriesCreated == \A p \in Processes : data[p].sem <= created
NamesCreated == linked <= created

TokenInv ==
    /\ TypeOK
    /\ HolderHasToken /\ TokenOfEntry /\ TokenTakesValue /\ TokenAlone
    /\ ValueBinary /\ EntriesCreated /\ NamesCreated

(* The parts of the invariant that are not about types. *)
TokenParts ==
    /\ HolderHasToken /\ TokenOfEntry /\ TokenTakesValue /\ TokenAlone
    /\ ValueBinary /\ EntriesCreated /\ NamesCreated

(* Creating a semaphore of value 0 or 1 disturbs no token, and the entry   *)
(* that SEM_CREATE adds, if it does, replaces one without token.           *)
LEMMA CreateKeepsTokens ==
    ASSUME TokenInv, TypeOK', NEW p \in Processes, NEW v \in {0, 1},
           NEW owner \in BOOLEAN, NEW kw,
           NewSem(p, v), Added(p, created + 1, owner, kw), UNCHANGED <<token, holds>>
    PROVE  TokenParts'
  <1>1. /\ created \in 0 .. MaxSems /\ created + 1 \in Sems
        /\ created' = created + 1 /\ linked' = created + 1
        /\ value' = [value EXCEPT ![created + 1] = v]
    BY SemsAssumption DEF NewSem, TokenInv, TypeOK, Sems
  <1>2. \A q \in Processes : data[q].sem \in Sems \cup {NoSem}
    BY DEF TokenInv, TypeOK, SemData
  <1>3. \A q \in Processes : token[q] # NoSem => token[q] # created + 1
    BY <1>1, <1>2, SemsAssumption DEF TokenInv, TokenOfEntry, EntriesCreated, Sems, NoSem
  <1>4. ~Has(p) => token[p] = NoSem
    BY DEF Has, TokenInv, TokenOfEntry
  <1>5. \A q \in Processes : token[q] # NoSem => data'[q] = data[q]
    BY <1>4 DEF Added, TokenInv, TypeOK
  <1>6. \A q \in Processes : data'[q].sem = data[q].sem \/ data'[q].sem = created + 1
    BY DEF Added, TokenInv, TypeOK
  <1>7. HolderHasToken'
    BY DEF HolderHasToken, TokenInv
  <1>8. TokenOfEntry'
    BY <1>5 DEF TokenOfEntry, TokenInv
  <1>9. TokenTakesValue'
    BY <1>1, <1>3 DEF TokenTakesValue, TokenInv, TypeOK
  <1>10. TokenAlone'
    BY DEF TokenAlone, TokenInv
  <1>11. ValueBinary'
    BY <1>1 DEF ValueBinary, TokenInv, TypeOK
  <1>12. EntriesCreated'
    BY <1>1, <1>2, <1>6, SemsAssumption DEF EntriesCreated, TokenInv, Sems, NoSem
  <1>13. NamesCreated'
    BY <1>1 DEF NamesCreated
  <1>14. QED
    BY <1>7, <1>8, <1>9, <1>10, <1>11, <1>12, <1>13 DEF TokenParts

(* Giving the entry up gives no lock back. *)
LEMMA ForgetKeepsTokens ==
    ASSUME TokenInv, NEW p \in Processes, Forget(p), UNCHANGED <<value, created>>,
           linked' = linked \/ linked' = NoSem
    PROVE  TokenParts'
  <1>1. created \in 0 .. MaxSems
    BY DEF TokenInv, TypeOK
  <1>2. \A q \in Processes : q # p =>
            data'[q] = data[q] /\ token'[q] = token[q] /\ holds'[q] = holds[q]
    BY DEF Forget, TokenInv, TypeOK
  <1>3. data'[p].sem = NoSem /\ token'[p] = NoSem /\ ~holds'[p]
    BY DEF Forget, NoData, TokenInv, TypeOK
  <1>4. HolderHasToken' /\ TokenOfEntry'
    BY <1>2, <1>3 DEF HolderHasToken, TokenOfEntry, TokenInv
  <1>5. TokenTakesValue' /\ TokenAlone' /\ ValueBinary'
    BY <1>2, <1>3 DEF TokenTakesValue, TokenAlone, ValueBinary, TokenInv
  <1>6. EntriesCreated'
    BY <1>1, <1>2, <1>3, SemsAssumption DEF EntriesCreated, TokenInv, NoSem
  <1>7. NamesCreated'
    BY <1>1, SemsAssumption DEF NamesCreated, TokenInv, NoSem
  <1>8. QED
    BY <1>4, <1>5, <1>6, <1>7 DEF TokenParts

(* SEM_LOCK decrements a semaphore nobody has, SEM_RELEASE increments one  *)
(* that only the process itself has.                                       *)
LEMMA LockKeepsTokens ==
    ASSUME TokenInv, NEW p \in Processes, SemLock(p)
    PROVE  TokenParts'
  <1> DEFINE s == data[p].sem
  <1>1. s \in Sems
    BY DEF SemLock, Running, Has, TokenInv, TypeOK, SemData
  <1>2. value[s] = 1 /\ value \in [Sems -> 0 .. MaxValue]
    BY <1>1, SemsAssumption DEF SemLock, CanTake, TokenInv, ValueBinary, TypeOK
  <1>3. /\ value' = [value EXCEPT ![s] = value[s] - 1]
        /\ token' = [token EXCEPT ![p] = s]
        /\ data' = [data EXCEPT ![p].locked = TRUE]
        /\ holds' = [holds EXCEPT ![p] = TRUE]
        /\ UNCHANGED <<linked, created>>
    BY DEF SemLock
  <1>4. \A q \in Processes : token[q] # s
    BY <1>1, <1>2 DEF TokenInv, TokenTakesValue, NoSem, Sems
  <1>5. value'[s] = 0 /\ \A r \in Sems : r # s => value'[r] = value[r]
    BY <1>1, <1>2, <1>3
  <1>6. /\ data'[p].sem = s /\ data'[p].locked /\ token'[p] = s
        /\ \A q \in Processes : q # p => data'[q] = data[q] /\ token'[q] = token[q]
                                          /\ holds'[q] = holds[q]
    BY <1>3 DEF TokenInv, TypeOK, SemData
  <1>7. s # NoSem
    BY <1>1 DEF Sems, NoSem
  <1> HIDE DEF s
  <1>8. HolderHasToken' /\ TokenOfEntry'
    BY <1>6, <1>7 DEF HolderHasToken, TokenOfEntry, TokenInv
  <1>9. TokenTakesValue'
    BY <1>4, <1>5, <1>6 DEF TokenTakesValue, TokenInv, TypeOK
  <1>10. TokenAlone'
    BY <1>4, <1>6 DEF TokenAlone, TokenInv
  <1>11. ValueBinary'
    BY <1>5 DEF ValueBinary, TokenInv
  <1>12. EntriesCreated' /\ NamesCreated'
    BY <1>3, <1>6 DEF EntriesCreated, NamesCreated, TokenInv, s
  <1>13. QED
    BY <1>8, <1>9, <1>10, <1>11, <1>12 DEF TokenParts

LEMMA ReleaseKeepsTokens ==
    ASSUME TokenInv, FreshEntries, NEW p \in Processes, SemRelease(p)
    PROVE  TokenParts'
  <1> DEFINE s == token[p]
  <1>1. token[p] # NoSem
    BY DEF SemRelease, FreshEntries
  <1>2. s \in Sems /\ data[p].sem = s /\ value[s] = 0
    BY <1>1 DEF TokenInv, TokenOfEntry, TokenTakesValue, TypeOK
  <1>3. /\ value' = [value EXCEPT ![s] = value[s] + 1]
        /\ token' = [token EXCEPT ![p] = NoSem]
        /\ holds' = [holds EXCEPT ![p] = FALSE]
        /\ UNCHANGED <<linked, created, data>>
    BY <1>2 DEF SemRelease
  <1>4. value'[s] = 1 /\ \A r \in Sems : r # s => value'[r] = value[r]
    BY <1>2, <1>3 DEF TokenInv, TypeOK
  <1>5. \A q \in Processes : q # p => token[q] # s
    BY <1>1 DEF TokenInv, TokenAlone
  <1>6. /\ token'[p] = NoSem /\ ~holds'[p]
        /\ \A q \in Processes : q # p => token'[q] = token[q] /\ holds'[q] = holds[q]
    BY <1>3 DEF TokenInv, TypeOK
  <1> HIDE DEF s
  <1>7. HolderHasToken' /\ TokenOfEntry'
    BY <1>3, <1>6 DEF HolderHasToken, TokenOfEntry, TokenInv
  <1>8. TokenTakesValue'
    BY <1>4, <1>5, <1>6 DEF TokenTakesValue, TokenInv, TypeOK
  <1>9. TokenAlone'
    BY <1>6 DEF TokenAlone, TokenInv
  <1>10. ValueBinary'
    BY <1>4 DEF ValueBinary, TokenInv
  <1>11. EntriesCreated' /\ NamesCreated'
    BY <1>3 DEF EntriesCreated, NamesCreated, TokenInv
  <1>12. QED
    BY <1>7, <1>8, <1>9, <1>10, <1>11 DEF TokenParts

(* Every step of a process keeps the invariant. *)
LEMMA StepToken ==
    ASSUME TokenInv, FreshEntries, NEW p \in Processes, NEW kw \in Keywords, Step(p, kw)
    PROVE  TokenInv'
  <1>t. TypeOK'
    BY StepType DEF TokenInv
  <1> SUFFICES TokenParts'
    BY <1>t DEF TokenInv, TokenParts
  <1>1. CASE SemCreate(p, kw)
    BY <1>t, <1>1, CreateKeepsTokens DEF SemCreate
  <1>2. CASE SemExists(p, kw)
    BY <1>2 DEF SemExists, TokenInv, TokenParts, HolderHasToken, TokenOfEntry,
                TokenTakesValue, TokenAlone, ValueBinary, EntriesCreated, NamesCreated
  <1>3. CASE SemOpen(p)
    <2>1. \A q \in Processes : token[q] # NoSem => data'[q] = data[q]
      BY <1>3 DEF SemOpen, Added, Has, TokenInv, TokenOfEntry, TypeOK
    <2>2. \A q \in Processes : data'[q].sem = data[q].sem \/ data'[q].sem = linked
      BY <1>3 DEF SemOpen, Added, TokenInv, TypeOK
    <2>3. HolderHasToken' /\ TokenOfEntry' /\ TokenTakesValue' /\ TokenAlone' /\ ValueBinary'
      BY <1>3, <2>1 DEF SemOpen, TokenInv, HolderHasToken, TokenOfEntry,
                TokenTakesValue, TokenAlone, ValueBinary
    <2>4. EntriesCreated' /\ NamesCreated'
      BY <1>3, <2>2 DEF SemOpen, TokenInv, EntriesCreated, NamesCreated
    <2>5. QED
      BY <2>3, <2>4 DEF TokenParts
  <1>4. CASE SemOpenGone(p)
    BY <1>t, <1>4, CreateKeepsTokens DEF SemOpenGone
  <1>5. CASE SemLockHeld(p)
    <2>1. token[p] # NoSem
      BY <1>5 DEF SemLockHeld, FreshEntries
    <2>2. HolderHasToken'
      BY <1>5, <2>1 DEF SemLockHeld, TokenInv, HolderHasToken, TypeOK
    <2>3. QED
      BY <1>5, <2>2 DEF SemLockHeld, TokenInv, TokenParts, TokenOfEntry,
                TokenTakesValue, TokenAlone, ValueBinary, EntriesCreated, NamesCreated
  <1>6. CASE SemLock(p)
    BY <1>6, LockKeepsTokens
  <1>7. CASE SemRelease(p)
    BY <1>7, ReleaseKeepsTokens
  <1>8. CASE SemDelete(p)
    BY <1>8, ForgetKeepsTokens DEF SemDelete, Unlinked
  <1>9. CASE Exit(p)
    BY <1>9, ForgetKeepsTokens DEF Exit, Unlinked
  <1>10. CASE Crash(p)
    BY <1>10, ForgetKeepsTokens DEF Crash
  <1>11. QED
    BY <1>1, <1>2, <1>3, <1>4, <1>5, <1>6, <1>7, <1>8, <1>9, <1>10 DEF Step

LEMMA InitToken == Init => TokenInv
  <1> SUFFICES ASSUME Init PROVE TokenInv
    OBVIOUS
  <1>1. TypeOK
    BY InitType
  <1>2. QED
    BY <1>1 DEF Init, NoData, TokenInv, HolderHasToken, TokenOfEntry, TokenTakesValue,
                TokenAlone, ValueBinary, EntriesCreated, NamesCreated, NoSem

(* No two processes hold the lock of a semaphore, whoever ends, deletes    *)
(* or creates it meanwhile, as long as a process that called SEM_RELEASE   *)
(* makes a new entry before it calls SEM_LOCK or SEM_RELEASE again.        *)
THEOREM LockIsExclusive == FreshEntries => (Spec => []MutualExclusion)
  <1>1. FreshEntries /\ TokenInv /\ [Next]_vars => TokenInv'
    <2>1. ASSUME FreshEntries, TokenInv, Next
          PROVE  TokenInv'
      BY <2>1, StepOfOne, StepToken
    <2>2. ASSUME TokenInv, UNCHANGED vars
          PROVE  TokenInv'
      <3>1. TypeOK'
        BY <2>2 DEF TokenInv, TypeOK, vars
      <3>2. QED
        BY <2>2, <3>1 DEF TokenInv, vars, HolderHasToken, TokenOfEntry,
              TokenTakesValue, TokenAlone, ValueBinary, EntriesCreated, NamesCreated
    <2>3. QED
      BY <2>1, <2>2
  <1>2. TokenInv => MutualExclusion
    BY DEF TokenInv, HolderHasToken, TokenOfEntry, TokenAlone, MutualExclusion
  <1> SUFFICES ASSUME FreshEntries PROVE Spec => []MutualExclusion
    OBVIOUS
  <1>3. TokenInv /\ [Next]_vars => TokenInv'
    BY <1>1
  <1>4. QED
    BY InitToken, <1>2, <1>3, PTL DEF Spec

-----------------------------------------------------------------------------
(* The table of DESTROY_SEMAPHORE *)

(* No program asks that a semaphore of another process be destroyed. *)
NoneDestroys == "destroy" \notin Ops

(* A process that will take the name away is the one that created the      *)
(* semaphore the name is bound to, and the name stays bound to it.         *)
OwnerKeepsName == \A p \in Processes :
    Has(p) /\ data[p].deletable =>
        /\ keyword[p] = "unset"
        /\ linked = data[p].sem
        /\ creator[linked] = {p}

(* No keyword is "destroy". *)
NoKeyword == \A p \in Processes : keyword[p] # "destroy"

TableInv == TypeOK /\ OwnerKeepsName /\ NoKeyword

(* No entry that SEM_CREATE adds after EEXIST takes the name away.         *)
LEMMA OpenedIsKept ==
    ASSUME TableInv, NEW p \in Processes, NEW s, Added(p, s, FALSE, keyword[p])
    PROVE  \A q \in Processes : data'[q].deletable => data'[q] = data[q]
  <1>1. ~Deletable(FALSE, keyword[p])
    BY DEF TableInv, NoKeyword, Deletable
  <1>2. QED
    BY <1>1 DEF Added, TableInv, TypeOK

(* The process that gives its entry up: if it was to take the name away,   *)
(* no other was.                                                           *)
LEMMA ForgetKeepsTable ==
    ASSUME TableInv, NEW p \in Processes, Forget(p),
           linked' = linked \/ linked' = Unlinked(p),
           UNCHANGED <<keyword, creator>>
    PROVE  OwnerKeepsName' /\ NoKeyword'
  <1>1. \A q \in Processes : q # p => data'[q] = data[q]
    BY DEF Forget, TableInv, TypeOK
  <1>2. data'[p] = NoData
    BY DEF Forget, TableInv, TypeOK
  <1>3. ~Has(p)'
    BY <1>2 DEF NoData, Has
  <1>4. ASSUME NEW q \in Processes, Has(q)', data'[q].deletable
        PROVE  keyword'[q] = "unset" /\ linked' = data'[q].sem /\ creator'[linked'] = {q}
    <2>1. q # p /\ data'[q] = data[q]
      BY <1>1, <1>3, <1>4
    <2>2. Has(q) /\ data[q].deletable
      BY <1>4, <2>1 DEF Has
    <2>3. keyword[q] = "unset" /\ linked = data[q].sem /\ creator[linked] = {q}
      BY <2>2 DEF TableInv, OwnerKeepsName
    <2>4. ~(Has(p) /\ data[p].deletable)
      BY <2>1, <2>3 DEF TableInv, OwnerKeepsName
    <2>5. linked' = linked
      BY <2>4 DEF Unlinked
    <2>6. QED
      BY <2>1, <2>3, <2>5
  <1>5. NoKeyword'
    BY DEF NoKeyword, TableInv
  <1>6. QED
    BY <1>4, <1>5 DEF OwnerKeepsName

(* Entries of an unbound name take nothing away. *)
LEMMA UnboundIsKept ==
    ASSUME TableInv, linked = NoSem
    PROVE  \A q \in Processes : Has(q) => ~data[q].deletable
  BY DEF TableInv, OwnerKeepsName, Has

(* Every step of a process keeps the table. *)
LEMMA StepTable ==
    ASSUME TableInv, NoneDestroys, NEW p \in Processes, NEW kw \in Keywords, Step(p, kw)
    PROVE  TableInv'
  <1>t. TypeOK'
    BY StepType DEF TableInv
  <1> SUFFICES OwnerKeepsName' /\ NoKeyword'
    BY <1>t DEF TableInv
  <1>0. 1 \in 0 .. MaxValue
    BY SemsAssumption
  <1>k. kw # "destroy"
    BY DEF Keywords, NoneDestroys
  <1>a. Asks(p, kw) => NoKeyword'
    BY <1>k DEF Asks, NoKeyword, TableInv, TypeOK
  <1>1. CASE SemCreate(p, kw)
    <2>1. /\ NewSem(p, 1) /\ Added(p, created + 1, TRUE, kw) /\ Asks(p, kw)
      BY <1>1 DEF SemCreate
    <2>2. /\ linked' = created + 1
          /\ creator' = [creator EXCEPT ![created + 1] = {p}]
          /\ created + 1 \in Sems
          /\ \A q \in Processes : Has(q) => ~data[q].deletable
      BY <2>1, <1>0, UnboundIsKept, NewSemType DEF NewSem, TableInv
    <2>3. creator'[linked'] = {p}
      BY <2>2 DEF TableInv, TypeOK
    <2>4. CASE Has(p)
      <3>1. data' = data
        BY <2>1, <2>4 DEF Added
      <3>2. QED
        BY <1>a, <2>1, <2>2, <3>1 DEF OwnerKeepsName, Has
    <2>5. CASE ~Has(p)
      <3>1. data' = [data EXCEPT ![p] = [sem |-> created + 1,
                        deletable |-> Deletable(TRUE, kw), owner |-> TRUE, locked |-> FALSE]]
        BY <2>1, <2>5 DEF Added
      <3>2. /\ data'[p].sem = created + 1 /\ data'[p].deletable = Deletable(TRUE, kw)
            /\ \A q \in Processes : q # p => data'[q] = data[q]
        BY <3>1 DEF TableInv, TypeOK
      <3>3. keyword'[p] = kw
        BY <2>1, <2>5 DEF Asks, TableInv, TypeOK
      <3>4. Deletable(TRUE, kw) => kw = "unset"
        BY <1>k DEF Deletable
      <3>5. OwnerKeepsName'
        BY <2>2, <2>3, <3>2, <3>3, <3>4 DEF OwnerKeepsName, Has
      <3>6. QED
        BY <1>a, <2>1, <3>5
    <2>6. QED
      BY <2>4, <2>5
  <1>2. CASE SemExists(p, kw)
    <2>1. \A q \in Processes : Has(q) => keyword'[q] = keyword[q]
      BY <1>2 DEF SemExists, Asks, TableInv, TypeOK
    <2>2. QED
      BY <1>2, <1>a, <2>1 DEF SemExists, OwnerKeepsName, TableInv, Has
  <1>3. CASE SemOpen(p)
    <2>1. \A q \in Processes : data'[q].deletable => data'[q] = data[q]
      BY <1>3, OpenedIsKept DEF SemOpen
    <2>2. QED
      BY <1>3, <2>1 DEF SemOpen, OwnerKeepsName, NoKeyword, TableInv, Has
  <1>4. CASE SemOpenGone(p)
    <2>1. \A q \in Processes : data'[q].deletable => data'[q] = data[q]
      BY <1>4, OpenedIsKept DEF SemOpenGone
    <2>2. \A q \in Processes : Has(q) => ~data[q].deletable
      BY <1>4, UnboundIsKept DEF SemOpenGone, NewSem
    <2>3. QED
      BY <1>4, <2>1, <2>2 DEF SemOpenGone, OwnerKeepsName, NoKeyword, TableInv, Has
  <1>5. CASE SemLockHeld(p)
    BY <1>5 DEF SemLockHeld, OwnerKeepsName, NoKeyword, TableInv, Has
  <1>6. CASE SemLock(p)
    <2>1. \A q \in Processes : /\ data'[q].sem = data[q].sem
                               /\ data'[q].deletable = data[q].deletable
      BY <1>6 DEF SemLock, TableInv, TypeOK, SemData
    <2>2. QED
      BY <1>6, <2>1 DEF SemLock, OwnerKeepsName, NoKeyword, TableInv, Has
  <1>7. CASE SemRelease(p)
    BY <1>7 DEF SemRelease, OwnerKeepsName, NoKeyword, TableInv, Has
  <1>8. CASE SemDelete(p)
    BY <1>8, ForgetKeepsTable DEF SemDelete
  <1>9. CASE Exit(p)
    BY <1>9, ForgetKeepsTable DEF Exit
  <1>10. CASE Crash(p)
    BY <1>10, ForgetKeepsTable DEF Crash
  <1>11. QED
    BY <1>1, <1>2, <1>3, <1>4, <1>5, <1>6, <1>7, <1>8, <1>9, <1>10 DEF Step

LEMMA InitTable == Init => TableInv
  BY InitType DEF Init, NoData, TableInv, OwnerKeepsName, NoKeyword, Has

(* The step that takes the name away: the process that gave its entry up   *)
(* was to take it away, and the invariant says that it is the owner.       *)
LEMMA StepUnlinks ==
    ASSUME TableInv, NEW p \in Processes, NEW kw \in Keywords, Step(p, kw),
           NEW q \in Processes, Has(q), ~Has(q)', linked # NoSem, linked' = NoSem
    PROVE  keyword[q] = "unset" /\ q \in creator[linked]
  <1>0. /\ ~SemCreate(p, kw) /\ ~SemExists(p, kw) /\ ~SemOpen(p) /\ ~SemOpenGone(p)
        /\ ~SemLockHeld(p) /\ ~SemLock(p) /\ ~SemRelease(p) /\ ~Crash(p)
    BY DEF SemCreate, SemExists, SemOpen, SemOpenGone, SemLockHeld, SemLock, SemRelease,
           Crash, NewSem
  <1>1. SemDelete(p) \/ Exit(p)
    BY <1>0 DEF Step
  <1>2. linked' = Unlinked(p) /\ Forget(p)
    BY <1>1 DEF SemDelete, Exit
  <1>3. Has(p) /\ data[p].deletable
    BY <1>2 DEF Unlinked
  <1>4. \A r \in Processes : r # p => data'[r] = data[r]
    BY <1>2 DEF Forget, TableInv, TypeOK
  <1>5. q = p
    BY <1>4 DEF Has
  <1>6. QED
    BY <1>3, <1>5 DEF TableInv, OwnerKeepsName

(* SEM_DELETE, EXIT and a process that ends by itself take the name away   *)
(* only from the semaphore that the process created, in programs that do   *)
(* not use DESTROY_SEMAPHORE=1.                                            *)
THEOREM TableIsKept == NoneDestroys => (Spec => UnlinksAsTable)
  <1> DEFINE Asked == \A p \in Processes :
        Has(p) /\ ~Has(p)' /\ linked # NoSem /\ linked' = NoSem =>
            \/ keyword[p] = "destroy"
            \/ keyword[p] = "unset" /\ p \in creator[linked]
  <1>1. NoneDestroys /\ TableInv /\ [Next]_vars => TableInv'
    <2>1. ASSUME NoneDestroys, TableInv, Next
          PROVE  TableInv'
      BY <2>1, StepOfOne, StepTable
    <2>2. ASSUME TableInv, UNCHANGED vars
          PROVE  TableInv'
      BY <2>2 DEF TableInv, TypeOK, OwnerKeepsName, NoKeyword, Has, vars
    <2>3. QED
      BY <2>1, <2>2
  <1>2. TableInv /\ [Next]_vars => [Asked]_vars
    <2>1. ASSUME TableInv, Next
          PROVE  Asked
      BY <2>1, StepOfOne, StepUnlinks
    <2>2. QED
      BY <2>1
  <1> HIDE DEF Asked
  <1> SUFFICES ASSUME NoneDestroys PROVE Spec => [][Asked]_vars
    BY DEF UnlinksAsTable, Asked
  <1>3. TableInv /\ [Next]_vars => TableInv'
    BY <1>1
  <1>4. QED
    BY InitTable, <1>2, <1>3, PTL DEF Spec

=============================================================================
