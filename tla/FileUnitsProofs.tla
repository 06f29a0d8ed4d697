-------------------------- MODULE FileUnitsProofs --------------------------
(***************************************************************************)
(* Proofs about the logical units, for every set of units, files and       *)
(* descriptors.                                                            *)
(***************************************************************************)
EXTENDS FileUnits, TLAPS, WellFoundedInduction

(* Whoever took a unit holds its lock, and nobody shares one. *)
Held ==
    /\ \A u \in owned : fileUnits[u].getLunLock
    /\ journalLUN # NoUnit => fileUnits[journalLUN].getLunLock
    /\ journalLUN \notin owned
    /\ journalLUN # NoUnit => gdljournal = journalLUN

PoolInv == TypeOK /\ Held

-----------------------------------------------------------------------------
(* The pool is a set of positive numbers, so a nonempty set of free units  *)
(* has a smallest one, and GetLUN returns it.                              *)
LEMMA GetLUNIsFree ==
    ASSUME GetLUN # NoUnit
    PROVE  /\ GetLUN \in Free /\ GetLUN \in PoolUnits /\ GetLUN \in Units
           /\ ~InUse(fileUnits[GetLUN]) /\ ~fileUnits[GetLUN].getLunLock
<1>1. Free # {} /\ Free \subseteq Nat
  BY UnitsAssumption DEF GetLUN, Free
<1> DEFINE Less == {p \in Nat \X Nat : p[1] < p[2]}
<1>2. IsWellFoundedOn(Less, Nat)
  BY NatLessThanWellFounded, Zenon DEF OpToRel
<1>3. PICK m \in Free : \A k \in Free : m =< k
  <2>1. PICK m \in Free : \A k \in Free : ~(<<k, m>> \in Less)
    <3> HIDE DEF Less
    <3> QED
      BY <1>1, <1>2, WFMin
  <2>2. \A k, n \in Nat : k < n => <<k, n>> \in Less
    OBVIOUS
  <2>3. \A k \in Free : k \in Nat /\ m \in Nat /\ ~(k < m)
    <3> HIDE DEF Less
    <3> QED
      BY <1>1, <2>1, <2>2
  <2>4. \A k \in Free : m =< k
    BY <2>3
  <2> QED
    BY <2>4
<1>4. GetLUN \in Free
  BY <1>1, <1>3 DEF GetLUN, Min
<1> QED
  BY <1>4 DEF Free, Units

LEMMA UnitFacts ==
    /\ PoolUnits \subseteq Units /\ UserUnits \subseteq Units
    /\ NoUnit \notin Units
    /\ UserUnits \cap PoolUnits = {}
BY UnitsAssumption DEF Units

-----------------------------------------------------------------------------
(* What the methods of GDLStream do to one unit. *)

LEMMA ClosedFacts ==
    ASSUME NEW g \in UnitRecord
    PROVE  /\ Closed(g) \in UnitRecord
           /\ Closed(g).getLunLock = g.getLunLock
           /\ ~Closed(g).deleteOnClose
           /\ ~IsOpen(Closed(g))
           /\ Closed(g).name = g.name
BY DEF Closed, UnitRecord, Streams, OpenStreams, IsOpen

LEMMA FreedFacts ==
    ASSUME NEW g \in UnitRecord
    PROVE  Freed(g) \in UnitRecord /\ ~Freed(g).deleteOnClose
<1>1. Closed(g) \in UnitRecord /\ ~Closed(g).deleteOnClose
  BY ClosedFacts
<1> QED
  BY <1>1 DEF Freed, UnitRecord, Streams

LEMMA LockedFacts ==
    ASSUME NEW u \in Units, fileUnits \in [Units -> UnitRecord]
    PROVE  /\ Locked(u) \in UnitRecord
           /\ Locked(u).getLunLock
           /\ Locked(u).stream = fileUnits[u].stream
           /\ Locked(u).deleteOnClose = fileUnits[u].deleteOnClose
           /\ Locked(u).sockNum = fileUnits[u].sockNum
BY DEF Locked, UnitRecord

Keyword == [out : BOOLEAN, create : BOOLEAN, compress : BOOLEAN,
            f77 : BOOLEAN, delete : BOOLEAN]

LEMMA KeywordFacts == Keywords \subseteq Keyword /\ JournalKeywords \in Keyword
BY DEF Keywords, Keyword, JournalKeywords

LEMMA OpenedFacts ==
    ASSUME NEW g \in UnitRecord, NEW file \in Files, NEW o \in Keyword,
           NEW ok \in BOOLEAN
    PROVE  /\ Opened(g, file, o, ok) \in UnitRecord
           /\ Opened(g, file, o, ok).getLunLock = g.getLunLock
           /\ Opened(g, file, o, ok).sockNum = g.sockNum
<1>1. file \in Names
  BY DEF Names
<1>2. FailedStream(g, o.compress, o.out) \in Streams
  BY DEF FailedStream, Streams
<1>3. OpenedStream(o.compress, o.out) \in Streams
  BY DEF OpenedStream, Streams, OpenStreams
<1>4. o.f77 \in BOOLEAN /\ o.out \in BOOLEAN /\ o.delete \in BOOLEAN
  BY DEF Keyword
<1> QED
  BY <1>1, <1>2, <1>3, <1>4 DEF Opened, UnitRecord

(* Opening a unit that is open changes no more than f77; one that is not   *)
(* gets the file's name, and the request to delete only on success.        *)
LEMMA OpenedFields ==
    ASSUME NEW g \in UnitRecord, NEW file \in Files, NEW o \in Keyword,
           NEW ok \in BOOLEAN
    PROVE  /\ IsOpen(g) => /\ Opened(g, file, o, ok).stream = g.stream
                           /\ Opened(g, file, o, ok).name = g.name
                           /\ Opened(g, file, o, ok).out = g.out
                           /\ Opened(g, file, o, ok).deleteOnClose = g.deleteOnClose
           /\ ~IsOpen(g) /\ ok =>
                /\ IsOpen(Opened(g, file, o, ok))
                /\ Opened(g, file, o, ok).name = file
                /\ Opened(g, file, o, ok).out = o.out
                /\ Opened(g, file, o, ok).deleteOnClose = o.delete
           /\ ~IsOpen(g) /\ ~ok =>
                /\ ~IsOpen(Opened(g, file, o, ok))
                /\ Opened(g, file, o, ok).deleteOnClose = g.deleteOnClose
<1>1. FailedStream(g, o.compress, o.out) \notin OpenStreams
  BY DEF FailedStream, OpenStreams
<1>2. OpenedStream(o.compress, o.out) \in OpenStreams
  BY DEF OpenedStream, OpenStreams
<1> QED
  BY <1>1, <1>2 DEF Opened, UnitRecord, IsOpen

(* An opening that succeeds sets the name and the request. *)
LEMMA OpenedFresh ==
    ASSUME NEW g \in UnitRecord, NEW file \in Files, NEW o \in Keyword,
           NEW ok \in BOOLEAN, ~IsOpen(g) /\ ok
    PROVE  /\ IsOpen(Opened(g, file, o, ok))
           /\ Opened(g, file, o, ok).name = file
           /\ Opened(g, file, o, ok).deleteOnClose = o.delete
<1>1. OpenedStream(o.compress, o.out) \in OpenStreams
  BY DEF OpenedStream, OpenStreams
<1> QED
  BY <1>1 DEF Opened, UnitRecord, IsOpen

LEMMA OpenedDone ==
    ASSUME NEW g \in UnitRecord, NEW file \in Files, NEW o \in Keyword, ~IsOpen(g)
    PROVE  /\ Opened(g, file, o, TRUE) \in UnitRecord
           /\ IsOpen(Opened(g, file, o, TRUE))
           /\ Opened(g, file, o, TRUE).name = file
           /\ Opened(g, file, o, TRUE).out = o.out
           /\ Opened(g, file, o, TRUE).deleteOnClose = o.delete
<1>1. Opened(g, file, o, TRUE) \in UnitRecord
  BY OpenedFacts
<1>2. OpenedStream(o.compress, o.out) \in OpenStreams
  BY DEF OpenedStream, OpenStreams
<1>3. Opened(g, file, o, TRUE) =
        [g EXCEPT !.f77 = o.f77, !.name = file, !.out = o.out,
                  !.stream = OpenedStream(o.compress, o.out),
                  !.deleteOnClose = o.delete]
  BY DEF Opened
<1> QED
  BY <1>1, <1>2, <1>3 DEF UnitRecord, IsOpen

LEMMA OpenedFailed ==
    ASSUME NEW g \in UnitRecord, NEW file \in Files, NEW o \in Keyword, ~IsOpen(g)
    PROVE  /\ Opened(g, file, o, FALSE) \in UnitRecord
           /\ Opened(g, file, o, FALSE).deleteOnClose = g.deleteOnClose
<1>1. Opened(g, file, o, FALSE) \in UnitRecord
  BY OpenedFacts
<1>2. Opened(g, file, o, FALSE) =
        [g EXCEPT !.f77 = o.f77, !.name = file, !.out = o.out,
                  !.stream = FailedStream(g, o.compress, o.out)]
  BY DEF Opened
<1> QED
  BY <1>1, <1>2 DEF UnitRecord

-----------------------------------------------------------------------------
(* Steps that change one unit. *)

LEMMA OneUnit ==
    ASSUME fileUnits \in [Units -> UnitRecord],
           NEW u \in Units, NEW g \in UnitRecord,
           fileUnits' = [fileUnits EXCEPT ![u] = g]
    PROVE  /\ fileUnits' \in [Units -> UnitRecord]
           /\ fileUnits'[u] = g
           /\ \A v \in Units : v # u => fileUnits'[v] = fileUnits[v]
OBVIOUS

LEMMA CloseFilesTypes ==
    ASSUME TypeOK, NEW us \in SUBSET Units, CloseFiles(us)
    PROVE  /\ disk' \subseteq Files
           /\ sockets' \subseteq Descriptors
           /\ asked' \in [Units -> SUBSET Files]
BY DEF TypeOK, CloseFiles

LEMMA OpenGetLunFailsTypes ==
    ASSUME PoolInv, NEW file \in Files, NEW o \in Keyword, GetLUN # NoUnit
    PROVE  /\ Opened(Locked(GetLUN), file, o, TRUE) \in UnitRecord
           /\ Opened(Locked(GetLUN), file, o, TRUE).getLunLock
           /\ Freed(Opened(Locked(GetLUN), file, o, FALSE)) \in UnitRecord
<1>1. GetLUN \in Units
  BY GetLUNIsFree
<1>2. Locked(GetLUN) \in UnitRecord /\ Locked(GetLUN).getLunLock
  BY <1>1, LockedFacts DEF PoolInv, TypeOK
<1>3. /\ Opened(Locked(GetLUN), file, o, TRUE) \in UnitRecord
      /\ Opened(Locked(GetLUN), file, o, TRUE).getLunLock = Locked(GetLUN).getLunLock
  BY <1>2, OpenedFacts
<1>4. Opened(Locked(GetLUN), file, o, FALSE) \in UnitRecord
  BY <1>2, OpenedFacts
<1> QED
  BY <1>2, <1>3, <1>4, FreedFacts

(* GetLUN gives nobody's unit. *)
LEMMA GetLUNIsNobodys ==
    ASSUME PoolInv, GetLUN # NoUnit
    PROVE  GetLUN \notin owned /\ GetLUN # journalLUN
BY GetLUNIsFree DEF PoolInv, Held

LEMMA PoolInit == Init => PoolInv
<1> SUFFICES ASSUME Init PROVE PoolInv
  OBVIOUS
<1>1. [getLunLock |-> FALSE, stream |-> "null", name |-> "", out |-> FALSE,
       f77 |-> FALSE, deleteOnClose |-> FALSE, sockNum |-> NoSocket] \in UnitRecord
  BY DEF UnitRecord, Streams, Names
<1>2. TypeOK
  BY <1>1 DEF Init, NewUnits, TypeOK
<1> QED
  BY <1>2 DEF Init, PoolInv, Held

(* A step that changes the unit u alone, and keeps its lock if somebody has it. *)
LEMMA ChangeUnit ==
    ASSUME PoolInv, NEW u \in Units, NEW g \in UnitRecord,
           fileUnits' = [fileUnits EXCEPT ![u] = g],
           journalLUN' \in {journalLUN, NoUnit} \cup ({u} \cap PoolUnits),
           gdljournal' \in {gdljournal, NoUnit} \cup ({u} \cap PoolUnits),
           journalLUN' # NoUnit => gdljournal' = journalLUN',
           owned' \subseteq PoolUnits, owned' \subseteq owned \cup {u},
           journalLUN' \notin owned',
           u \in owned' \/ journalLUN' = u => g.getLunLock,
           disk' \subseteq Files, sockets' \subseteq Descriptors,
           asked' \in [Units -> SUBSET Files]
    PROVE  PoolInv'
<1>1. /\ fileUnits' \in [Units -> UnitRecord]
      /\ fileUnits'[u] = g
      /\ \A v \in Units : v # u => fileUnits'[v] = fileUnits[v]
  BY OneUnit DEF PoolInv, TypeOK
<1>2. TypeOK'
  BY <1>1 DEF PoolInv, TypeOK
<1>3. \A v \in owned' : fileUnits'[v].getLunLock
  BY <1>1, UnitFacts DEF PoolInv, TypeOK, Held
<1>4. journalLUN' # NoUnit => fileUnits'[journalLUN'].getLunLock
  BY <1>1, UnitFacts DEF PoolInv, TypeOK, Held
<1> QED
  BY <1>2, <1>3, <1>4 DEF PoolInv, Held

LEMMA PoolGetLun == PoolInv /\ GetLun => PoolInv'
<1> SUFFICES ASSUME PoolInv, GetLun PROVE PoolInv'
  OBVIOUS
<1>1. GetLUN \in PoolUnits /\ GetLUN \in Units /\ GetLUN \notin owned /\ GetLUN # journalLUN
  BY GetLUNIsFree, GetLUNIsNobodys DEF GetLun
<1>2. Locked(GetLUN) \in UnitRecord /\ Locked(GetLUN).getLunLock
  BY <1>1, LockedFacts DEF PoolInv, TypeOK
<1> QED
  BY <1>1, <1>2, ChangeUnit DEF GetLun, journals, PoolInv, TypeOK, Held

LEMMA PoolOpenLun ==
    ASSUME NEW u \in Units, NEW file \in Files, NEW o \in Keyword, NEW ok \in BOOLEAN,
           PoolInv, OpenLun(u, file, o, ok)
    PROVE  PoolInv'
<1>1. fileUnits[u] \in UnitRecord
  BY DEF PoolInv, TypeOK
<1> DEFINE g == Opened(fileUnits[u], file, o, ok)
<1>2. g \in UnitRecord /\ g.getLunLock = fileUnits[u].getLunLock
  BY <1>1, OpenedFacts
<1>3. fileUnits' = [fileUnits EXCEPT ![u] = g]
  BY DEF OpenLun
<1> HIDE DEF g
<1>4. disk' \subseteq Files /\ asked' \in [Units -> SUBSET Files]
  BY DEF OpenLun, PoolInv, TypeOK
<1>5. sockets' \subseteq Descriptors /\ owned' = owned /\ UNCHANGED journals
  BY DEF OpenLun, PoolInv, TypeOK
<1>6. u \in owned \/ journalLUN = u => g.getLunLock
  BY <1>2, UnitFacts DEF PoolInv, Held
<1>7. /\ owned \subseteq PoolUnits /\ journalLUN \notin owned
      /\ gdljournal' = gdljournal /\ journalLUN' = journalLUN
      /\ journalLUN # NoUnit => gdljournal = journalLUN
  BY <1>5 DEF PoolInv, TypeOK, Held, journals
<1> QED
  BY <1>2, <1>3, <1>4, <1>5, <1>6, <1>7, ChangeUnit

LEMMA PoolOpenGetLun ==
    ASSUME NEW file \in Files, NEW o \in Keyword,
           PoolInv, OpenGetLun(file, o) \/ OpenGetLunFails(file, o)
    PROVE  PoolInv'
<1>1. GetLUN # NoUnit
  BY DEF OpenGetLun, OpenGetLunFails
<1>2. GetLUN \in PoolUnits /\ GetLUN \in Units /\ GetLUN \notin owned /\ GetLUN # journalLUN
  BY <1>1, GetLUNIsFree, GetLUNIsNobodys
<1>3. /\ Opened(Locked(GetLUN), file, o, TRUE) \in UnitRecord
      /\ Opened(Locked(GetLUN), file, o, TRUE).getLunLock
      /\ Freed(Opened(Locked(GetLUN), file, o, FALSE)) \in UnitRecord
  BY <1>1, OpenGetLunFailsTypes
<1>4. CASE OpenGetLun(file, o)
  <2>1. disk' \subseteq Files /\ sockets' = sockets /\ asked' \in [Units -> SUBSET Files]
    BY <1>4 DEF OpenGetLun, PoolInv, TypeOK
  <2>2. /\ fileUnits' = [fileUnits EXCEPT ![GetLUN] = Opened(Locked(GetLUN), file, o, TRUE)]
        /\ owned' = owned \cup {GetLUN} /\ UNCHANGED journals
    BY <1>4 DEF OpenGetLun
  <2> QED
    BY <1>2, <1>3, <2>1, <2>2, ChangeUnit DEF PoolInv, TypeOK, Held, journals
<1>5. CASE OpenGetLunFails(file, o)
  <2>1. disk' \subseteq Files /\ sockets' \subseteq Descriptors /\ asked' \in [Units -> SUBSET Files]
    BY <1>5 DEF OpenGetLunFails, PoolInv, TypeOK
  <2>2. /\ fileUnits' = [fileUnits EXCEPT ![GetLUN] =
                            Freed(Opened(Locked(GetLUN), file, o, FALSE))]
        /\ owned' = owned /\ UNCHANGED journals
    BY <1>5 DEF OpenGetLunFails
  <2> QED
    BY <1>2, <1>3, <2>1, <2>2, ChangeUnit DEF PoolInv, TypeOK, Held, journals
<1> QED
  BY <1>4, <1>5

LEMMA PoolCloseLun ==
    ASSUME NEW u \in Units, PoolInv, CloseLun(u) \/ FreeLun(u)
    PROVE  PoolInv'
<1>1. /\ Closed(fileUnits[u]) \in UnitRecord
      /\ Closed(fileUnits[u]).getLunLock = fileUnits[u].getLunLock
      /\ Freed(fileUnits[u]) \in UnitRecord
  BY ClosedFacts, FreedFacts DEF PoolInv, TypeOK
<1>2. /\ disk' \subseteq Files /\ sockets' \subseteq Descriptors
      /\ asked' \in [Units -> SUBSET Files]
  <2>1. CloseFiles({u})
    BY DEF CloseLun, FreeLun
  <2> QED
    BY <2>1, CloseFilesTypes DEF PoolInv
<1>3. CASE CloseLun(u)
  BY <1>1, <1>2, <1>3, ChangeUnit DEF CloseLun, journals, PoolInv, TypeOK, Held
<1>4. CASE FreeLun(u)
  BY <1>1, <1>2, <1>4, ChangeUnit DEF FreeLun, journals, PoolInv, TypeOK, Held
<1> QED
  BY <1>3, <1>4

(* CLOSE with a keyword closes the units the program chooses, and frees    *)
(* those of a set of units of the pool without the journal's.              *)
LEMMA CloseMany ==
    ASSUME PoolInv, NEW us \in SUBSET (PoolUnits \ {journalLUN}),
           fileUnits' = [u \in Units |->
                            IF u \in UserUnits THEN Closed(fileUnits[u])
                            ELSE IF u \in us THEN Freed(fileUnits[u])
                            ELSE fileUnits[u]],
           CloseFiles(UserUnits \cup us),
           owned' = owned \ us, UNCHANGED journals
    PROVE  PoolInv'
<1>1. \A u \in Units : /\ Closed(fileUnits[u]) \in UnitRecord
                       /\ Freed(fileUnits[u]) \in UnitRecord
                       /\ fileUnits[u] \in UnitRecord
  BY ClosedFacts, FreedFacts DEF PoolInv, TypeOK
<1>2. fileUnits' \in [Units -> UnitRecord]
  BY <1>1
<1>3. /\ disk' \subseteq Files /\ sockets' \subseteq Descriptors
      /\ asked' \in [Units -> SUBSET Files]
  BY UnitFacts, CloseFilesTypes DEF PoolInv
<1>4. \A u \in PoolUnits \ us : fileUnits'[u] = fileUnits[u]
  BY UnitFacts
<1>5. TypeOK'
  BY <1>2, <1>3 DEF PoolInv, TypeOK, journals
<1>6. Held'
  BY <1>4 DEF PoolInv, TypeOK, Held, journals
<1> QED
  BY <1>5, <1>6 DEF PoolInv

LEMMA PoolCloseAll == PoolInv /\ (CloseFile \/ CloseAll) => PoolInv'
<1> SUFFICES ASSUME PoolInv, CloseFile \/ CloseAll PROVE PoolInv'
  OBVIOUS
<1>1. CASE CloseFile
  <2>1. fileUnits' = [u \in Units |->
                         IF u \in UserUnits THEN Closed(fileUnits[u])
                         ELSE IF u \in {} THEN Freed(fileUnits[u])
                         ELSE fileUnits[u]]
    BY <1>1 DEF CloseFile
  <2>2. CloseFiles(UserUnits \cup {}) /\ owned' = owned \ {} /\ UNCHANGED journals
    <3>1. UserUnits \cup {} = UserUnits
      OBVIOUS
    <3> QED
      BY <1>1, <3>1 DEF CloseFile
  <2>3. {} \in SUBSET (PoolUnits \ {journalLUN})
    OBVIOUS
  <2> QED
    BY <2>1, <2>2, <2>3, CloseMany
<1>2. CASE CloseAll
  BY <1>2, CloseMany DEF CloseAll, AllPool
<1> QED
  BY <1>1, <1>2

LEMMA PipedFacts ==
    ASSUME NEW g \in UnitRecord, NEW outcome \in {"ok", "half", "none"}, ~g.deleteOnClose
    PROVE  /\ Piped(g, outcome) \in UnitRecord
           /\ Piped(g, outcome).getLunLock = g.getLunLock
           /\ Piped(g, outcome).name = "<command>"
           /\ Piped(g, outcome).deleteOnClose => IsOpen(Piped(g, outcome))
<1>1. CASE outcome = "ok"
  BY <1>1 DEF Piped, UnitRecord, Names, Streams, OpenStreams, IsOpen
<1>2. CASE outcome # "ok"
  BY <1>2 DEF Piped, UnitRecord, Names, Streams, OpenStreams, IsOpen
<1> QED
  BY <1>1, <1>2

LEMMA PoolSpawnUnit ==
    ASSUME NEW outcome \in {"ok", "half", "none"}, PoolInv, SpawnUnit(outcome)
    PROVE  PoolInv'
<1> DEFINE c == Closed(Locked(GetLUN))
           r == Piped(c, outcome)
<1>1. GetLUN # NoUnit
  BY DEF SpawnUnit
<1>2. GetLUN \in PoolUnits /\ GetLUN \in Units /\ GetLUN \notin owned /\ GetLUN # journalLUN
  BY <1>1, GetLUNIsFree, GetLUNIsNobodys
<1>3. c \in UnitRecord /\ c.getLunLock /\ ~c.deleteOnClose
  BY <1>2, LockedFacts, ClosedFacts DEF PoolInv, TypeOK
<1>4. fileUnits' = [fileUnits EXCEPT ![GetLUN] = r]
  BY DEF SpawnUnit
<1> HIDE DEF c
<1>5. r \in UnitRecord /\ r.getLunLock
  BY <1>3, PipedFacts
<1> HIDE DEF r
<1>6. /\ disk' \subseteq Files /\ sockets' \subseteq Descriptors
      /\ asked' \in [Units -> SUBSET Files]
  <2>1. CloseFiles({GetLUN})
    BY DEF SpawnUnit
  <2> QED
    BY <1>2, <2>1, CloseFilesTypes DEF PoolInv
<1>7. owned' = owned \cup {GetLUN} /\ UNCHANGED journals
  BY DEF SpawnUnit
<1> QED
  BY <1>2, <1>4, <1>5, <1>6, <1>7, ChangeUnit DEF PoolInv, TypeOK, Held, journals

LEMMA PoolSocketLun ==
    ASSUME NEW u \in Units, NEW taken \in BOOLEAN, PoolInv, SocketLun(u, taken),
           taken => GetLUN # NoUnit /\ u = GetLUN
    PROVE  PoolInv'
<1>1. taken => u \in PoolUnits /\ u \notin owned /\ u # journalLUN
  BY GetLUNIsFree, GetLUNIsNobodys
<1> DEFINE c == IF taken THEN Locked(u) ELSE fileUnits[u]
<1>2. c \in UnitRecord /\ (taken \/ fileUnits[u].getLunLock => c.getLunLock)
  BY LockedFacts DEF PoolInv, TypeOK
<1>3. PICK s \in (Descriptors \ sockets) \cup {NoSocket} :
         /\ fileUnits' = [fileUnits EXCEPT ![u] = Socketed(c, s)]
         /\ sockets' = sockets \cup ({s} \ {NoSocket})
  BY DEF SocketLun
<1> HIDE DEF c
<1> DEFINE g == Socketed(c, s)
<1>4. g \in UnitRecord /\ g.getLunLock = c.getLunLock
  BY <1>2 DEF Socketed, UnitRecord, Names
<1>5. fileUnits' = [fileUnits EXCEPT ![u] = g]
  BY <1>3
<1> HIDE DEF g
<1>6. /\ owned' = IF taken THEN owned \cup {u} ELSE owned
      /\ UNCHANGED journals /\ disk' = disk /\ asked' = asked
  BY DEF SocketLun
<1>7. sockets' \subseteq Descriptors
  BY <1>3 DEF PoolInv, TypeOK
<1>8. u \in owned' \/ journalLUN = u => g.getLunLock
  BY <1>2, <1>4, <1>6, UnitFacts DEF PoolInv, Held
<1>9. owned' \subseteq PoolUnits /\ journalLUN \notin owned' /\ owned' \subseteq owned \cup {u}
  BY <1>1, <1>6 DEF PoolInv, TypeOK, Held, journals
<1> QED
  BY <1>4, <1>5, <1>6, <1>7, <1>8, <1>9, ChangeUnit DEF PoolInv, TypeOK, Held, journals

LEMMA PoolTruncateLun ==
    ASSUME NEW u \in Units, NEW ok \in BOOLEAN, NEW created \in BOOLEAN,
           PoolInv, TruncateLun(u, ok, created)
    PROVE  PoolInv'
<1> DEFINE g == Truncated(fileUnits[u], ok)
<1>1. g \in UnitRecord /\ g.getLunLock = fileUnits[u].getLunLock
  BY DEF Truncated, PoolInv, TypeOK, UnitRecord, Streams
<1>2. fileUnits' = [fileUnits EXCEPT ![u] = g]
  BY DEF TruncateLun, PoolInv, TypeOK
<1> HIDE DEF g
<1>3. disk' \subseteq Files /\ sockets' \subseteq Descriptors
      /\ asked' \in [Units -> SUBSET Files]
  BY DEF TruncateLun, PoolInv, TypeOK
<1>4. owned' = owned /\ UNCHANGED journals
  BY DEF TruncateLun
<1>5. u \in owned \/ journalLUN = u => g.getLunLock
  BY <1>1, UnitFacts DEF PoolInv, Held
<1> QED
  BY <1>1, <1>2, <1>3, <1>4, <1>5, ChangeUnit DEF PoolInv, TypeOK, Held, journals

LEMMA PoolJournal ==
    ASSUME NEW file \in Files, PoolInv,
           JournalStart(file) \/ JournalStartFails(file)
    PROVE  PoolInv'
<1> DEFINE done == Opened(Locked(GetLUN), file, JournalKeywords, TRUE)
           failed == Freed(Opened(Locked(GetLUN), file, JournalKeywords, FALSE))
<1>1. ASSUME GetLUN # NoUnit
      PROVE  /\ GetLUN \in PoolUnits /\ GetLUN \in Units
             /\ GetLUN \notin owned /\ GetLUN # journalLUN
             /\ done \in UnitRecord /\ done.getLunLock /\ failed \in UnitRecord
  BY <1>1, GetLUNIsFree, GetLUNIsNobodys, OpenGetLunFailsTypes, KeywordFacts
<1>2. CASE JournalStart(file)
  <2>1. /\ GetLUN # NoUnit
        /\ fileUnits' = [fileUnits EXCEPT ![GetLUN] = done]
        /\ journalLUN' = GetLUN /\ gdljournal' = GetLUN /\ owned' = owned
        /\ disk' \subseteq Files /\ sockets' = sockets /\ asked' \in [Units -> SUBSET Files]
    BY <1>2 DEF JournalStart, PoolInv, TypeOK
  <2> HIDE DEF done
  <2> QED
    BY <1>1, <2>1, ChangeUnit DEF PoolInv, TypeOK, Held, journals
<1>3. CASE JournalStartFails(file)
  <2>1. /\ GetLUN # NoUnit
        /\ fileUnits' = [fileUnits EXCEPT ![GetLUN] = failed]
        /\ journalLUN = NoUnit /\ journalLUN' = NoUnit
        /\ gdljournal' = NoUnit /\ owned' = owned
        /\ disk' \subseteq Files /\ sockets' \subseteq Descriptors
        /\ asked' \in [Units -> SUBSET Files]
    BY <1>3 DEF JournalStartFails, PoolInv, TypeOK
  <2> HIDE DEF failed
  <2> QED
    BY <1>1, <2>1, ChangeUnit DEF PoolInv, TypeOK, Held, journals
<1> QED
  BY <1>2, <1>3

LEMMA PoolJournalEnd == PoolInv /\ JournalEnd => PoolInv'
<1> SUFFICES ASSUME PoolInv, JournalEnd PROVE PoolInv'
  OBVIOUS
<1>1. gdljournal \in Units /\ gdljournal = journalLUN
  BY UnitFacts DEF JournalEnd, PoolInv, TypeOK, Held
<1>2. CloseFiles({gdljournal})
  BY DEF JournalEnd
<1>3. /\ disk' \subseteq Files /\ sockets' \subseteq Descriptors
      /\ asked' \in [Units -> SUBSET Files]
  BY <1>1, <1>2, CloseFilesTypes DEF PoolInv
<1>4. Closed(fileUnits[gdljournal]) \in UnitRecord
  BY <1>1, ClosedFacts DEF PoolInv, TypeOK
<1>5. /\ fileUnits' = [fileUnits EXCEPT ![gdljournal] = Closed(fileUnits[gdljournal])]
      /\ journalLUN' = NoUnit /\ gdljournal' = NoUnit /\ owned' = owned
  BY DEF JournalEnd
<1>6. NoUnit \notin owned /\ gdljournal \notin owned /\ NoUnit # gdljournal
  BY <1>1, UnitFacts DEF JournalEnd, PoolInv, TypeOK, Held
<1> QED
  BY <1>1, <1>3, <1>4, <1>5, <1>6, ChangeUnit DEF PoolInv, TypeOK

LEMMA NewUnitsTypes == NewUnits \in [Units -> UnitRecord]
BY DEF NewUnits, UnitRecord, Streams, Names

LEMMA PoolResetSession == PoolInv /\ ResetSession => PoolInv'
<1> SUFFICES ASSUME PoolInv, ResetSession PROVE PoolInv'
  OBVIOUS
<1>1. TypeOK'
  BY NewUnitsTypes DEF ResetSession, PoolInv, TypeOK
<1>2. Held'
  BY DEF ResetSession, Held
<1> QED
  BY <1>1, <1>2 DEF PoolInv

LEMMA PoolNext == PoolInv /\ [Next]_vars => PoolInv'
<1> SUFFICES ASSUME PoolInv, [Next]_vars PROVE PoolInv'
  OBVIOUS
<1>1. CASE GetLun
  BY <1>1, PoolGetLun
<1>2. CASE \E u \in Units, file \in Files, o \in Keywords, ok \in BOOLEAN :
              OpenLun(u, file, o, ok)
  BY <1>2, PoolOpenLun, KeywordFacts
<1>3. CASE \E file \in Files, o \in Keywords :
              OpenGetLun(file, o) \/ OpenGetLunFails(file, o)
  BY <1>3, PoolOpenGetLun, KeywordFacts
<1>4. CASE \E u \in Units : CloseLun(u) \/ FreeLun(u)
  BY <1>4, PoolCloseLun
<1>5. CASE CloseFile \/ CloseAll
  BY <1>5, PoolCloseAll
<1>6. CASE \E outcome \in {"ok", "half", "none"} : SpawnUnit(outcome)
  BY <1>6, PoolSpawnUnit
<1>7. CASE \E u \in Units : SocketLun(u, FALSE)
  BY <1>7, PoolSocketLun
<1>8. CASE GetLUN # NoUnit /\ SocketLun(GetLUN, TRUE)
  BY <1>8, PoolSocketLun, GetLUNIsFree
<1>9. CASE \E u \in Units, ok, created \in BOOLEAN : TruncateLun(u, ok, created)
  BY <1>9, PoolTruncateLun
<1>10. CASE \E file \in Files : JournalStart(file) \/ JournalStartFails(file)
  BY <1>10, PoolJournal
<1>11. CASE JournalEnd
  BY <1>11, PoolJournalEnd
<1>12. CASE ResetSession
  BY <1>12, PoolResetSession
<1>13. CASE UNCHANGED vars
  BY <1>13 DEF vars, PoolInv, TypeOK, Held
<1> QED
  BY <1>1, <1>2, <1>3, <1>4, <1>5, <1>6, <1>7, <1>8, <1>9, <1>10, <1>11, <1>12,
     <1>13 DEF Next

-----------------------------------------------------------------------------
(* The fields of the units, the journal's unit and the histories keep      *)
(* their types, whatever the program does.                                 *)
THEOREM UnitsTypeCorrect == Spec => []TypeOK
<1>1. PoolInv => TypeOK
  BY DEF PoolInv
<1> QED
  BY PoolInit, PoolNext, <1>1, PTL DEF Spec

(* No unit is handed out twice, by GET_LUN, OPEN with GET_LUN, SOCKET with *)
(* GET_LUN, SPAWN with UNIT or JOURNAL, for any number of units and after  *)
(* every sequence of openings, failures and closings.                      *)
THEOREM UnitsHandedOutOnce == Spec => []NeverTwice
<1>1. PoolInv => NeverTwice
  <2> SUFFICES ASSUME PoolInv PROVE NeverTwice
    OBVIOUS
  <2>1. \A u \in Free : u \in PoolUnits /\ ~fileUnits[u].getLunLock
    BY DEF Free
  <2>2. NoUnit \notin Free
    BY <2>1, UnitsAssumption
  <2> QED
    BY <2>1, <2>2 DEF PoolInv, Held, NeverTwice
<1> QED
  BY PoolInit, PoolNext, <1>1, PTL DEF Spec

-----------------------------------------------------------------------------
(* Without SOCKET, which overwrites the name of an open unit, without      *)
(* TRUNCATE_LUN, which may leave a unit closed with its request, and       *)
(* without .RESET_SESSION, which leaves gdljournal behind, a unit that     *)
(* asks for DELETE is open on the file it was opened with, and the         *)
(* journal's unit is open.                                                 *)

NamesKept == {"socket", "truncate", "reset_session"} \cap Ops = {}

DeleteOK(g, as) ==
    g.deleteOnClose => IsOpen(g) /\ (g.name \in Files => g.name \in as)

Writable(g) == IsOpen(g) /\ g.out /\ g.name \in Files

OpenInv ==
    /\ PoolInv
    /\ \A u \in Units : DeleteOK(fileUnits[u], asked[u])
    /\ JournalOpen

DeletesAsked == \A f \in disk \ disk' : \E u \in Units : f \in asked[u]

LEMMA ChangeOpen ==
    ASSUME OpenInv, PoolInv', NEW u \in Units, NEW g \in UnitRecord,
           fileUnits' = [fileUnits EXCEPT ![u] = g],
           \A v \in Units : v # u => asked'[v] = asked[v],
           DeleteOK(g, asked'[u]),
           journalLUN' \in {journalLUN, NoUnit, u},
           journalLUN' = u => Writable(g), gdljournal' = journalLUN'
    PROVE  OpenInv'
<1>1. /\ fileUnits'[u] = g
      /\ \A v \in Units : v # u => fileUnits'[v] = fileUnits[v]
  BY DEF PoolInv, TypeOK, OpenInv
<1>2. \A v \in Units : DeleteOK(fileUnits'[v], asked'[v])
  BY <1>1 DEF OpenInv
<1>3. journalLUN' # NoUnit => Writable(fileUnits'[journalLUN'])
  <2> SUFFICES ASSUME journalLUN' # NoUnit PROVE Writable(fileUnits'[journalLUN'])
    OBVIOUS
  <2>1. CASE journalLUN' = u
    BY <1>1, <2>1
  <2>2. CASE journalLUN' # u
    <3>1. journalLUN' = journalLUN /\ journalLUN \in Units
      BY <2>2, UnitFacts DEF OpenInv, PoolInv, TypeOK
    <3>2. Writable(fileUnits[journalLUN])
      BY <3>1 DEF OpenInv, JournalOpen, Writable
    <3> QED
      BY <1>1, <2>2, <3>1, <3>2
  <2> QED
    BY <2>1, <2>2
<1> QED
  BY <1>2, <1>3 DEF OpenInv, JournalOpen, Writable

(* A file that goes with a unit was asked for. *)
LEMMA RemovedAsked ==
    ASSUME OpenInv, NEW us \in SUBSET Units,
           disk' = disk \ UNION {Removed(fileUnits[u]) : u \in us}
    PROVE  DeletesAsked
<1> SUFFICES ASSUME NEW f \in disk \ disk' PROVE \E u \in Units : f \in asked[u]
  BY DEF DeletesAsked
<1>1. PICK u \in us : f \in Removed(fileUnits[u])
  OBVIOUS
<1>2. fileUnits[u].deleteOnClose /\ f = fileUnits[u].name /\ f \in Files
  BY <1>1 DEF Removed, OpenInv, PoolInv, TypeOK
<1> QED
  BY <1>1, <1>2 DEF OpenInv, DeleteOK

LEMMA NothingRemoved == disk \subseteq disk' => DeletesAsked
BY DEF DeletesAsked

LEMMA OpenGetLunStep ==
    ASSUME OpenInv, PoolInv', GetLun PROVE OpenInv' /\ DeletesAsked
<1>1. GetLUN \in Units /\ GetLUN # journalLUN
  BY GetLUNIsFree, GetLUNIsNobodys DEF GetLun, OpenInv
<1>2. /\ Locked(GetLUN) \in UnitRecord
      /\ Locked(GetLUN).stream = fileUnits[GetLUN].stream
      /\ Locked(GetLUN).deleteOnClose = fileUnits[GetLUN].deleteOnClose
  BY <1>1, LockedFacts DEF OpenInv, PoolInv, TypeOK
<1>3. ~fileUnits[GetLUN].deleteOnClose
  <2>1. ~IsOpen(fileUnits[GetLUN])
    BY GetLUNIsFree DEF GetLun, InUse, IsOpen, OpenStreams
  <2> QED
    BY <1>1, <2>1 DEF OpenInv, DeleteOK
<1>4. DeleteOK(Locked(GetLUN), asked'[GetLUN])
  BY <1>2, <1>3 DEF DeleteOK
<1>5. /\ fileUnits' = [fileUnits EXCEPT ![GetLUN] = Locked(GetLUN)]
      /\ UNCHANGED <<journalLUN, disk, asked>> /\ gdljournal' = journalLUN'
  BY DEF GetLun, journals, OpenInv, JournalOpen
<1> QED
  BY <1>1, <1>2, <1>4, <1>5, ChangeOpen, NothingRemoved

LEMMA OpenOpenLun ==
    ASSUME NEW u \in Units, NEW file \in Files, NEW o \in Keyword, NEW ok \in BOOLEAN,
           OpenInv, PoolInv', OpenLun(u, file, o, ok)
    PROVE  OpenInv' /\ DeletesAsked
<1>1. fileUnits[u] \in UnitRecord
  BY DEF OpenInv, PoolInv, TypeOK
<1> DEFINE g == Opened(fileUnits[u], file, o, ok)
<1>2. g \in UnitRecord
  BY <1>1, OpenedFacts
<1>3. /\ fileUnits' = [fileUnits EXCEPT ![u] = g]
      /\ journalLUN' = journalLUN /\ gdljournal' = journalLUN'
  BY DEF OpenLun, journals, OpenInv, JournalOpen
<1>4. \A v \in Units : v # u => asked'[v] = asked[v]
  BY DEF OpenLun, OpenInv, PoolInv, TypeOK
<1>5. disk \subseteq disk'
  BY DEF OpenLun
<1>6. DeleteOK(fileUnits[u], asked[u])
  BY DEF OpenInv
<1>7. journalLUN = u => Writable(fileUnits[u])
  BY UnitFacts DEF OpenInv, JournalOpen, Writable
<1>8. CASE IsOpen(fileUnits[u])
  <2>1. /\ g.stream = fileUnits[u].stream /\ g.name = fileUnits[u].name
        /\ g.out = fileUnits[u].out /\ g.deleteOnClose = fileUnits[u].deleteOnClose
    BY <1>1, <1>8, OpenedFields
  <2>2. asked' = asked
    BY <1>8 DEF OpenLun
  <2> HIDE DEF g
  <2>3. DeleteOK(g, asked'[u]) /\ (journalLUN = u => Writable(g))
    BY <1>6, <1>7, <2>1, <2>2 DEF DeleteOK, Writable, IsOpen
  <2> QED
    BY <1>2, <1>3, <1>4, <1>5, <2>3, ChangeOpen, NothingRemoved
<1>9. CASE ~IsOpen(fileUnits[u]) /\ ok
  <2>1. IsOpen(g) /\ g.name = file /\ g.deleteOnClose = o.delete
    BY <1>1, <1>9, OpenedFresh
  <2>a. asked' = [asked EXCEPT ![u] = IF o.delete THEN {file} ELSE {}]
    BY <1>9 DEF OpenLun
  <2>2. asked'[u] = IF o.delete THEN {file} ELSE {}
    BY <2>a DEF OpenInv, PoolInv, TypeOK
  <2>3. journalLUN # u
    BY <1>7, <1>9 DEF Writable
  <2> HIDE DEF g
  <2>4. DeleteOK(g, asked'[u])
    BY <2>1, <2>2 DEF DeleteOK
  <2> QED
    BY <1>2, <1>3, <1>4, <1>5, <2>3, <2>4, ChangeOpen, NothingRemoved
<1>10. CASE ~IsOpen(fileUnits[u]) /\ ~ok
  <2>1. g.deleteOnClose = fileUnits[u].deleteOnClose
    BY <1>1, <1>10, OpenedFields
  <2>2. journalLUN # u
    BY <1>7, <1>10 DEF Writable
  <2> HIDE DEF g
  <2>3. DeleteOK(g, asked'[u])
    BY <1>6, <1>10, <2>1 DEF DeleteOK
  <2> QED
    BY <1>2, <1>3, <1>4, <1>5, <2>2, <2>3, ChangeOpen, NothingRemoved
<1> QED
  BY <1>8, <1>9, <1>10

(* The unit GetLUN returns asks for nothing and has nothing open. *)
LEMMA FreshUnit ==
    ASSUME OpenInv, GetLUN # NoUnit
    PROVE  /\ GetLUN \in Units /\ GetLUN \in PoolUnits
           /\ GetLUN # journalLUN /\ GetLUN \notin owned
           /\ Locked(GetLUN) \in UnitRecord
           /\ ~IsOpen(Locked(GetLUN))
           /\ ~Locked(GetLUN).deleteOnClose
<1>1. /\ GetLUN \in Units /\ GetLUN \in PoolUnits
      /\ GetLUN # journalLUN /\ GetLUN \notin owned
  BY GetLUNIsFree, GetLUNIsNobodys DEF OpenInv
<1>2. /\ Locked(GetLUN) \in UnitRecord
      /\ Locked(GetLUN).stream = fileUnits[GetLUN].stream
      /\ Locked(GetLUN).deleteOnClose = fileUnits[GetLUN].deleteOnClose
  BY <1>1, LockedFacts DEF OpenInv, PoolInv, TypeOK
<1>3. ~IsOpen(fileUnits[GetLUN])
  BY GetLUNIsFree DEF InUse, IsOpen, OpenStreams
<1> QED
  BY <1>1, <1>2, <1>3 DEF OpenInv, DeleteOK, IsOpen

(* An opening of a unit just taken from the pool, by OPEN or JOURNAL, that *)
(* succeeds.                                                               *)
LEMMA OpenTaken ==
    ASSUME NEW file \in Files, NEW o \in Keyword, OpenInv, PoolInv', GetLUN # NoUnit,
           fileUnits' = [fileUnits EXCEPT ![GetLUN] = Opened(Locked(GetLUN), file, o, TRUE)],
           disk' = disk \cup {file},
           asked' = [asked EXCEPT ![GetLUN] = IF o.delete THEN {file} ELSE {}],
           journalLUN' = journalLUN \/ (journalLUN' = GetLUN /\ o.out),
           gdljournal' = journalLUN'
    PROVE  OpenInv' /\ DeletesAsked
<1> DEFINE u == GetLUN
           l == Locked(u)
           g == Opened(l, file, o, TRUE)
<1>1. /\ u \in Units /\ u # journalLUN /\ Locked(u) \in UnitRecord /\ ~IsOpen(Locked(u))
  BY FreshUnit
<1>2. /\ g \in UnitRecord /\ IsOpen(g) /\ g.name = file /\ g.out = o.out
      /\ g.deleteOnClose = o.delete
  <2>1. l \in UnitRecord /\ ~IsOpen(l) 
    BY <1>1
  <2> HIDE DEF l
  <2> QED
    BY <2>1, OpenedDone
<1>3. fileUnits' = [fileUnits EXCEPT ![u] = g]
  OBVIOUS
<1> HIDE DEF g
<1>4. /\ asked'[u] = IF o.delete THEN {file} ELSE {}
      /\ \A v \in Units : v # u => asked'[v] = asked[v]
  BY <1>1 DEF OpenInv, PoolInv, TypeOK
<1>5. DeleteOK(g, asked'[u])
  BY <1>2, <1>4 DEF DeleteOK
<1>6. journalLUN' = u => Writable(g)
  BY <1>1, <1>2 DEF Writable
<1>7. disk \subseteq disk' /\ journalLUN' \in {journalLUN, NoUnit, u}
  OBVIOUS
<1> HIDE DEF u
<1> QED
  BY <1>1, <1>2, <1>3, <1>4, <1>5, <1>6, <1>7, ChangeOpen, NothingRemoved

(* One that fails frees the unit, and removes nothing. *)
LEMMA OpenTakenFails ==
    ASSUME NEW file \in Files, NEW o \in Keyword, OpenInv, PoolInv', GetLUN # NoUnit,
           fileUnits' = [fileUnits EXCEPT
               ![GetLUN] = Freed(Opened(Locked(GetLUN), file, o, FALSE))],
           disk' = disk \ Removed(Opened(Locked(GetLUN), file, o, FALSE)),
           asked' = [asked EXCEPT ![GetLUN] = {}],
           journalLUN' = journalLUN, gdljournal' = journalLUN'
    PROVE  OpenInv' /\ DeletesAsked
<1> DEFINE u == GetLUN
           l == Locked(u)
           g == Opened(l, file, o, FALSE)
<1>1. /\ u \in Units /\ u # journalLUN /\ Locked(u) \in UnitRecord
      /\ ~IsOpen(Locked(u)) /\ ~Locked(u).deleteOnClose
  BY FreshUnit
<1>2. g \in UnitRecord /\ ~g.deleteOnClose
  <2>1. l \in UnitRecord /\ ~IsOpen(l) /\ ~l.deleteOnClose 
    BY <1>1
  <2> HIDE DEF l
  <2> QED
    BY <2>1, OpenedFailed
<1>3. fileUnits' = [fileUnits EXCEPT ![u] = Freed(g)] /\ disk' = disk \ Removed(g)
  OBVIOUS
<1> HIDE DEF g
<1>4. Freed(g) \in UnitRecord /\ ~Freed(g).deleteOnClose
  BY <1>2, FreedFacts
<1>5. disk \subseteq disk'
  BY <1>2, <1>3 DEF Removed
<1>6. \A v \in Units : v # u => asked'[v] = asked[v]
  BY DEF OpenInv, PoolInv, TypeOK
<1>7. DeleteOK(Freed(g), asked'[u])
  BY <1>4 DEF DeleteOK
<1>8. journalLUN' \in {journalLUN, NoUnit, u} /\ journalLUN' # u
  BY <1>1
<1> HIDE DEF u
<1> QED
  BY <1>1, <1>3, <1>4, <1>5, <1>6, <1>7, <1>8, ChangeOpen, NothingRemoved

LEMMA OpenClose ==
    ASSUME NEW u \in Units, NEW g \in UnitRecord, OpenInv, PoolInv',
           fileUnits' = [fileUnits EXCEPT ![u] = g], ~g.deleteOnClose,
           CloseFiles({u}), journalLUN' \in {journalLUN, NoUnit}, u # journalLUN',
           gdljournal' = journalLUN'
    PROVE  OpenInv' /\ DeletesAsked
<1>1. \A v \in Units : v # u => asked'[v] = asked[v]
  BY DEF CloseFiles
<1>2. DeleteOK(g, asked'[u])
  BY DEF DeleteOK
<1>3. OpenInv'
  BY <1>1, <1>2, ChangeOpen
<1>4. {u} \in SUBSET Units /\ disk' = disk \ UNION {Removed(fileUnits[v]) : v \in {u}}
  BY DEF CloseFiles
<1>5. DeletesAsked
  BY <1>4, RemovedAsked
<1> QED
  BY <1>3, <1>5

LEMMA OpenCloseLun ==
    ASSUME NEW u \in Units, OpenInv, PoolInv', CloseLun(u) \/ FreeLun(u)
    PROVE  OpenInv' /\ DeletesAsked
<1>1. /\ Closed(fileUnits[u]) \in UnitRecord /\ ~Closed(fileUnits[u]).deleteOnClose
      /\ Freed(fileUnits[u]) \in UnitRecord /\ ~Freed(fileUnits[u]).deleteOnClose
  BY ClosedFacts, FreedFacts DEF OpenInv, PoolInv, TypeOK
<1>2. CASE CloseLun(u)
  BY <1>1, <1>2, OpenClose DEF CloseLun, journals, OpenInv, JournalOpen
<1>3. CASE FreeLun(u)
  BY <1>1, <1>3, OpenClose DEF FreeLun, journals, OpenInv, JournalOpen
<1> QED
  BY <1>2, <1>3

LEMMA OpenCloseMany ==
    ASSUME OpenInv, PoolInv', NEW us \in SUBSET (PoolUnits \ {journalLUN}),
           fileUnits' = [u \in Units |->
                            IF u \in UserUnits THEN Closed(fileUnits[u])
                            ELSE IF u \in us THEN Freed(fileUnits[u])
                            ELSE fileUnits[u]],
           CloseFiles(UserUnits \cup us), UNCHANGED journals
    PROVE  OpenInv' /\ DeletesAsked
<1> DEFINE all == UserUnits \cup us
<1>1. all \in SUBSET Units
  BY UnitFacts
<1>2. \A u \in all : ~fileUnits'[u].deleteOnClose
  BY <1>1, ClosedFacts, FreedFacts DEF OpenInv, PoolInv, TypeOK
<1>3. \A u \in Units \ all : fileUnits'[u] = fileUnits[u] /\ asked'[u] = asked[u]
  BY DEF CloseFiles
<1>4. \A u \in Units : DeleteOK(fileUnits'[u], asked'[u])
  BY <1>2, <1>3 DEF DeleteOK, OpenInv
<1>5. JournalOpen'
  <2>1. journalLUN # NoUnit => journalLUN \in Units \ all
    BY UnitFacts DEF OpenInv, PoolInv, TypeOK
  <2> QED
    BY <1>3, <2>1 DEF JournalOpen, OpenInv, IsOpen, journals
<1>6. DeletesAsked
  BY <1>1, RemovedAsked DEF CloseFiles
<1> QED
  BY <1>4, <1>5, <1>6 DEF OpenInv

LEMMA OpenCloseAll ==
    ASSUME OpenInv, PoolInv', CloseFile \/ CloseAll
    PROVE  OpenInv' /\ DeletesAsked
<1>1. CASE CloseFile
  <2>1. fileUnits' = [u \in Units |->
                         IF u \in UserUnits THEN Closed(fileUnits[u])
                         ELSE IF u \in {} THEN Freed(fileUnits[u])
                         ELSE fileUnits[u]]
    BY <1>1 DEF CloseFile
  <2>2. CloseFiles(UserUnits \cup {}) /\ UNCHANGED journals
    <3>1. UserUnits \cup {} = UserUnits
      OBVIOUS
    <3> QED
      BY <1>1, <3>1 DEF CloseFile
  <2>3. {} \in SUBSET (PoolUnits \ {journalLUN})
    OBVIOUS
  <2> QED
    BY <2>1, <2>2, <2>3, OpenCloseMany
<1>2. CASE CloseAll
  BY <1>2, OpenCloseMany DEF CloseAll, AllPool
<1> QED
  BY <1>1, <1>2

LEMMA OpenSpawnUnit ==
    ASSUME NEW outcome \in {"ok", "half", "none"}, OpenInv, PoolInv', SpawnUnit(outcome)
    PROVE  OpenInv' /\ DeletesAsked
<1> DEFINE u == GetLUN
           c == Closed(Locked(u))
           r == Piped(c, outcome)
<1>1. u \in Units /\ u # journalLUN /\ Locked(u) \in UnitRecord
  BY FreshUnit DEF SpawnUnit
<1>2. c \in UnitRecord /\ ~c.deleteOnClose
  BY <1>1, ClosedFacts
<1>3. fileUnits' = [fileUnits EXCEPT ![u] = r]
  BY DEF SpawnUnit
<1>4. /\ CloseFiles({u})
      /\ journalLUN' = journalLUN /\ gdljournal' = journalLUN'
  BY DEF SpawnUnit, journals, OpenInv, JournalOpen
<1> HIDE DEF u, c
<1>5. r \in UnitRecord /\ (r.deleteOnClose => IsOpen(r)) /\ r.name = "<command>"
  BY <1>2, PipedFacts
<1> HIDE DEF r
<1>6. DeleteOK(r, asked'[u])
  BY <1>5, NamesAssumption DEF DeleteOK
<1>7. \A v \in Units : v # u => asked'[v] = asked[v]
  BY <1>4 DEF CloseFiles
<1>8. OpenInv'
  BY <1>1, <1>3, <1>4, <1>5, <1>6, <1>7, ChangeOpen
<1>9. {u} \in SUBSET Units /\ disk' = disk \ UNION {Removed(fileUnits[v]) : v \in {u}}
  BY <1>1, <1>4 DEF CloseFiles
<1> QED
  BY <1>8, <1>9, RemovedAsked

LEMMA OpenJournal ==
    ASSUME NEW file \in Files, OpenInv, PoolInv',
           JournalStart(file) \/ JournalStartFails(file)
    PROVE  OpenInv' /\ DeletesAsked
<1>1. /\ JournalKeywords \in Keyword
      /\ JournalKeywords.out = TRUE /\ JournalKeywords.delete = FALSE
  BY KeywordFacts DEF JournalKeywords
<1>2. CASE JournalStart(file)
  <2>1. asked' = [asked EXCEPT ![GetLUN] =
                     IF JournalKeywords.delete THEN {file} ELSE {}]
    BY <1>1, <1>2 DEF JournalStart
  <2> QED
    BY <1>1, <1>2, <2>1, OpenTaken DEF JournalStart
<1>3. CASE JournalStartFails(file)
  <2>1. gdljournal' = journalLUN' /\ journalLUN' = journalLUN
    BY <1>3 DEF JournalStartFails
  <2> QED
    BY <1>1, <1>3, <2>1, OpenTakenFails DEF JournalStartFails
<1> QED
  BY <1>2, <1>3

LEMMA OpenJournalEnd ==
    ASSUME OpenInv, PoolInv', JournalEnd
    PROVE  OpenInv' /\ DeletesAsked
<1>1. gdljournal \in Units /\ gdljournal # NoUnit
  BY UnitFacts DEF JournalEnd, OpenInv, PoolInv, TypeOK, JournalOpen
<1>2. /\ Closed(fileUnits[gdljournal]) \in UnitRecord
      /\ ~Closed(fileUnits[gdljournal]).deleteOnClose
  BY <1>1, ClosedFacts DEF OpenInv, PoolInv, TypeOK
<1> QED
  BY <1>1, <1>2, OpenClose DEF JournalEnd

LEMMA OpenInit == Init => OpenInv
<1> SUFFICES ASSUME Init PROVE OpenInv
  OBVIOUS
<1>1. \A u \in Units : ~fileUnits[u].deleteOnClose
  BY DEF Init, NewUnits
<1> QED
  BY <1>1, PoolInit DEF Init, OpenInv, DeleteOK, JournalOpen

LEMMA OpenNext ==
    ASSUME NamesKept, OpenInv, [Next]_vars
    PROVE  OpenInv' /\ DeletesAsked
<1>1. PoolInv'
  BY PoolNext DEF OpenInv
<1>2. CASE GetLun
  BY <1>1, <1>2, OpenGetLunStep
<1>3. CASE \E u \in Units, file \in Files, o \in Keywords, ok \in BOOLEAN :
              OpenLun(u, file, o, ok)
  BY <1>1, <1>3, OpenOpenLun, KeywordFacts
<1>4. CASE \E file \in Files, o \in Keywords : OpenGetLun(file, o)
  <2>1. PICK file \in Files, o \in Keywords : OpenGetLun(file, o)
    BY <1>4
  <2>2. o \in Keyword
    BY KeywordFacts
  <2> QED
    BY <1>1, <2>1, <2>2, OpenTaken DEF OpenGetLun, journals, OpenInv, JournalOpen
<1>5. CASE \E file \in Files, o \in Keywords : OpenGetLunFails(file, o)
  <2>1. PICK file \in Files, o \in Keywords : OpenGetLunFails(file, o)
    BY <1>5
  <2>2. o \in Keyword
    BY KeywordFacts
  <2> QED
    BY <1>1, <2>1, <2>2, OpenTakenFails DEF OpenGetLunFails, journals, OpenInv, JournalOpen
<1>6. CASE \E u \in Units : CloseLun(u) \/ FreeLun(u)
  BY <1>1, <1>6, OpenCloseLun
<1>7. CASE CloseFile \/ CloseAll
  BY <1>1, <1>7, OpenCloseAll
<1>8. CASE \E outcome \in {"ok", "half", "none"} : SpawnUnit(outcome)
  BY <1>1, <1>8, OpenSpawnUnit
<1>9. CASE \E file \in Files : JournalStart(file) \/ JournalStartFails(file)
  BY <1>1, <1>9, OpenJournal
<1>10. CASE JournalEnd
  BY <1>1, <1>10, OpenJournalEnd
<1>11. CASE UNCHANGED vars
  BY <1>1, <1>11 DEF vars, OpenInv, DeleteOK, JournalOpen, IsOpen, DeletesAsked
<1>12. ~\E u \in Units, taken \in BOOLEAN : SocketLun(u, taken)
  BY DEF NamesKept, SocketLun
<1>13. ~\E u \in Units, ok, created \in BOOLEAN : TruncateLun(u, ok, created)
  BY DEF NamesKept, TruncateLun
<1>14. ~("get_lun" \in Ops /\ GetLUN # NoUnit /\ SocketLun(GetLUN, TRUE))
  BY DEF NamesKept, SocketLun
<1>15. ~ResetSession
  BY DEF NamesKept, ResetSession
<1> QED
  BY <1>2, <1>3, <1>4, <1>5, <1>6, <1>7, <1>8, <1>9, <1>10, <1>11, <1>12, <1>13,
     <1>14, <1>15 DEF Next

(* While !JOURNAL names a unit the unit is open for writing, and           *)
(* gdljournal points to it, if the session uses neither SOCKET nor         *)
(* TRUNCATE_LUN nor .RESET_SESSION.                                        *)
THEOREM JournalStaysOpen == NamesKept => (Spec => []JournalOpen)
<1>1. NamesKept /\ OpenInv /\ [Next]_vars => OpenInv'
  BY OpenNext
<1>2. OpenInv => JournalOpen
  BY DEF OpenInv
<1> SUFFICES ASSUME NamesKept PROVE Spec => []JournalOpen
  OBVIOUS
<1>3. OpenInv /\ [Next]_vars => OpenInv'
  BY <1>1
<1> QED
  BY OpenInit, <1>2, <1>3, PTL DEF Spec

(* Under the same condition only files disappear that the present opening  *)
(* of a unit asked to delete.                                              *)
THEOREM DeletionIsAsked == NamesKept => (Spec => DeletesOnlyAsked)
<1> SUFFICES ASSUME NamesKept PROVE Spec => DeletesOnlyAsked
  OBVIOUS
<1>1. OpenInv /\ [Next]_vars => OpenInv'
  BY OpenNext
<1>2. OpenInv /\ [Next]_vars =>
        [\A f \in disk \ disk' : \E u \in Units : f \in asked[u]]_vars
  BY OpenNext DEF DeletesAsked
<1> QED
  BY OpenInit, <1>1, <1>2, PTL DEF Spec, DeletesOnlyAsked

-----------------------------------------------------------------------------
(* The pool loses no unit as long as no journal is ended and nothing is    *)
(* compressed: a locked unit has an owner, and a unit in use is open.      *)

NoneLost == {"compress", "journal_close"} \cap Ops = {}

Plain(g) == g.stream \in {"null", "empty", "file", "pipe"}

AllPlain == \A u \in Units : Plain(fileUnits[u])
LocksOwned ==
    \A u \in PoolUnits : fileUnits[u].getLunLock => u \in owned \/ u = journalLUN

LostInv == PoolInv /\ AllPlain /\ LocksOwned

(* No method of GDLStream, used without COMPRESS, leaves a closed          *)
(* compressed stream, and Free resets the lock.                            *)
LEMMA PlainMethods ==
    ASSUME NEW g \in UnitRecord, Plain(g)
    PROVE  /\ Plain(Closed(g)) /\ Plain(Freed(g)) /\ ~Freed(g).getLunLock
           /\ \A file \in Files, o \in Keyword, ok \in BOOLEAN :
                 ~o.compress => Plain(Opened(g, file, o, ok))
           /\ \A outcome \in {"ok", "half", "none"} : Plain(Piped(g, outcome))
           /\ \A s \in Descriptors \cup {NoSocket} : Plain(Socketed(g, s))
           /\ \A ok \in BOOLEAN : Plain(Truncated(g, ok))
<1>1. Plain(Closed(g)) /\ Closed(g) \in UnitRecord
  BY ClosedFacts DEF Closed, UnitRecord, Plain
<1>2. Plain(Freed(g)) /\ ~Freed(g).getLunLock
  BY <1>1 DEF Freed, UnitRecord, Plain
<1>3. ASSUME NEW file \in Files, NEW o \in Keyword, NEW ok \in BOOLEAN, ~o.compress
      PROVE  Plain(Opened(g, file, o, ok))
  <2>1. OpenedStream(o.compress, o.out) = "file" /\ FailedStream(g, o.compress, o.out) = "empty"
    BY <1>3 DEF OpenedStream, FailedStream
  <2> QED
    BY <2>1 DEF Opened, UnitRecord, Plain
<1>4. ASSUME NEW outcome \in {"ok", "half", "none"}
      PROVE  Plain(Piped(g, outcome))
  BY DEF Piped, UnitRecord, Plain
<1>5. ASSUME NEW s \in Descriptors \cup {NoSocket}
      PROVE  Plain(Socketed(g, s))
  BY DEF Socketed, UnitRecord, Plain
<1>6. ASSUME NEW ok \in BOOLEAN
      PROVE  Plain(Truncated(g, ok))
  BY DEF Truncated, UnitRecord, Plain
<1> QED
  BY <1>1, <1>2, <1>3, <1>4, <1>5, <1>6

(* A step that changes one unit, and takes owners from no other. *)
LEMMA ChangeLost ==
    ASSUME LostInv, NEW u \in Units, NEW g,
           fileUnits' = [fileUnits EXCEPT ![u] = g], Plain(g),
           g.getLunLock => u \in owned' \/ u = journalLUN',
           \A v \in PoolUnits : v # u /\ (v \in owned \/ v = journalLUN)
                                   => v \in owned' \/ v = journalLUN'
    PROVE  AllPlain' /\ LocksOwned'
<1>1. fileUnits'[u] = g /\ \A v \in Units : v # u => fileUnits'[v] = fileUnits[v]
  BY DEF LostInv, PoolInv, TypeOK
<1>2. AllPlain'
  BY <1>1 DEF AllPlain, LostInv
<1>3. LocksOwned'
  BY <1>1, UnitFacts DEF LocksOwned, LostInv
<1> QED
  BY <1>2, <1>3

(* Taking a unit of the pool for an owner. *)
LEMMA TakenLost ==
    ASSUME LostInv, GetLUN # NoUnit
    PROVE  /\ GetLUN \in Units /\ Locked(GetLUN) \in UnitRecord /\ Plain(Locked(GetLUN))
  BY GetLUNIsFree, LockedFacts DEF LostInv, PoolInv, TypeOK, AllPlain, Plain

LEMMA LostOpen ==
    ASSUME LostInv, NEW file \in Files, NEW o \in Keyword, ~o.compress,
           \/ \E u \in Units, ok \in BOOLEAN : OpenLun(u, file, o, ok)
           \/ OpenGetLun(file, o) \/ OpenGetLunFails(file, o)
    PROVE  AllPlain' /\ LocksOwned'
<1>1. CASE \E u \in Units, ok \in BOOLEAN : OpenLun(u, file, o, ok)
  <2>1. PICK u \in Units, ok \in BOOLEAN : OpenLun(u, file, o, ok)
    BY <1>1
  <2>2. fileUnits[u] \in UnitRecord /\ Plain(fileUnits[u])
    BY DEF LostInv, PoolInv, TypeOK, AllPlain
  <2> DEFINE g == Opened(fileUnits[u], file, o, ok)
  <2>3. Plain(g)
    BY <2>2, PlainMethods
  <2>4. g.getLunLock = fileUnits[u].getLunLock
    BY <2>2, OpenedFacts
  <2>5. fileUnits' = [fileUnits EXCEPT ![u] = g] /\ UNCHANGED <<journalLUN, owned>>
    BY <2>1 DEF OpenLun, journals
  <2>6. g.getLunLock => u \in owned' \/ u = journalLUN' \/ u \notin PoolUnits
    BY <2>4, <2>5 DEF LostInv, LocksOwned
  <2> HIDE DEF g
  <2>7. AllPlain'
    BY <2>3, <2>5 DEF AllPlain, LostInv, PoolInv, TypeOK
  <2>8. LocksOwned'
    BY <2>5, <2>6, UnitFacts DEF LocksOwned, LostInv, PoolInv, TypeOK
  <2> QED
    BY <2>7, <2>8
<1>2. CASE OpenGetLun(file, o)
  <2>1. GetLUN # NoUnit
    BY <1>2 DEF OpenGetLun
  <2>2. Plain(Opened(Locked(GetLUN), file, o, TRUE))
    BY <2>1, TakenLost, PlainMethods
  <2> QED
    BY <1>2, <2>1, <2>2, TakenLost, ChangeLost DEF OpenGetLun, journals
<1>3. CASE OpenGetLunFails(file, o)
  <2> DEFINE g == Opened(Locked(GetLUN), file, o, FALSE)
  <2>1. GetLUN # NoUnit
    BY <1>3 DEF OpenGetLunFails
  <2>2. g \in UnitRecord /\ Plain(g)
    BY <2>1, TakenLost, PlainMethods, OpenedFacts
  <2>3. Plain(Freed(g)) /\ ~Freed(g).getLunLock
    BY <2>2, PlainMethods
  <2>4. /\ fileUnits' = [fileUnits EXCEPT ![GetLUN] = Freed(g)]
        /\ UNCHANGED <<journalLUN, owned>>
    BY <1>3 DEF OpenGetLunFails, journals
  <2> HIDE DEF g
  <2> QED
    BY <2>1, <2>3, <2>4, TakenLost, ChangeLost
<1> QED
  BY <1>1, <1>2, <1>3

LEMMA LostClose ==
    ASSUME LostInv,
           \/ \E u \in Units : CloseLun(u) \/ FreeLun(u)
           \/ CloseFile \/ CloseAll
    PROVE  AllPlain' /\ LocksOwned'
<1>r. \A u \in Units : fileUnits[u] \in UnitRecord /\ Plain(fileUnits[u])
  BY DEF LostInv, PoolInv, TypeOK, AllPlain
<1>c. \A u \in Units : /\ Plain(Closed(fileUnits[u]))
                       /\ Closed(fileUnits[u]).getLunLock = fileUnits[u].getLunLock
  BY <1>r, PlainMethods, ClosedFacts
<1>f. \A u \in Units : Plain(Freed(fileUnits[u])) /\ ~Freed(fileUnits[u]).getLunLock
  BY <1>r, PlainMethods
<1>0. fileUnits \in [Units -> UnitRecord]
  BY DEF LostInv, PoolInv, TypeOK
<1>1. ASSUME NEW u \in Units, CloseLun(u)
      PROVE  AllPlain' /\ LocksOwned'
  <2>1. fileUnits' = [fileUnits EXCEPT ![u] = Closed(fileUnits[u])]
        /\ UNCHANGED <<journalLUN, owned>>
    BY <1>1 DEF CloseLun, journals
  <2>2. AllPlain'
    BY <1>0, <1>c, <2>1 DEF AllPlain, LostInv
  <2>3. LocksOwned'
    BY <1>0, <1>c, <2>1, UnitFacts DEF LocksOwned, LostInv
  <2> QED
    BY <2>2, <2>3
<1>2. ASSUME NEW u \in Units, FreeLun(u)
      PROVE  AllPlain' /\ LocksOwned'
  BY <1>f, <1>2, ChangeLost DEF FreeLun, journals
<1>3. ASSUME CloseFile \/ CloseAll
      PROVE  AllPlain' /\ LocksOwned'
  <2>1. \A u \in Units : \/ fileUnits'[u] = fileUnits[u]
                         \/ fileUnits'[u] = Closed(fileUnits[u])
                         \/ fileUnits'[u] = Freed(fileUnits[u])
    BY <1>3 DEF CloseFile, CloseAll
  <2>2. AllPlain'
    BY <1>r, <1>c, <1>f, <2>1 DEF AllPlain
  <2>3. LocksOwned'
    <3>1. CASE CloseFile
      <4>1. \A u \in PoolUnits : fileUnits'[u] = fileUnits[u]
        BY <3>1, UnitFacts DEF CloseFile
      <4> QED
        BY <3>1, <4>1 DEF CloseFile, journals, LocksOwned, LostInv
    <3>2. CASE CloseAll
      <4>1. \A u \in PoolUnits :
                fileUnits'[u] = IF u \in AllPool THEN Freed(fileUnits[u]) ELSE fileUnits[u]
        BY <3>2, UnitFacts DEF CloseAll
      <4>2. owned' = owned \ AllPool /\ journalLUN' = journalLUN
        BY <3>2 DEF CloseAll, journals
      <4> QED
        BY <1>f, <4>1, <4>2, UnitFacts DEF LocksOwned, LostInv
    <3> QED
      BY <1>3, <3>1, <3>2
  <2> QED
    BY <2>2, <2>3
<1> QED
  BY <1>1, <1>2, <1>3

LEMMA LostSpawn ==
    ASSUME LostInv, NEW outcome \in {"ok", "half", "none"}, SpawnUnit(outcome)
    PROVE  AllPlain' /\ LocksOwned'
<1>1. GetLUN # NoUnit
  BY DEF SpawnUnit
<1>2. Plain(Closed(Locked(GetLUN))) /\ Closed(Locked(GetLUN)) \in UnitRecord
  BY <1>1, TakenLost, PlainMethods, ClosedFacts
<1>3. Plain(Piped(Closed(Locked(GetLUN)), outcome))
  BY <1>2, PlainMethods
<1> QED
  BY <1>1, <1>3, TakenLost, ChangeLost DEF SpawnUnit, journals

LEMMA LostSocket ==
    ASSUME LostInv, NEW u \in Units, NEW taken \in BOOLEAN,
           taken => u = GetLUN /\ GetLUN # NoUnit, SocketLun(u, taken)
    PROVE  AllPlain' /\ LocksOwned'
<1>1. PICK s \in Descriptors \cup {NoSocket} :
         fileUnits' = [fileUnits EXCEPT ![u] = Socketed(IF taken THEN Locked(u) ELSE @, s)]
  BY DEF SocketLun, LostInv, PoolInv, TypeOK
<1>2. fileUnits[u] \in UnitRecord /\ Plain(fileUnits[u])
  BY DEF LostInv, PoolInv, TypeOK, AllPlain
<1>3. CASE taken
  <2>1. Plain(Socketed(Locked(u), s))
    BY <1>3, TakenLost, PlainMethods
  <2>2. fileUnits' = [fileUnits EXCEPT ![u] = Socketed(Locked(u), s)]
    BY <1>1, <1>3
  <2>3. owned' = owned \cup {u} /\ journalLUN' = journalLUN
    BY <1>3 DEF SocketLun, journals
  <2> QED
    BY <2>1, <2>2, <2>3, ChangeLost
<1>4. CASE ~taken
  <2> DEFINE g == Socketed(fileUnits[u], s)
  <2>1. Plain(g) /\ g.getLunLock = fileUnits[u].getLunLock
    BY <1>2, PlainMethods DEF Socketed, UnitRecord
  <2>2. fileUnits' = [fileUnits EXCEPT ![u] = g]
    BY <1>1, <1>4
  <2>3. UNCHANGED <<journalLUN, owned>>
    BY <1>4 DEF SocketLun, journals
  <2> HIDE DEF g
  <2>4. AllPlain'
    BY <2>1, <2>2 DEF AllPlain, LostInv, PoolInv, TypeOK
  <2>5. LocksOwned'
    BY <2>1, <2>2, <2>3, UnitFacts DEF LocksOwned, LostInv, PoolInv, TypeOK
  <2> QED
    BY <2>4, <2>5
<1> QED
  BY <1>3, <1>4

LEMMA LostTruncate ==
    ASSUME LostInv, NEW u \in Units, NEW ok \in BOOLEAN, NEW created \in BOOLEAN,
           TruncateLun(u, ok, created)
    PROVE  AllPlain' /\ LocksOwned'
<1> DEFINE g == Truncated(fileUnits[u], ok)
<1>1. fileUnits[u] \in UnitRecord /\ Plain(fileUnits[u])
  BY DEF LostInv, PoolInv, TypeOK, AllPlain
<1>2. Plain(g) /\ g.getLunLock = fileUnits[u].getLunLock
  BY <1>1, PlainMethods DEF Truncated, UnitRecord
<1>3. fileUnits' = [fileUnits EXCEPT ![u] = g] /\ UNCHANGED <<journalLUN, owned>>
  BY DEF TruncateLun, journals
<1> HIDE DEF g
<1>4. AllPlain'
  BY <1>2, <1>3 DEF AllPlain, LostInv, PoolInv, TypeOK
<1>5. LocksOwned'
  BY <1>2, <1>3, UnitFacts DEF LocksOwned, LostInv, PoolInv, TypeOK
<1> QED
  BY <1>4, <1>5

LEMMA LostJournal ==
    ASSUME LostInv, NEW file \in Files, JournalStart(file) \/ JournalStartFails(file)
    PROVE  AllPlain' /\ LocksOwned'
<1>0. JournalKeywords \in Keyword /\ ~JournalKeywords.compress
  BY KeywordFacts DEF JournalKeywords
<1>1. GetLUN # NoUnit /\ journalLUN = NoUnit
  BY DEF JournalStart, JournalStartFails
<1>n. NoUnit \notin PoolUnits
  BY UnitFacts
<1>2. CASE JournalStart(file)
  <2>1. Plain(Opened(Locked(GetLUN), file, JournalKeywords, TRUE))
    BY <1>0, <1>1, TakenLost, PlainMethods
  <2>2. /\ fileUnits' = [fileUnits EXCEPT
              ![GetLUN] = Opened(Locked(GetLUN), file, JournalKeywords, TRUE)]
        /\ journalLUN' = GetLUN /\ owned' = owned
    BY <1>2 DEF JournalStart
  <2> QED
    BY <1>1, <1>n, <2>1, <2>2, TakenLost, ChangeLost
<1>3. CASE JournalStartFails(file)
  <2> DEFINE g == Opened(Locked(GetLUN), file, JournalKeywords, FALSE)
  <2>1. g \in UnitRecord /\ Plain(g)
    BY <1>0, <1>1, TakenLost, PlainMethods, OpenedFacts
  <2>2. Plain(Freed(g)) /\ ~Freed(g).getLunLock
    BY <2>1, PlainMethods
  <2>3. /\ fileUnits' = [fileUnits EXCEPT ![GetLUN] = Freed(g)]
        /\ UNCHANGED <<journalLUN, owned>>
    BY <1>3 DEF JournalStartFails
  <2> HIDE DEF g
  <2> QED
    BY <1>1, <2>2, <2>3, TakenLost, ChangeLost
<1> QED
  BY <1>2, <1>3

LEMMA NewUnitsFacts ==
    \A u \in Units : Plain(NewUnits[u]) /\ ~NewUnits[u].getLunLock
BY DEF NewUnits, Plain

LEMMA LostInit == Init => LostInv
  BY PoolInit, NewUnitsFacts, UnitFacts DEF Init, LostInv, AllPlain, LocksOwned

LEMMA LostNext ==
    ASSUME NoneLost, LostInv, [Next]_vars
    PROVE  LostInv'
<1>1. PoolInv'
  BY PoolNext DEF LostInv
<1> SUFFICES AllPlain' /\ LocksOwned'
  BY <1>1 DEF LostInv
<1>k. \A o \in Keywords : o \in Keyword /\ ~o.compress
  BY KeywordFacts DEF Keywords, NoneLost
<1>2. CASE GetLun
  BY <1>2, TakenLost, ChangeLost DEF GetLun, journals
<1>3. CASE \E u \in Units, file \in Files, o \in Keywords, ok \in BOOLEAN :
              OpenLun(u, file, o, ok)
  BY <1>3, <1>k, LostOpen
<1>4. CASE \E file \in Files, o \in Keywords :
              OpenGetLun(file, o) \/ OpenGetLunFails(file, o)
  BY <1>4, <1>k, LostOpen
<1>5. CASE \/ \E u \in Units : CloseLun(u) \/ FreeLun(u)
           \/ CloseFile \/ CloseAll
  BY <1>5, LostClose
<1>6. CASE \E outcome \in {"ok", "half", "none"} : SpawnUnit(outcome)
  BY <1>6, LostSpawn
<1>7. CASE \E u \in Units : SocketLun(u, FALSE)
  BY <1>7, LostSocket
<1>8. CASE GetLUN # NoUnit /\ SocketLun(GetLUN, TRUE)
  BY <1>8, GetLUNIsFree, LostSocket
<1>9. CASE \E u \in Units, ok, created \in BOOLEAN : TruncateLun(u, ok, created)
  BY <1>9, LostTruncate
<1>10. CASE \E file \in Files : JournalStart(file) \/ JournalStartFails(file)
  BY <1>10, LostJournal
<1>11. ~JournalEnd
  BY DEF JournalEnd, NoneLost
<1>12. CASE ResetSession
  BY <1>12, NewUnitsFacts, UnitFacts DEF ResetSession, AllPlain, LocksOwned
<1>13. CASE UNCHANGED vars
  BY <1>13 DEF vars, LostInv, AllPlain, LocksOwned
<1> QED
  BY <1>2, <1>3, <1>4, <1>5, <1>6, <1>7, <1>8, <1>9, <1>10, <1>11, <1>12, <1>13 DEF Next

(* Every unit of the pool can be had, is open, or has an owner who can     *)
(* give it back, if the session neither ends a journal nor compresses a    *)
(* file: whatever fails, is closed twice, truncated, spawned or reset.     *)
THEOREM UnitsAreKept == NoneLost => (Spec => []NoUnitLost)
<1>1. LostInv => NoUnitLost
  <2> SUFFICES ASSUME LostInv, NEW u \in PoolUnits
               PROVE  u \in Free \/ IsOpen(fileUnits[u]) \/ u \in owned \/ u = journalLUN
    BY DEF NoUnitLost
  <2>1. Plain(fileUnits[u])
    BY UnitFacts DEF LostInv, AllPlain
  <2>2. fileUnits[u].getLunLock => u \in owned \/ u = journalLUN
    BY DEF LostInv, LocksOwned
  <2>3. InUse(fileUnits[u]) => IsOpen(fileUnits[u])
    BY <2>1 DEF InUse, IsOpen, OpenStreams, Plain
  <2> QED
    BY <2>2, <2>3 DEF Free
<1> SUFFICES ASSUME NoneLost PROVE Spec => []NoUnitLost
  OBVIOUS
<1>2. LostInv /\ [Next]_vars => LostInv'
  BY LostNext
<1> QED
  BY LostInit, <1>1, <1>2, PTL DEF Spec

=============================================================================
