------------------------------ MODULE FileUnits ------------------------------
(***************************************************************************)
(* The logical units of GDL: the array fileUnits of GDLStream objects      *)
(* (io.cpp), the pool GET_LUN takes units from (objects.cpp), the          *)
(* procedures that open, close and free units (basic_pro.cpp), SPAWN with  *)
(* UNIT, SOCKET, TRUNCATE_LUN and JOURNAL (gdljournal.cpp).                *)
(*                                                                         *)
(* One program runs; every action is a whole library procedure, since none *)
(* of them calls interpreted code.  What makes the units hard is that a    *)
(* unit's number outlives what was opened on it: five fields are set by    *)
(* different procedures, on success or before the failure, and reset by    *)
(* different ones.                                                         *)
(***************************************************************************)
EXTENDS Integers, FiniteSets, FiniteSetsExt

CONSTANTS
    UserUnits,      \* units the program chooses itself, 1 .. maxUserLun in GDL
    PoolUnits,      \* units GET_LUN hands out, maxUserLun+1 .. maxLun
    Files,          \* names of files
    Descriptors,    \* descriptors the system can give to sockets
    Ops             \* the procedures the program uses

NoUnit == 0

AllOps == {"get_lun", "open", "compress", "f77", "delete", "close", "close_all",
           "free_lun", "spawn", "socket", "truncate", "journal", "journal_close", "reset_session"}

ASSUME UnitsAssumption ==
    /\ UserUnits \subseteq Nat \ {NoUnit}
    /\ PoolUnits \subseteq Nat \ {NoUnit}
    /\ UserUnits \cap PoolUnits = {}
ASSUME OpsAssumption == Ops \subseteq AllOps
ASSUME NamesAssumption == {"", "<command>", "host.port"} \cap Files = {}

Units == UserUnits \cup PoolUnits

(* A name a unit can have: the SPAWNed command and the peer of a socket    *)
(* are stored in the field that holds the name of a file.                  *)
Names == Files \cup {"", "<command>", "host.port"}

NoSocket == -1

(* The streams of a unit: no AnyStream, an AnyStream without streams, or   *)
(* the one kind it has.  A closed compressed stream is not deleted.        *)
OpenStreams == {"file", "pipe", "igz", "ogz"}
Streams == OpenStreams \cup {"null", "empty", "igzClosed", "ogzClosed"}

UnitRecord ==
    [getLunLock : BOOLEAN, stream : Streams, name : Names, out : BOOLEAN,
     f77 : BOOLEAN, deleteOnClose : BOOLEAN, sockNum : Descriptors \cup {NoSocket}]

VARIABLES
    fileUnits,      \* the GDLStream of every unit
    journalLUN,     \* !JOURNAL
    gdljournal,     \* the unit gdljournal points to, NoUnit for NULL
    disk,           \* the files that exist
    sockets,        \* the sockets the process has open
    owned,          \* history: units a procedure gave to the program
    asked           \* history: for every unit, the file whose opening asked for DELETE

journals == <<journalLUN, gdljournal>>
vars == <<fileUnits, journalLUN, gdljournal, disk, sockets, owned, asked>>

TypeOK ==
    /\ fileUnits \in [Units -> UnitRecord]
    /\ {journalLUN, gdljournal} \subseteq PoolUnits \cup {NoUnit}
    /\ disk \subseteq Files
    /\ sockets \subseteq Descriptors
    /\ owned \subseteq PoolUnits
    /\ asked \in [Units -> SUBSET Files]

-----------------------------------------------------------------------------
(* AnyStream and GDLStream *)

IsOpen(g) == g.stream \in OpenStreams
InUse(g) == g.stream \notin {"null", "empty"}

\* Plausible error: CLOSE gives the unit back to the pool.
ClosedUnlocked(g) ==
    [g EXCEPT !.stream = "empty", !.getLunLock = FALSE,
              !.f77 = FALSE, !.deleteOnClose = FALSE, !.sockNum = NoSocket]

\* Plausible error: closing forgets to reset the request to delete.
ClosedStillDelete(g) ==
    [g EXCEPT !.stream = IF @ = "null" THEN @ ELSE "empty", !.f77 = FALSE,
              !.sockNum = NoSocket]

\* Plausible error: the descriptor is reset to a valid one.
ClosedSocketZero(g) ==
    [g EXCEPT !.stream = IF @ = "null" THEN @ ELSE "empty", !.f77 = FALSE,
              !.deleteOnClose = FALSE, !.sockNum = 0]

(* GDLStream::Close: the streams that are open are closed; fstreams are    *)
(* deleted, compressed streams are not.                                    *)
Closed(g) ==
    [g EXCEPT !.stream = CASE @ \in {"file", "pipe"} -> "empty"
                           [] @ = "igz" -> "igzClosed"
                           [] @ = "ogz" -> "ogzClosed"
                           [] OTHER -> @,
              !.f77 = FALSE, !.deleteOnClose = FALSE, !.sockNum = NoSocket]

(* What std::remove deletes on closing a unit. *)
Removed(g) == IF g.stream # "null" /\ g.deleteOnClose THEN {g.name} ELSE {}

\* Plausible error: the lock survives.
FreedLocked(g) == [Closed(g) EXCEPT !.stream = "null"]

Freed(g) == [Closed(g) EXCEPT !.stream = "null", !.getLunLock = FALSE]

(* What an opening that fails leaves of the streams: AnyStream::Open       *)
(* deletes the streams of the other kinds first, but the compressed input  *)
(* stream only after the output stream was opened.                         *)
FailedStream(g, compress, out) ==
    IF compress /\ out /\ g.stream = "igzClosed" THEN "igzClosed" ELSE "empty"

OpenedStream(compress, out) ==
    IF ~compress THEN "file" ELSE IF out THEN "ogz" ELSE "igz"

(* GDLStream::Open: f77 is set before the test of an open unit, the name   *)
(* and the mode before the stream is opened, deleteOnClose after.          *)
Opened(g, file, o, ok) ==
    IF IsOpen(g) THEN [g EXCEPT !.f77 = o.f77]
    ELSE IF ok
    THEN [g EXCEPT !.f77 = o.f77, !.name = file, !.out = o.out,
                   !.stream = OpenedStream(o.compress, o.out),
                   !.deleteOnClose = o.delete]
    ELSE [g EXCEPT !.f77 = o.f77, !.name = file, !.out = o.out,
                   !.stream = FailedStream(g, o.compress, o.out)]

-----------------------------------------------------------------------------
(* The pool *)

Free == {u \in PoolUnits : ~InUse(fileUnits[u]) /\ ~fileUnits[u].getLunLock}

(* GetLUN(): the first free unit of the pool, 0 when there is none. *)
GetLUN == IF Free = {} THEN NoUnit ELSE Min(Free)

Locked(u) == [fileUnits[u] EXCEPT !.getLunLock = TRUE]

NewUnits ==
    [u \in Units |->
        [getLunLock |-> FALSE, stream |-> "null", name |-> "", out |-> FALSE,
         f77 |-> FALSE, deleteOnClose |-> FALSE, sockNum |-> NoSocket]]

Init ==
    /\ fileUnits = NewUnits
    /\ journalLUN = NoUnit
    /\ gdljournal = NoUnit
    /\ disk \in SUBSET Files
    /\ sockets = {}
    /\ owned = {}
    /\ asked = [u \in Units |-> {}]

GetLun ==
    /\ "get_lun" \in Ops
    /\ GetLUN # NoUnit
    /\ fileUnits' = [fileUnits EXCEPT ![GetLUN] = Locked(GetLUN)]
    /\ owned' = owned \cup {GetLUN}
    /\ UNCHANGED <<journals, disk, sockets, asked>>

-----------------------------------------------------------------------------
(* OPENR, OPENW, OPENU *)

(* The keywords of an OPEN procedure; OPENW creates the file, OPENR and    *)
(* OPENU need it.  A compressed file is not opened for update.             *)
Keywords ==
    {o \in [out : BOOLEAN, create : BOOLEAN, compress : BOOLEAN,
            f77 : BOOLEAN, delete : BOOLEAN] :
        /\ o.create => o.out
        /\ o.compress => "compress" \in Ops /\ (o.out => o.create)
        /\ o.f77 => "f77" \in Ops
        /\ o.delete => "delete" \in Ops}

CanOpen(file, o) == o.create \/ file \in disk

(* The system may refuse any file: ok is its answer. *)
OpenLun(u, file, o, ok) ==
    /\ "open" \in Ops
    /\ ok => CanOpen(file, o)
    /\ fileUnits' = [fileUnits EXCEPT ![u] = Opened(@, file, o, ok)]
    /\ IF IsOpen(fileUnits[u]) \/ ~ok THEN UNCHANGED <<disk, asked>>
       ELSE /\ disk' = disk \cup {file}
            /\ asked' = [asked EXCEPT ![u] = IF o.delete THEN {file} ELSE {}]
    /\ UNCHANGED <<journals, sockets, owned>>

(* With GET_LUN a unit is taken from the pool, and freed when the opening  *)
(* fails.                                                                  *)
OpenGetLun(file, o) ==
    /\ {"open", "get_lun"} \subseteq Ops
    /\ GetLUN # NoUnit
    /\ CanOpen(file, o)
    /\ fileUnits' = [fileUnits EXCEPT ![GetLUN] = Opened(Locked(GetLUN), file, o, TRUE)]
    /\ disk' = disk \cup {file}
    /\ owned' = owned \cup {GetLUN}
    /\ asked' = [asked EXCEPT ![GetLUN] = IF o.delete THEN {file} ELSE {}]
    /\ UNCHANGED <<journals, sockets>>

OpenGetLunFails(file, o) ==
    /\ {"open", "get_lun"} \subseteq Ops
    /\ GetLUN # NoUnit
    /\ LET g == Opened(Locked(GetLUN), file, o, FALSE)
       IN /\ fileUnits' = [fileUnits EXCEPT ![GetLUN] = Freed(g)]
          /\ disk' = disk \ Removed(g)
          /\ sockets' = sockets \ {g.sockNum}
    /\ asked' = [asked EXCEPT ![GetLUN] = {}]
    /\ UNCHANGED <<journals, owned>>

-----------------------------------------------------------------------------
(* CLOSE and FREE_LUN *)

(* The files and sockets that go when the units us are closed. *)
CloseFiles(us) ==
    /\ disk' = disk \ UNION {Removed(fileUnits[u]) : u \in us}
    /\ sockets' = sockets \ {fileUnits[u].sockNum : u \in us}
    /\ asked' = [u \in Units |-> IF u \in us THEN {} ELSE asked[u]]

CloseLun(u) ==
    /\ "close" \in Ops
    /\ u # journalLUN
    /\ fileUnits' = [fileUnits EXCEPT ![u] = Closed(@)]
    /\ CloseFiles({u})
    /\ UNCHANGED <<journals, owned>>

FreeLun(u) ==
    /\ "free_lun" \in Ops
    /\ u # journalLUN
    /\ fileUnits' = [fileUnits EXCEPT ![u] = Freed(@)]
    /\ CloseFiles({u})
    /\ owned' = owned \ {u}
    /\ UNCHANGED journals

(* CLOSE, /FILE *)
CloseFile ==
    /\ "close_all" \in Ops
    /\ fileUnits' = [u \in Units |-> IF u \in UserUnits THEN Closed(fileUnits[u])
                                     ELSE fileUnits[u]]
    /\ CloseFiles(UserUnits)
    /\ UNCHANGED <<journals, owned>>

\* Plausible error: no test of the journal's unit.
AllPoolAndJournal == PoolUnits

(* The units of the pool that CLOSE, /ALL frees. *)
AllPool == PoolUnits \ {journalLUN}

(* CLOSE, /ALL *)
CloseAll ==
    /\ "close_all" \in Ops
    /\ fileUnits' = [u \in Units |->
                        IF u \in UserUnits THEN Closed(fileUnits[u])
                        ELSE IF u \in AllPool THEN Freed(fileUnits[u])
                        ELSE fileUnits[u]]
    /\ CloseFiles(UserUnits \cup AllPool)
    /\ owned' = owned \ AllPool
    /\ UNCHANGED journals

-----------------------------------------------------------------------------
(* GDLStream::OpenAsPipes: the opening of /dev/null may fail for the input *)
(* half ("none"), or for the output half when the input half is open.      *)
Piped(g, outcome) ==
    [g EXCEPT !.name = "<command>", !.out = TRUE, !.f77 = FALSE,
              !.stream = IF outcome = "none" THEN "empty" ELSE "pipe",
              !.deleteOnClose = IF outcome = "ok" THEN TRUE ELSE @]

(* SPAWN, UNIT=u: the pipes of a command.  The unit is closed first; an    *)
(* error of the opening leaves the unit with the program.                  *)
SpawnUnit(outcome) ==
    /\ "spawn" \in Ops
    /\ GetLUN # NoUnit
    /\ fileUnits' = [fileUnits EXCEPT ![GetLUN] = Piped(Closed(Locked(GetLUN)), outcome)]
    /\ CloseFiles({GetLUN})
    /\ owned' = owned \cup {GetLUN}
    /\ UNCHANGED journals

(* GDLStream::Socket: the name and the descriptor are overwritten, whatever*)
(* the unit has open; a failure to look the host up leaves the descriptor, *)
(* and -1 stands for one the system refused.                               *)
Socketed(g, s) == [g EXCEPT !.name = "host.port", !.sockNum = s]

SocketLun(u, taken) ==
    /\ "socket" \in Ops
    /\ \E s \in (Descriptors \ sockets) \cup {NoSocket} :
          /\ s = NoSocket => Descriptors \subseteq sockets
          /\ fileUnits' = [fileUnits EXCEPT
                ![u] = Socketed(IF taken THEN Locked(u) ELSE @, s)]
          /\ sockets' = sockets \cup ({s} \ {NoSocket})
    /\ owned' = IF taken THEN owned \cup {u} ELSE owned
    /\ UNCHANGED <<journals, disk, asked>>

(* GDLStream::Truncate closes the streams and opens the file again, twice; *)
(* either opening may fail and leaves the unit closed, its other fields as *)
(* they were.                                                              *)
Truncated(g, ok) == IF ok THEN g ELSE [g EXCEPT !.stream = "empty"]

TruncateLun(u, ok, created) ==
    /\ "truncate" \in Ops
    /\ fileUnits[u].stream = "file" /\ fileUnits[u].out
    /\ ok => created
    /\ fileUnits' = [fileUnits EXCEPT ![u] = Truncated(@, ok)]
    /\ disk' = IF created THEN disk \cup ({fileUnits[u].name} \cap Files) ELSE disk
    /\ UNCHANGED <<journals, sockets, owned, asked>>

-----------------------------------------------------------------------------
(* JOURNAL *)

JournalKeywords ==
    [out |-> TRUE, create |-> TRUE, compress |-> FALSE, f77 |-> FALSE, delete |-> FALSE]

JournalStart(file) ==
    /\ "journal" \in Ops
    /\ journalLUN = NoUnit
    /\ GetLUN # NoUnit
    /\ journalLUN' = GetLUN
    /\ gdljournal' = GetLUN
    /\ fileUnits' = [fileUnits EXCEPT
          ![GetLUN] = Opened(Locked(GetLUN), file, JournalKeywords, TRUE)]
    /\ disk' = disk \cup {file}
    /\ asked' = [asked EXCEPT ![GetLUN] = {}]
    /\ UNCHANGED <<sockets, owned>>

JournalStartFails(file) ==
    /\ "journal" \in Ops
    /\ journalLUN = NoUnit
    /\ GetLUN # NoUnit
    /\ LET g == Opened(Locked(GetLUN), file, JournalKeywords, FALSE)
       IN /\ fileUnits' = [fileUnits EXCEPT ![GetLUN] = Freed(g)]
          /\ disk' = disk \ Removed(g)
          /\ sockets' = sockets \ {g.sockNum}
    /\ asked' = [asked EXCEPT ![GetLUN] = {}]
    /\ gdljournal' = NoUnit
    /\ UNCHANGED <<journalLUN, owned>>

(* JOURNAL without argument, the journal open: Close, and not Free. *)
JournalEnd ==
    /\ "journal_close" \in Ops
    /\ journalLUN # NoUnit
    /\ fileUnits' = [fileUnits EXCEPT ![gdljournal] = Closed(@)]
    /\ CloseFiles({gdljournal})
    /\ journalLUN' = NoUnit
    /\ gdljournal' = NoUnit
    /\ UNCHANGED owned

-----------------------------------------------------------------------------
(* .RESET_SESSION: the vector of units is cleared and filled again, its    *)
(* storage stays.  Destroying a unit closes its streams, removes no file   *)
(* and closes no socket; the static gdljournal keeps its pointer.          *)
ResetSession ==
    /\ "reset_session" \in Ops
    /\ fileUnits' = NewUnits
    /\ journalLUN' = NoUnit
    /\ owned' = {}
    /\ asked' = [u \in Units |-> {}]
    /\ UNCHANGED <<gdljournal, disk, sockets>>

-----------------------------------------------------------------------------
Next ==
    \/ GetLun
    \/ \E u \in Units, file \in Files, o \in Keywords, ok \in BOOLEAN : OpenLun(u, file, o, ok)
    \/ \E file \in Files, o \in Keywords : OpenGetLun(file, o)
    \/ \E file \in Files, o \in Keywords : OpenGetLunFails(file, o)
    \/ \E u \in Units : CloseLun(u)
    \/ \E u \in Units : FreeLun(u)
    \/ CloseFile
    \/ CloseAll
    \/ \E outcome \in {"ok", "half", "none"} : SpawnUnit(outcome)
    \/ \E u \in Units : SocketLun(u, FALSE)
    \/ "get_lun" \in Ops /\ GetLUN # NoUnit /\ SocketLun(GetLUN, TRUE)
    \/ \E u \in Units, ok, created \in BOOLEAN : TruncateLun(u, ok, created)
    \/ \E file \in Files : JournalStart(file)
    \/ \E file \in Files : JournalStartFails(file)
    \/ JournalEnd
    \/ ResetSession

Spec == Init /\ [][Next]_vars

-----------------------------------------------------------------------------
(* Properties *)

(* GetLUN never hands a unit out twice: a unit that the program or the     *)
(* journal has, closed or not, opened again or not, is not in the pool,    *)
(* and none belongs to both.  The lock is set in one procedure, kept by    *)
(* CLOSE and by every opening, and reset by three others.                  *)
NeverTwice ==
    /\ (owned \cup {journalLUN}) \cap Free = {}
    /\ journalLUN \notin owned

(* gdljournal is the unit !JOURNAL names, and that unit is open for        *)
(* writing: the interpreter writes every line it executes through          *)
(* gdljournal, testing only for NULL (write_journal, gdljournal.cpp:208).  *)
(* CLOSE and FREE_LUN refuse the unit, CLOSE, /ALL leaves it out, no       *)
(* opening reaches it.  For programs without SOCKET, TRUNCATE_LUN and      *)
(* .RESET_SESSION.                                                         *)
JournalOpen ==
    /\ gdljournal = journalLUN
    /\ gdljournal # NoUnit =>
          /\ IsOpen(fileUnits[gdljournal])
          /\ fileUnits[gdljournal].out
          /\ fileUnits[gdljournal].name \in Files

(* A file disappears only when a unit is closed whose present opening, of  *)
(* that very file, asked for DELETE: neither an opening that failed nor an *)
(* earlier opening of the unit leaves a request behind (GDLStream::Close). *)
DeletesOnlyAsked ==
    [][\A f \in disk \ disk' : \E u \in Units : f \in asked[u]]_vars

(* No unit of the pool is lost: GetLUN can hand it out, or it is open, or  *)
(* somebody has it who can give it back ("All available logical units are  *)
(* currently in use.", basic_pro.cpp:443, says no less).                   *)
NoUnitLost ==
    \A u \in PoolUnits :
        u \in Free \/ IsOpen(fileUnits[u]) \/ u \in owned \/ u = journalLUN

=============================================================================
