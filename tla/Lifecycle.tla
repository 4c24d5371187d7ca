------------------------------ MODULE Lifecycle ------------------------------
(* The daemon's start and stop (daemon.go): the migrations every start runs    *)
(* over a database of any age, the socket and the PID file that keep a second   *)
(* daemon out, a shutdown that removes them, a stop at any point that does not; *)
(* and reset, which wipes the database while no daemon answers.                *)
(*                                                                             *)
(* A table rebuild is one transaction over the process's only connection, so   *)
(* it is one step; the check whether it is needed is a step before it.         *)
EXTENDS Naturals, FiniteSets

CONSTANTS
    Proc,          \* processes that run the daemon
    NoProc, Alien, \* no process, and a live process that is not the daemon
    Columns,       \* number of columns added one by one
    Space          \* values of observations.space_id

\* The space of rows from before there were any, and of those outside herdr.
Default == ""

ASSUME LifecycleAssumption ==
    Proc # {} /\ NoProc \notin Proc /\ Alien \notin Proc /\ NoProc # Alien
    /\ Columns \in Nat /\ Default \in Space

VARIABLES
    pc,            \* where each process is
    todo,          \* the migration it is at
    hadColumn,     \* what its last check found of the space column
    sock,          \* the process whose socket is at the path, or NoProc
    listening,     \* the processes that accept on their socket, at the path or not
    pidFile,       \* the process the PID file names, NoProc if there is none
    tables,        \* the form of the tables
    rows,          \* the observations: id and space
    reset,         \* "idle" or "confirmed"
    overlapped     \* history: a start or a stop began while another was under way

lifeVars == <<pc, todo, hadColumn, sock, listening, pidFile, tables, rows, reset, overlapped>>

Booting == {"migrate", "rebuild", "pid", "dial", "unlink", "listen", "writePid"}
Stopping == {"close", "removeSocket", "removePid"}
\* Mutant: a PID file is taken for a live process.
AliveByFile(p) == p # NoProc

Alive(p) == p = Alien \/ (p \in Proc /\ pc[p] \notin {"unborn", "gone"})
Serving == {p \in Proc : pc[p] = "serving"}
InTransit(p) == pc[p] \in Booting \cup Stopping

Goto(p, there) == pc' = [pc EXCEPT ![p] = there]

(* The forms of the tables. there: the schema was applied. added: columns     *)
(* added so far. source: the CHECK lets in 'transcript'. column, unique: the   *)
(* space column, in the UNIQUE key. rcolumn, rcheck: the rules' space column    *)
(* and its CHECK.                                                              *)
Current == [there |-> TRUE, added |-> Columns, source |-> TRUE, column |-> TRUE,
            unique |-> TRUE, rcolumn |-> TRUE, rcheck |-> TRUE]
-----------------------------------------------------------------------------
(* The boot: migrations.                                                       *)

\* A process that is gone stands for a new one once no file names it.
Begin(p) ==
    /\ pc[p] = "unborn" \/ (pc[p] = "gone" /\ p \notin {sock, pidFile})
    /\ Goto(p, "migrate") /\ todo' = [todo EXCEPT ![p] = 0]
    /\ hadColumn' = [hadColumn EXCEPT ![p] = FALSE]
    /\ overlapped' = (overlapped \/ \E q \in Proc \ {p} : InTransit(q))
    /\ UNCHANGED <<sock, listening, pidFile, tables, rows, reset>>

At(p, m) == pc[p] = "migrate" /\ todo[p] = m
NextMigration(p) == todo' = [todo EXCEPT ![p] = @ + 1]

\* CREATE TABLE IF NOT EXISTS, in the current form but for the columns added later.
ApplySchema(p) ==
    /\ At(p, 0) /\ NextMigration(p)
    /\ tables' = IF tables.there THEN tables ELSE Current
    /\ UNCHANGED <<pc, hadColumn, sock, listening, pidFile, rows, reset, overlapped>>

\* ALTER TABLE ADD COLUMN; a duplicate is not an error.
AddColumn(p) ==
    /\ \E c \in 1 .. Columns :
          /\ At(p, c)
          /\ tables' = [tables EXCEPT !.added = IF tables.added < c THEN c ELSE tables.added]
    /\ NextMigration(p)
    /\ UNCHANGED <<pc, hadColumn, sock, listening, pidFile, rows, reset, overlapped>>

SourceCheck == Columns + 1
ObservationsSpace == Columns + 2
RulesSpace == Columns + 3

\* Mutant: the key is not looked at.
MigratedByColumn(m) ==
    /\ m = SourceCheck => tables.source
    /\ m = ObservationsSpace => tables.column
    /\ m = RulesSpace => tables.rcolumn /\ tables.rcheck

Migrated(m) ==
    /\ m = SourceCheck => tables.source
    /\ m = ObservationsSpace => tables.column /\ tables.unique
    /\ m = RulesSpace => tables.rcolumn /\ tables.rcheck

CheckMigration(p) ==
    /\ \E m \in SourceCheck .. RulesSpace :
          /\ At(p, m)
          /\ IF Migrated(m) THEN NextMigration(p) /\ UNCHANGED <<pc, hadColumn>>
             ELSE /\ Goto(p, "rebuild") /\ UNCHANGED todo
                  /\ hadColumn' = [hadColumn EXCEPT ![p] =
                         IF m = RulesSpace THEN tables.rcolumn ELSE tables.column]
    /\ UNCHANGED <<sock, listening, pidFile, tables, rows, reset, overlapped>>

\* The copy keeps ids; it keeps spaces if the check found the column.
Unspaced == {[id |-> o.id, space |-> Default] : o \in rows}
RebuiltForm(m) ==
    IF m = SourceCheck
    THEN [tables EXCEPT !.source = TRUE, !.column = FALSE, !.unique = FALSE]
    ELSE IF m = ObservationsSpace
    THEN [tables EXCEPT !.source = TRUE, !.column = TRUE, !.unique = TRUE]
    ELSE [tables EXCEPT !.rcolumn = TRUE, !.rcheck = TRUE]
\* Mutant: the space is never copied.
RebuiltRowsUnspaced(p, m) == IF m = RulesSpace THEN rows ELSE Unspaced

RebuiltRows(p, m) ==
    IF m = SourceCheck \/ (m = ObservationsSpace /\ ~hadColumn[p]) THEN Unspaced ELSE rows

\* A copy that reads a column another boot has dropped fails, and is rolled back.
Rebuild(p) ==
    /\ pc[p] = "rebuild" /\ (todo[p] = ObservationsSpace /\ hadColumn[p] => tables.column)
    /\ tables' = RebuiltForm(todo[p]) /\ rows' = RebuiltRows(p, todo[p])
    /\ Goto(p, "migrate") /\ NextMigration(p)
    /\ UNCHANGED <<hadColumn, sock, listening, pidFile, reset, overlapped>>
-----------------------------------------------------------------------------
(* The boot: acquireSocket and writePIDFile.                                   *)

Acquire(p) ==
    /\ At(p, RulesSpace + 1)
    /\ Goto(p, IF sock # NoProc THEN "pid" ELSE "listen")
    /\ UNCHANGED <<todo, hadColumn, sock, listening, pidFile, tables, rows, reset, overlapped>>

CheckPid(p) ==
    /\ pc[p] = "pid" /\ ~Alive(pidFile)
    /\ Goto(p, "dial")
    /\ UNCHANGED <<todo, hadColumn, sock, listening, pidFile, tables, rows, reset, overlapped>>

Answers == sock \in listening
DialFails(p) ==
    /\ pc[p] = "dial" /\ ~Answers
    /\ Goto(p, "unlink")
    /\ UNCHANGED <<todo, hadColumn, sock, listening, pidFile, tables, rows, reset, overlapped>>

\* Another daemon is running, by its PID file or because it answers.
Refused(p) ==
    /\ (pc[p] = "pid" /\ Alive(pidFile)) \/ (pc[p] = "dial" /\ Answers)
    /\ Goto(p, "gone")
    /\ UNCHANGED <<todo, hadColumn, sock, listening, pidFile, tables, rows, reset, overlapped>>

\* By its path: whatever socket is there by now.
RemoveStale(p) ==
    /\ pc[p] = "unlink" /\ sock # NoProc
    /\ sock' = NoProc /\ Goto(p, "listen")
    /\ UNCHANGED <<todo, hadColumn, listening, pidFile, tables, rows, reset, overlapped>>

Listen(p) ==
    /\ pc[p] = "listen" /\ sock = NoProc
    /\ sock' = p /\ listening' = listening \cup {p} /\ Goto(p, "writePid")
    /\ UNCHANGED <<todo, hadColumn, pidFile, tables, rows, reset, overlapped>>

WritePid(p) ==
    /\ pc[p] = "writePid"
    /\ pidFile' = p /\ Goto(p, "serving")
    /\ UNCHANGED <<todo, hadColumn, sock, listening, tables, rows, reset, overlapped>>

\* The socket to remove is gone, or the path is taken again.
AcquireFails(p) ==
    /\ (pc[p] = "unlink" /\ sock = NoProc) \/ (pc[p] = "listen" /\ sock # NoProc)
    /\ Goto(p, "gone")
    /\ UNCHANGED <<todo, hadColumn, sock, listening, pidFile, tables, rows, reset, overlapped>>
-----------------------------------------------------------------------------
(* Serving, and the end.                                                       *)

\* The poller meets a signature in a space; without the wider key it has one row.
NewObservation(p) ==
    /\ pc[p] = "serving" /\ tables.column
    /\ \E s \in Space :
          /\ \A o \in rows : o.space # s
          /\ rows' = IF tables.unique \/ rows = {}
                     THEN rows \cup {[id |-> Cardinality(rows) + 1, space |-> s]} ELSE rows
    /\ UNCHANGED <<pc, todo, hadColumn, sock, listening, pidFile, tables, reset, overlapped>>

Signal(p) ==
    /\ pc[p] = "serving"
    /\ Goto(p, "close")
    /\ overlapped' = (overlapped \/ \E q \in Proc \ {p} : InTransit(q))
    /\ UNCHANGED <<todo, hadColumn, sock, listening, pidFile, tables, rows, reset>>

\* A listener unlinks its path when it closes; the rest is waited for.
CloseListener(p) ==
    /\ pc[p] = "close"
    /\ listening' = listening \ {p} /\ sock' = NoProc /\ Goto(p, "removeSocket")
    /\ UNCHANGED <<todo, hadColumn, pidFile, tables, rows, reset, overlapped>>

RemoveSocket(p) ==
    /\ pc[p] = "removeSocket"
    /\ sock' = NoProc /\ Goto(p, "removePid")
    /\ UNCHANGED <<todo, hadColumn, listening, pidFile, tables, rows, reset, overlapped>>

RemovePid(p) ==
    /\ pc[p] = "removePid"
    /\ pidFile' = NoProc /\ Goto(p, "gone")
    /\ UNCHANGED <<todo, hadColumn, sock, listening, tables, rows, reset, overlapped>>

\* A kill, a crash or an error: nothing is removed.
Killed(p) ==
    /\ pc[p] \notin {"unborn", "gone"}
    /\ Goto(p, "gone") /\ listening' = listening \ {p}
    /\ UNCHANGED <<todo, hadColumn, sock, pidFile, tables, rows, reset, overlapped>>

\* The system gives the number of a daemon that is gone to another program.
PidReused ==
    /\ pidFile \in Proc /\ pc[pidFile] = "gone"
    /\ pidFile' = Alien
    /\ UNCHANGED <<pc, todo, hadColumn, sock, listening, tables, rows, reset, overlapped>>
-----------------------------------------------------------------------------
(* Reset: asked for and confirmed while nothing answers, then one transaction. *)

ConfirmReset ==
    /\ reset = "idle" /\ ~Answers
    /\ reset' = "confirmed"
    /\ UNCHANGED <<pc, todo, hadColumn, sock, listening, pidFile, tables, rows, overlapped>>

Reset ==
    /\ reset = "confirmed" /\ tables.there
    /\ reset' = "idle" /\ rows' = {}
    /\ UNCHANGED <<pc, todo, hadColumn, sock, listening, pidFile, tables, overlapped>>
-----------------------------------------------------------------------------
NoTables == [Current EXCEPT !.there = FALSE]
\* The forms that releases left behind; a boot that is stopped leaves those between.
OldForms ==
    {[Current EXCEPT !.added = f.added, !.source = f.source, !.column = f.column,
                     !.unique = FALSE, !.rcolumn = f.column, !.rcheck = FALSE] :
        f \in {[added |-> 0, source |-> FALSE, column |-> FALSE],
               [added |-> Columns, source |-> TRUE, column |-> FALSE],
               [added |-> Columns, source |-> TRUE, column |-> TRUE]}}

LifeInit ==
    /\ pc = [p \in Proc |-> "unborn"] /\ todo = [p \in Proc |-> 0]
    /\ hadColumn = [p \in Proc |-> FALSE]
    /\ sock = NoProc /\ listening = {} /\ pidFile = NoProc
    /\ tables \in {NoTables, Current} \cup OldForms
    /\ \/ rows = {}
       \/ tables.there /\ \E s \in Space : rows = {[id |-> 1, space |-> s]} /\ (s = Default \/ tables.column)
    /\ reset = "idle" /\ overlapped = FALSE

Boot(p) ==
    \/ Begin(p) \/ ApplySchema(p) \/ AddColumn(p) \/ CheckMigration(p) \/ Rebuild(p)
    \/ Acquire(p) \/ CheckPid(p) \/ DialFails(p) \/ Refused(p)
    \/ RemoveStale(p) \/ Listen(p) \/ WritePid(p) \/ AcquireFails(p)
Stop(p) == Signal(p) \/ CloseListener(p) \/ RemoveSocket(p) \/ RemovePid(p) \/ Killed(p)

LifeNext ==
    \/ \E p \in Proc : Boot(p) \/ NewObservation(p) \/ Stop(p)
    \/ PidReused \/ ConfirmReset \/ Reset

LifeSpec == LifeInit /\ [][LifeNext]_lifeVars
-----------------------------------------------------------------------------
(* Properties. All are of starts and stops that come one after the other, a     *)
(* kill at any point included.                                                 *)

\* A daemon that serves is the one at the path and in the PID file, so there is one
\* at most, and every migration has reached its database, whatever was interrupted.
ServesWhole ==
    ~overlapped => \A p \in Serving : sock = p /\ pidFile = p /\ tables = Current

\* A start is turned away only while a daemon serves: no leftover of a kill keeps the
\* next one out, but for a PID that another program has got meanwhile.
RefusedOnlyIfServing ==
    [][~overlapped /\ pidFile # Alien =>
           \A p \in Proc : Refused(p) \/ AcquireFails(p) => Serving # {}]_lifeVars

\* Nothing but a reset loses an observation, its id or its space, however often a
\* migration is interrupted and run again ("Preserves rows and ids").
ObservationsSurvive ==
    [][~overlapped /\ ~Reset => rows \subseteq rows']_lifeVars
=============================================================================
