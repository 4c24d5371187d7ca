-------------------------- MODULE LifecycleProofs --------------------------
(* Proofs about starts and stops that come one after the other, each possibly  *)
(* cut short: there is one daemon at most, over tables that every migration     *)
(* has reached; no leftover keeps the next start out; no observation is lost.   *)
(* For any processes, number of columns and order of events.                   *)
EXTENDS Lifecycle, TLAPS

Phases == {"unborn", "gone", "serving"} \cup Booting \cup Stopping
Forms == [there : BOOLEAN, added : 0 .. Columns, source : BOOLEAN, column : BOOLEAN,
          unique : BOOLEAN, rcolumn : BOOLEAN, rcheck : BOOLEAN]

\* The types of the store, the file and the daemons.
LifeTypeOK ==
    /\ pc \in [Proc -> Phases] /\ todo \in [Proc -> Nat] /\ hadColumn \in [Proc -> BOOLEAN]
    /\ sock \in Proc \cup {NoProc} /\ pidFile \in Proc \cup {NoProc, Alien}
    /\ listening \subseteq Proc /\ tables \in Forms /\ overlapped \in BOOLEAN

\* One process at a time is on its way in or out.
OneInTransit ==
    \A p, q \in Proc : InTransit(p) /\ InTransit(q) => p = q

\* Who the files and the listeners may name. A daemon that serves is named by both and
\* answers; a start that has got past the files has found them dead.
Named(p) ==
    /\ pc[p] = "serving" => sock = p /\ pidFile = p /\ p \in listening
    /\ pc[p] = "writePid" => sock = p /\ p \in listening
    /\ p \in listening => pc[p] \in {"writePid", "serving", "close"}
    /\ pc[p] \in Booting \cup {"unborn"} => pidFile # p
    /\ pc[p] \in {"unborn", "migrate", "rebuild", "pid", "dial", "unlink"} => sock # p
    /\ pc[p] \in {"pid", "dial", "unlink"} => sock # NoProc
    /\ pc[p] = "listen" => sock = NoProc

\* While one is past the PID check, or stops, none serves.
AloneAtPath ==
    \A p, q \in Proc :
        pc[p] \in {"dial", "unlink", "listen", "writePid"} \cup Stopping => pc[q] # "serving"

\* What the migrations before the k-th have left.
UpTo(k) ==
    /\ k > 0 => tables.there = TRUE
    /\ \A c \in 1 .. Columns : k > c => tables.added >= c
    /\ k > SourceCheck => tables.source = TRUE
    /\ k > ObservationsSpace => tables.column = TRUE /\ tables.unique = TRUE
    /\ k > RulesSpace => tables.rcolumn = TRUE /\ tables.rcheck = TRUE

\* A start has what its migrations have reached so far; one past them, or serving, all.
MigratedSoFar(p) ==
    /\ pc[p] \in {"migrate", "rebuild"} => UpTo(todo[p]) /\ todo[p] <= RulesSpace + 1
    /\ pc[p] = "rebuild" =>
         /\ todo[p] \in SourceCheck .. RulesSpace /\ ~Migrated(todo[p])
         /\ todo[p] = ObservationsSpace => hadColumn[p] = tables.column
    /\ pc[p] \in {"serving", "pid", "dial", "unlink", "listen", "writePid"} => tables = Current

\* Without the column no row has a space of its own; the first rebuild drops no column.
RowsFitTables ==
    /\ tables.column = FALSE => \A o \in rows : o.space = Default
    /\ tables.source = FALSE => tables.column = FALSE
    /\ \A o \in rows : o = [id |-> o.id, space |-> o.space]

\* What holds unless two boots overlapped: one process is in transit, the files name
\* who serves, and a boot finds every migration before its own.
InOrder ==
    /\ OneInTransit /\ AloneAtPath /\ RowsFitTables
    /\ \A p \in Proc : Named(p) /\ MigratedSoFar(p)

\* The inductive invariant.
LifeInv == LifeTypeOK /\ (overlapped = FALSE => InOrder)
-----------------------------------------------------------------------------
\* The numbers of the migrations.
LEMMA Numbers ==
    /\ Columns \in Nat
    /\ SourceCheck = Columns + 1 /\ ObservationsSpace = Columns + 2 /\ RulesSpace = Columns + 3
  BY LifecycleAssumption DEF SourceCheck, ObservationsSpace, RulesSpace

\* A form with everything in it is the current one.
LEMMA CurrentForm ==
    /\ Current \in Forms
    /\ Current.there = TRUE /\ Current.added = Columns /\ Current.source = TRUE
    /\ Current.column = TRUE /\ Current.unique = TRUE
    /\ Current.rcolumn = TRUE /\ Current.rcheck = TRUE
  BY Numbers DEF Current, Forms

\* All migrations together are what a current file has.
LEMMA AllMigrated ==
    ASSUME tables \in Forms, UpTo(RulesSpace + 1)
    PROVE  tables = Current
<1>1. /\ tables.there = TRUE /\ tables.source = TRUE /\ tables.column = TRUE
      /\ tables.unique = TRUE /\ tables.rcolumn = TRUE /\ tables.rcheck = TRUE
  BY Numbers DEF UpTo
<1>2. tables.added = Columns
  BY Numbers DEF UpTo, Forms
<1> QED BY <1>1, <1>2 DEF Forms, Current

\* A current file is a migrated one.
LEMMA CurrentIsMigrated ==
    ASSUME tables = Current
    PROVE  /\ \A k \in Nat : UpTo(k)
           /\ \A m \in SourceCheck .. RulesSpace : Migrated(m)
  BY CurrentForm, Numbers DEF UpTo, Migrated

\* Initially there is no process and no file.
LEMMA LifeInitInv == LifeInit => LifeInv
<1> SUFFICES ASSUME LifeInit PROVE LifeInv
  OBVIOUS
<1>1. tables \in Forms /\ (tables.source = FALSE => tables.column = FALSE)
  <2>1. CASE tables = NoTables
    BY <2>1, Numbers, CurrentForm DEF NoTables, Current, Forms
  <2>2. CASE tables = Current
    BY <2>2, CurrentForm
  <2>3. CASE tables \in OldForms
    <3>1. PICK f \in {[added |-> 0, source |-> FALSE, column |-> FALSE],
                      [added |-> Columns, source |-> TRUE, column |-> FALSE],
                      [added |-> Columns, source |-> TRUE, column |-> TRUE]} :
             tables = [Current EXCEPT !.added = f.added, !.source = f.source, !.column = f.column,
                                      !.unique = FALSE, !.rcolumn = f.column, !.rcheck = FALSE]
      BY <2>3 DEF OldForms
    <3>2. /\ f.added \in 0 .. Columns /\ f.source \in BOOLEAN /\ f.column \in BOOLEAN
          /\ f.source = FALSE => f.column = FALSE
      <4>1. 0 \in 0 .. Columns /\ Columns \in 0 .. Columns
        BY Numbers
      <4>2. CASE f = [added |-> 0, source |-> FALSE, column |-> FALSE]
        BY <4>1, <4>2
      <4>3. CASE f = [added |-> Columns, source |-> TRUE, column |-> FALSE]
        BY <4>1, <4>3
      <4>4. CASE f = [added |-> Columns, source |-> TRUE, column |-> TRUE]
        BY <4>1, <4>4
      <4> QED BY <4>2, <4>3, <4>4
    <3>3. tables = [there |-> TRUE, added |-> f.added, source |-> f.source, column |-> f.column,
                    unique |-> FALSE, rcolumn |-> f.column, rcheck |-> FALSE]
      BY <3>1 DEF Current
    <3> QED BY <3>2, <3>3 DEF Forms
  <2> QED BY <2>1, <2>2, <2>3 DEF LifeInit
<1>2. /\ tables.column = FALSE => \A o \in rows : o.space = Default
      /\ \A o \in rows : o = [id |-> o.id, space |-> o.space]
  BY <1>1 DEF LifeInit, Forms
<1>3. \A p \in Proc : pc[p] = "unborn"
  BY DEF LifeInit
<1>4. LifeTypeOK
  BY <1>1 DEF LifeInit, LifeTypeOK, Phases
<1>5. sock = NoProc /\ pidFile = NoProc /\ listening = {}
  BY DEF LifeInit
<1>6. ASSUME NEW p \in Proc PROVE Named(p) /\ MigratedSoFar(p)
  BY <1>3, <1>5, LifecycleAssumption DEF Named, MigratedSoFar, Booting
<1>7. OneInTransit /\ AloneAtPath
  BY <1>3 DEF OneInTransit, AloneAtPath, InTransit, Booting, Stopping
<1> QED BY <1>1, <1>2, <1>4, <1>6, <1>7 DEF LifeInv, InOrder, RowsFitTables
-----------------------------------------------------------------------------
\* Every step keeps the types.
LEMMA LifeTypes ==
    ASSUME LifeTypeOK, LifeNext
    PROVE  LifeTypeOK'
<1> USE DEF LifeTypeOK
<1>1. /\ "migrate" \in Phases /\ "rebuild" \in Phases /\ "pid" \in Phases /\ "dial" \in Phases
      /\ "unlink" \in Phases /\ "listen" \in Phases /\ "writePid" \in Phases
      /\ "serving" \in Phases /\ "gone" \in Phases /\ "close" \in Phases
      /\ "removeSocket" \in Phases /\ "removePid" \in Phases
  BY DEF Phases, Booting, Stopping
<1>2. ASSUME NEW p \in Proc, Begin(p) PROVE LifeTypeOK'
  BY <1>1, <1>2 DEF Begin, Goto
<1>3. ASSUME NEW p \in Proc, ApplySchema(p) PROVE LifeTypeOK'
  BY <1>3, CurrentForm DEF ApplySchema, NextMigration
<1>4. ASSUME NEW p \in Proc, AddColumn(p) PROVE LifeTypeOK'
  <2>1. PICK c \in 1 .. Columns :
           tables' = [tables EXCEPT !.added = IF tables.added < c THEN c ELSE tables.added]
    BY <1>4 DEF AddColumn
  <2>2. (IF tables.added < c THEN c ELSE tables.added) \in 0 .. Columns
    BY Numbers DEF Forms
  <2>3. tables' \in Forms
    BY <2>1, <2>2 DEF Forms
  <2> QED BY <1>4, <2>3 DEF AddColumn, NextMigration
<1>5. ASSUME NEW p \in Proc, CheckMigration(p) PROVE LifeTypeOK'
  <2>1. hadColumn' \in [Proc -> BOOLEAN]
    <3>1. tables.rcolumn \in BOOLEAN /\ tables.column \in BOOLEAN
      BY DEF Forms
    <3> QED BY <1>5, <3>1 DEF CheckMigration
  <2> QED BY <1>1, <1>5, <2>1 DEF CheckMigration, NextMigration, Goto
<1>6. ASSUME NEW p \in Proc, Rebuild(p) PROVE LifeTypeOK'
  <2>1. tables' \in Forms
    BY <1>6 DEF Rebuild, RebuiltForm, Forms
  <2> QED BY <1>1, <1>6, <2>1 DEF Rebuild, NextMigration, Goto
<1>7. ASSUME NEW p \in Proc,
             Acquire(p) \/ CheckPid(p) \/ DialFails(p) \/ Refused(p) \/ RemoveStale(p)
                \/ Listen(p) \/ WritePid(p) \/ AcquireFails(p)
      PROVE  LifeTypeOK'
  BY <1>1, <1>7 DEF Acquire, CheckPid, DialFails, Refused, RemoveStale, Listen, WritePid,
                    AcquireFails, Goto
<1>8. ASSUME NEW p \in Proc, NewObservation(p) PROVE LifeTypeOK'
  BY <1>8 DEF NewObservation
<1>9. ASSUME NEW p \in Proc, Stop(p) PROVE LifeTypeOK'
  BY <1>1, <1>9 DEF Stop, Signal, CloseListener, RemoveSocket, RemovePid, Killed, Goto
<1>10. ASSUME PidReused \/ ConfirmReset \/ Reset PROVE LifeTypeOK'
  BY <1>10 DEF PidReused, ConfirmReset, Reset
<1> QED BY <1>2, <1>3, <1>4, <1>5, <1>6, <1>7, <1>8, <1>9, <1>10 DEF LifeNext, Boot
-----------------------------------------------------------------------------
\* Where everybody is, and what the files and listeners name.
Places == OneInTransit /\ AloneAtPath /\ \A p \in Proc : Named(p)

\* A process that changes its place; nobody else does.
Moves(p, there) ==
    pc'[p] = there /\ \A q \in Proc \ {p} : pc'[q] = pc[q]

\* A step of a daemon moves that daemon.
LEMMA GotoMoves ==
    ASSUME LifeTypeOK, NEW p \in Proc, NEW there, Goto(p, there)
    PROVE  Moves(p, there)
  BY DEF LifeTypeOK, Goto, Moves

\* Without an overlap, one process at a time is in transit and the files name who serves.
LEMMA PlacesKept ==
    ASSUME LifeTypeOK, Places, LifeNext, overlapped' = FALSE
    PROVE  Places'
<1> USE LifecycleAssumption
    DEF LifeTypeOK, Places, OneInTransit, AloneAtPath, Named, InTransit, Booting, Stopping, Moves
<1>1. ASSUME NEW p \in Proc, Begin(p) PROVE Places'
  <2>1. Moves(p, "migrate") /\ \A q \in Proc \ {p} : ~InTransit(q)
    BY <1>1, GotoMoves DEF Begin
  <2>2. UNCHANGED <<sock, listening, pidFile>> /\ sock # p /\ pidFile # p
    BY <1>1 DEF Begin
  <2>3. p \notin listening
    BY <1>1 DEF Begin
  <2> QED BY <2>1, <2>2, <2>3
<1>2. ASSUME NEW p \in Proc, ApplySchema(p) \/ AddColumn(p) PROVE Places'
  BY <1>2 DEF ApplySchema, AddColumn
<1>3. ASSUME NEW p \in Proc, CheckMigration(p) \/ Rebuild(p) PROVE Places'
  <2>1. /\ pc[p] \in {"migrate", "rebuild"} /\ UNCHANGED <<sock, listening, pidFile>>
        /\ Moves(p, "migrate") \/ Moves(p, "rebuild")
    BY <1>3, GotoMoves DEF CheckMigration, Rebuild, At
  <2> QED BY <2>1
<1>4. ASSUME NEW p \in Proc, Acquire(p) PROVE Places'
  <2>1. /\ pc[p] = "migrate" /\ UNCHANGED <<sock, listening, pidFile>>
        /\ IF sock # NoProc THEN Moves(p, "pid") ELSE Moves(p, "listen")
    BY <1>4, GotoMoves DEF Acquire, At
  <2> QED BY <2>1
<1>5. ASSUME NEW p \in Proc, CheckPid(p) PROVE Places'
  <2>1. /\ pc[p] = "pid" /\ UNCHANGED <<sock, listening, pidFile>> /\ Moves(p, "dial")
        /\ ~Alive(pidFile)
    BY <1>5, GotoMoves DEF CheckPid
  <2>2. \A q \in Proc : pc[q] # "serving"
    BY <2>1 DEF Alive
  <2> QED BY <2>1, <2>2
<1>6. ASSUME NEW p \in Proc, DialFails(p) PROVE Places'
  <2>1. pc[p] = "dial" /\ UNCHANGED <<sock, listening, pidFile>> /\ Moves(p, "unlink")
    BY <1>6, GotoMoves DEF DialFails
  <2> QED BY <2>1
<1>7. ASSUME NEW p \in Proc, Refused(p) \/ AcquireFails(p) PROVE Places'
  <2>1. /\ pc[p] \in {"pid", "dial", "unlink", "listen"} /\ UNCHANGED <<sock, listening, pidFile>>
        /\ Moves(p, "gone")
    BY <1>7, GotoMoves DEF Refused, AcquireFails
  <2> QED BY <2>1
<1>8. ASSUME NEW p \in Proc, RemoveStale(p) PROVE Places'
  <2>1. /\ pc[p] = "unlink" /\ UNCHANGED <<listening, pidFile>> /\ Moves(p, "listen")
        /\ sock' = NoProc
    BY <1>8, GotoMoves DEF RemoveStale
  <2> QED BY <2>1
<1>9. ASSUME NEW p \in Proc, Listen(p) PROVE Places'
  <2>1. /\ pc[p] = "listen" /\ UNCHANGED pidFile /\ Moves(p, "writePid")
        /\ sock' = p /\ listening' = listening \cup {p}
    BY <1>9, GotoMoves DEF Listen
  <2> QED BY <2>1
<1>10. ASSUME NEW p \in Proc, WritePid(p) PROVE Places'
  <2>1. /\ pc[p] = "writePid" /\ UNCHANGED <<sock, listening>> /\ Moves(p, "serving")
        /\ pidFile' = p
    BY <1>10, GotoMoves DEF WritePid
  <2> QED BY <2>1
<1>11. ASSUME NEW p \in Proc, NewObservation(p) PROVE Places'
  BY <1>11 DEF NewObservation
<1>12. ASSUME NEW p \in Proc, Signal(p) PROVE Places'
  <2>1. /\ pc[p] = "serving" /\ UNCHANGED <<sock, listening, pidFile>> /\ Moves(p, "close")
        /\ \A q \in Proc \ {p} : ~InTransit(q)
    BY <1>12, GotoMoves DEF Signal
  <2> QED BY <2>1
<1>13. ASSUME NEW p \in Proc, CloseListener(p) PROVE Places'
  <2>1. /\ pc[p] = "close" /\ UNCHANGED pidFile /\ Moves(p, "removeSocket")
        /\ sock' = NoProc /\ listening' = listening \ {p}
    BY <1>13, GotoMoves DEF CloseListener
  <2> QED BY <2>1
<1>14. ASSUME NEW p \in Proc, RemoveSocket(p) PROVE Places'
  <2>1. /\ pc[p] = "removeSocket" /\ UNCHANGED <<listening, pidFile>> /\ Moves(p, "removePid")
        /\ sock' = NoProc
    BY <1>14, GotoMoves DEF RemoveSocket
  <2> QED BY <2>1
<1>15. ASSUME NEW p \in Proc, RemovePid(p) PROVE Places'
  <2>1. /\ pc[p] = "removePid" /\ UNCHANGED <<sock, listening>> /\ Moves(p, "gone")
        /\ pidFile' = NoProc
    BY <1>15, GotoMoves DEF RemovePid
  <2> QED BY <2>1
<1>16. ASSUME NEW p \in Proc, Killed(p) PROVE Places'
  <2>1. /\ pc[p] \notin {"unborn", "gone"} /\ UNCHANGED <<sock, pidFile>> /\ Moves(p, "gone")
        /\ listening' = listening \ {p}
    BY <1>16, GotoMoves DEF Killed
  <2> QED BY <2>1
<1>17. ASSUME PidReused PROVE Places'
  BY <1>17 DEF PidReused
<1>18. ASSUME ConfirmReset \/ Reset PROVE Places'
  BY <1>18 DEF ConfirmReset, Reset
<1> QED BY <1>1, <1>2, <1>3, <1>4, <1>5, <1>6, <1>7, <1>8, <1>9, <1>10, <1>11, <1>12, <1>13,
           <1>14, <1>15, <1>16, <1>17, <1>18 DEF LifeNext, Boot, Stop
-----------------------------------------------------------------------------
\* What a process knows of the tables changes only with its place or the tables.
LEMMA SameSchema ==
    ASSUME NEW q \in Proc, MigratedSoFar(q), tables' = tables,
           pc'[q] = pc[q], todo'[q] = todo[q], hadColumn'[q] = hadColumn[q]
    PROVE  MigratedSoFar(q)'
  BY DEF MigratedSoFar, UpTo, Migrated

\* A place where nothing is known of the tables.
LEMMA NoSchema ==
    ASSUME NEW q \in Proc, pc'[q] \in {"unborn", "gone"} \cup Stopping
    PROVE  MigratedSoFar(q)'
  BY DEF MigratedSoFar, Stopping

\* One that serves, or has taken the path, over tables that stay current.
LEMMA CurrentSchema ==
    ASSUME NEW q \in Proc, tables' = Current,
           pc'[q] \in {"serving", "pid", "dial", "unlink", "listen", "writePid"}
    PROVE  MigratedSoFar(q)'
  BY DEF MigratedSoFar

\* While one migrates the others do not look at the tables, but for one that serves.
LEMMA OthersSchema ==
    ASSUME LifeTypeOK, OneInTransit, NEW p \in Proc, InTransit(p), NEW q \in Proc \ {p},
           MigratedSoFar(q), pc'[q] = pc[q], tables = Current => tables' = Current
    PROVE  MigratedSoFar(q)'
<1>1. pc[q] \in {"unborn", "gone", "serving"}
  BY DEF LifeTypeOK, Phases, OneInTransit, InTransit
<1>2. CASE pc[q] = "serving"
  BY <1>2, CurrentSchema DEF MigratedSoFar
<1>3. CASE pc[q] # "serving"
  BY <1>1, <1>3, NoSchema
<1> QED BY <1>2, <1>3

\* A column more, or one that was there.
LEMMA ColumnAdded ==
    ASSUME tables \in Forms, NEW c \in 1 .. Columns, UpTo(c),
           tables' = [tables EXCEPT !.added = IF tables.added < c THEN c ELSE tables.added]
    PROVE  UpTo(c + 1)' /\ (tables = Current => tables' = Current)
<1>1. /\ tables'.added = IF tables.added < c THEN c ELSE tables.added
      /\ tables'.there = tables.there
  BY DEF Forms
<1>2. tables.there = TRUE /\ tables.added \in Nat /\ \A d \in 1 .. Columns : c > d => tables.added >= d
  BY Numbers DEF UpTo, Forms
<1>3. UpTo(c + 1)'
  <2>1. \A d \in 1 .. Columns : c + 1 > d => tables'.added >= d
    BY <1>1, <1>2, Numbers
  <2>2. ~(c + 1 > SourceCheck) /\ ~(c + 1 > ObservationsSpace) /\ ~(c + 1 > RulesSpace)
    BY Numbers
  <2> QED BY <1>1, <1>2, <2>1, <2>2 DEF UpTo, SourceCheck, ObservationsSpace, RulesSpace
<1>4. ASSUME tables = Current PROVE tables' = Current
  <2>1. tables.added = Columns
    BY <1>4, CurrentForm
  <2>2. tables' = [tables EXCEPT !.added = tables.added]
    BY <2>1, Numbers
  <2> QED BY <1>4, <2>2 DEF Current
<1> QED BY <1>3, <1>4

\* A migration that is not needed has been done.
LEMMA CheckedIsDone ==
    ASSUME NEW m \in SourceCheck .. RulesSpace, tables \in Forms, UpTo(m), Migrated(m)
    PROVE  UpTo(m + 1)
<1>1. CASE m = SourceCheck
  BY <1>1, Numbers DEF UpTo, Migrated, Forms
<1>2. CASE m = ObservationsSpace
  BY <1>2, Numbers DEF UpTo, Migrated, Forms
<1>3. CASE m = RulesSpace
  BY <1>3, Numbers DEF UpTo, Migrated, Forms
<1> QED BY <1>1, <1>2, <1>3, Numbers

\* A rebuild does its migration and undoes none before it.
LEMMA RebuiltIsDone ==
    ASSUME NEW m \in SourceCheck .. RulesSpace, tables \in Forms, UpTo(m),
           tables' = RebuiltForm(m)
    PROVE  UpTo(m + 1)'
<1>1. CASE m = SourceCheck
  <2>1. /\ tables'.source = TRUE /\ tables'.there = tables.there
        /\ tables'.added = tables.added
    BY <1>1 DEF RebuiltForm, Forms
  <2> QED BY <1>1, <2>1, Numbers DEF UpTo, SourceCheck, ObservationsSpace, RulesSpace
<1>2. CASE m = ObservationsSpace
  <2>1. /\ tables'.source = TRUE /\ tables'.column = TRUE /\ tables'.unique = TRUE
        /\ tables'.there = tables.there /\ tables'.added = tables.added
    BY <1>2, Numbers DEF RebuiltForm, Forms
  <2> QED BY <1>2, <2>1, Numbers DEF UpTo, SourceCheck, ObservationsSpace, RulesSpace
<1>3. CASE m = RulesSpace
  <2>1. /\ tables'.rcolumn = TRUE /\ tables'.rcheck = TRUE
        /\ tables'.source = tables.source /\ tables'.column = tables.column
        /\ tables'.unique = tables.unique
        /\ tables'.there = tables.there /\ tables'.added = tables.added
    <3>1. tables' = [tables EXCEPT !.rcolumn = TRUE, !.rcheck = TRUE]
      BY <1>3, Numbers DEF RebuiltForm
    <3> QED BY <3>1 DEF Forms
  <2> QED BY <1>3, <2>1, Numbers DEF UpTo, SourceCheck, ObservationsSpace, RulesSpace
<1> QED BY <1>1, <1>2, <1>3, Numbers

\* And every boot finds the migrations before its own.
LEMMA SchemaKept ==
    ASSUME LifeTypeOK, LifeTypeOK', OneInTransit, \A p \in Proc : MigratedSoFar(p),
           LifeNext, overlapped' = FALSE
    PROVE  \A p \in Proc : MigratedSoFar(p)'
<1> DEFINE Kept == \A p \in Proc : MigratedSoFar(p)'
<1> USE DEF LifeTypeOK
<1>1. ASSUME NEW p \in Proc, Begin(p) PROVE Kept
  <2>1. /\ Moves(p, "migrate") /\ todo'[p] = 0 /\ tables' = tables
        /\ \A q \in Proc \ {p} : todo'[q] = todo[q] /\ hadColumn'[q] = hadColumn[q]
    BY <1>1, GotoMoves DEF Begin
  <2>2. MigratedSoFar(p)'
    BY <2>1, Numbers DEF MigratedSoFar, UpTo, Moves, SourceCheck, ObservationsSpace, RulesSpace
  <2> QED BY <2>1, <2>2, SameSchema DEF Moves
<1>2. ASSUME NEW p \in Proc, ApplySchema(p) PROVE Kept
  <2>1. /\ pc[p] = "migrate" /\ todo[p] = 0 /\ pc' = pc /\ todo'[p] = 1
        /\ tables' = IF tables.there THEN tables ELSE Current
    BY <1>2 DEF ApplySchema, At, NextMigration
  <2>2. tables'.there = TRUE /\ (tables = Current => tables' = Current)
    BY <2>1, CurrentForm DEF Forms
  <2>3. MigratedSoFar(p)'
    <3>1. UpTo(1)'
      BY <2>2, Numbers DEF UpTo, SourceCheck, ObservationsSpace, RulesSpace
    <3> QED BY <2>1, <3>1, Numbers DEF MigratedSoFar, RulesSpace
  <2>4. InTransit(p)
    BY <2>1 DEF InTransit, Booting
  <2> QED BY <2>1, <2>2, <2>3, <2>4, OthersSchema
<1>3. ASSUME NEW p \in Proc, AddColumn(p) PROVE Kept
  <2>1. PICK c \in 1 .. Columns :
           /\ At(p, c)
           /\ tables' = [tables EXCEPT !.added = IF tables.added < c THEN c ELSE tables.added]
    BY <1>3 DEF AddColumn
  <2>2. pc[p] = "migrate" /\ todo[p] = c /\ pc' = pc /\ todo'[p] = c + 1
    BY <1>3, <2>1 DEF AddColumn, At, NextMigration
  <2>3. UpTo(c + 1)' /\ (tables = Current => tables' = Current)
    BY <2>1, <2>2, ColumnAdded DEF MigratedSoFar
  <2>4. MigratedSoFar(p)'
    BY <2>2, <2>3, Numbers DEF MigratedSoFar, RulesSpace
  <2>5. InTransit(p)
    BY <2>2 DEF InTransit, Booting
  <2> QED BY <2>2, <2>3, <2>4, <2>5, OthersSchema
<1>4. ASSUME NEW p \in Proc, CheckMigration(p) PROVE Kept
  <2>1. PICK m \in SourceCheck .. RulesSpace :
           /\ At(p, m)
           /\ IF Migrated(m) THEN NextMigration(p) /\ UNCHANGED <<pc, hadColumn>>
              ELSE /\ Goto(p, "rebuild") /\ UNCHANGED todo
                   /\ hadColumn' = [hadColumn EXCEPT ![p] =
                          IF m = RulesSpace THEN tables.rcolumn ELSE tables.column]
    BY <1>4 DEF CheckMigration
  <2>2. pc[p] = "migrate" /\ todo[p] = m /\ UpTo(m) /\ tables' = tables
    BY <1>4, <2>1 DEF CheckMigration, At, MigratedSoFar
  <2>3. CASE Migrated(m)
    <3>1. pc' = pc /\ todo'[p] = m + 1
      BY <2>1, <2>2, <2>3 DEF NextMigration
    <3>2. UpTo(m + 1)
      BY <2>2, <2>3, CheckedIsDone
    <3>3. UpTo(m + 1)'
      BY <2>2, <3>2 DEF UpTo
    <3>4. MigratedSoFar(p)'
      BY <2>2, <3>1, <3>3, Numbers DEF MigratedSoFar, RulesSpace
    <3>5. InTransit(p)
      BY <2>2 DEF InTransit, Booting
    <3> QED BY <2>2, <3>1, <3>4, <3>5, OthersSchema
  <2>4. CASE ~Migrated(m)
    <3>1. /\ Moves(p, "rebuild") /\ todo' = todo
          /\ m = ObservationsSpace => hadColumn'[p] = tables.column
      BY <2>1, <2>4, GotoMoves, Numbers
    <3>2. UpTo(m)' /\ ~Migrated(m)'
      BY <2>2, <2>4 DEF UpTo, Migrated
    <3>3. MigratedSoFar(p)'
      BY <2>2, <3>1, <3>2, Numbers DEF MigratedSoFar, Moves, SourceCheck, ObservationsSpace, RulesSpace
    <3>4. InTransit(p)
      BY <2>2 DEF InTransit, Booting
    <3> QED BY <2>2, <3>1, <3>3, <3>4, OthersSchema DEF Moves
  <2> QED BY <2>3, <2>4
<1>5. ASSUME NEW p \in Proc, Rebuild(p) PROVE Kept
  <2>1. /\ pc[p] = "rebuild" /\ Moves(p, "migrate") /\ todo'[p] = todo[p] + 1
        /\ tables' = RebuiltForm(todo[p])
    BY <1>5, GotoMoves DEF Rebuild, NextMigration
  <2>2. PICK m \in SourceCheck .. RulesSpace : m = todo[p] /\ UpTo(m) /\ ~Migrated(m)
    BY <2>1 DEF MigratedSoFar
  <2>3. tables # Current
    BY <2>2, CurrentIsMigrated
  <2>4. UpTo(m + 1)'
    BY <2>1, <2>2, RebuiltIsDone
  <2>5. MigratedSoFar(p)'
    BY <2>1, <2>2, <2>4, Numbers DEF MigratedSoFar, Moves, RulesSpace
  <2>6. InTransit(p)
    BY <2>1 DEF InTransit, Booting
  <2> QED BY <2>1, <2>3, <2>5, <2>6, OthersSchema DEF Moves
<1>6. ASSUME NEW p \in Proc, Acquire(p) PROVE Kept
  <2>1. /\ pc[p] = "migrate" /\ todo[p] = RulesSpace + 1 /\ UNCHANGED <<tables, todo, hadColumn>>
        /\ Moves(p, "pid") \/ Moves(p, "listen")
    BY <1>6, GotoMoves DEF Acquire, At
  <2>2. tables' = Current
    BY <2>1, AllMigrated DEF MigratedSoFar
  <2> QED BY <2>1, <2>2, CurrentSchema, SameSchema DEF Moves
<1>7. ASSUME NEW p \in Proc,
             CheckPid(p) \/ DialFails(p) \/ RemoveStale(p) \/ Listen(p) \/ WritePid(p)
      PROVE  Kept
  <2>1. /\ pc[p] \in {"pid", "dial", "unlink", "listen", "writePid"}
        /\ UNCHANGED <<tables, todo, hadColumn>>
        /\ Moves(p, "dial") \/ Moves(p, "unlink") \/ Moves(p, "listen")
              \/ Moves(p, "writePid") \/ Moves(p, "serving")
    BY <1>7, GotoMoves DEF CheckPid, DialFails, RemoveStale, Listen, WritePid
  <2>2. tables' = Current
    BY <2>1 DEF MigratedSoFar
  <2> QED BY <2>1, <2>2, CurrentSchema, SameSchema DEF Moves
<1>8. ASSUME NEW p \in Proc, Refused(p) \/ AcquireFails(p) \/ Stop(p) PROVE Kept
  <2>1. /\ UNCHANGED <<tables, todo, hadColumn>>
        /\ Moves(p, "gone") \/ Moves(p, "close") \/ Moves(p, "removeSocket") \/ Moves(p, "removePid")
    BY <1>8, GotoMoves DEF Refused, AcquireFails, Stop, Signal, CloseListener, RemoveSocket,
                           RemovePid, Killed
  <2> QED BY <2>1, NoSchema, SameSchema DEF Moves, Stopping
<1>9. ASSUME UNCHANGED <<pc, todo, hadColumn, tables>> PROVE Kept
  BY <1>9, SameSchema
<1>10. ASSUME NEW p \in Proc, NewObservation(p) PROVE Kept
  BY <1>9, <1>10 DEF NewObservation
<1>11. ASSUME PidReused \/ ConfirmReset \/ Reset PROVE Kept
  BY <1>9, <1>11 DEF PidReused, ConfirmReset, Reset
<1> QED BY <1>1, <1>2, <1>3, <1>4, <1>5, <1>6, <1>7, <1>8, <1>10, <1>11 DEF LifeNext, Boot
-----------------------------------------------------------------------------
\* Where no row has a space of its own, a copy without spaces is the same rows.
LEMMA UnspacedSame ==
    ASSUME \A o \in rows : o = [id |-> o.id, space |-> o.space] /\ o.space = Default
    PROVE  Unspaced = rows
<1>1. \A o \in rows : [id |-> o.id, space |-> Default] = o
  OBVIOUS
<1> QED BY <1>1 DEF Unspaced

\* A rebuild copies every row as it is.
LEMMA RebuildKeepsRows ==
    ASSUME LifeTypeOK, RowsFitTables, NEW p \in Proc, MigratedSoFar(p), Rebuild(p)
    PROVE  rows' = rows /\ RowsFitTables'
<1>1. /\ pc[p] = "rebuild" /\ todo[p] \in SourceCheck .. RulesSpace /\ ~Migrated(todo[p])
      /\ todo[p] = ObservationsSpace => hadColumn[p] = tables.column
      /\ tables' = RebuiltForm(todo[p]) /\ rows' = RebuiltRows(p, todo[p])
  BY DEF Rebuild, MigratedSoFar
<1>2. tables.column \in BOOLEAN /\ tables.source \in BOOLEAN
  BY DEF LifeTypeOK, Forms
<1>3. CASE todo[p] = SourceCheck
  <2>1. tables.source = FALSE
    BY <1>1, <1>2, <1>3, Numbers DEF Migrated
  <2>2. rows' = rows /\ \A o \in rows : o.space = Default
    BY <1>1, <1>3, <2>1, UnspacedSame DEF RebuiltRows, RowsFitTables
  <2>3. tables'.source = TRUE
    BY <1>1, <1>3 DEF RebuiltForm, LifeTypeOK, Forms
  <2> QED BY <2>2, <2>3 DEF RowsFitTables
<1>4. CASE todo[p] = ObservationsSpace
  <2>1. rows' = rows
    <3>1. CASE hadColumn[p]
      BY <1>1, <1>4, <3>1, Numbers DEF RebuiltRows
    <3>2. CASE ~hadColumn[p]
      <4>1. tables.column = FALSE
        BY <1>1, <1>2, <1>4, <3>2
      <4> QED BY <1>1, <1>4, <3>2, <4>1, UnspacedSame DEF RebuiltRows, RowsFitTables
    <3> QED BY <3>1, <3>2
  <2>2. tables'.source = TRUE /\ tables'.column = TRUE
    <3>1. tables' = [tables EXCEPT !.source = TRUE, !.column = TRUE, !.unique = TRUE]
      BY <1>1, <1>4, Numbers DEF RebuiltForm
    <3> QED BY <3>1 DEF LifeTypeOK, Forms
  <2> QED BY <2>1, <2>2 DEF RowsFitTables
<1>5. CASE todo[p] = RulesSpace
  <2>1. rows' = rows
    BY <1>1, <1>5, Numbers DEF RebuiltRows
  <2>2. tables' = [tables EXCEPT !.rcolumn = TRUE, !.rcheck = TRUE]
    BY <1>1, <1>5, Numbers DEF RebuiltForm
  <2>3. tables'.source = tables.source /\ tables'.column = tables.column
    BY <2>2 DEF LifeTypeOK, Forms
  <2> QED BY <2>1, <2>3 DEF RowsFitTables
<1> QED BY <1>1, <1>3, <1>4, <1>5, Numbers

\* Every step but a reset keeps the rows.
LEMMA RowsKept ==
    ASSUME LifeTypeOK, RowsFitTables, \A p \in Proc : MigratedSoFar(p), LifeNext
    PROVE  RowsFitTables' /\ (~Reset => rows \subseteq rows')
<1>1. ASSUME UNCHANGED <<tables, rows>> PROVE RowsFitTables' /\ rows \subseteq rows'
  BY <1>1 DEF RowsFitTables
<1>2. ASSUME NEW p \in Proc, ApplySchema(p) PROVE RowsFitTables' /\ rows \subseteq rows'
  <2>1. rows' = rows /\ (tables' = tables \/ tables' = Current)
    BY <1>2 DEF ApplySchema
  <2>2. CASE tables' = Current
    BY <2>1, <2>2, CurrentForm DEF RowsFitTables
  <2> QED BY <1>1, <2>1, <2>2
<1>3. ASSUME NEW p \in Proc, AddColumn(p) PROVE RowsFitTables' /\ rows \subseteq rows'
  <2>1. PICK c \in 1 .. Columns :
           tables' = [tables EXCEPT !.added = IF tables.added < c THEN c ELSE tables.added]
    BY <1>3 DEF AddColumn
  <2>2. /\ tables'.source = tables.source /\ tables'.column = tables.column
        /\ rows' = rows
    BY <1>3, <2>1 DEF AddColumn, LifeTypeOK, Forms
  <2> QED BY <2>2 DEF RowsFitTables
<1>4. ASSUME NEW p \in Proc, Rebuild(p) PROVE RowsFitTables' /\ rows \subseteq rows'
  BY <1>4, RebuildKeepsRows
<1>5. ASSUME NEW p \in Proc, NewObservation(p) PROVE RowsFitTables' /\ rows \subseteq rows'
  <2>1. PICK s \in Space :
           rows' = IF tables.unique \/ rows = {}
                   THEN rows \cup {[id |-> Cardinality(rows) + 1, space |-> s]} ELSE rows
    BY <1>5 DEF NewObservation
  <2>2. tables' = tables /\ tables.column # FALSE /\ tables.source # FALSE
    BY <1>5 DEF NewObservation, RowsFitTables
  <2> DEFINE new == [id |-> Cardinality(rows) + 1, space |-> s]
  <2>3. new = [id |-> new.id, space |-> new.space]
    OBVIOUS
  <2> HIDE DEF new
  <2>4. rows \subseteq rows' /\ rows' \subseteq rows \cup {new}
    BY <2>1 DEF new
  <2> QED BY <2>2, <2>3, <2>4 DEF RowsFitTables
<1>6. ASSUME Reset PROVE RowsFitTables'
  BY <1>6 DEF Reset, RowsFitTables
<1>7. ASSUME NEW p \in Proc,
             Begin(p) \/ CheckMigration(p) \/ Acquire(p) \/ CheckPid(p) \/ DialFails(p)
                \/ Refused(p) \/ RemoveStale(p) \/ Listen(p) \/ WritePid(p) \/ AcquireFails(p)
                \/ Stop(p)
      PROVE  UNCHANGED <<tables, rows>>
  BY <1>7 DEF Begin, CheckMigration, Acquire, CheckPid, DialFails, Refused, RemoveStale, Listen,
              WritePid, AcquireFails, Stop, Signal, CloseListener, RemoveSocket, RemovePid, Killed
<1>8. ASSUME PidReused \/ ConfirmReset PROVE UNCHANGED <<tables, rows>>
  BY <1>8 DEF PidReused, ConfirmReset
<1> QED BY <1>1, <1>2, <1>3, <1>4, <1>5, <1>6, <1>7, <1>8 DEF LifeNext, Boot
-----------------------------------------------------------------------------
\* A start or stop that overlaps another is never forgotten.
LEMMA OverlapStays ==
    ASSUME LifeTypeOK, LifeNext, overlapped' = FALSE
    PROVE  overlapped = FALSE
  BY DEF LifeTypeOK, LifeNext, Boot, Stop, Begin, ApplySchema, AddColumn, CheckMigration, Rebuild,
         Acquire, CheckPid, DialFails, Refused, RemoveStale, Listen, WritePid, AcquireFails,
         NewObservation, Signal, CloseListener, RemoveSocket, RemovePid, Killed, PidReused,
         ConfirmReset, Reset

\* Every step keeps the invariant.
LEMMA LifeNextInv == LifeInv /\ [LifeNext]_lifeVars => LifeInv'
<1> SUFFICES ASSUME LifeInv, [LifeNext]_lifeVars PROVE LifeInv'
  OBVIOUS
<1>1. CASE LifeNext
  <2>1. LifeTypeOK /\ LifeTypeOK'
    BY <1>1, LifeTypes DEF LifeInv
  <2>2. ASSUME overlapped' = FALSE PROVE InOrder'
    <3>1. InOrder
      BY <1>1, <2>1, <2>2, OverlapStays DEF LifeInv
    <3>2. Places'
      BY <1>1, <2>1, <2>2, <3>1, PlacesKept DEF InOrder, Places
    <3>3. \A p \in Proc : MigratedSoFar(p)'
      BY <1>1, <2>1, <2>2, <3>1, SchemaKept DEF InOrder
    <3>4. RowsFitTables'
      BY <1>1, <2>1, <3>1, RowsKept DEF InOrder
    <3> QED BY <3>2, <3>3, <3>4 DEF InOrder, Places
  <2> QED BY <2>1, <2>2 DEF LifeInv
<1>2. CASE UNCHANGED lifeVars
  BY <1>2 DEF lifeVars, LifeInv, LifeTypeOK, InOrder, OneInTransit, AloneAtPath, RowsFitTables,
              Named, MigratedSoFar, UpTo, Migrated, InTransit
<1> QED BY <1>1, <1>2

\* In every behaviour, the invariant.
LEMMA LifeInvariance == LifeSpec => []LifeInv
  BY LifeInitInv, LifeNextInv, PTL DEF LifeSpec

\* A daemon that serves is the one its files name, over tables every migration has
\* reached (Run, openDB, acquireSocket), after any history of starts and stops that
\* come one after the other, kills at any point included.
THEOREM OneWholeDaemon == LifeSpec => []ServesWhole
<1>1. LifeInv => ServesWhole
  BY DEF LifeInv, LifeTypeOK, InOrder, Named, MigratedSoFar, ServesWhole, Serving
<1> QED BY <1>1, LifeInvariance, PTL

\* A start is turned away only while a daemon serves (acquireSocket).
THEOREM LeftoversKeepNobodyOut == LifeSpec => RefusedOnlyIfServing
<1>1. ASSUME LifeInv, overlapped = FALSE, pidFile # Alien, NEW p \in Proc,
             Refused(p) \/ AcquireFails(p)
      PROVE  Serving # {}
  <2>1. /\ LifeTypeOK /\ OneInTransit /\ \A q \in Proc : Named(q)
    BY <1>1 DEF LifeInv, InOrder
  <2>2. CASE pc[p] = "pid" /\ Alive(pidFile)
    <3>1. pidFile \in Proc /\ pidFile # p /\ pc[pidFile] \notin {"unborn", "gone"}
      BY <1>1, <2>1, <2>2 DEF Alive, Named, Booting
    <3>2. ~InTransit(pidFile)
      BY <2>1, <2>2, <3>1 DEF OneInTransit, InTransit, Booting
    <3>3. pc[pidFile] = "serving"
      BY <2>1, <3>1, <3>2 DEF LifeTypeOK, Phases, InTransit
    <3> QED BY <3>1, <3>3 DEF Serving
  <2>3. CASE pc[p] = "dial" /\ Answers
    <3>1. sock \in Proc /\ sock # p /\ pc[sock] \in {"writePid", "serving", "close"}
      BY <2>1, <2>3 DEF LifeTypeOK, Answers, Named
    <3>2. ~InTransit(sock)
      BY <2>1, <2>3, <3>1 DEF OneInTransit, InTransit, Booting
    <3>3. pc[sock] = "serving"
      BY <3>1, <3>2 DEF InTransit, Booting, Stopping
    <3> QED BY <3>1, <3>3 DEF Serving
  <2>4. ~AcquireFails(p)
    BY <2>1 DEF AcquireFails, Named
  <2> QED BY <1>1, <2>2, <2>3, <2>4 DEF Refused
<1>2. LifeInv /\ [LifeNext]_lifeVars =>
          [~overlapped /\ pidFile # Alien =>
              \A p \in Proc : Refused(p) \/ AcquireFails(p) => Serving # {}]_lifeVars
  <2>1. LifeInv => overlapped \in BOOLEAN
    BY DEF LifeInv, LifeTypeOK
  <2> QED BY <1>1, <2>1
<1> QED BY <1>2, LifeInvariance, PTL DEF LifeSpec, RefusedOnlyIfServing

\* No migration, interrupted or not, loses an observation, its id or its space.
THEOREM NoObservationLost == LifeSpec => ObservationsSurvive
<1>1. LifeInv /\ [LifeNext]_lifeVars => [~overlapped /\ ~Reset => rows \subseteq rows']_lifeVars
  <2> SUFFICES ASSUME LifeInv, LifeNext, ~overlapped, ~Reset PROVE rows \subseteq rows'
    OBVIOUS
  <2>1. LifeTypeOK /\ InOrder
    BY DEF LifeInv, LifeTypeOK
  <2> QED BY <2>1, RowsKept DEF InOrder
<1> QED BY <1>1, LifeInvariance, PTL DEF LifeSpec, ObservationsSurvive
=============================================================================
