----------------------------- MODULE StatusView -----------------------------
(* What a client sees of the recorded time: the Status handler, whose queries  *)
(* are statements at different instants while other clients write (rpc.go), and *)
(* the live view that asks for it only when a cheap probe finds a newer tick,   *)
(* over a connection that a restart of the daemon breaks (cli/status.go).       *)
(*                                                                             *)
(* Counts of distinct seconds are kept as the sets of seconds counted.         *)
EXTENDS Naturals, FiniteSets, FiniteSetsExt

CONSTANTS
    Client,       \* companies; NoCompany is the bucket of projects without one
    NoCompany,
    Project,
    Unassigned,   \* the project of a tick that no rule matched
    Midnights,    \* when the local days begin: not all of a length
    DaySeconds,   \* 86400
    LastSecond,   \* bound on the clock
    MaxChanges    \* bound on what other clients change

ASSUME ViewAssumption ==
    /\ NoCompany \in Client /\ Unassigned \notin Project
    /\ 0 \in Midnights /\ Midnights \subseteq Nat
    /\ DaySeconds \in Nat \ {0} /\ LastSecond \in Nat /\ MaxChanges \in Nat

VARIABLES
    second,       \* the clock
    recorded,     \* rows: ts, proj
    poll,         \* the tick the poller is at, and whether one is under way
    billed,       \* the company of each project
    anchor,       \* each company's last invoice, 0 if none
    up,           \* the daemon runs
    changes,      \* how many calls of other clients have changed something
    linked,       \* the view's connection is to the daemon that runs now
    view,         \* where the view is: its connection, its last probe, what it compared
    body,         \* the reply of the Status call under way
    shown         \* the last reply; have: there is one

viewVars == <<second, recorded, poll, billed, anchor, up, changes, linked, view, body, shown>>
daemonVars == <<second, recorded, poll, billed, anchor, up, changes>>

\* A day is known by the second it begins.
StartOfDay(t) == Max({m \in Midnights : m <= t})
Seconds(rows) == {t.ts : t \in rows}

\* Two fields are history: the rows put behind the newest tick since the reply's
\* probe, and the projects whose company changed while its queries ran.
Empty == [have |-> FALSE, day |-> 0, today |-> {}, since |-> [k \in Client |-> 0],
          of |-> [p \in Project |-> NoCompany], project |-> [p \in Project |-> {}],
          company |-> [k \in Client |-> {}], nobody |-> {}, missed |-> {}, moved |-> {}]
-----------------------------------------------------------------------------
(* The queries.                                                                *)

MaxTickTs == IF recorded = {} THEN 0 ELSE Max(Seconds(recorded))
AssignedDistinctTicksInRange(from, to) ==
    Seconds({t \in recorded : t.proj # Unassigned /\ t.ts >= from /\ t.ts < to})
TotalsByProjectSince(p, since) == Seconds({t \in recorded : t.proj = p /\ t.ts >= since})
CountDistinctCompanyTicksSince(k, since) ==
    Seconds({t \in recorded : t.proj \in Project /\ billed[t.proj] = k /\ t.ts >= since})
UnassignedTicksAllTime == Seconds({t \in recorded : t.proj = Unassigned})
-----------------------------------------------------------------------------
(* The daemon and its other clients.                                           *)

ClockTicks ==
    /\ second < LastSecond
    /\ second' = second + 1
    /\ UNCHANGED <<recorded, poll, billed, anchor, up, changes, linked, view, body, shown>>

\* Rows change; the replies note those a probe for a newer tick does not find.
RowsChange(rows, hidden) ==
    /\ recorded' = rows
    /\ body' = IF view.pc = "cycle" THEN body ELSE [body EXCEPT !.missed = @ \cup hidden]
    /\ shown' = IF shown.have THEN [shown EXCEPT !.missed = @ \cup hidden] ELSE shown
    /\ UNCHANGED <<second, poll, billed, anchor, up, linked, view>>

InsertTick(ts, p) ==
    LET row == [ts |-> ts, proj |-> p]
    IN  RowsChange(recorded \cup {row}, IF ts < MaxTickTs THEN {row} \ recorded ELSE {})

\* The ticks come one after the other, each row of one with its time.
PollBegins ==
    /\ up /\ poll.at < second
    /\ poll' = [at |-> second, on |-> TRUE]
    /\ UNCHANGED <<second, recorded, billed, anchor, up, changes, linked, view, body, shown>>

PollRecords ==
    /\ up /\ poll.on
    /\ \E p \in Project \cup {Unassigned} : InsertTick(poll.at, p)
    /\ UNCHANGED changes

\* A call of another client.
ClientChanges == up /\ changes < MaxChanges /\ changes' = changes + 1

\* The import of transcripts inserts ticks of any second so far.
Imports(p) == ClientChanges /\ \E ts \in 0 .. second : InsertTick(ts, p)

\* A tag gives a project the ticks of one signature that have none.
Retags(p) ==
    /\ ClientChanges
    /\ \E rows \in SUBSET {t \in recorded : t.proj = Unassigned} \ {{}} :
          LET tagged == {[t EXCEPT !.proj = p] : t \in rows}
          IN  RowsChange((recorded \ rows) \cup tagged, tagged)

\* ProjectSetCompany; and CompanyDelete, which leaves its projects without one.
CompaniesChange(of) ==
    /\ ClientChanges /\ billed' = of
    /\ body' = IF view.pc = "cycle" THEN body
               ELSE [body EXCEPT !.moved = @ \cup {p \in Project : of[p] # billed[p]}]
    /\ UNCHANGED <<second, recorded, poll, up, linked, view, shown>>
ProjectSetCompany(p, k) == CompaniesChange([billed EXCEPT ![p] = k]) /\ UNCHANGED anchor
CompanyDelete(k) ==
    /\ k # NoCompany
    /\ CompaniesChange([p \in Project |-> IF billed[p] = k THEN NoCompany ELSE billed[p]])
    /\ anchor' = [anchor EXCEPT ![k] = 0]

Invoiced(k) ==
    /\ ClientChanges /\ k # NoCompany
    /\ anchor' = [anchor EXCEPT ![k] = second]
    /\ UNCHANGED <<second, recorded, poll, billed, up, linked, view, body, shown>>

\* A stop cancels the tick; the next daemon's first one is an interval later.
DaemonRestarts ==
    /\ up' = ~up /\ linked' = FALSE
    /\ poll' = IF up THEN [at |-> second, on |-> FALSE] ELSE poll
    /\ UNCHANGED <<second, recorded, billed, anchor, changes, view, body, shown>>

Others ==
    \/ ClockTicks \/ PollBegins \/ PollRecords \/ DaemonRestarts
    \/ \E p \in Project : Imports(p) \/ Retags(p) \/ \E k \in Client : ProjectSetCompany(p, k)
    \/ \E k \in Client : Invoiced(k) \/ CompanyDelete(k)
-----------------------------------------------------------------------------
(* The view.                                                                   *)

Redial ==
    /\ view.pc = "cycle" /\ ~view.conn
    /\ view' = [view EXCEPT !.conn = up] /\ linked' = up
    /\ UNCHANGED <<daemonVars, body, shown>>

\* Mutant: the day is not compared.
StatusBodyChangedByTick(ts, day) == ~shown.have \/ ts # view.lastTs

\* statusBodyChanged: never fetched, another newest tick, or another day.
StatusBodyChanged(ts, day) == ~shown.have \/ ts # view.lastTs \/ day # view.lastDay

Probe ==
    /\ view.pc = "cycle" /\ view.conn /\ linked
    /\ view' = [view EXCEPT !.probedTs = MaxTickTs, !.probedDay = StartOfDay(second),
                   !.pc = IF StatusBodyChanged(MaxTickTs, StartOfDay(second)) THEN "call" ELSE @]
    /\ body' = Empty
    /\ UNCHANGED <<daemonVars, linked, shown>>

\* Status: the day, its total, the anchors. Its day has always as many seconds.
CallStatus ==
    /\ view.pc = "call" /\ linked
    /\ LET day == StartOfDay(second)
       IN  body' = [body EXCEPT !.day = day, !.since = anchor,
                        !.today = AssignedDistinctTicksInRange(day, day + DaySeconds)]
    /\ view' = [view EXCEPT !.pc = "projects"]
    /\ UNCHANGED <<daemonVars, linked, shown>>

\* The projects with their companies; one query per anchor gives their counts.
CountProjects ==
    /\ view.pc = "projects" /\ linked
    /\ body' = [body EXCEPT !.of = billed, !.project =
                   [p \in Project |-> TotalsByProjectSince(p, body.since[billed[p]])]]
    /\ view' = [view EXCEPT !.pc = "companies"]
    /\ UNCHANGED <<daemonVars, linked, shown>>

\* Mutant: the anchors are read again.
CountCompaniesAnew ==
    /\ view.pc = "companies" /\ linked
    /\ body' = [body EXCEPT !.company =
                   [k \in Client |-> CountDistinctCompanyTicksSince(k, anchor[k])]]
    /\ view' = [view EXCEPT !.pc = "nobody"]
    /\ UNCHANGED <<daemonVars, linked, shown>>

CountCompanies ==
    /\ view.pc = "companies" /\ linked
    /\ body' = [body EXCEPT !.company =
                   [k \in Client |-> CountDistinctCompanyTicksSince(k, body.since[k])]]
    /\ view' = [view EXCEPT !.pc = "nobody"]
    /\ UNCHANGED <<daemonVars, linked, shown>>

\* The last query, and the reply.
ShowStatus ==
    /\ view.pc = "nobody" /\ linked
    /\ shown' = [body EXCEPT !.nobody = UnassignedTicksAllTime, !.have = TRUE]
    /\ body' = Empty
    /\ view' = [view EXCEPT !.pc = "cycle", !.lastTs = view.probedTs, !.lastDay = view.probedDay]
    /\ UNCHANGED <<daemonVars, linked>>

\* A call over a connection that a restart has broken, or that its handler fails:
\* LatestTick's, or Status at any of its queries.
Dropped == [view EXCEPT !.conn = FALSE, !.pc = "cycle"]
\* Mutant: the connection is used again.
CallBreaksKeepsConn ==
    /\ view.conn /\ ~linked
    /\ view' = [Dropped EXCEPT !.conn = TRUE] /\ body' = Empty
    /\ UNCHANGED <<daemonVars, linked, shown>>

CallBreaks ==
    /\ view.conn /\ ~linked
    /\ view' = Dropped /\ body' = Empty
    /\ UNCHANGED <<daemonVars, linked, shown>>
CallErrs ==
    /\ view.conn /\ linked
    /\ view' = Dropped /\ body' = Empty
    /\ UNCHANGED <<daemonVars, linked, shown>>
-----------------------------------------------------------------------------
ViewInit ==
    /\ second = 0 /\ recorded = {} /\ poll = [at |-> 0, on |-> FALSE]
    /\ billed \in [Project -> Client] /\ anchor = [k \in Client |-> 0]
    /\ up = TRUE /\ changes = 0 /\ linked = TRUE
    /\ view = [pc |-> "cycle", conn |-> TRUE, probedTs |-> 0, probedDay |-> 0,
               lastTs |-> 0, lastDay |-> 0]
    /\ body = Empty /\ shown = Empty

ViewStep ==
    \/ Redial \/ Probe
    \/ CallStatus \/ CountProjects \/ CountCompanies \/ ShowStatus \/ CallBreaks

ViewNext == Others \/ CallErrs \/ ViewStep

\* The view's loop runs every few seconds until the user ends it.
ViewFairness == WF_viewVars(ViewStep)
ViewSpec == ViewInit /\ [][ViewNext]_viewVars /\ ViewFairness
-----------------------------------------------------------------------------
(* Properties.                                                                 *)

\* What the last reply shows of a row, by the day, the anchors and the companies it
\* was made with.
Displayed(t) ==
    IF t.proj = Unassigned THEN t.ts \in shown.nobody
    ELSE LET k == shown.of[t.proj]
         IN  /\ t.ts >= shown.day /\ t.ts < shown.day + DaySeconds => t.ts \in shown.today
             /\ t.ts >= shown.since[k] => t.ts \in shown.project[t.proj]
             /\ t.ts >= shown.since[k] /\ t.proj \notin shown.moved => t.ts \in shown.company[k]

Accounted(t) == t \in shown.missed \/ Displayed(t)

UpToDate ==
    /\ shown.day = StartOfDay(second)
    /\ \A t \in recorded : t.ts < MaxTickTs => Accounted(t)
    /\ MaxTickTs > 0 => \E t \in recorded : t.ts = MaxTickTs /\ Accounted(t)

\* Whenever the view would not fetch the body, it shows today's and every row of the
\* ticks before the newest, and something of the newest; all but the rows that a tag,
\* an import or a late tick put there since the reply's own probe.
ViewFresh == ~StatusBodyChanged(MaxTickTs, StartOfDay(second)) => UpToDate

\* However the queries of one call interleave with ticks, tags, imports and invoices,
\* a company's total covers each of its projects' (Status: "a second worked across
\* two projects of the same company" is counted once, and not less), unless the
\* project changed its company meanwhile.
CompanyCoversProjects ==
    \A p \in Project \ shown.moved : shown.project[p] \subseteq shown.company[shown.of[p]]

\* When the daemon stays up and its replies no longer fail, the view ends up showing
\* all there is of the ticks before the last, but for the rows put behind it since,
\* whatever broke before (runStatusLive: "it recovers on its own instead of freezing").
ViewCatchesUp ==
    <>[]up /\ <>[][~CallErrs]_viewVars
        => <>[](\A t \in recorded : t.ts < MaxTickTs => Accounted(t))

\* The body is fetched again "when a new tick was recorded" (statusBodyChanged): when
\* it would not be, no second recorded before the newest is left out.
NewTicksFetched ==
    ~StatusBodyChanged(MaxTickTs, StartOfDay(second)) =>
        \A t \in recorded :
           t.ts < MaxTickTs /\ (t.proj # Unassigned => t.ts >= shown.since[shown.of[t.proj]])
              => t.ts \in shown.nobody \cup UNION {shown.project[p] : p \in Project}

\* "Anything since startOfDay is today's ticks" (Status): a reply's total of today
\* has every assigned second since its day began that its probe knew of.
TodayIsWhole ==
    [][ShowStatus => \A t \in recorded :
          t.proj # Unassigned /\ t \notin shown'.missed /\ t.ts >= shown'.day /\ t.ts < view.probedTs
             => t.ts \in shown'.today]_viewVars
=============================================================================
