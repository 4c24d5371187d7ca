-------------------------- MODULE StatusViewProofs --------------------------
(* Proofs that a company's total covers each of its projects', and that the     *)
(* view shows what its probe found, however the queries of a Status call        *)
(* interleave with ticks, tags, imports, invoices and restarts.                *)
EXTENDS StatusView, DataLemmas

Rows == [ts : Nat, proj : Project \cup {Unassigned}]
Reply == [have : BOOLEAN, day : Nat, today : SUBSET Nat, since : [Client -> Nat],
          of : [Project -> Client], project : [Project -> SUBSET Nat],
          company : [Client -> SUBSET Nat], nobody : SUBSET Nat,
          missed : SUBSET Rows, moved : SUBSET Project]
Querying == {"projects", "companies", "nobody"}
Place == [pc : {"cycle", "call"} \cup Querying, conn : BOOLEAN,
          probedTs : Nat, probedDay : Nat, lastTs : Nat, lastDay : Nat]

\* The types, with what the clock bounds.
ViewTypes ==
    /\ second \in Nat /\ poll \in [at : 0 .. second, on : BOOLEAN]
    /\ recorded \subseteq Rows /\ IsFiniteSet(recorded) /\ up \in BOOLEAN
    /\ billed \in [Project -> Client] /\ anchor \in [Client -> Nat]
    /\ view \in Place /\ body \in Reply /\ shown \in Reply
-----------------------------------------------------------------------------
\* A day begins at or before each of its seconds, and the days are in their order.
LEMMA DayOrder ==
    ASSUME NEW s \in Nat, NEW t \in Nat, s <= t
    PROVE  /\ StartOfDay(s) \in 0 .. s
           /\ StartOfDay(s) <= StartOfDay(t)
<1>1. ASSUME NEW u \in Nat
      PROVE  /\ StartOfDay(u) \in Midnights /\ StartOfDay(u) \in 0 .. u
             /\ \A m \in Midnights : m <= u => m <= StartOfDay(u)
  <2> DEFINE Begun == {m \in Midnights : m <= u}
  <2>1. Begun \in SUBSET (0 .. u) /\ 0 \in Begun
    <3>1. 0 \in Midnights /\ \A m \in Midnights : m \in Nat
      BY ViewAssumption
    <3>2. 0 \in Begun
      BY <3>1
    <3>3. \A m \in Begun : m \in 0 .. u
      BY <3>1
    <3> QED BY <3>2, <3>3
  <2>2. \A m \in Begun : m \in Midnights
    OBVIOUS
  <2>3. \A m \in Midnights : m <= u => m \in Begun
    OBVIOUS
  <2>4. StartOfDay(u) = Max(Begun)
    BY DEF StartOfDay
  <2> HIDE DEF Begun
  <2>5. IsFiniteSet(0 .. u)
    BY FS_Interval
  <2>6. IsFiniteSet(Begun)
    BY <2>1, <2>5, FS_Subset
  <2>7. Max(Begun) \in Begun /\ \A m \in Begun : m <= Max(Begun)
    BY <2>1, <2>6, MaxOfFinite
  <2> QED BY <2>1, <2>2, <2>3, <2>4, <2>7
<1>2. StartOfDay(s) <= s /\ StartOfDay(s) \in Nat
  BY <1>1
<1> QED BY <1>1, <1>2

\* The newest tick is one that was recorded, and none is newer.
LEMMA MaxTickTsIsNewest ==
    ASSUME ViewTypes
    PROVE  /\ MaxTickTs \in Nat
           /\ \A t \in recorded : t.ts <= MaxTickTs
           /\ MaxTickTs > 0 => \E t \in recorded : t.ts = MaxTickTs
<1>1. CASE recorded = {}
  BY <1>1 DEF MaxTickTs, ViewTypes
<1>2. CASE recorded # {}
  <2> DEFINE f == [t \in recorded |-> t.ts]
  <2>1. Seconds(recorded) = {f[t] : t \in recorded}
    BY DEF Seconds
  <2> HIDE DEF f
  <2>2. IsFiniteSet(Seconds(recorded))
    BY <2>1, ImageIsFinite DEF ViewTypes
  <2>3. Seconds(recorded) \in SUBSET Nat /\ Seconds(recorded) # {}
    BY <1>2 DEF ViewTypes, Seconds, Rows
  <2>4. MaxTickTs \in Seconds(recorded) /\ \A y \in Seconds(recorded) : y <= MaxTickTs
    BY <1>2, <2>2, <2>3, MaxOfFinite DEF MaxTickTs
  <2> QED BY <2>3, <2>4 DEF Seconds
<1> QED BY <1>1, <1>2

\* What the queries count are seconds.
LEMMA QueryTypes ==
    ASSUME ViewTypes, NEW p, NEW from, NEW to
    PROVE  /\ AssignedDistinctTicksInRange(from, to) \in SUBSET Nat
           /\ TotalsByProjectSince(p, from) \in SUBSET Nat
           /\ CountDistinctCompanyTicksSince(p, from) \in SUBSET Nat
           /\ UnassignedTicksAllTime \in SUBSET Nat
<1>1. \A t \in recorded : t.ts \in Nat
  BY DEF ViewTypes, Rows
<1> QED BY <1>1 DEF AssignedDistinctTicksInRange, TotalsByProjectSince,
              CountDistinctCompanyTicksSince, UnassignedTicksAllTime, Seconds

\* The reply before the first.
LEMMA EmptyType == Empty \in Reply
  BY ViewAssumption DEF Empty, Reply
-----------------------------------------------------------------------------
(* The steps, by what they change.                                             *)

\* Other clients and the poller change rows: ticks are added, or tagged.
Writing == PollRecords \/ \E p \in Project : Imports(p) \/ Retags(p)
\* They change the companies of projects.
Moving ==
    \/ \E p \in Project : \E k \in Client : ProjectSetCompany(p, k)
    \/ \E k \in Client : CompanyDelete(k)
\* Nothing of what the queries count by, except the anchors.
Passing == ClockTicks \/ PollBegins \/ DaemonRestarts \/ \E k \in Client : Invoiced(k)

\* These are the steps of the daemon and the others.
LEMMA OthersAre == Others => Writing \/ Moving \/ Passing
  BY DEF Others, Writing, Moving, Passing

\* What is written: rows of some second so far. All rows with a project stay; a tagged
\* one keeps its second; and what is added behind the newest is noted.
LEMMA WritingRows ==
    ASSUME ViewTypes, Writing
    PROVE  \E hidden \in SUBSET Rows :
             /\ RowsChange(recorded', hidden)
             /\ recorded' \subseteq Rows /\ IsFiniteSet(recorded')
             /\ \A t \in recorded : t.proj # Unassigned => t \in recorded'
             /\ \A t \in recorded : t \in recorded' \/ \E u \in recorded' \cap hidden : u.ts = t.ts
             /\ \A t \in recorded' : t \in recorded \/ t \in hidden \/ t.ts >= MaxTickTs
<1>1. ASSUME NEW ts \in Nat, NEW p \in Project \cup {Unassigned}, InsertTick(ts, p)
      PROVE  \E hidden \in SUBSET Rows :
             /\ RowsChange(recorded', hidden)
             /\ recorded' \subseteq Rows /\ IsFiniteSet(recorded')
             /\ \A t \in recorded : t \in recorded'
             /\ \A t \in recorded' : t \in recorded \/ t \in hidden \/ t.ts >= MaxTickTs
  <2> DEFINE row == [ts |-> ts, proj |-> p]
             hidden == IF ts < MaxTickTs THEN {row} \ recorded ELSE {}
  <2>1. row \in Rows /\ row.ts = ts
    BY DEF Rows
  <2>2. RowsChange(recorded \cup {row}, hidden)
    BY <1>1 DEF InsertTick
  <2>3. recorded' = recorded \cup {row}
    BY <2>2 DEF RowsChange
  <2>4. IsFiniteSet(recorded')
    BY <2>3, FS_AddElement DEF ViewTypes
  <2>5. MaxTickTs \in Nat
    BY MaxTickTsIsNewest
  <2>6. hidden \in SUBSET Rows /\ (row \in recorded \/ row \in hidden \/ row.ts >= MaxTickTs)
    BY <2>1, <2>5
  <2> HIDE DEF row, hidden
  <2> QED BY <2>1, <2>2, <2>3, <2>4, <2>6 DEF ViewTypes
<1>2. CASE PollRecords
  <2>1. PICK p \in Project \cup {Unassigned} : InsertTick(poll.at, p)
    BY <1>2 DEF PollRecords
  <2>2. poll.at \in Nat
    BY DEF ViewTypes
  <2> QED BY <1>1, <2>1, <2>2
<1>3. CASE \E p \in Project : Imports(p)
  <2>1. PICK p \in Project, ts \in 0 .. second : InsertTick(ts, p)
    BY <1>3 DEF Imports
  <2> QED BY <1>1, <2>1 DEF ViewTypes
<1>4. CASE \E p \in Project : Retags(p)
  <2>1. PICK p \in Project, rows \in SUBSET {t \in recorded : t.proj = Unassigned} :
           RowsChange((recorded \ rows) \cup {[t EXCEPT !.proj = p] : t \in rows},
                      {[t EXCEPT !.proj = p] : t \in rows})
    BY <1>4 DEF Retags
  <2> DEFINE f == [t \in rows |-> [t EXCEPT !.proj = p]]
             tagged == {[t EXCEPT !.proj = p] : t \in rows}
  <2>2. tagged \in SUBSET Rows /\ \A t \in rows : f[t] \in tagged /\ f[t].ts = t.ts
    BY DEF ViewTypes, Rows
  <2>3. tagged = {f[t] : t \in rows}
    OBVIOUS
  <2>4. RowsChange((recorded \ rows) \cup tagged, tagged)
    BY <2>1
  <2> HIDE DEF f, tagged
  <2>5. recorded' = (recorded \ rows) \cup tagged
    BY <2>4 DEF RowsChange
  <2>6. IsFiniteSet(rows)
    BY FS_Subset DEF ViewTypes
  <2>7. IsFiniteSet(tagged)
    BY <2>3, <2>6, ImageIsFinite
  <2>8. IsFiniteSet(recorded \ rows)
    BY FS_Subset DEF ViewTypes
  <2>9. IsFiniteSet(recorded')
    BY <2>5, <2>7, <2>8, FS_Union
  <2> QED BY <2>2, <2>4, <2>5, <2>9 DEF ViewTypes
<1> QED BY <1>1, <1>2, <1>3, <1>4 DEF Writing

\* The projects that are moved are noted by the call under way.
LEMMA MovingCompanies ==
    ASSUME ViewTypes, Moving
    PROVE  /\ billed' \in [Project -> Client] /\ anchor' \in [Client -> Nat]
           /\ UNCHANGED <<second, recorded, poll, up, view, shown>>
           /\ view.pc = "cycle" => body' = body
           /\ view.pc # "cycle" =>
                \E moved \in SUBSET Project :
                   /\ body' = [body EXCEPT !.moved = @ \cup moved]
                   /\ \A p \in Project : p \in moved \/ billed'[p] = billed[p]
<1>1. ASSUME NEW of \in [Project -> Client], CompaniesChange(of)
      PROVE  /\ billed' \in [Project -> Client]
             /\ UNCHANGED <<second, recorded, poll, up, view, shown>>
             /\ view.pc = "cycle" => body' = body
             /\ view.pc # "cycle" =>
                  \E moved \in SUBSET Project :
                     /\ body' = [body EXCEPT !.moved = @ \cup moved]
                     /\ \A p \in Project : p \in moved \/ billed'[p] = billed[p]
  <2> DEFINE moved == {p \in Project : of[p] # billed[p]}
  <2>1. /\ billed' = of /\ UNCHANGED <<second, recorded, poll, up, view, shown>>
        /\ body' = IF view.pc = "cycle" THEN body ELSE [body EXCEPT !.moved = @ \cup moved]
    BY <1>1 DEF CompaniesChange
  <2>2. moved \in SUBSET Project /\ \A p \in Project : p \in moved \/ of[p] = billed[p]
    OBVIOUS
  <2> HIDE DEF moved
  <2> QED BY <2>1, <2>2
<1>2. CASE \E p \in Project : \E k \in Client : ProjectSetCompany(p, k)
  <2>1. PICK p \in Project, k \in Client : CompaniesChange([billed EXCEPT ![p] = k]) /\ anchor' = anchor
    BY <1>2 DEF ProjectSetCompany
  <2>2. [billed EXCEPT ![p] = k] \in [Project -> Client]
    BY DEF ViewTypes
  <2> QED BY <1>1, <2>1, <2>2 DEF ViewTypes
<1>3. CASE \E k \in Client : CompanyDelete(k)
  <2>1. PICK k \in Client :
          /\ CompaniesChange([p \in Project |-> IF billed[p] = k THEN NoCompany ELSE billed[p]])
          /\ anchor' = [anchor EXCEPT ![k] = 0]
    BY <1>3 DEF CompanyDelete
  <2>2. [p \in Project |-> IF billed[p] = k THEN NoCompany ELSE billed[p]] \in [Project -> Client]
    BY ViewAssumption DEF ViewTypes
  <2> QED BY <1>1, <2>1, <2>2 DEF ViewTypes
<1> QED BY <1>2, <1>3 DEF Moving

\* What the other steps leave alone.
LEMMA PassingKeeps ==
    ASSUME ViewTypes, Passing \/ UNCHANGED viewVars
    PROVE  /\ UNCHANGED <<recorded, billed, view, body, shown>>
           /\ second' \in Nat /\ second <= second' /\ up' \in BOOLEAN
           /\ poll' \in [at : 0 .. second', on : BOOLEAN] /\ anchor' \in [Client -> Nat]
<1>1. CASE ClockTicks
  BY <1>1 DEF ClockTicks, ViewTypes
<1>2. CASE PollBegins
  BY <1>2 DEF PollBegins, ViewTypes
<1>3. CASE DaemonRestarts
  <2>1. UNCHANGED <<second, recorded, billed, anchor, view, body, shown>>
    BY <1>3 DEF DaemonRestarts
  <2>2. poll' \in [at : 0 .. second, on : BOOLEAN] /\ up' \in BOOLEAN
    BY <1>3 DEF DaemonRestarts, ViewTypes
  <2> QED BY <2>1, <2>2 DEF ViewTypes
<1>4. CASE \E k \in Client : Invoiced(k)
  BY <1>4 DEF Invoiced, ViewTypes
<1>5. CASE UNCHANGED viewVars
  BY <1>5 DEF viewVars, ViewTypes
<1> QED BY <1>1, <1>2, <1>3, <1>4, <1>5 DEF Passing

\* The types at a step of the view's.
LEMMA CallTypes ==
    ASSUME ViewTypes, ViewStep \/ CallErrs
    PROVE  view' \in Place /\ body' \in Reply /\ shown' \in Reply /\ UNCHANGED daemonVars
<1>0. view \in Place /\ body \in Reply /\ shown \in Reply /\ StartOfDay(second) \in Nat
      /\ MaxTickTs \in Nat
  BY DayOrder, MaxTickTsIsNewest DEF ViewTypes
<1>1. CASE Redial
  BY <1>0, <1>1 DEF Redial, Place, ViewTypes
<1>2. CASE Probe
  <2> DEFINE m == MaxTickTs
             d == StartOfDay(second)
             to == IF StatusBodyChanged(m, d) THEN "call" ELSE view.pc
  <2>1. to \in {"cycle", "call"} \cup Querying /\ m \in Nat /\ d \in Nat
    BY <1>0 DEF Place
  <2>2. view' = [view EXCEPT !.probedTs = m, !.probedDay = d, !.pc = to]
    BY <1>2 DEF Probe
  <2> HIDE DEF to, m, d
  <2>3. body' = Empty /\ shown' = shown /\ UNCHANGED daemonVars
    BY <1>2 DEF Probe
  <2> QED BY <1>0, <2>1, <2>2, <2>3, EmptyType DEF Place
<1>3. CASE CallStatus
  <2> DEFINE d == StartOfDay(second)
             today == AssignedDistinctTicksInRange(d, d + DaySeconds)
  <2>1. d \in Nat /\ anchor \in [Client -> Nat] /\ today \in SUBSET Nat
    BY <1>0, QueryTypes DEF ViewTypes
  <2>2. body' = [body EXCEPT !.day = d, !.since = anchor, !.today = today]
    BY <1>3 DEF CallStatus
  <2> HIDE DEF d, today
  <2>3. body' \in Reply
    BY <1>0, <2>1, <2>2 DEF Reply
  <2>4. view' \in Place /\ shown' = shown /\ UNCHANGED daemonVars
    BY <1>0, <1>3 DEF CallStatus, Place, Querying
  <2> QED BY <1>0, <2>3, <2>4
<1>4. CASE CountProjects
  <2> DEFINE f == [p \in Project |-> TotalsByProjectSince(p, body.since[billed[p]])]
  <2>1. f \in [Project -> SUBSET Nat] /\ billed \in [Project -> Client]
    BY QueryTypes DEF ViewTypes
  <2>2. body' = [body EXCEPT !.of = billed, !.project = f]
    BY <1>4 DEF CountProjects
  <2> HIDE DEF f
  <2>3. body' \in Reply
    BY <1>0, <2>1, <2>2 DEF Reply
  <2>4. view' \in Place /\ shown' = shown /\ UNCHANGED daemonVars
    BY <1>0, <1>4 DEF CountProjects, Place, Querying
  <2> QED BY <1>0, <2>3, <2>4
<1>5. CASE CountCompanies
  <2> DEFINE f == [k \in Client |-> CountDistinctCompanyTicksSince(k, body.since[k])]
  <2>1. f \in [Client -> SUBSET Nat]
    BY QueryTypes
  <2>2. body' = [body EXCEPT !.company = f]
    BY <1>5 DEF CountCompanies
  <2> HIDE DEF f
  <2>3. body' \in Reply
    BY <1>0, <2>1, <2>2 DEF Reply
  <2>4. view' \in Place /\ shown' = shown /\ UNCHANGED daemonVars
    BY <1>0, <1>5 DEF CountCompanies, Place, Querying
  <2> QED BY <1>0, <2>3, <2>4
<1>6. CASE ShowStatus
  <2>1. UnassignedTicksAllTime \in SUBSET Nat
    BY QueryTypes
  <2>2. shown' = [body EXCEPT !.nobody = UnassignedTicksAllTime, !.have = TRUE]
    BY <1>6 DEF ShowStatus
  <2>3. shown' \in Reply
    BY <1>0, <2>1, <2>2 DEF Reply
  <2>4. view' \in Place
    BY <1>0, <1>6 DEF ShowStatus, Place
  <2>5. body' \in Reply /\ UNCHANGED daemonVars
    BY <1>6, EmptyType DEF ShowStatus
  <2> QED BY <2>3, <2>4, <2>5
<1>7. CASE CallBreaks \/ CallErrs
  BY <1>0, <1>7, EmptyType DEF CallBreaks, CallErrs, Dropped, Place
<1> QED BY <1>1, <1>2, <1>3, <1>4, <1>5, <1>6, <1>7 DEF ViewStep

\* Initially.
LEMMA InitViewTypes == ViewInit => ViewTypes
<1> SUFFICES ASSUME ViewInit PROVE ViewTypes
  OBVIOUS
<1>1. /\ second = 0 /\ recorded = {} /\ up = TRUE /\ poll = [at |-> 0, on |-> FALSE]
      /\ billed \in [Project -> Client] /\ anchor = [k \in Client |-> 0]
      /\ body = Empty /\ shown = Empty
      /\ view = [pc |-> "cycle", conn |-> TRUE, probedTs |-> 0, probedDay |-> 0,
                 lastTs |-> 0, lastDay |-> 0]
  BY DEF ViewInit
<1>2. IsFiniteSet(recorded)
  BY <1>1, FS_EmptySet
<1>3. view \in Place
  BY <1>1 DEF Place
<1>4. poll \in [at : 0 .. second, on : BOOLEAN] /\ second \in Nat /\ anchor \in [Client -> Nat]
  BY <1>1
<1> QED BY <1>1, <1>2, <1>3, <1>4, EmptyType DEF ViewTypes

\* Every step keeps the types.
LEMMA ViewTypesKept ==
    ASSUME ViewTypes, ViewNext \/ UNCHANGED viewVars
    PROVE  ViewTypes'
<1>1. CASE ViewStep \/ CallErrs
  <2>1. view' \in Place /\ body' \in Reply /\ shown' \in Reply
        /\ UNCHANGED <<second, recorded, poll, billed, anchor, up>>
    BY <1>1, CallTypes DEF daemonVars
  <2> QED BY <2>1 DEF ViewTypes
<1>2. CASE Writing
  <2>1. PICK hidden \in SUBSET Rows : RowsChange(recorded', hidden)
    BY <1>2, WritingRows
  <2>2. recorded' \subseteq Rows /\ IsFiniteSet(recorded')
    BY <1>2, WritingRows
  <2>3. /\ UNCHANGED <<second, poll, billed, anchor, up, view>>
        /\ body' = body \/ body' = [body EXCEPT !.missed = @ \cup hidden]
        /\ shown' = shown \/ shown' = [shown EXCEPT !.missed = @ \cup hidden]
    BY <2>1 DEF RowsChange
  <2>4. ASSUME NEW reply \in Reply PROVE [reply EXCEPT !.missed = @ \cup hidden] \in Reply
    BY DEF Reply
  <2>5. body' \in Reply /\ shown' \in Reply
    BY <2>3, <2>4 DEF ViewTypes
  <2> QED BY <2>2, <2>3, <2>5 DEF ViewTypes
<1>3. CASE Moving
  <2>1. body' = body \/ \E moved \in SUBSET Project : body' = [body EXCEPT !.moved = @ \cup moved]
    BY <1>3, MovingCompanies
  <2>2. body' \in Reply
    BY <2>1 DEF ViewTypes, Reply
  <2> QED BY <1>3, <2>2, MovingCompanies DEF ViewTypes
<1>4. CASE Passing \/ UNCHANGED viewVars
  BY <1>4, PassingKeeps DEF ViewTypes
<1> QED BY <1>1, <1>2, <1>3, <1>4, OthersAre DEF ViewNext
-----------------------------------------------------------------------------
(* A company's total covers its projects'.                                     *)

\* What a reply says of the projects is said of their companies too.
Covered(reply) ==
    \A p \in Project \ reply.moved : reply.project[p] \subseteq reply.company[reply.of[p]]

\* Between the two queries a project's seconds stay among the rows, counted from the
\* call's own anchors, so that the companies' query meets them again.
ProjectsAreRecorded ==
    \A p \in Project \ body.moved :
        /\ body.of[p] = billed[p]
        /\ body.project[p] \subseteq TotalsByProjectSince(p, body.since[body.of[p]])

\* The inductive invariant: what each query of a reply found still holds at the next.
CoverInv ==
    /\ view.pc = "companies" => ProjectsAreRecorded
    /\ view.pc = "nobody" => Covered(body)
    /\ CompanyCoversProjects

\* A project's seconds are among its company's.
LEMMA ProjectWithinCompany ==
    ASSUME NEW p \in Project, NEW since
    PROVE  TotalsByProjectSince(p, since) \subseteq CountDistinctCompanyTicksSince(billed[p], since)
  BY DEF TotalsByProjectSince, CountDistinctCompanyTicksSince, Seconds

\* Rows of a project stay, so no second of it that was counted is lost.
LEMMA TotalsGrow ==
    ASSUME \A t \in recorded : t.proj # Unassigned => t \in recorded', NEW p \in Project, NEW since
    PROVE  TotalsByProjectSince(p, since) \subseteq TotalsByProjectSince(p, since)'
  BY ViewAssumption DEF TotalsByProjectSince, Seconds

\* The empty reply counts nothing.
LEMMA EmptyCovered == Covered(Empty)
  BY DEF Empty, Covered

\* Nobody but the view moves its place; what the others change is noted.
LEMMA OthersCover ==
    ASSUME ViewTypes, CoverInv, Others \/ UNCHANGED viewVars
    PROVE  CoverInv'
<1>0. body \in Reply /\ shown \in Reply
  BY DEF ViewTypes
<1>1. CASE Writing
  <2>1. PICK hidden \in SUBSET Rows : RowsChange(recorded', hidden)
    BY <1>1, WritingRows
  <2>2. \A t \in recorded : t.proj # Unassigned => t \in recorded'
    BY <1>1, WritingRows
  <2>3. /\ UNCHANGED <<billed, view>>
        /\ body'.moved = body.moved /\ body'.of = body.of /\ body'.since = body.since
        /\ body'.project = body.project /\ body'.company = body.company
        /\ shown'.moved = shown.moved /\ shown'.of = shown.of
        /\ shown'.project = shown.project /\ shown'.company = shown.company
    BY <1>0, <2>1 DEF RowsChange, Reply
  <2>4. view.pc = "companies" => ProjectsAreRecorded'
    <3> SUFFICES ASSUME view.pc = "companies", NEW p \in Project \ body.moved
                 PROVE  body.project[p] \subseteq TotalsByProjectSince(p, body.since[body.of[p]])'
      BY <2>3 DEF CoverInv, ProjectsAreRecorded, TotalsByProjectSince
    <3>1. body.project[p] \subseteq TotalsByProjectSince(p, body.since[body.of[p]])
      BY DEF CoverInv, ProjectsAreRecorded
    <3> DEFINE since == body.since[body.of[p]]
    <3>2. since' = since
      BY <2>3
    <3>3. PICK c : c = since
      OBVIOUS
    <3>4. TotalsByProjectSince(p, c) \subseteq TotalsByProjectSince(p, c)'
      BY <2>2, TotalsGrow
    <3> QED BY <3>1, <3>2, <3>3, <3>4
  <2> QED BY <2>3, <2>4 DEF CoverInv, Covered, CompanyCoversProjects
<1>2. CASE Moving
  <2>1. UNCHANGED <<recorded, view, shown>>
    BY <1>2, MovingCompanies
  <2>2. CASE view.pc = "cycle"
    BY <2>1, <2>2 DEF CoverInv, CompanyCoversProjects
  <2>3. CASE view.pc # "cycle"
    <3>1. PICK moved \in SUBSET Project :
            /\ body' = [body EXCEPT !.moved = @ \cup moved]
            /\ \A p \in Project : p \in moved \/ billed'[p] = billed[p]
      BY <1>2, <2>3, MovingCompanies
    <3>2. /\ body'.moved = body.moved \cup moved /\ body'.of = body.of /\ body'.since = body.since
          /\ body'.project = body.project /\ body'.company = body.company
      BY <1>0, <3>1 DEF Reply
    <3> QED BY <2>1, <3>1, <3>2 DEF CoverInv, Covered, ProjectsAreRecorded, CompanyCoversProjects,
                  TotalsByProjectSince
  <2> QED BY <2>2, <2>3
<1>3. CASE Passing \/ UNCHANGED viewVars
  <2>1. UNCHANGED <<recorded, billed, view, body, shown>>
    BY <1>3, PassingKeeps
  <2> QED BY <2>1 DEF CoverInv, Covered, ProjectsAreRecorded, CompanyCoversProjects,
                      TotalsByProjectSince
<1> QED BY <1>1, <1>2, <1>3, OthersAre

\* Each query of the call keeps it.
LEMMA QueriesCover ==
    ASSUME ViewTypes, CoverInv, ViewStep \/ CallErrs
    PROVE  CoverInv'
<1>0. view \in Place /\ body \in Reply /\ billed \in [Project -> Client]
  BY DEF ViewTypes
<1>1. CASE Redial \/ Probe \/ CallStatus \/ CallBreaks \/ CallErrs
  <2>1. view'.pc \notin {"companies", "nobody"} /\ shown' = shown
    BY <1>0, <1>1 DEF Redial, Probe, CallStatus, CallBreaks, CallErrs, Dropped, Place
  <2> QED BY <2>1 DEF CoverInv, CompanyCoversProjects
<1>2. CASE CountProjects
  <2>1. /\ view'.pc = "companies" /\ recorded' = recorded /\ billed' = billed /\ shown' = shown
    BY <1>0, <1>2 DEF CountProjects, daemonVars, Place
  <2>2. /\ body'.since = body.since /\ body'.of = billed
        /\ body'.project = [p \in Project |-> TotalsByProjectSince(p, body.since[billed[p]])]
    BY <1>0, <1>2 DEF CountProjects, Reply
  <2>3. ProjectsAreRecorded'
    BY <2>1, <2>2 DEF ProjectsAreRecorded, TotalsByProjectSince
  <2> QED BY <2>1, <2>3 DEF CoverInv, CompanyCoversProjects
<1>3. CASE CountCompanies
  <2>1. view.pc = "companies" /\ view'.pc = "nobody" /\ shown' = shown
    BY <1>0, <1>3 DEF CountCompanies, Place
  <2>2. /\ body'.project = body.project /\ body'.of = body.of /\ body'.moved = body.moved
        /\ body'.company = [k \in Client |-> CountDistinctCompanyTicksSince(k, body.since[k])]
    BY <1>0, <1>3 DEF CountCompanies, Reply
  <2>3. Covered(body)'
    <3> SUFFICES ASSUME NEW p \in Project \ body.moved
                 PROVE  body.project[p] \subseteq body'.company[body.of[p]]
      BY <2>2 DEF Covered
    <3>1. /\ body.of[p] = billed[p]
          /\ body.project[p] \subseteq TotalsByProjectSince(p, body.since[body.of[p]])
      BY <2>1 DEF CoverInv, ProjectsAreRecorded
    <3>2. body'.company[billed[p]]
             = CountDistinctCompanyTicksSince(billed[p], body.since[billed[p]])
      BY <1>0, <2>2
    <3> QED BY <3>1, <3>2, ProjectWithinCompany
  <2> QED BY <2>1, <2>3 DEF CoverInv, CompanyCoversProjects
<1>4. CASE ShowStatus
  <2>1. view.pc = "nobody" /\ view'.pc = "cycle"
    BY <1>0, <1>4 DEF ShowStatus, Place
  <2>2. /\ shown'.project = body.project /\ shown'.company = body.company
        /\ shown'.of = body.of /\ shown'.moved = body.moved
    BY <1>0, <1>4 DEF ShowStatus, Reply
  <2>3. Covered(body)
    BY <2>1 DEF CoverInv
  <2> QED BY <2>1, <2>2, <2>3 DEF CoverInv, Covered, CompanyCoversProjects
<1> QED BY <1>1, <1>2, <1>3, <1>4 DEF ViewStep

\* Both at every step.
LEMMA CoverNext ==
    ViewTypes /\ CoverInv /\ [ViewNext]_viewVars => (ViewTypes /\ CoverInv)'
  BY ViewTypesKept, OthersCover, QueriesCover DEF ViewNext

\* Initially nothing has been asked.
LEMMA CoverInit == ViewInit => ViewTypes /\ CoverInv
<1> SUFFICES ASSUME ViewInit PROVE CoverInv
  BY InitViewTypes
<1>1. view.pc = "cycle" /\ shown = Empty
  BY DEF ViewInit
<1> QED BY <1>1, EmptyCovered DEF CoverInv, CompanyCoversProjects, Covered

\* Every reply that is shown gives a company at least the seconds of each of its
\* projects that did not change company while it was made (Status), for any clients,
\* projects and interleaving.
THEOREM ProjectsCovered == ViewSpec => []CompanyCoversProjects
<1>1. ViewSpec => []CoverInv
  BY CoverInit, CoverNext, PTL DEF ViewSpec
<1>2. CoverInv => CompanyCoversProjects
  BY DEF CoverInv
<1> QED BY <1>1, <1>2, PTL
-----------------------------------------------------------------------------
(* The view is up to date: what a probe found newest is what the reply shows.  *)

\* The rows G hold all that was recorded before ts and something of it.
Knows(G, ts) ==
    /\ \A t \in recorded : t.ts < ts => t \in G
    /\ ts > 0 => \E t \in recorded : t \in G /\ t.ts = ts

\* What the queries made so far have counted of a row.
Counted(t) ==
    t.proj # Unassigned =>
      LET k == body.of[t.proj]
      IN  /\ view.pc \in Querying /\ t.ts >= body.day /\ t.ts < body.day + DaySeconds
                => t.ts \in body.today
          /\ view.pc \in {"companies", "nobody"} /\ t.ts >= body.since[k]
                => t.ts \in body.project[t.proj]
          /\ view.pc = "nobody" /\ t.ts >= body.since[k] /\ t.proj \notin body.moved
                => t.ts \in body.company[k]

\* The inductive invariant: each query of a call counts all the rows of its probe, but
\* those noted since; and the last reply shows all those of its own probe.
CallKnows ==
    view.pc # "cycle" =>
       /\ view.probedDay <= StartOfDay(second)
       /\ view.pc \in Querying => view.probedDay <= body.day /\ body.day <= StartOfDay(second)
       /\ \E G \in SUBSET Rows : Knows(G, view.probedTs) /\ \A t \in G : t \in body.missed \/ Counted(t)
ReplyKnows ==
    shown.have =>
       /\ view.lastDay <= shown.day /\ shown.day <= StartOfDay(second)
       /\ \E G \in SUBSET Rows : Knows(G, view.lastTs) /\ \A t \in G : Accounted(t)
FreshInv == CallKnows /\ ReplyKnows

\* What is known stays so when rows are written, with those that are noted.
LEMMA KnowledgeLasts ==
    ASSUME ViewTypes, NEW G, NEW hidden, NEW ts \in Nat, Knows(G, ts),
           \A t \in recorded : t \in recorded' \/ \E u \in recorded' \cap hidden : u.ts = t.ts,
           \A t \in recorded' : t \in recorded \/ t \in hidden \/ t.ts >= MaxTickTs,
           recorded' \subseteq Rows
    PROVE  Knows(G \cup hidden, ts)'
<1>1. ts <= MaxTickTs /\ MaxTickTs \in Nat
  <2>1. \A t \in recorded : t.ts <= MaxTickTs
    BY MaxTickTsIsNewest
  <2> QED BY <2>1, MaxTickTsIsNewest DEF Knows
<1>2. \A t \in recorded' : t.ts \in Nat
  BY DEF Rows
<1>3. ASSUME NEW t \in recorded', t.ts < ts PROVE t \in G \cup hidden
  BY <1>1, <1>2, <1>3 DEF Knows
<1>4. ASSUME ts > 0 PROVE \E t \in recorded' : t \in G \cup hidden /\ t.ts = ts
  <2>1. PICK t \in recorded : t \in G /\ t.ts = ts
    BY <1>4 DEF Knows
  <2> QED BY <2>1
<1> QED BY <1>3, <1>4 DEF Knows

\* The rows that are written leave both known.
LEMMA WritingFresh ==
    ASSUME ViewTypes, FreshInv, Writing
    PROVE  FreshInv'
<1>0. view \in Place /\ body \in Reply /\ shown \in Reply
  BY DEF ViewTypes
<1>1. PICK hidden \in SUBSET Rows :
        /\ RowsChange(recorded', hidden)
        /\ recorded' \subseteq Rows
        /\ \A t \in recorded : t \in recorded' \/ \E u \in recorded' \cap hidden : u.ts = t.ts
        /\ \A t \in recorded' : t \in recorded \/ t \in hidden \/ t.ts >= MaxTickTs
  BY WritingRows
<1>2. UNCHANGED <<second, view>>
  BY <1>1 DEF RowsChange
<1>3. CallKnows'
  <2> SUFFICES ASSUME view.pc # "cycle" PROVE CallKnows'
    BY <1>2 DEF CallKnows
  <2>1. body' = [body EXCEPT !.missed = @ \cup hidden]
    BY <1>1 DEF RowsChange
  <2>2. /\ body'.missed = body.missed \cup hidden /\ body'.day = body.day /\ body'.today = body.today
        /\ body'.since = body.since /\ body'.of = body.of /\ body'.project = body.project
        /\ body'.company = body.company /\ body'.moved = body.moved
    BY <1>0, <2>1 DEF Reply
  <2>3. PICK G \in SUBSET Rows :
           Knows(G, view.probedTs) /\ \A t \in G : t \in body.missed \/ Counted(t)
    BY DEF FreshInv, CallKnows
  <2>4. PICK ts \in Nat : ts = view.probedTs
    BY <1>0 DEF Place
  <2>5. Knows(G \cup hidden, ts)'
    BY <1>1, <2>3, <2>4, KnowledgeLasts
  <2>6. \A t \in G \cup hidden : t \in body'.missed \/ Counted(t)'
    BY <1>2, <2>2, <2>3 DEF Counted
  <2>7. Knows(G \cup hidden, view.probedTs)'
    BY <1>2, <2>4, <2>5 DEF Knows
  <2>8. G \cup hidden \in SUBSET Rows
    BY <1>1, <2>3
  <2> QED BY <1>2, <2>2, <2>6, <2>7, <2>8 DEF FreshInv, CallKnows
<1>4. ReplyKnows'
  <2> SUFFICES ASSUME shown.have PROVE ReplyKnows'
    BY <1>1 DEF RowsChange, ReplyKnows
  <2>1. shown' = [shown EXCEPT !.missed = @ \cup hidden]
    BY <1>1 DEF RowsChange
  <2>2. /\ shown'.missed = shown.missed \cup hidden /\ shown'.day = shown.day
        /\ shown'.today = shown.today /\ shown'.nobody = shown.nobody
        /\ shown'.since = shown.since /\ shown'.of = shown.of /\ shown'.project = shown.project
        /\ shown'.company = shown.company /\ shown'.moved = shown.moved
    BY <1>0, <2>1 DEF Reply
  <2>3. PICK G \in SUBSET Rows : Knows(G, view.lastTs) /\ \A t \in G : Accounted(t)
    BY DEF FreshInv, ReplyKnows
  <2>4. PICK ts \in Nat : ts = view.lastTs
    BY <1>0 DEF Place
  <2>5. Knows(G \cup hidden, ts)'
    BY <1>1, <2>3, <2>4, KnowledgeLasts
  <2>6. \A t \in G \cup hidden : Accounted(t)'
    BY <2>2, <2>3 DEF Accounted, Displayed
  <2>7. Knows(G \cup hidden, view.lastTs)'
    BY <1>2, <2>4, <2>5 DEF Knows
  <2>8. G \cup hidden \in SUBSET Rows
    BY <1>1, <2>3
  <2> QED BY <1>2, <2>2, <2>6, <2>7, <2>8 DEF FreshInv, ReplyKnows
<1> QED BY <1>3, <1>4 DEF FreshInv

\* A company changed during the call is noted; the rest of the world leaves both known.
LEMMA OthersFresh ==
    ASSUME ViewTypes, FreshInv, Moving \/ Passing \/ UNCHANGED viewVars
    PROVE  FreshInv'
<1>0. view \in Place /\ body \in Reply /\ shown \in Reply /\ second \in Nat
  BY DEF ViewTypes
<1>1. UNCHANGED <<recorded, view, shown>> /\ second' \in Nat /\ second <= second'
  BY <1>0, MovingCompanies, PassingKeeps
<1>2. /\ StartOfDay(second) \in Nat /\ StartOfDay(second') \in Nat
      /\ StartOfDay(second) <= StartOfDay(second')
  BY <1>0, <1>1, DayOrder
<1>3. \/ body' = body
      \/ \E moved \in SUBSET Project : body' = [body EXCEPT !.moved = @ \cup moved]
  BY MovingCompanies, PassingKeeps
<1>4. /\ body'.missed = body.missed /\ body'.day = body.day /\ body'.today = body.today
      /\ body'.since = body.since /\ body'.of = body.of /\ body'.project = body.project
      /\ body'.company = body.company /\ body.moved \subseteq body'.moved
  BY <1>0, <1>3 DEF Reply
<1>5. \A t : Counted(t) => Counted(t)'
  BY <1>1, <1>4 DEF Counted
<1>6. CallKnows'
  <2> SUFFICES ASSUME view.pc # "cycle" PROVE CallKnows'
    BY <1>1 DEF CallKnows
  <2>1. PICK G \in SUBSET Rows :
           Knows(G, view.probedTs) /\ \A t \in G : t \in body.missed \/ Counted(t)
    BY DEF FreshInv, CallKnows
  <2>2. Knows(G, view.probedTs)' /\ \A t \in G : t \in body'.missed \/ Counted(t)'
    BY <1>1, <1>4, <1>5, <2>1 DEF Knows
  <2>3. view.probedDay <= StartOfDay(second') /\ (body.day <= StartOfDay(second) => body.day <= StartOfDay(second'))
    BY <1>0, <1>2 DEF FreshInv, CallKnows, Place, Reply
  <2>4. StartOfDay(second)' = StartOfDay(second')
    BY DEF StartOfDay
  <2> QED BY <1>1, <1>4, <2>2, <2>3, <2>4 DEF FreshInv, CallKnows
<1>7. ReplyKnows'
  <2> SUFFICES ASSUME shown.have PROVE ReplyKnows'
    BY <1>1 DEF ReplyKnows
  <2>1. PICK G \in SUBSET Rows : Knows(G, view.lastTs) /\ \A t \in G : Accounted(t)
    BY DEF FreshInv, ReplyKnows
  <2>2. Knows(G, view.lastTs)' /\ \A t \in G : Accounted(t)'
    BY <1>1, <2>1 DEF Knows, Accounted, Displayed
  <2>3. shown.day <= StartOfDay(second')
    BY <1>0, <1>2 DEF FreshInv, ReplyKnows, Reply
  <2>4. StartOfDay(second)' = StartOfDay(second')
    BY DEF StartOfDay
  <2> QED BY <1>1, <2>2, <2>3, <2>4 DEF FreshInv, ReplyKnows
<1> QED BY <1>6, <1>7 DEF FreshInv

\* A query of the call counts every row that is there.
LEMMA QueriesCount ==
    ASSUME ViewTypes, CoverInv, NEW t \in recorded, Counted(t),
           CallStatus \/ CountProjects \/ CountCompanies
    PROVE  Counted(t)'
<1> SUFFICES ASSUME t.proj # Unassigned PROVE Counted(t)'
  BY DEF Counted
<1>0. /\ t.ts \in Nat /\ t.proj \in Project /\ view \in Place /\ body \in Reply
      /\ billed \in [Project -> Client]
  BY DEF ViewTypes, Rows
<1>1. CASE CallStatus
  <2> DEFINE d == StartOfDay(second)
             today == AssignedDistinctTicksInRange(d, d + DaySeconds)
  <2>1. body' = [body EXCEPT !.day = d, !.since = anchor, !.today = today]
    BY <1>1 DEF CallStatus
  <2>2. t.ts >= d /\ t.ts < d + DaySeconds => t.ts \in today
    BY DEF AssignedDistinctTicksInRange, Seconds
  <2> HIDE DEF d, today
  <2>3. body'.day = d /\ body'.today = today
    BY <1>0, <2>1 DEF Reply
  <2>4. view'.pc = "projects"
    BY <1>0, <1>1 DEF CallStatus, Place
  <2> QED BY <2>2, <2>3, <2>4 DEF Counted
<1>2. CASE CountProjects
  <2>1. view.pc = "projects" /\ view'.pc = "companies"
    BY <1>0, <1>2 DEF CountProjects, Place
  <2>2. /\ body'.day = body.day /\ body'.today = body.today /\ body'.since = body.since
        /\ body'.of = billed
        /\ body'.project = [p \in Project |-> TotalsByProjectSince(p, body.since[billed[p]])]
    BY <1>0, <1>2 DEF CountProjects, Reply
  <2>3. body'.project[t.proj] = TotalsByProjectSince(t.proj, body.since[billed[t.proj]])
    BY <1>0, <2>2
  <2>4. t.ts >= body.since[billed[t.proj]] => t.ts \in body'.project[t.proj]
    BY <2>3 DEF TotalsByProjectSince, Seconds
  <2> QED BY <2>1, <2>2, <2>4 DEF Counted, Querying
<1>3. CASE CountCompanies
  <2>1. view.pc = "companies" /\ view'.pc = "nobody"
    BY <1>0, <1>3 DEF CountCompanies, Place
  <2>2. /\ body'.day = body.day /\ body'.today = body.today /\ body'.since = body.since
        /\ body'.of = body.of /\ body'.project = body.project /\ body'.moved = body.moved
        /\ body'.company = [k \in Client |-> CountDistinctCompanyTicksSince(k, body.since[k])]
    BY <1>0, <1>3 DEF CountCompanies, Reply
  <2>3. ASSUME t.ts >= body.since[body.of[t.proj]], t.proj \notin body.moved
        PROVE  t.ts \in body'.company[body.of[t.proj]]
    <3>1. body.of[t.proj] = billed[t.proj]
      BY <1>0, <2>1, <2>3 DEF CoverInv, ProjectsAreRecorded
    <3>2. body'.company[billed[t.proj]]
             = CountDistinctCompanyTicksSince(billed[t.proj], body.since[billed[t.proj]])
      BY <1>0, <2>2
    <3> QED BY <1>0, <2>3, <3>1, <3>2 DEF CountDistinctCompanyTicksSince, Seconds
  <2> QED BY <2>1, <2>2, <2>3 DEF Counted, Querying
<1> QED BY <1>1, <1>2, <1>3

\* The last query: what the reply shows of the rows it counted.
LEMMA RepliesShow ==
    ASSUME ViewTypes, NEW t \in recorded, t \in body.missed \/ Counted(t), ShowStatus
    PROVE  Accounted(t)'
<1>1. view.pc = "nobody" /\ shown' = [body EXCEPT !.nobody = UnassignedTicksAllTime, !.have = TRUE]
  BY DEF ShowStatus
<1>2. /\ shown'.day = body.day /\ shown'.today = body.today /\ shown'.of = body.of
      /\ shown'.since = body.since /\ shown'.project = body.project
      /\ shown'.company = body.company /\ shown'.nobody = UnassignedTicksAllTime
      /\ shown'.missed = body.missed /\ shown'.moved = body.moved
  BY <1>1 DEF ViewTypes, Reply
<1>3. CASE t.proj = Unassigned
  BY <1>2, <1>3 DEF Accounted, Displayed, UnassignedTicksAllTime, Seconds
<1>4. CASE t.proj # Unassigned
  BY <1>1, <1>2, <1>4 DEF Accounted, Displayed, Counted, Querying
<1> QED BY <1>3, <1>4

\* The steps of the view keep both known.
LEMMA ViewFreshKept ==
    ASSUME ViewTypes, CoverInv, FreshInv, ViewStep \/ CallErrs
    PROVE  FreshInv'
<1>0. /\ view \in Place /\ body \in Reply /\ shown \in Reply /\ second \in Nat
      /\ StartOfDay(second) \in Nat
  BY DayOrder DEF ViewTypes
<1>1. UNCHANGED <<second, recorded>> /\ StartOfDay(second)' = StartOfDay(second)
  <2>1. UNCHANGED <<second, recorded>>
    BY CallTypes DEF daemonVars
  <2> QED BY <2>1 DEF StartOfDay
<1>2. ASSUME shown' = shown, view'.lastTs = view.lastTs, view'.lastDay = view.lastDay
      PROVE  ReplyKnows'
  <2> SUFFICES ASSUME shown.have PROVE ReplyKnows'
    BY <1>2 DEF ReplyKnows
  <2>1. PICK G \in SUBSET Rows : Knows(G, view.lastTs) /\ \A t \in G : Accounted(t)
    BY DEF FreshInv, ReplyKnows
  <2>2. Knows(G, view.lastTs)' /\ \A t \in G : Accounted(t)'
    BY <1>1, <1>2, <2>1 DEF Knows, Accounted, Displayed
  <2> QED BY <1>1, <1>2, <2>2 DEF FreshInv, ReplyKnows
<1>3. CASE Redial \/ CallBreaks \/ CallErrs
  <2>1. /\ view'.pc = "cycle" /\ shown' = shown
        /\ view'.lastTs = view.lastTs /\ view'.lastDay = view.lastDay
    BY <1>0, <1>3 DEF Redial, CallBreaks, CallErrs, Dropped, Place
  <2> QED BY <1>2, <2>1 DEF FreshInv, CallKnows
<1>4. CASE Probe
  <2>1. /\ shown' = shown /\ view'.lastTs = view.lastTs /\ view'.lastDay = view.lastDay
        /\ view'.probedTs = MaxTickTs /\ view'.probedDay = StartOfDay(second)
        /\ view'.pc \in {"cycle", "call"}
    BY <1>0, <1>4 DEF Probe, Place
  <2>2. Knows(recorded, MaxTickTs)
    BY MaxTickTsIsNewest DEF Knows
  <2>3. Knows(recorded, view.probedTs)' /\ recorded \in SUBSET Rows
    BY <1>1, <2>1, <2>2 DEF Knows, ViewTypes
  <2>4. \A t \in recorded : Counted(t)'
    BY <2>1 DEF Counted, Querying
  <2>5. CallKnows'
    BY <1>0, <1>1, <2>1, <2>3, <2>4 DEF CallKnows, Querying
  <2> QED BY <1>2, <2>1, <2>5 DEF FreshInv
<1>5. CASE CallStatus \/ CountProjects \/ CountCompanies
  <2>1. /\ shown' = shown /\ view'.lastTs = view.lastTs /\ view'.lastDay = view.lastDay
        /\ view'.probedTs = view.probedTs /\ view'.probedDay = view.probedDay
        /\ view.pc # "cycle" /\ body'.missed = body.missed
    BY <1>0, <1>5 DEF CallStatus, CountProjects, CountCompanies, Place, Reply
  <2>2. PICK G \in SUBSET Rows :
           Knows(G, view.probedTs) /\ \A t \in G : t \in body.missed \/ Counted(t)
    BY <2>1 DEF FreshInv, CallKnows
  <2>3. \A t \in G \cap recorded : t \in body'.missed \/ Counted(t)'
    BY <1>5, <2>1, <2>2, QueriesCount
  <2>4. Knows(G \cap recorded, view.probedTs)' /\ G \cap recorded \in SUBSET Rows
    BY <1>1, <2>1, <2>2 DEF Knows
  <2>5. view.probedDay <= body'.day /\ body'.day <= StartOfDay(second)
    <3>1. CASE CallStatus
      BY <1>0, <2>1, <3>1 DEF CallStatus, Reply, FreshInv, CallKnows, Place
    <3>2. CASE CountProjects \/ CountCompanies
      <4>1. body'.day = body.day /\ view.pc \in Querying
        BY <1>0, <3>2 DEF CountProjects, CountCompanies, Reply, Querying
      <4> QED BY <2>1, <4>1 DEF FreshInv, CallKnows
    <3> QED BY <1>5, <3>1, <3>2
  <2>6. CallKnows'
    <3>1. view.probedDay <= StartOfDay(second)
      BY <2>1 DEF FreshInv, CallKnows
    <3> QED BY <1>1, <2>1, <2>3, <2>4, <2>5, <3>1 DEF CallKnows
  <2> QED BY <1>2, <2>1, <2>6 DEF FreshInv
<1>6. CASE ShowStatus
  <2>1. /\ view.pc = "nobody" /\ view'.pc = "cycle"
        /\ view'.lastTs = view.probedTs /\ view'.lastDay = view.probedDay
        /\ shown'.day = body.day
    BY <1>0, <1>6 DEF ShowStatus, Place, Reply
  <2>2. PICK G \in SUBSET Rows :
           Knows(G, view.probedTs) /\ \A t \in G : t \in body.missed \/ Counted(t)
    BY <2>1 DEF FreshInv, CallKnows
  <2>3. \A t \in G \cap recorded : Accounted(t)'
    BY <1>6, <2>2, RepliesShow
  <2>4. Knows(G \cap recorded, view.lastTs)' /\ G \cap recorded \in SUBSET Rows
    BY <1>1, <2>1, <2>2 DEF Knows
  <2>5. view.probedDay <= body.day /\ body.day <= StartOfDay(second)
    BY <2>1 DEF FreshInv, CallKnows, Querying
  <2> QED BY <1>1, <2>1, <2>3, <2>4, <2>5 DEF FreshInv, CallKnows, ReplyKnows
<1> QED BY <1>3, <1>4, <1>5, <1>6 DEF ViewStep

\* When the view would not fetch, its reply's probe found what is newest now.
LEMMA NothingNewer == ASSUME ViewTypes, FreshInv PROVE ViewFresh
<1> SUFFICES ASSUME ~StatusBodyChanged(MaxTickTs, StartOfDay(second)) PROVE UpToDate
  BY DEF ViewFresh
<1>1. shown.have /\ view.lastTs = MaxTickTs /\ view.lastDay = StartOfDay(second)
  BY DEF StatusBodyChanged
<1>2. PICK G \in SUBSET Rows : Knows(G, view.lastTs) /\ \A t \in G : Accounted(t)
  BY <1>1 DEF FreshInv, ReplyKnows
<1>3. shown.day = StartOfDay(second)
  <2>1. shown.day \in Nat /\ StartOfDay(second) \in Nat
    BY DayOrder DEF ViewTypes, Reply
  <2> QED BY <1>1, <2>1 DEF FreshInv, ReplyKnows
<1> QED BY <1>1, <1>2, <1>3 DEF UpToDate, Knows

\* Whenever the view would not fetch the body, it shows today's and every row of the
\* ticks before the newest, and something of the newest, all but those a tag, an import
\* or a late tick put there since the reply's probe (runStatusLive, statusBodyChanged):
\* for any clients, projects, days and interleaving.
THEOREM ViewIsFresh == ViewSpec => []ViewFresh
<1>1. ViewInit => ViewTypes /\ CoverInv /\ FreshInv
  <2> SUFFICES ASSUME ViewInit PROVE FreshInv
    BY CoverInit
  <2>1. view.pc = "cycle" /\ shown.have = FALSE
    BY DEF ViewInit, Empty
  <2> QED BY <2>1 DEF FreshInv, CallKnows, ReplyKnows
<1>2. ViewTypes /\ CoverInv /\ FreshInv /\ [ViewNext]_viewVars => (ViewTypes /\ CoverInv /\ FreshInv)'
  <2> SUFFICES ASSUME ViewTypes, CoverInv, FreshInv, ViewNext \/ UNCHANGED viewVars
               PROVE  FreshInv'
    BY CoverNext
  <2> QED BY WritingFresh, OthersFresh, ViewFreshKept, OthersAre DEF ViewNext
<1>3. ViewTypes /\ FreshInv => ViewFresh
  BY NothingNewer
<1> QED BY <1>1, <1>2, <1>3, PTL DEF ViewSpec
=============================================================================
