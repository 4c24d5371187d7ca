----------------------------- MODULE Invoicing -----------------------------
(***************************************************************************)
(* Billing: rpc_invoice.go (InvoiceGenerate, InvoiceAdvance), the invoice  *)
(* and company handlers of rpc.go, and the poller that records the hours.  *)
(*                                                                         *)
(* The pool holds one connection.  A transaction holds it from BeginTx to  *)
(* its end, so nobody sees its writes before the commit: they are made in  *)
(* place here, and saved is what a rollback or a crash restores.  A        *)
(* statement outside a transaction waits until the connection is free.     *)
(*                                                                         *)
(* Time is in seconds, one tick a second; a counted second costs Rate      *)
(* (ComputeLineItem's rounding to hundredths of an hour is left out).      *)
(* One currency.  Company settings do not change.                          *)
(***************************************************************************)
EXTENDS Integers, FiniteSets, FiniteSetsExt, Functions

CONSTANTS
    Company, Project, Sender, Caller,
    CompanyOf,      \* the company of each project
    CreatedAt,      \* the second in which each company is created
    BilledFrom,     \* the sender of each company
    Mode,           \* the billing mode of each company
    Rate,           \* cents per counted second, or per month
    FirstNumber,    \* next_number of the configuration, for a sender's first invoice
    NoCaller,
    Requests,       \* the calls the clients make, see Request
    MayFail,        \* TRUE: a statement, a rendering or a rename can fail
    MayCrash,       \* TRUE: the daemon can stop and start again
    MayPause,       \* TRUE: projects are paused and resumed
    PollerLags,     \* TRUE: a tick can be written in a later second than its own
    MaxClock,       \* bound: the last second
    MaxCalls        \* bound: RPC calls

\* Arguments of a call; 0 or FALSE where it does not have one or does not set it.
Request == [kind : {"generate", "advance", "send", "invoiceDelete", "companyDelete"},
            company : Company, issue : Nat, from : Nat, to : Nat, amount : Int,
            discount : Int, noCredit : BOOLEAN, allowEmpty : BOOLEAN,
            dryRun : BOOLEAN, force : BOOLEAN]

ASSUME ConstantsAssumption ==
    /\ CompanyOf \in [Project -> Company]
    /\ CreatedAt \in [Company -> Nat]
    /\ BilledFrom \in [Company -> Sender]
    /\ Mode \in [Company -> {"hourly", "monthly_fixed"}]
    /\ Rate \in Nat
    /\ FirstNumber \in Nat \ {0}
    /\ NoCaller \notin Caller
    /\ Requests \subseteq Request
    /\ \A r \in Requests : r.kind = "advance" => r.discount = 0
    /\ MaxClock \in Nat \ {0} /\ MaxCalls \in Nat
    /\ {MayFail, MayCrash, MayPause, PollerLags} \subseteq BOOLEAN

VARIABLES
    clock,
    polling,        \* the second of the poll tick in progress, 0 if none
    paused,         \* rows of projects with paused = 1
    ticks,          \* rows of ticks: [ts, proj]
    companies,      \* rows of companies
    invoices,       \* rows of invoices
    next,           \* sender_state.next_invoice_number, 0 without a row
    conn,           \* the caller whose transaction holds the connection
    saved,          \* what the transaction found
    temp, final,    \* PDFs at hidden temporary and at client-facing paths
    pc, req,        \* per caller: where it is in its handler, and its variables
    calls,
    issued          \* history: the numbers committed for each sender

dbVars == <<paused, ticks, companies, invoices, next>>
txVars == <<conn, saved>>
fileVars == <<temp, final>>
timeVars == <<clock, polling>>
vars == <<timeVars, dbVars, txVars, fileVars, pc, req, calls, issued>>

NoNumber == 0
Idle == [args |-> {}, now |-> 0, from |-> 0, to |-> 0, secs |-> {},
         number |-> NoNumber, applied |-> 0, id |-> 0]
Args(c) == CHOOSE r \in req[c].args : TRUE

-----------------------------------------------------------------------------
(* Queries and pure helpers.                                               *)
NextId(S) == IF S = {} THEN 1 ELSE Max({i.id : i \in S}) + 1

\* The anchor: the latest invoice that is not an advance.
LastInvoiceSent(k) ==
    LET sent == {i.sent : i \in {j \in invoices : j.company = k /\ j.kind # "advance"}}
    IN IF sent = {} THEN 0 ELSE Max(sent)

SecondsBetween(k, from, to) ==
    {t.ts : t \in {u \in ticks : /\ CompanyOf[u.proj] = k /\ k \in companies
                                 /\ u.proj \notin paused
                                 /\ from <= u.ts /\ u.ts < to}}

CreditBalance(k) ==
    LET rows == {i \in invoices : i.company = k}
    IN SumFunctionOnSet([i \in invoices |-> i.total], {i \in rows : i.kind = "advance"})
       - SumFunctionOnSet([i \in invoices |-> i.applied], rows)

\* Mutant: no lower clamp.
ApplyCreditNoFloor(credit, line, goodwill) == Min({credit, Max({0, line - goodwill})})

\* Mutant: the credit left is not a limit.
ApplyCreditNoLimit(credit, line, goodwill) == IF credit > 0 THEN Max({0, line - goodwill}) ELSE 0

ApplyCredit(credit, line, goodwill) ==
    Max({0, Min({credit, Max({0, line - goodwill})})})

LineTotal(c) ==
    IF Args(c).kind = "advance" THEN Args(c).amount
    ELSE IF Mode[Args(c).company] = "hourly" THEN Cardinality(req[c].secs) * Rate ELSE Rate

\* BuildDoc refuses a reduction below zero, or reductions above the line.
Valid(c) ==
    /\ Args(c).discount >= 0 /\ req[c].applied >= 0
    /\ Args(c).discount + req[c].applied <= LineTotal(c)

-----------------------------------------------------------------------------
(* The poller.  A tick's second is fixed when it fires.                    *)
Second ==
    /\ clock < MaxClock
    /\ PollerLags \/ polling = 0
    /\ clock' = clock + 1
    /\ polling' = IF polling = 0 THEN clock + 1 ELSE polling
    /\ UNCHANGED <<dbVars, txVars, fileVars, pc, req, calls, issued>>

\* A tick that saw nothing returns without using the database.
EmptyTick ==
    /\ polling > 0
    /\ polling' = 0
    /\ UNCHANGED <<clock, dbVars, txVars, fileVars, pc, req, calls, issued>>

\* The tick credits some of the projects that are not paused.
RecordTick ==
    /\ polling > 0 /\ conn = NoCaller
    /\ \E P \in SUBSET (Project \ paused) :
         ticks' = ticks \cup {[ts |-> polling, proj |-> p] : p \in P}
    /\ polling' = 0
    /\ UNCHANGED <<clock, paused, companies, invoices, next, txVars, fileVars,
                   pc, req, calls, issued>>

SetPaused(p) ==
    /\ MayPause /\ conn = NoCaller
    /\ paused' \in {paused \cup {p}, paused \ {p}} /\ paused' # paused
    /\ UNCHANGED <<timeVars, ticks, companies, invoices, next, txVars, fileVars,
                   pc, req, calls, issued>>

\* A company is created; its projects may have been recorded long before.
CompanyAdd(k) ==
    /\ k \notin companies /\ clock = CreatedAt[k] /\ conn = NoCaller
    /\ companies' = companies \cup {k}
    /\ UNCHANGED <<timeVars, paused, ticks, invoices, next, txVars, fileVars,
                   pc, req, calls, issued>>

-----------------------------------------------------------------------------
(* The handlers.                                                           *)
Called(c, r, kind) ==
    /\ pc[c] = "idle" /\ calls < MaxCalls /\ r.kind = kind
    /\ conn = NoCaller
    /\ calls' = calls + 1
    /\ UNCHANGED <<timeVars, paused, ticks, companies, next, txVars, fileVars, issued>>

Goto(c, where) == pc' = [pc EXCEPT ![c] = where]
Done(c) == Goto(c, "idle") /\ req' = [req EXCEPT ![c] = Idle]

\* Where the hours of the next invoice begin: at the anchor, or when the company
\* was created.
PeriodStart(k) == IF LastInvoiceSent(k) > 0 THEN LastInvoiceSent(k) ELSE CreatedAt[k]

\* loadValidSender, GetCompanyForInvoice, LastInvoiceSentForCompany and the
\* period (DefaultPeriod).  A company that is gone fails the call.
InvoiceGenerate(c, r) ==
    LET now == IF r.issue > 0 THEN r.issue ELSE clock
        hourly == Mode[r.company] = "hourly"
        from == IF r.from > 0 THEN r.from ELSE IF hourly THEN PeriodStart(r.company) ELSE 0
        to == IF r.to > 0 THEN r.to ELSE IF hourly THEN now ELSE 0
    IN /\ Called(c, r, "generate") /\ r.company \in companies
       /\ req' = [req EXCEPT ![c] = [Idle EXCEPT !.args = {r}, !.now = now,
                                                 !.from = from, !.to = to]]
       /\ Goto(c, IF hourly THEN "count" ELSE "begin")
       /\ UNCHANGED invoices

InvoiceAdvance(c, r) ==
    /\ Called(c, r, "advance") /\ r.company \in companies /\ r.amount > 0 /\ Rate > 0
    /\ req' = [req EXCEPT ![c] = [Idle EXCEPT !.args = {r},
                                    !.now = IF r.issue > 0 THEN r.issue ELSE clock]]
    /\ Goto(c, "begin")
    /\ UNCHANGED invoices

\* A cutoff only: a row without a number, a total or a PDF.
InvoiceSend(c, r) ==
    /\ Called(c, r, "send") /\ r.company \in companies
    /\ invoices' = invoices \cup
         {[id |-> NextId(invoices), company |-> r.company,
           sent |-> IF r.issue > 0 THEN r.issue ELSE clock, kind |-> "hourly",
           number |-> NoNumber, total |-> 0, applied |-> 0, secs |-> {}]}
    /\ UNCHANGED <<pc, req>>

\* GetInvoiceByID and the guard; the row is deleted by a later statement.
InvoiceDelete(c, r, id) ==
    /\ Called(c, r, "invoiceDelete")
    /\ r.force \/ \E i \in invoices : i.id = id /\ i.kind # "advance" /\ i.applied = 0
    /\ req' = [req EXCEPT ![c] = [Idle EXCEPT !.args = {r}, !.id = id]]
    /\ Goto(c, "dropInvoice")
    /\ UNCHANGED invoices

\* CountInvoicesByCompanyID and the guard, likewise.
CompanyDelete(c, r) ==
    /\ Called(c, r, "companyDelete")
    /\ r.force \/ (r.company \in companies /\ \A i \in invoices : i.company # r.company)
    /\ req' = [req EXCEPT ![c] = [Idle EXCEPT !.args = {r}]]
    /\ Goto(c, "dropCompany")
    /\ UNCHANGED invoices

Client(c) ==
    \E r \in Requests :
        \/ InvoiceGenerate(c, r) \/ InvoiceAdvance(c, r) \/ InvoiceSend(c, r)
        \/ \E i \in invoices : InvoiceDelete(c, r, i.id)
        \/ CompanyDelete(c, r)

-----------------------------------------------------------------------------
(* A statement outside a transaction.                                      *)
Statement(c, at) ==
    /\ pc[c] = at /\ conn = NoCaller
    /\ UNCHANGED <<timeVars, paused, ticks, txVars, fileVars, calls, issued>>

\* Mutant: the window is closed on both sides.
CountTicksClosed(c) ==
    /\ Statement(c, "count")
    /\ LET secs == SecondsBetween(Args(c).company, req[c].from, req[c].to + 1)
       IN IF secs = {} /\ ~Args(c).allowEmpty THEN Done(c)
          ELSE Goto(c, "begin") /\ req' = [req EXCEPT ![c].secs = secs]
    /\ UNCHANGED <<companies, invoices, next>>

\* Mutant: the window is open on both sides.
CountTicksOpen(c) ==
    /\ Statement(c, "count")
    /\ LET secs == SecondsBetween(Args(c).company, req[c].from + 1, req[c].to)
       IN IF secs = {} /\ ~Args(c).allowEmpty THEN Done(c)
          ELSE Goto(c, "begin") /\ req' = [req EXCEPT ![c].secs = secs]
    /\ UNCHANGED <<companies, invoices, next>>

\* CountTicksForCompanyInRange, and the refusal of an empty invoice.
CountTicks(c) ==
    /\ Statement(c, "count")
    /\ LET secs == SecondsBetween(Args(c).company, req[c].from, req[c].to)
       IN IF secs = {} /\ ~Args(c).allowEmpty THEN Done(c)
          ELSE Goto(c, "begin") /\ req' = [req EXCEPT ![c].secs = secs]
    /\ UNCHANGED <<companies, invoices, next>>

DropInvoice(c) ==
    /\ Statement(c, "dropInvoice")
    /\ invoices' = {i \in invoices : i.id # req[c].id}
    /\ Done(c)
    /\ UNCHANGED <<companies, next>>

\* ON DELETE CASCADE.
DropCompany(c) ==
    /\ Statement(c, "dropCompany")
    /\ companies' = companies \ {Args(c).company}
    /\ invoices' = {i \in invoices : i.company # Args(c).company}
    /\ Done(c)
    /\ UNCHANGED next

-----------------------------------------------------------------------------
(* The transaction of InvoiceGenerate and InvoiceAdvance.                  *)
From(c) == BilledFrom[Args(c).company]
Pdf(c) == [sender |-> From(c), number |-> req[c].number, company |-> Args(c).company]

\* Mutant: INSERT OR REPLACE.
SeededAgain(c) == [next EXCEPT ![From(c)] = FirstNumber]

Seeded(c) == IF next[From(c)] = 0 THEN [next EXCEPT ![From(c)] = FirstNumber] ELSE next

\* Mutant: the number is allocated before the transaction.
BeginAllocated(c) ==
    LET args == Args(c)
        n == Seeded(c)
        now == IF args.dryRun THEN n ELSE [n EXCEPT ![From(c)] = @ + 1]
    IN /\ pc[c] = "begin" /\ conn = NoCaller
       /\ conn' = c
       /\ saved' = [invoices |-> invoices, next |-> IF args.dryRun THEN next ELSE now]
       /\ next' = IF args.dryRun THEN next ELSE now
       /\ req' = [req EXCEPT ![c].number = n[From(c)],
                    ![c].applied = IF args.kind = "advance" \/ args.noCredit THEN 0
                                   ELSE ApplyCredit(CreditBalance(args.company),
                                                    LineTotal(c), args.discount)]
       /\ Goto(c, "render")
       /\ UNCHANGED <<timeVars, paused, ticks, companies, invoices, fileVars, calls, issued>>

\* SeedSenderState, which a rollback does not undo; BeginTx; the balance; and
\* the number, only peeked at on a dry run.
Begin(c) ==
    LET args == Args(c)
        n == Seeded(c)
    IN /\ pc[c] = "begin" /\ conn = NoCaller
       /\ conn' = c
       /\ saved' = [invoices |-> invoices, next |-> IF args.dryRun THEN next ELSE n]
       /\ next' = IF args.dryRun THEN next ELSE [n EXCEPT ![From(c)] = @ + 1]
       /\ req' = [req EXCEPT ![c].number = n[From(c)],
                    ![c].applied = IF args.kind = "advance" \/ args.noCredit THEN 0
                                   ELSE ApplyCredit(CreditBalance(args.company),
                                                    LineTotal(c), args.discount)]
       /\ Goto(c, "render")
       /\ UNCHANGED <<timeVars, paused, ticks, companies, invoices, fileVars, calls, issued>>

InTx(c, at) ==
    /\ pc[c] = at
    /\ UNCHANGED <<timeVars, paused, ticks, companies, calls>>

Rollback(c) ==
    /\ conn' = NoCaller
    /\ invoices' = saved.invoices /\ next' = saved.next
    /\ Done(c)
    /\ UNCHANGED <<saved, issued>>

\* Mutant: the PDF is rendered at its client-facing path.
RenderInPlace(c) ==
    /\ InTx(c, "render")
    /\ IF Valid(c)
       THEN /\ final' = IF Args(c).dryRun THEN final ELSE final \cup {Pdf(c)}
            /\ Goto(c, "insert")
            /\ UNCHANGED <<temp, invoices, next, txVars, req, issued>>
       ELSE Rollback(c) /\ UNCHANGED fileVars

\* Hidden files without the one at this call's path; a dry run has its own.
TempWithout(c) ==
    IF Args(c).dryRun THEN temp
    ELSE {f \in temp : f.sender # From(c) \/ f.number # req[c].number}

\* BuildDoc, and the PDF at its hidden path, over what a crash left there.  An
\* advance is not built by BuildDoc.  A dry run renders to a throwaway file.
Render(c) ==
    /\ InTx(c, "render")
    /\ IF Args(c).kind = "advance" \/ Valid(c)
       THEN /\ temp' = IF Args(c).dryRun THEN temp ELSE TempWithout(c) \cup {Pdf(c)}
            /\ Goto(c, "insert")
            /\ UNCHANGED <<final, invoices, next, txVars, req, issued>>
       ELSE Rollback(c) /\ UNCHANGED fileVars

Row(c) ==
    [id |-> NextId(invoices), company |-> Args(c).company, sent |-> req[c].now,
     kind |-> IF Args(c).kind = "advance" THEN "advance" ELSE "hourly",
     number |-> req[c].number,
     total |-> LineTotal(c) - Args(c).discount - req[c].applied,
     applied |-> req[c].applied, secs |-> req[c].secs]

\* Mutant: the statement waits for a connection of its own.
InsertOutside(c) ==
    /\ InTx(c, "insert") /\ conn = NoCaller
    /\ invoices' = invoices \cup {Row(c)}
    /\ Goto(c, "commit")
    /\ UNCHANGED <<next, txVars, fileVars, req, issued>>

\* InsertInvoiceFull; a company deleted meanwhile makes it fail.
Insert(c) ==
    /\ InTx(c, "insert")
    /\ IF Args(c).dryRun \/ Args(c).company \in companies
       THEN /\ invoices' = IF Args(c).dryRun THEN invoices ELSE invoices \cup {Row(c)}
            /\ Goto(c, "commit")
            /\ UNCHANGED <<next, txVars, fileVars, req, issued>>
       ELSE Rollback(c) /\ temp' = TempWithout(c) /\ UNCHANGED final

Commit(c) ==
    /\ InTx(c, "commit")
    /\ conn' = NoCaller
    /\ IF Args(c).dryRun THEN Done(c) /\ UNCHANGED issued
       ELSE /\ issued' = [issued EXCEPT ![From(c)] = @ \cup {req[c].number}]
            /\ Goto(c, "rename") /\ UNCHANGED req
    /\ UNCHANGED <<invoices, next, saved, fileVars>>

\* finalizeInvoicePDF.
Rename(c) ==
    /\ pc[c] = "rename"
    /\ temp' = temp \ {Pdf(c)} /\ final' = final \cup {Pdf(c)}
    /\ Done(c)
    /\ UNCHANGED <<timeVars, dbVars, txVars, calls, issued>>

-----------------------------------------------------------------------------
(* Failures.  A failed rename leaves the temporary file where it is.       *)
Fails(c) ==
    /\ MayFail
    /\ pc[c] \in {"count", "begin", "dropInvoice", "dropCompany", "rename"}
    /\ Done(c)
    /\ UNCHANGED <<timeVars, dbVars, txVars, fileVars, calls, issued>>

TxFails(c) ==
    /\ MayFail
    /\ \E at \in {"render", "insert", "commit"} : InTx(c, at)
    /\ Rollback(c)
    /\ temp' \in {TempWithout(c)} \cup (IF pc[c] = "render" THEN {temp} ELSE {})
    /\ UNCHANGED final

\* The daemon stops at any point and starts again; SQLite undoes the
\* transaction that was open, files stay.
Crash ==
    /\ MayCrash
    /\ \/ \E c \in Caller : pc[c] # "idle"
       \/ polling > 0
    /\ invoices' = IF conn = NoCaller THEN invoices ELSE saved.invoices
    /\ next' = IF conn = NoCaller THEN next ELSE saved.next
    /\ conn' = NoCaller /\ polling' = 0
    /\ pc' = [c \in Caller |-> "idle"] /\ req' = [c \in Caller |-> Idle]
    /\ UNCHANGED <<clock, paused, ticks, companies, saved, fileVars, calls, issued>>

HandlerWorks(c) ==
    \/ CountTicks(c) \/ DropInvoice(c) \/ DropCompany(c)
    \/ Begin(c) \/ Render(c) \/ Insert(c) \/ Commit(c) \/ Rename(c)

HandlerNext(c) == HandlerWorks(c) \/ Fails(c) \/ TxFails(c)

Init ==
    /\ clock = 1 /\ polling = 0
    /\ paused = {} /\ ticks = {} /\ invoices = {}
    /\ companies = {k \in Company : CreatedAt[k] <= clock}
    /\ next = [s \in Sender |-> 0]
    /\ conn = NoCaller /\ saved = [invoices |-> {}, next |-> [s \in Sender |-> 0]]
    /\ temp = {} /\ final = {}
    /\ pc = [c \in Caller |-> "idle"] /\ req = [c \in Caller |-> Idle]
    /\ calls = 0
    /\ issued = [s \in Sender |-> {}]

Next ==
    \/ Second \/ RecordTick \/ EmptyTick \/ Crash
    \/ \E p \in Project : SetPaused(p)
    \/ \E k \in Company : CompanyAdd(k)
    \/ \E c \in Caller : Client(c) \/ HandlerNext(c)

Spec == Init /\ [][Next]_vars

\* A handler runs to its end without having to fail: the scheduler runs it, and the
\* connection goes to whoever has waited longest.
FairSpec == Spec /\ \A c \in Caller : SF_vars(HandlerWorks(c))

-----------------------------------------------------------------------------
Invoice == [id : Nat, company : Company, sent : Nat, kind : {"hourly", "advance"},
            number : Nat, total : Int, applied : Nat, secs : SUBSET (1..MaxClock)]
Phase == {"idle", "count", "begin", "render", "insert", "commit", "rename",
          "dropInvoice", "dropCompany"}
TxPhase == {"render", "insert", "commit"}
Pdfs == [sender : Sender, number : Nat, company : Company]

TypeOK ==
    /\ clock \in 1..MaxClock /\ polling \in 0..MaxClock
    /\ paused \subseteq Project
    /\ ticks \subseteq [ts : 1..MaxClock, proj : Project]
    /\ companies \subseteq Company
    /\ invoices \subseteq Invoice
    /\ next \in [Sender -> Nat]
    /\ conn \in Caller \cup {NoCaller}
    /\ saved.invoices \subseteq Invoice /\ saved.next \in [Sender -> Nat]
    /\ temp \subseteq Pdfs /\ final \subseteq Pdfs
    /\ \A c \in Caller :
         /\ pc[c] \in Phase
         /\ req[c].args \subseteq Requests
         /\ req[c].secs \subseteq 1..MaxClock
         /\ {req[c].now, req[c].from, req[c].to, req[c].number, req[c].applied,
             req[c].id} \subseteq Nat
    /\ calls \in 0..MaxCalls
    /\ issued \in [Sender -> SUBSET Nat]

\* Outside a transaction, the numbers a sender has issued are exactly those
\* its counter has passed: no failure, dry run, crash or race leaves a gap or
\* issues a number twice (schema.sql: "Tax authorities require gapless
\* numbering per legal entity").
GaplessNumbers ==
    conn = NoCaller =>
        \A s \in Sender :
            issued[s] = IF next[s] = 0 THEN {} ELSE FirstNumber..(next[s] - 1)

\* Two invoices of one sender never carry the same number.
UniqueNumbers ==
    \A i, j \in invoices :
        /\ i.number # NoNumber /\ i.number = j.number
        /\ BilledFrom[i.company] = BilledFrom[j.company]
        => i = j

\* A PDF at a client-facing path has a committed number, and if its invoice
\* has not been deleted it is of that invoice's company, whatever crashed in
\* between (renderInvoicePDF: "must not exist at its final, client-facing path
\* until the invoice row that describes it has committed").
FilesAreIssued ==
    \A f \in final :
        /\ f.number \in issued[f.sender]
        /\ \A i \in invoices : i.number = f.number /\ BilledFrom[i.company] = f.sender
                              => i.company = f.company

\* Prepaid credit is never spent twice (InvoiceGenerate: reading the balance
\* outside the transaction "lets two concurrent generates for the same company
\* both see the full credit and both spend it").
CreditNotOverdrawn ==
    conn = NoCaller => \A k \in Company : CreditBalance(k) >= 0

\* A second is on one invoice of its company (README: generate bills "the
\* unbilled, deduped hours").
HoursBilledOnce ==
    \A i, j \in invoices : i.company = j.company /\ i # j => i.secs \cap j.secs = {}

\* The seconds of companies billed by the hour, recorded before their company's
\* anchor, which no later invoice looks back to, that are on no invoice.
BehindAnchor ==
    {t \in ticks : LET k == CompanyOf[t.proj]
                    IN  /\ Mode[k] = "hourly" /\ t.ts < LastInvoiceSent(k)
                        /\ \A i \in invoices : i.company = k => t.ts \notin i.secs}

\* Of those, the ones that a default period can cover: an invoice bills no second
\* from before its company was created.
Dropped == {t \in BehindAnchor : t.ts >= CreatedAt[CompanyOf[t.proj]]}

\* Only a client's deletion of an invoice leaves a second unbilled behind the
\* anchor; making one never does (LastInvoiceSentForCompany must not let an hour
\* be "silently dropped from every future invoice").
HoursNotDropped ==
    [][Dropped' \subseteq Dropped \/ \E c \in Caller : DropInvoice(c)]_vars

\* The same of every second of a company's projects, as Status counts them
\* (README: generate bills "the unbilled, deduped hours").
AllHoursBilled ==
    [][BehindAnchor' \subseteq BehindAnchor \/ \E c \in Caller : DropInvoice(c)]_vars

\* Without --force, deleting a company never takes an invoice with it
\* (CompanyDelete: "Refuse unless --force is passed").
CompanyDeleteKeepsInvoices ==
    [][\A c \in Caller : DropCompany(c) /\ ~Args(c).force => UNCHANGED invoices]_vars

\* Without --force, no invoice that carries credit is deleted (InvoiceDelete:
\* "Refuse those deletes unless --force is passed").
InvoiceDeleteKeepsCredit ==
    [][\A c \in Caller : DropInvoice(c) /\ ~Args(c).force =>
          \A i \in invoices : i.kind = "advance" \/ i.applied > 0 => i \in invoices']_vars

\* A transaction gives the connection back (InvoiceGenerate: a statement
\* outside it "WOULD deadlock until the handler's deadline").
ConnectionReturned == conn # NoCaller ~> conn = NoCaller
-----------------------------------------------------------------------------
(* Why numbers are gapless and unique: the inductive invariant.            *)

\* What a rollback or a crash would leave.
Durable == IF conn = NoCaller THEN [invoices |-> invoices, next |-> next] ELSE saved

\* The variables of a handler are a record with the fields of Idle.
HasFields(h) ==
    h = [args |-> h.args, now |-> h.now, from |-> h.from, to |-> h.to, secs |-> h.secs,
         number |-> h.number, applied |-> h.applied, id |-> h.id]

NumberTypes ==
    /\ next \in [Sender -> Nat] /\ saved.next \in [Sender -> Nat]
    /\ issued \in [Sender -> SUBSET Nat]
    /\ conn \in Caller \cup {NoCaller}
    /\ pc \in [Caller -> Phase]
    /\ req = [c \in Caller |-> req[c]]
    /\ \A c \in Caller : HasFields(req[c])

\* A handler that runs has its one request, and is in its transaction exactly
\* while it holds the connection.
HandlersHold ==
    \A c \in Caller :
        /\ pc[c] # "idle" => \E r \in Requests : req[c].args = {r}
        /\ pc[c] \in TxPhase <=> conn = c

\* The numbers issued are those the counter has passed, and every row has one.
Committed ==
    /\ \A s \in Sender :
         /\ Durable.next[s] = 0 \/ Durable.next[s] >= FirstNumber
         /\ issued[s] = IF Durable.next[s] = 0 THEN {} ELSE FirstNumber..(Durable.next[s] - 1)
    /\ \A i \in Durable.invoices :
         /\ i.company \in Company
         /\ i.number # NoNumber => i.number \in issued[BilledFrom[i.company]]
    /\ \A i, j \in Durable.invoices :
         i.number # NoNumber /\ i.number = j.number
           /\ BilledFrom[i.company] = BilledFrom[j.company] => i = j

\* An open transaction has taken the next number, and its row, if inserted, is
\* the only new one.
Pending ==
    conn # NoCaller =>
        /\ IF Args(conn).dryRun THEN next = saved.next /\ invoices = saved.invoices
           ELSE /\ saved.next[From(conn)] = req[conn].number
                /\ req[conn].number >= FirstNumber
                /\ next = [saved.next EXCEPT ![From(conn)] = @ + 1]
        /\ pc[conn] # "commit" => invoices = saved.invoices
        /\ saved.invoices \subseteq invoices
        /\ \A i \in invoices \ saved.invoices :
             i.number = req[conn].number /\ i.company = Args(conn).company
        /\ \A i, j \in invoices \ saved.invoices : i = j

\* A PDF that is, or is about to be, at its client-facing path has a committed
\* number, and agrees with the row that carries it.
Describes(s, n, k) ==
    /\ s \in Sender /\ n \in issued[s]
    /\ \A i \in Durable.invoices :
         i.number = n /\ BilledFrom[i.company] = s => i.company = k

FilesDescribe ==
    /\ \A f \in final : Describes(f.sender, f.number, f.company)
    /\ \A c \in Caller :
         pc[c] = "rename" => Describes(From(c), req[c].number, Args(c).company)

\* Numbering, row and file together, at every step of every handler.
NumbersInv == NumberTypes /\ HandlersHold /\ Committed /\ Pending /\ FilesDescribe
=============================================================================
