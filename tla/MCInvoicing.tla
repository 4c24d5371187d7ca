---------------------------- MODULE MCInvoicing ----------------------------
(* Invoicing for TLC: one sender bills up to two companies.                 *)
EXTENDS Invoicing, TLC

CONSTANTS k1, k2, p1, p2, s

OneCompany == [p \in {p1} |-> k1]
ProjectsOfOne == [p \in {p1, p2} |-> k1]
FromStart == [k \in Company |-> 0]
LaterFounded == [k \in Company |-> 3]
FromS == [k \in Company |-> s]
Hourly == [k \in Company |-> "hourly"]
Mixed == [k \in Company |-> IF k = k1 THEN "hourly" ELSE "monthly_fixed"]

Call(kind, k) ==
    [kind |-> kind, company |-> k, issue |-> 0, from |-> 0, to |-> 0, amount |-> 0,
     discount |-> 0, noCredit |-> FALSE, allowEmpty |-> FALSE, dryRun |-> FALSE,
     force |-> FALSE]
Generate == Call("generate", k1)
Monthly == Call("generate", k2)
Advance(a) == [Call("advance", k1) EXCEPT !.amount = a]

\* Every way to number an invoice, and prepayments with what draws them down: both
\* billing modes, a preview, a refused discount, an advance, and a cutoff without a
\* number. The monthly rate is more than a discount of 1, less than one of 5.
LedgerCalls ==
    {[Generate EXCEPT !.allowEmpty = TRUE], [Monthly EXCEPT !.discount = 1],
     [Monthly EXCEPT !.dryRun = TRUE], [Monthly EXCEPT !.discount = 5, !.noCredit = TRUE],
     [Call("advance", k2) EXCEPT !.amount = 2], Call("send", k1)}

OnlyGenerate == {Generate}

\* A bill, or a cutoff, and a delete that another client's call can come between.
GenerateOrDelete == {[Generate EXCEPT !.allowEmpty = TRUE], Call("companyDelete", k1)}
DeleteAndReplace == {Call("send", k1), Call("invoiceDelete", k1), Advance(1)}

\* Bills, issued now or back-dated, prepayments, and deletions between them.
HourCalls == {[Generate EXCEPT !.allowEmpty = TRUE],
              [Generate EXCEPT !.issue = 3, !.allowEmpty = TRUE], Advance(1),
              Call("invoiceDelete", k1), [Call("invoiceDelete", k1) EXCEPT !.force = TRUE],
              Call("companyDelete", k1)}
=============================================================================
