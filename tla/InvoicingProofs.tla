--------------------------- MODULE InvoicingProofs ---------------------------
(***************************************************************************)
(* Invoicing for every set of companies, senders, clients and requests.    *)
(* First numbers: they are gapless and unique, and a client-facing PDF has *)
(* one. Then the types, credit, hours and deletions; what a theorem needs  *)
(* besides is a named hypothesis of its own, and README.md names the       *)
(* behaviour that breaks the property without it.                          *)
(***************************************************************************)
EXTENDS Invoicing, DataLemmas

\* The single statements of clients that a bill depends on.
SetRows == (\E p \in Project : SetPaused(p)) \/ \E k \in Company : CompanyAdd(k)

\* What a step that leaves rows, counters, files and handlers alone keeps.
numbering == <<invoices, next, conn, saved, final, pc, req, issued>>

\* The database, the PDFs and the handlers start without a number.
LEMMA InitNumbers == Init => NumbersInv
  BY ConstantsAssumption
     DEF Init, NumbersInv, NumberTypes, HandlersHold, Committed, Pending,
         FilesDescribe, Describes, Durable, Idle, NoNumber, HasFields, Phase, TxPhase

\* The request of a handler that runs is one of the requests.
LEMMA ArgsInRequests ==
  ASSUME NumbersInv, NEW c \in Caller, pc[c] # "idle"
  PROVE  /\ Args(c) \in Requests
         /\ Args(c).company \in Company
         /\ From(c) \in Sender
  <1>1. PICK r \in Requests : req[c].args = {r}
    BY DEF NumbersInv, HandlersHold
  <1>2. Args(c) = r
    BY <1>1 DEF Args
  <1>3. r.company \in Company
    BY ConstantsAssumption DEF Request
  <1> QED BY <1>2, <1>3, ConstantsAssumption DEF From

\* The poller, pauses and a stutter do not touch the numbering.
LEMMA NumberingUnchanged ==
  ASSUME NumbersInv, UNCHANGED numbering
  PROVE  NumbersInv'
  <1> USE DEF numbering
  <1>1. NumberTypes'
    BY DEF NumbersInv, NumberTypes
  <1>2. HandlersHold'
    BY DEF NumbersInv, HandlersHold
  <1>3. Durable' = Durable /\ \A c : Args(c)' = Args(c) /\ From(c)' = From(c)
    BY DEF Durable, Args, From
  <1>4. Committed'
    BY <1>3 DEF NumbersInv, Committed
  <1>5. Pending'
    BY <1>3 DEF NumbersInv, Pending
  <1>6. FilesDescribe'
    BY <1>3 DEF NumbersInv, FilesDescribe, Describes
  <1> QED BY <1>1, <1>2, <1>4, <1>5, <1>6 DEF NumbersInv

\* Numbers are positive.
LEMMA NumbersArePositive ==
  ASSUME NumbersInv, NEW x \in Sender
  PROVE  NoNumber \notin issued[x] /\ issued[x] \subseteq Nat
  <1>1. issued[x] = IF Durable.next[x] = 0 THEN {} ELSE FirstNumber..(Durable.next[x] - 1)
    BY DEF NumbersInv, Committed
  <1>2. Durable.next[x] \in Nat
    BY DEF NumbersInv, NumberTypes, Durable
  <1> QED BY <1>1, <1>2, ConstantsAssumption DEF NoNumber

\* The handlers about to rename a file were so before.
RenamesKept ==
  \A c \in Caller : pc'[c] = "rename" => pc[c] = "rename" /\ req'[c] = req[c]

\* The counter of a sender is kept, or seeded.
CountersKept ==
  \A x \in Sender : \/ Durable'.next[x] = Durable.next[x]
                    \/ Durable.next[x] = 0 /\ Durable'.next[x] = FirstNumber

\* The rows are kept, deleted, or cutoffs without a number.
RowsKept ==
  \A i \in Durable'.invoices :
    i \in Durable.invoices \/ (i.company \in Company /\ i.number = NoNumber)

\* A step that issues no number and finalises no file.
LEMMA NothingIssued ==
  ASSUME NumbersInv, UNCHANGED <<issued, final>>, RenamesKept, CountersKept, RowsKept
  PROVE  Committed' /\ FilesDescribe'
  <1> USE DEF RenamesKept, CountersKept, RowsKept
  <1>1. Committed'
    <2>1. ASSUME NEW x \in Sender
          PROVE  /\ Durable'.next[x] = 0 \/ Durable'.next[x] >= FirstNumber
                 /\ issued[x] = IF Durable'.next[x] = 0 THEN {}
                                ELSE FirstNumber..(Durable'.next[x] - 1)
      BY <2>1, ConstantsAssumption DEF NumbersInv, Committed
    <2>2. ASSUME NEW i \in Durable'.invoices
          PROVE  /\ i.company \in Company
                 /\ i.number # NoNumber => i.number \in issued[BilledFrom[i.company]]
      BY <2>2 DEF NumbersInv, Committed
    <2>3. ASSUME NEW i \in Durable'.invoices, NEW j \in Durable'.invoices,
                 i.number # NoNumber, i.number = j.number,
                 BilledFrom[i.company] = BilledFrom[j.company]
          PROVE  i = j
      BY <2>3 DEF NumbersInv, Committed
    <2> QED BY <2>1, <2>2, <2>3 DEF Committed
  <1>2. ASSUME NEW x, NEW n, NEW k, Describes(x, n, k) PROVE Describes(x, n, k)'
    BY <1>2, NumbersArePositive DEF Describes
  <1>3. ASSUME NEW c \in Caller, pc'[c] = "rename"
        PROVE  Describes(From(c), req[c].number, Args(c).company)'
    <2>1. Describes(From(c), req[c].number, Args(c).company)
      BY <1>3 DEF NumbersInv, FilesDescribe
    <2>2. From(c)' = From(c) /\ req'[c] = req[c] /\ Args(c)' = Args(c)
      BY <1>3 DEF From, Args
    <2> QED BY <2>1, <2>2, <1>2
  <1>4. \A f \in final' : Describes(f.sender, f.number, f.company)'
    BY <1>2 DEF NumbersInv, FilesDescribe
  <1> QED BY <1>1, <1>3, <1>4 DEF FilesDescribe

\* A step outside every transaction that issues no number.
LEMMA OutsideTransactions ==
  ASSUME NumbersInv, conn = NoCaller, UNCHANGED <<conn, next, issued, final>>,
         \A i \in invoices' : \/ i \in invoices
                              \/ i.company \in Company /\ i.number = NoNumber,
         NumberTypes', HandlersHold', RenamesKept
  PROVE  NumbersInv'
  <1>1. CountersKept /\ RowsKept
    BY DEF CountersKept, RowsKept, Durable
  <1>2. Committed' /\ FilesDescribe'
    BY <1>1, NothingIssued
  <1>3. Pending'
    BY DEF Pending
  <1> QED BY <1>2, <1>3 DEF NumbersInv

\* An end of a transaction that leaves the rows and counters it found.
LEMMA Restored ==
  ASSUME NumbersInv, conn' = NoCaller, UNCHANGED <<issued, final>>,
         invoices' = Durable.invoices, next' = Durable.next,
         NumberTypes', HandlersHold', RenamesKept
  PROVE  NumbersInv'
  <1>1. CountersKept /\ RowsKept
    BY DEF CountersKept, RowsKept, Durable
  <1>2. Committed' /\ FilesDescribe'
    BY <1>1, NothingIssued
  <1>3. Pending'
    BY DEF Pending
  <1> QED BY <1>2, <1>3 DEF NumbersInv

\* A step of one handler, seen from its place and its variables alone.
LEMMA HandlerMoves ==
  ASSUME NumbersInv, NEW c \in Caller, NEW where \in Phase, NEW h,
         pc' = [pc EXCEPT ![c] = where], req' = [req EXCEPT ![c] = h], HasFields(h),
         where # "idle" => \E r \in Requests : h.args = {r},
         next' \in [Sender -> Nat], saved'.next \in [Sender -> Nat],
         issued' \in [Sender -> SUBSET Nat], conn' \in Caller \cup {NoCaller},
         where \in TxPhase <=> conn' = c,
         \A d \in Caller \ {c} : conn' = d <=> conn = d
  PROVE  NumberTypes' /\ HandlersHold'
  <1>1. \A d \in Caller : /\ pc'[d] = IF d = c THEN where ELSE pc[d]
                          /\ req'[d] = IF d = c THEN h ELSE req[d]
    BY DEF NumbersInv, NumberTypes
  <1>2. pc' \in [Caller -> Phase] /\ req' = [d \in Caller |-> req'[d]]
    BY DEF NumbersInv, NumberTypes
  <1>3. \A d \in Caller : HasFields(req[d])' 
    BY <1>1 DEF NumbersInv, NumberTypes, HasFields
  <1>4. NumberTypes'
    BY <1>2, <1>3 DEF NumberTypes
  <1>5. HandlersHold'
    BY <1>1 DEF NumbersInv, HandlersHold
  <1> QED BY <1>4, <1>5

\* Likewise outside every transaction, with no number issued.
LEMMA HandlerMovesOutside ==
  ASSUME NumbersInv, NEW c \in Caller, NEW where \in Phase \ (TxPhase \cup {"rename"}), NEW h,
         conn = NoCaller, UNCHANGED <<conn, saved, next, issued, final>>,
         pc' = [pc EXCEPT ![c] = where], req' = [req EXCEPT ![c] = h], HasFields(h),
         where # "idle" => \E r \in Requests : h.args = {r},
         \A i \in invoices' : \/ i \in invoices
                              \/ i.company \in Company /\ i.number = NoNumber
  PROVE  NumbersInv'
  <1>1. next' \in [Sender -> Nat] /\ saved'.next \in [Sender -> Nat]
        /\ issued' \in [Sender -> SUBSET Nat] /\ conn' \in Caller \cup {NoCaller}
    BY DEF NumbersInv, NumberTypes
  <1>2. where \in Phase /\ (where \in TxPhase <=> conn' = c)
    BY ConstantsAssumption
  <1>3. NumberTypes' /\ HandlersHold'
    BY <1>1, <1>2, HandlerMoves
  <1>4. RenamesKept
    BY DEF RenamesKept, NumbersInv, NumberTypes
  <1> QED BY <1>3, <1>4, OutsideTransactions

\* A call begins its handler, with the connection free, and may add a cutoff.
LEMMA CallNumbers ==
  ASSUME NumbersInv, NEW c \in Caller, Client(c)
  PROVE  NumbersInv'
  <1>1. PICK r \in Requests :
          \/ InvoiceGenerate(c, r) \/ InvoiceAdvance(c, r) \/ InvoiceSend(c, r)
          \/ \E i \in invoices : InvoiceDelete(c, r, i.id)
          \/ CompanyDelete(c, r)
    BY DEF Client
  <1>2. r.company \in Company
    BY ConstantsAssumption DEF Request
  <1>3. conn = NoCaller /\ UNCHANGED <<conn, saved, next, issued, final>>
    BY <1>1 DEF InvoiceGenerate, InvoiceAdvance, InvoiceSend, InvoiceDelete, CompanyDelete,
                Called, txVars, fileVars
  <1>4. CASE InvoiceSend(c, r)
    <2>1. NumberTypes' /\ HandlersHold'
      BY <1>3, <1>4 DEF InvoiceSend, NumbersInv, NumberTypes, HandlersHold
    <2>2. RenamesKept
      BY <1>4 DEF RenamesKept, InvoiceSend
    <2>3. \A i \in invoices' : i \in invoices \/ (i.company \in Company /\ i.number = NoNumber)
      BY <1>2, <1>4 DEF InvoiceSend
    <2> QED BY <1>3, <2>1, <2>2, <2>3, OutsideTransactions
  <1> DEFINE Begins ==
               /\ pc'[c] \in {"count", "begin", "dropInvoice", "dropCompany"}
               /\ HasFields(req'[c]) /\ req'[c].args = {r}
               /\ pc' = [pc EXCEPT ![c] = pc'[c]] /\ req' = [req EXCEPT ![c] = req'[c]]
               /\ UNCHANGED invoices
  <1>5. ASSUME Begins PROVE NumbersInv'
    <2>1. pc'[c] \in Phase \ (TxPhase \cup {"rename"})
      BY <1>5 DEF Phase, TxPhase
    <2> QED BY <1>3, <1>5, <2>1, HandlerMovesOutside
  <1>6. pc \in [Caller -> Phase] /\ req = [d \in Caller |-> req[d]]
    BY DEF NumbersInv, NumberTypes
  <1>7. ASSUME InvoiceGenerate(c, r) PROVE Begins
    BY <1>6, <1>7 DEF InvoiceGenerate, Goto, Idle, HasFields
  <1>8. ASSUME InvoiceAdvance(c, r) PROVE Begins
    BY <1>6, <1>8 DEF InvoiceAdvance, Goto, Idle, HasFields
  <1>9. ASSUME NEW i \in invoices, InvoiceDelete(c, r, i.id)
        PROVE  Begins
    BY <1>6, <1>9 DEF InvoiceDelete, Goto, Idle, HasFields
  <1>10. ASSUME CompanyDelete(c, r) PROVE Begins
    BY <1>6, <1>10 DEF CompanyDelete, Goto, Idle, HasFields
  <1> QED BY <1>1, <1>4, <1>5, <1>7, <1>8, <1>9, <1>10

\* A statement outside a transaction ends the handler or leads to the next
\* one; the rows it deletes take no number back.
LEMMA StatementNumbers ==
  ASSUME NumbersInv, NEW c \in Caller, CountTicks(c) \/ DropInvoice(c) \/ DropCompany(c)
  PROVE  NumbersInv'
  <1> DEFINE Continues ==
               /\ conn = NoCaller /\ UNCHANGED <<conn, saved, next, issued, final>>
               /\ pc'[c] \in {"idle", "begin"} /\ HasFields(req'[c])
               /\ pc'[c] # "idle" => req'[c].args = req[c].args
               /\ pc[c] # "idle"
               /\ pc' = [pc EXCEPT ![c] = pc'[c]] /\ req' = [req EXCEPT ![c] = req'[c]]
               /\ \A i \in invoices' : i \in invoices
  <1>1. ASSUME Continues PROVE NumbersInv'
    <2>1. pc'[c] \in Phase \ (TxPhase \cup {"rename"})
      BY <1>1 DEF Phase, TxPhase
    <2>2. pc'[c] # "idle" => \E r \in Requests : req'[c].args = {r}
      BY <1>1 DEF NumbersInv, HandlersHold
    <2> QED BY <1>1, <2>1, <2>2, HandlerMovesOutside
  <1>2. pc \in [Caller -> Phase] /\ req = [d \in Caller |-> req[d]] /\ HasFields(req[c])
    BY DEF NumbersInv, NumberTypes
  <1> USE DEF Statement, Goto, Done, Idle, HasFields, txVars, fileVars
  <1>3. ASSUME CountTicks(c) PROVE Continues
    BY <1>2, <1>3 DEF CountTicks
  <1>4. ASSUME DropInvoice(c) PROVE Continues
    BY <1>2, <1>4 DEF DropInvoice
  <1>5. ASSUME DropCompany(c) PROVE Continues
    BY <1>2, <1>5 DEF DropCompany
  <1> QED BY <1>1, <1>3, <1>4, <1>5

\* A failure outside a transaction ends the handler; the temporary file of a
\* failed rename is not client-facing.
LEMMA FailNumbers ==
  ASSUME NumbersInv, NEW c \in Caller, Fails(c)
  PROVE  NumbersInv'
  <1>1. UNCHANGED <<invoices, next, conn, saved, issued, final>>
    BY DEF Fails, dbVars, txVars, fileVars
  <1>2. /\ pc' = [pc EXCEPT ![c] = "idle"] /\ req' = [req EXCEPT ![c] = Idle]
        /\ pc[c] \notin TxPhase
    BY DEF Fails, Done, Goto, TxPhase
  <1>3. conn # c
    BY <1>2 DEF NumbersInv, HandlersHold
  <1>4. NumberTypes' /\ HandlersHold'
    <2>1. "idle" \in Phase /\ "idle" \notin TxPhase /\ HasFields(Idle)
      BY DEF Phase, TxPhase, HasFields, Idle
    <2>2. next' \in [Sender -> Nat] /\ saved'.next \in [Sender -> Nat]
          /\ issued' \in [Sender -> SUBSET Nat] /\ conn' \in Caller \cup {NoCaller}
      BY <1>1 DEF NumbersInv, NumberTypes
    <2> QED BY <1>1, <1>2, <1>3, <2>1, <2>2, HandlerMoves
  <1>5. Durable' = Durable
    BY <1>1 DEF Durable
  <1>6. Committed' /\ FilesDescribe'
    <2>1. RenamesKept
      BY <1>2 DEF RenamesKept, NumbersInv, NumberTypes
    <2> QED BY <1>1, <1>5, <2>1, NothingIssued DEF CountersKept, RowsKept
  <1>7. Pending'
    <2>1. ASSUME conn # NoCaller
          PROVE  pc'[conn] = pc[conn] /\ req'[conn] = req[conn]
                 /\ Args(conn)' = Args(conn) /\ From(conn)' = From(conn)
      BY <1>1, <1>2, <1>3, <2>1 DEF NumbersInv, NumberTypes, Args, From
    <2> QED BY <1>1, <2>1 DEF NumbersInv, Pending
  <1> QED BY <1>4, <1>6, <1>7 DEF NumbersInv

\* A transaction begins: the counter is seeded for good, and the number after
\* it taken until the end of the transaction.
LEMMA BeginNumbers ==
  ASSUME NumbersInv, NEW c \in Caller, Begin(c)
  PROVE  NumbersInv'
  <1> DEFINE n == Seeded(c)
             number == n[From(c)]
  <1>1. From(c) \in Sender
    BY ArgsInRequests DEF Begin
  <1>2. next \in [Sender -> Nat]
    BY DEF NumbersInv, NumberTypes
  <1>3. /\ n \in [Sender -> Nat] /\ number \in Nat
        /\ \A x \in Sender : n[x] = next[x] \/ (next[x] = 0 /\ n[x] = FirstNumber)
    BY <1>1, <1>2, ConstantsAssumption DEF Seeded
  <1>4. number >= FirstNumber
    <2>1. CASE next[From(c)] = 0
      BY <1>1, <1>2, <2>1, ConstantsAssumption DEF Seeded
    <2>2. CASE next[From(c)] # 0
      <3>1. Durable.next = next
        BY DEF Durable, Begin
      <3>2. next[From(c)] >= FirstNumber
        BY <1>1, <2>2, <3>1 DEF NumbersInv, Committed
      <3> QED BY <2>2, <3>2 DEF Seeded
    <2> QED BY <2>1, <2>2
  <1>5. /\ conn = NoCaller /\ conn' = c /\ conn' # NoCaller /\ pc[c] = "begin"
        /\ UNCHANGED <<invoices, issued, final>>
        /\ saved' = [invoices |-> invoices, next |-> IF Args(c).dryRun THEN next ELSE n]
        /\ next' = IF Args(c).dryRun THEN next ELSE [n EXCEPT ![From(c)] = @ + 1]
        /\ pc' = [pc EXCEPT ![c] = "render"]
    BY ConstantsAssumption DEF Begin, Goto, fileVars
  <1>6. /\ HasFields(req'[c]) /\ req'[c].args = req[c].args /\ req'[c].number = number
        /\ req' = [req EXCEPT ![c] = req'[c]]
    <2>1. PICK a : req' = [req EXCEPT ![c].number = number, ![c].applied = a]
      BY DEF Begin
    <2>2. req = [d \in Caller |-> req[d]] /\ HasFields(req[c])
      BY DEF NumbersInv, NumberTypes
    <2> HIDE DEF number
    <2> QED BY <2>1, <2>2 DEF HasFields
  <1>7. Args(c)' = Args(c) /\ From(c)' = From(c)
    BY <1>6 DEF Args, From
  <1>8. NumberTypes' /\ HandlersHold'
    <2>1. "render" \in Phase /\ "render" \in TxPhase
      BY DEF Phase, TxPhase
    <2>2. next' \in [Sender -> Nat]
      BY <1>1, <1>2, <1>3, <1>5
    <2>3. saved'.next \in [Sender -> Nat]
      BY <1>2, <1>3, <1>5
    <2>4. issued' \in [Sender -> SUBSET Nat] /\ \E r \in Requests : req'[c].args = {r}
      BY <1>5, <1>6 DEF NumbersInv, NumberTypes, HandlersHold
    <2>5. \A d \in Caller \ {c} : conn' = d <=> conn = d
      BY <1>5, ConstantsAssumption
    <2> QED BY <1>5, <1>6, <2>1, <2>2, <2>3, <2>4, <2>5, HandlerMoves
  <1>9. Committed' /\ FilesDescribe'
    <2>1. RenamesKept
      BY <1>5, <1>6 DEF RenamesKept, NumbersInv, NumberTypes
    <2>2. Durable = [invoices |-> invoices, next |-> next] /\ Durable' = saved'
      BY <1>5 DEF Durable
    <2>3. CountersKept
      BY <1>3, <1>5, <2>2 DEF CountersKept
    <2>4. RowsKept
      BY <1>5, <2>2 DEF RowsKept
    <2> QED BY <1>5, <2>1, <2>3, <2>4, NothingIssued
  <1>10. Pending'
    <2>1. saved'.invoices = invoices' /\ pc'[c] = "render"
      BY <1>5 DEF NumbersInv, NumberTypes
    <2>2. CASE Args(c).dryRun
      <3>1. next' = saved'.next
        BY <1>5, <2>2
      <3> QED BY <1>5, <1>7, <2>1, <2>2, <3>1 DEF Pending
    <2>3. CASE ~Args(c).dryRun
      <3>1. /\ saved'.next = n
            /\ next' = [saved'.next EXCEPT ![From(c)] = @ + 1]
        BY <1>5, <2>3
      <3> QED BY <1>4, <1>5, <1>6, <1>7, <2>1, <2>3, <3>1 DEF Pending
    <2> QED BY <2>2, <2>3
  <1> QED BY <1>8, <1>9, <1>10 DEF NumbersInv

\* A rollback, whatever failed.
LEMMA RollbackNumbers ==
  ASSUME NumbersInv, NEW c \in Caller, pc[c] \in TxPhase, Rollback(c), UNCHANGED final
  PROVE  NumbersInv'
  <1>1. conn = c /\ conn # NoCaller
    BY ConstantsAssumption DEF NumbersInv, HandlersHold
  <1>2. /\ conn' = NoCaller /\ UNCHANGED <<saved, issued>>
        /\ invoices' = saved.invoices /\ next' = saved.next
        /\ pc' = [pc EXCEPT ![c] = "idle"] /\ req' = [req EXCEPT ![c] = Idle]
    BY DEF Rollback, Done, Goto
  <1>3. NumberTypes' /\ HandlersHold'
    <2>1. "idle" \in Phase /\ "idle" \notin TxPhase /\ HasFields(Idle)
      BY DEF Phase, TxPhase, HasFields, Idle
    <2>2. next' \in [Sender -> Nat] /\ saved'.next \in [Sender -> Nat]
          /\ issued' \in [Sender -> SUBSET Nat] /\ conn' \in Caller \cup {NoCaller}
      BY <1>2 DEF NumbersInv, NumberTypes
    <2>3. conn' # c /\ \A d \in Caller \ {c} : conn' = d <=> conn = d
      BY <1>1, <1>2, ConstantsAssumption
    <2> QED BY <1>2, <2>1, <2>2, <2>3, HandlerMoves
  <1>4. RenamesKept
    BY <1>2 DEF RenamesKept, NumbersInv, NumberTypes
  <1>5. invoices' = Durable.invoices /\ next' = Durable.next
    BY <1>1, <1>2 DEF Durable
  <1> QED BY <1>2, <1>3, <1>4, <1>5, Restored

\* A step inside a transaction is seen by nobody: only the row of this number
\* may have been added.
LEMMA InsideTransaction ==
  ASSUME NumbersInv, NEW c \in Caller, NEW where \in TxPhase, pc[c] \in TxPhase \ {"commit"},
         pc' = [pc EXCEPT ![c] = where],
         UNCHANGED <<next, conn, saved, final, issued, req>>,
         \/ invoices' = invoices
         \/ /\ where = "commit" /\ ~Args(c).dryRun
            /\ \E row : /\ invoices' = invoices \cup {row}
                       /\ row.number = req[c].number /\ row.company = Args(c).company
  PROVE  NumbersInv'
  <1>1. conn = c /\ conn # NoCaller /\ pc[c] # "commit" /\ invoices = saved.invoices
    BY ConstantsAssumption DEF NumbersInv, HandlersHold, Pending
  <1>2. Args(c)' = Args(c) /\ From(c)' = From(c)
    BY DEF Args, From
  <1>3. NumberTypes' /\ HandlersHold'
    <2>1. req = [req EXCEPT ![c] = req[c]] /\ HasFields(req[c])
      BY DEF NumbersInv, NumberTypes
    <2>2. \E r \in Requests : req[c].args = {r}
      BY DEF NumbersInv, HandlersHold, TxPhase
    <2>3. next' \in [Sender -> Nat] /\ saved'.next \in [Sender -> Nat]
          /\ issued' \in [Sender -> SUBSET Nat] /\ conn' \in Caller \cup {NoCaller}
      BY DEF NumbersInv, NumberTypes
    <2>4. where \in Phase
      BY DEF Phase, TxPhase
    <2> QED BY <1>1, <2>1, <2>2, <2>3, <2>4, HandlerMoves
  <1>4. Durable' = Durable
    BY <1>1 DEF Durable
  <1>5. RenamesKept
    BY DEF RenamesKept, NumbersInv, NumberTypes, TxPhase
  <1>6. Committed' /\ FilesDescribe'
    BY <1>4, <1>5, NothingIssued DEF CountersKept, RowsKept
  <1>7. pc'[c] = where
    BY DEF NumbersInv, NumberTypes
  <1>8. Pending'
    <2>1. CASE invoices' = invoices
      BY <1>1, <1>2, <1>7, <2>1 DEF NumbersInv, Pending
    <2>2. CASE invoices' # invoices
      <3>1. PICK row : /\ invoices' = invoices \cup {row}
                       /\ row.number = req[c].number /\ row.company = Args(c).company
        BY <2>2
      <3>2. where = "commit" /\ ~Args(c).dryRun
        BY <2>2
      <3>3. /\ saved'.invoices \subseteq invoices'
            /\ \A i \in invoices' \ saved'.invoices : i = row
        BY <1>1, <3>1
      <3> QED BY <1>1, <1>2, <1>7, <3>1, <3>2, <3>3 DEF NumbersInv, Pending
    <2> QED BY <2>1, <2>2
  <1> QED BY <1>3, <1>6, <1>8 DEF NumbersInv

\* The PDF is rendered at its hidden path, or refused.
LEMMA RenderNumbers ==
  ASSUME NumbersInv, NEW c \in Caller, Render(c)
  PROVE  NumbersInv'
  <1>1. pc[c] = "render"
    BY DEF Render, InTx
  <1>2. CASE Args(c).kind = "advance" \/ Valid(c)
    <2>1. /\ pc' = [pc EXCEPT ![c] = "insert"]
          /\ UNCHANGED <<next, conn, saved, final, issued, req>> /\ invoices' = invoices
      BY <1>2 DEF Render, Goto, txVars
    <2> QED BY <1>1, <2>1, InsideTransaction DEF TxPhase
  <1>3. CASE ~(Args(c).kind = "advance" \/ Valid(c))
    BY <1>1, <1>3, RollbackNumbers DEF Render, TxPhase, fileVars
  <1> QED BY <1>2, <1>3

\* The row is inserted, or refused because its company is gone.
LEMMA InsertNumbers ==
  ASSUME NumbersInv, NEW c \in Caller, Insert(c)
  PROVE  NumbersInv'
  <1>1. pc[c] = "insert"
    BY DEF Insert, InTx
  <1>2. CASE Args(c).dryRun \/ Args(c).company \in companies
    <2>1. /\ pc' = [pc EXCEPT ![c] = "commit"]
          /\ UNCHANGED <<next, conn, saved, final, issued, req>>
      BY <1>2 DEF Insert, Goto, txVars, fileVars
    <2>2. CASE Args(c).dryRun
      BY <1>1, <1>2, <2>1, <2>2, InsideTransaction DEF Insert, TxPhase
    <2>3. CASE ~Args(c).dryRun
      <3>1. invoices' = invoices \cup {Row(c)}
        BY <1>2, <2>3 DEF Insert
      <3>2. Row(c).number = req[c].number /\ Row(c).company = Args(c).company
        BY DEF Row
      <3> QED BY <1>1, <2>1, <2>3, <3>1, <3>2, InsideTransaction DEF TxPhase
    <2> QED BY <2>2, <2>3
  <1>3. CASE ~(Args(c).dryRun \/ Args(c).company \in companies)
    BY <1>1, <1>3, RollbackNumbers DEF Insert, TxPhase
  <1> QED BY <1>2, <1>3

\* A statement of the transaction, or its commit, fails.
LEMMA TxFailNumbers ==
  ASSUME NumbersInv, NEW c \in Caller, TxFails(c)
  PROVE  NumbersInv'
  <1>1. pc[c] \in TxPhase /\ Rollback(c) /\ UNCHANGED final
    BY DEF TxFails, InTx, TxPhase
  <1> QED BY <1>1, RollbackNumbers

\* A stop loses the open transaction and nothing else.
LEMMA CrashNumbers ==
  ASSUME NumbersInv, Crash
  PROVE  NumbersInv'
  <1>1. /\ conn' = NoCaller /\ UNCHANGED <<saved, issued, final>>
        /\ invoices' = Durable.invoices /\ next' = Durable.next
        /\ pc' = [c \in Caller |-> "idle"] /\ req' = [c \in Caller |-> Idle]
    BY DEF Crash, Durable, fileVars
  <1>2. NumberTypes'
    BY <1>1 DEF NumbersInv, NumberTypes, Durable, Phase, HasFields, Idle
  <1>3. HandlersHold'
    BY <1>1, ConstantsAssumption DEF HandlersHold, TxPhase
  <1>4. RenamesKept
    BY <1>1 DEF RenamesKept
  <1> QED BY <1>1, <1>2, <1>3, <1>4, Restored

\* A commit issues the number the transaction had taken, with its row.
LEMMA CommitNumbers ==
  ASSUME NumbersInv, NEW c \in Caller, Commit(c)
  PROVE  NumbersInv'
  <1> DEFINE x == From(c)
             number == req[c].number
  <1>1. /\ pc[c] = "commit" /\ conn' = NoCaller
        /\ UNCHANGED <<invoices, next, saved, final>>
    BY DEF Commit, InTx, fileVars
  <1>2. conn = c /\ conn # NoCaller
    BY <1>1, ConstantsAssumption DEF NumbersInv, HandlersHold, TxPhase
  <1>3. x \in Sender /\ Args(c).company \in Company
    BY <1>1, ArgsInRequests
  <1>4. CASE Args(c).dryRun
    <2>1. /\ pc' = [pc EXCEPT ![c] = "idle"] /\ req' = [req EXCEPT ![c] = Idle]
          /\ issued' = issued
      BY <1>4 DEF Commit, Done, Goto
    <2>2. invoices' = Durable.invoices /\ next' = Durable.next
      BY <1>1, <1>2, <1>4 DEF NumbersInv, Pending, Durable
    <2>3. NumberTypes' /\ HandlersHold'
      <3>1. "idle" \in Phase /\ "idle" \notin TxPhase /\ HasFields(Idle)
        BY DEF Phase, TxPhase, HasFields, Idle
      <3>2. next' \in [Sender -> Nat] /\ saved'.next \in [Sender -> Nat]
            /\ issued' \in [Sender -> SUBSET Nat] /\ conn' \in Caller \cup {NoCaller}
        BY <1>1, <2>1 DEF NumbersInv, NumberTypes
      <3>3. conn' # c /\ \A d \in Caller \ {c} : conn' = d <=> conn = d
        BY <1>1, <1>2, ConstantsAssumption
      <3> QED BY <2>1, <3>1, <3>2, <3>3, HandlerMoves
    <2>4. RenamesKept
      BY <2>1 DEF RenamesKept, NumbersInv, NumberTypes
    <2> QED BY <1>1, <2>1, <2>2, <2>3, <2>4, Restored
  <1>5. CASE ~Args(c).dryRun
    <2>1. /\ pc' = [pc EXCEPT ![c] = "rename"] /\ req' = req
          /\ issued' = [issued EXCEPT ![x] = @ \cup {number}]
      BY <1>5 DEF Commit, Goto
    <2>2. Durable = saved /\ Durable' = [invoices |-> invoices, next |-> next]
      BY <1>1, <1>2 DEF Durable
    <2>3. /\ saved.next[x] = number /\ number >= FirstNumber
          /\ next = [saved.next EXCEPT ![x] = number + 1]
      BY <1>2, <1>5 DEF NumbersInv, Pending
    <2>4. next \in [Sender -> Nat] /\ saved.next \in [Sender -> Nat]
          /\ issued \in [Sender -> SUBSET Nat]
      BY DEF NumbersInv, NumberTypes
    <2>5. number \in Nat /\ number # 0
      BY <1>3, <2>3, <2>4, ConstantsAssumption
    <2>6. issued[x] = FirstNumber..(number - 1) /\ number \notin issued[x]
      BY <1>3, <2>2, <2>3, <2>5, ConstantsAssumption DEF NumbersInv, Committed
    <2>7. issued'[x] = FirstNumber..number /\ \A y \in Sender : issued[y] \subseteq issued'[y]
      <3> HIDE DEF x, number
      <3>1. issued'[x] = issued[x] \cup {number} /\ \A y \in Sender : issued[y] \subseteq issued'[y]
        BY <1>3, <2>1, <2>4
      <3>2. FirstNumber..(number - 1) \cup {number} = FirstNumber..number
        BY <2>3, <2>5, ConstantsAssumption
      <3> QED BY <2>6, <3>1, <3>2
    <2>8. \A i \in saved.invoices :
            /\ i.company \in Company
            /\ i.number # NoNumber => i.number \in issued[BilledFrom[i.company]]
      BY <2>2 DEF NumbersInv, Committed
    <2>9. \A i \in invoices : i \in saved.invoices \/ (i.number = number /\ i.company = Args(c).company)
      BY <1>2 DEF NumbersInv, Pending
    <2>10. \A i \in saved.invoices : i.number = number => BilledFrom[i.company] # x
      BY <2>5, <2>6, <2>8 DEF NoNumber
    <2>11. NumberTypes' /\ HandlersHold'
      <3>1. "rename" \in Phase /\ "rename" \notin TxPhase
        BY DEF Phase, TxPhase
      <3>2. HasFields(req[c]) /\ req' = [req EXCEPT ![c] = req[c]]
            /\ \E r \in Requests : req[c].args = {r}
        BY <1>1, <2>1 DEF NumbersInv, NumberTypes, HandlersHold
      <3>3. next' \in [Sender -> Nat] /\ saved'.next \in [Sender -> Nat]
            /\ issued' \in [Sender -> SUBSET Nat] /\ conn' \in Caller \cup {NoCaller}
        BY <1>1, <1>3, <2>1, <2>4, <2>5
      <3>4. conn' # c /\ \A d \in Caller \ {c} : conn' = d <=> conn = d
        BY <1>1, <1>2, ConstantsAssumption
      <3> QED BY <2>1, <3>1, <3>2, <3>3, <3>4, HandlerMoves
    <2>12. Committed'
      <3>1. ASSUME NEW y \in Sender
            PROVE  /\ next[y] = 0 \/ next[y] >= FirstNumber
                   /\ issued'[y] = IF next[y] = 0 THEN {} ELSE FirstNumber..(next[y] - 1)
        <4>1. CASE y = x
          <5> HIDE DEF x, number
          <5>1. next[y] = number + 1
            BY <1>3, <2>3, <2>4, <4>1
          <5>2. next[y] # 0 /\ next[y] - 1 = number /\ next[y] >= FirstNumber
            BY <2>3, <2>5, <5>1, ConstantsAssumption
          <5> QED BY <2>7, <4>1, <5>2
        <4>2. CASE y # x
          <5>1. next[y] = saved.next[y] /\ issued'[y] = issued[y]
            BY <2>1, <2>3, <2>4, <4>2
          <5> QED BY <2>2, <5>1 DEF NumbersInv, Committed
        <4> QED BY <4>1, <4>2
      <3>2. ASSUME NEW i \in invoices
            PROVE  /\ i.company \in Company
                   /\ i.number # NoNumber => i.number \in issued'[BilledFrom[i.company]]
        <4>1. CASE i \in saved.invoices
          BY <2>7, <2>8, <4>1, ConstantsAssumption
        <4>2. CASE i.number = number /\ i.company = Args(c).company
          BY <1>3, <2>3, <2>5, <2>7, <4>2, ConstantsAssumption DEF From
        <4> QED BY <2>9, <4>1, <4>2
      <3>3. ASSUME NEW i \in invoices, NEW j \in invoices,
                   i.number # NoNumber, i.number = j.number,
                   BilledFrom[i.company] = BilledFrom[j.company]
            PROVE  i = j
        <4>1. CASE i \in saved.invoices /\ j \in saved.invoices
          BY <2>2, <3>3, <4>1 DEF NumbersInv, Committed
        <4>2. CASE i \notin saved.invoices /\ j \notin saved.invoices
          BY <1>2, <4>2 DEF NumbersInv, Pending
        <4>3. CASE i \in saved.invoices /\ j \notin saved.invoices
          BY <2>9, <2>10, <3>3, <4>3 DEF From
        <4>4. CASE i \notin saved.invoices /\ j \in saved.invoices
          BY <2>9, <2>10, <3>3, <4>4 DEF From
        <4> QED BY <4>1, <4>2, <4>3, <4>4
      <3> QED BY <1>1, <2>2, <3>1, <3>2, <3>3 DEF Committed
    <2>13. FilesDescribe'
      <3>1. ASSUME NEW y, NEW n, NEW k, Describes(y, n, k) PROVE Describes(y, n, k)'
        <4>1. y \in Sender /\ n \in issued[y] /\ n \in issued'[y]
          BY <2>7, <3>1 DEF Describes
        <4>2. ASSUME NEW i \in invoices, i.number = n, BilledFrom[i.company] = y
              PROVE  i.company = k
          <5>1. i \in saved.invoices
            BY <2>6, <2>9, <4>1, <4>2 DEF From
          <5> QED BY <2>2, <3>1, <4>2, <5>1 DEF Describes
        <4> QED BY <1>1, <2>2, <4>1, <4>2 DEF Describes
      <3>2. Describes(x, number, Args(c).company)'
        <4>1. number \in issued'[x] /\ x \in Sender
          BY <1>3, <2>3, <2>5, <2>7, ConstantsAssumption
        <4>2. ASSUME NEW i \in invoices, i.number = number, BilledFrom[i.company] = x
              PROVE  i.company = Args(c).company
          BY <2>9, <2>10, <4>2
        <4>3. Args(c)' = Args(c) /\ x' = x /\ number' = number
          BY <2>1 DEF Args, From
        <4> HIDE DEF x, number
        <4> QED BY <1>1, <2>2, <4>1, <4>2, <4>3 DEF Describes
      <3>3. \A f \in final' : Describes(f.sender, f.number, f.company)'
        BY <1>1, <3>1 DEF NumbersInv, FilesDescribe
      <3>4. ASSUME NEW d \in Caller, pc'[d] = "rename"
            PROVE  Describes(From(d), req[d].number, Args(d).company)'
        <4>1. CASE d = c
          BY <3>2, <4>1
        <4>2. CASE d # c
          <5>1. Describes(From(d), req[d].number, Args(d).company)
            BY <2>1, <3>4, <4>2 DEF NumbersInv, NumberTypes, FilesDescribe
          <5>2. From(d)' = From(d) /\ Args(d)' = Args(d) /\ req'[d] = req[d]
            BY <2>1 DEF From, Args
          <5> QED BY <3>1, <5>1, <5>2
        <4> QED BY <4>1, <4>2
      <3> QED BY <3>3, <3>4 DEF FilesDescribe
    <2>14. Pending'
      BY <1>1 DEF Pending
    <2> QED BY <2>11, <2>12, <2>13, <2>14 DEF NumbersInv
  <1> QED BY <1>4, <1>5

\* A PDF gets its client-facing path, after its number was committed.
LEMMA RenameNumbers ==
  ASSUME NumbersInv, NEW c \in Caller, Rename(c)
  PROVE  NumbersInv'
  <1>1. /\ pc[c] = "rename" /\ final' = final \cup {Pdf(c)}
        /\ pc' = [pc EXCEPT ![c] = "idle"] /\ req' = [req EXCEPT ![c] = Idle]
        /\ UNCHANGED <<invoices, next, conn, saved, issued>>
    BY DEF Rename, Done, Goto, dbVars, txVars
  <1>2. conn # c
    BY <1>1 DEF NumbersInv, HandlersHold, TxPhase
  <1>3. Durable' = Durable
    BY <1>1 DEF Durable
  <1>4. NumberTypes' /\ HandlersHold'
    <2>1. "idle" \in Phase /\ "idle" \notin TxPhase /\ HasFields(Idle)
      BY DEF Phase, TxPhase, HasFields, Idle
    <2>2. next' \in [Sender -> Nat] /\ saved'.next \in [Sender -> Nat]
          /\ issued' \in [Sender -> SUBSET Nat] /\ conn' \in Caller \cup {NoCaller}
      BY <1>1 DEF NumbersInv, NumberTypes
    <2> QED BY <1>1, <1>2, <2>1, <2>2, HandlerMoves
  <1>5. Committed'
    BY <1>1, <1>3 DEF NumbersInv, Committed
  <1>6. Pending'
    <2>1. ASSUME conn # NoCaller
          PROVE  pc'[conn] = pc[conn] /\ req'[conn] = req[conn]
                 /\ Args(conn)' = Args(conn) /\ From(conn)' = From(conn)
      BY <1>1, <1>2, <2>1 DEF NumbersInv, NumberTypes, Args, From
    <2> QED BY <1>1, <2>1 DEF NumbersInv, Pending
  <1>7. FilesDescribe'
    <2>1. ASSUME NEW y, NEW n, NEW k, Describes(y, n, k) PROVE Describes(y, n, k)'
      BY <1>1, <1>3, <2>1 DEF Describes
    <2>2. Describes(From(c), req[c].number, Args(c).company)
      BY <1>1 DEF NumbersInv, FilesDescribe
    <2>3. ASSUME NEW f \in final' PROVE Describes(f.sender, f.number, f.company)
      <3>1. CASE f \in final
        BY <3>1 DEF NumbersInv, FilesDescribe
      <3>2. CASE f = Pdf(c)
        BY <2>2, <3>2 DEF Pdf
      <3> QED BY <1>1, <3>1, <3>2
    <2>4. ASSUME NEW d \in Caller, pc'[d] = "rename"
          PROVE  Describes(From(d), req[d].number, Args(d).company)'
      <3>1. pc[d] = "rename" /\ req'[d] = req[d] /\ d # c
        BY <1>1, <2>4 DEF NumbersInv, NumberTypes
      <3>2. From(d)' = From(d) /\ Args(d)' = Args(d)
        BY <3>1 DEF From, Args
      <3>3. Describes(From(d), req[d].number, Args(d).company)
        BY <3>1 DEF NumbersInv, FilesDescribe
      <3> QED BY <2>1, <3>1, <3>2, <3>3
    <2> QED BY <2>1, <2>3, <2>4 DEF FilesDescribe
  <1> QED BY <1>4, <1>5, <1>6, <1>7 DEF NumbersInv

\* Every step of the poller, of a client, of a handler, and every stop.
LEMMA NextNumbers == NumbersInv /\ [Next]_vars => NumbersInv'
  <1> SUFFICES ASSUME NumbersInv, [Next]_vars PROVE NumbersInv'
    OBVIOUS
  <1>1. CASE Second \/ RecordTick \/ EmptyTick \/ SetRows \/ UNCHANGED vars
    <2>1. UNCHANGED numbering
      BY <1>1 DEF Second, RecordTick, EmptyTick, SetRows, SetPaused, CompanyAdd, numbering, vars, dbVars, txVars, fileVars
    <2> QED BY <2>1, NumberingUnchanged
  <1>2. CASE Crash
    BY <1>2, CrashNumbers
  <1>3. ASSUME NEW c \in Caller, Client(c) PROVE NumbersInv'
    BY <1>3, CallNumbers
  <1>4. ASSUME NEW c \in Caller, HandlerNext(c) PROVE NumbersInv'
    BY <1>4, StatementNumbers, BeginNumbers, RenderNumbers, InsertNumbers, CommitNumbers,
       RenameNumbers, FailNumbers, TxFailNumbers
       DEF HandlerNext, HandlerWorks
  <1> QED BY <1>1, <1>2, <1>3, <1>4 DEF Next, SetRows

\* The inductive invariant holds of every reachable state, for every set of
\* companies, senders, clients, requests and failures.
THEOREM Numbering == Spec => []NumbersInv
  <1> QED BY InitNumbers, NextNumbers, PTL DEF Spec

\* The numbers of a sender are gapless: a rollback, a dry run, a refused
\* invoice or a stop takes back the number with everything else.
THEOREM Gapless == Spec => []GaplessNumbers
  <1>1. NumbersInv => GaplessNumbers
    BY DEF NumbersInv, Committed, Durable, GaplessNumbers
  <1> QED BY <1>1, Numbering, PTL

\* The number an open transaction has taken was never issued.
LEMMA PendingNumberIsNew ==
  ASSUME NumbersInv, conn # NoCaller, ~Args(conn).dryRun
  PROVE  req[conn].number \notin issued[From(conn)] /\ From(conn) \in Sender
  <1>1. conn \in Caller /\ pc[conn] # "idle"
    BY DEF NumbersInv, NumberTypes, HandlersHold, TxPhase
  <1>2. From(conn) \in Sender
    BY <1>1, ArgsInRequests
  <1>3. saved.next[From(conn)] = req[conn].number /\ saved.next \in [Sender -> Nat]
    BY DEF NumbersInv, NumberTypes, Pending
  <1>4. issued[From(conn)] = IF req[conn].number = 0 THEN {}
                             ELSE FirstNumber..(req[conn].number - 1)
    BY <1>2, <1>3 DEF NumbersInv, Committed, Durable
  <1> QED BY <1>2, <1>3, <1>4, ConstantsAssumption

\* No two rows of one sender carry the same number, the row of an open
\* transaction included.
THEOREM Unique == Spec => []UniqueNumbers
  <1>1. ASSUME NumbersInv PROVE UniqueNumbers
    <2> SUFFICES ASSUME NEW i \in invoices, NEW j \in invoices,
                        i.number # NoNumber, i.number = j.number,
                        BilledFrom[i.company] = BilledFrom[j.company]
                 PROVE  i = j
      BY DEF UniqueNumbers
    <2>1. CASE i \in Durable.invoices /\ j \in Durable.invoices
      BY <1>1, <2>1 DEF NumbersInv, Committed
    <2>2. CASE ~(i \in Durable.invoices /\ j \in Durable.invoices)
      <3>1. /\ conn # NoCaller /\ Durable = saved /\ ~Args(conn).dryRun
            /\ \A m \in invoices \ saved.invoices :
                 m.number = req[conn].number /\ m.company = Args(conn).company
            /\ \A m, n \in invoices \ saved.invoices : m = n
        BY <1>1, <2>2 DEF NumbersInv, Pending, Durable
      <3>2. req[conn].number \notin issued[From(conn)]
        BY <1>1, <3>1, PendingNumberIsNew
      <3>3. \A m \in saved.invoices :
              m.number # NoNumber => m.number \in issued[BilledFrom[m.company]]
        BY <1>1, <3>1 DEF NumbersInv, Committed
      <3> QED BY <2>2, <3>1, <3>2, <3>3 DEF From
    <2> QED BY <2>1, <2>2
  <1> QED BY <1>1, Numbering, PTL

\* A PDF at a client-facing path has a committed number and is of the company
\* of the row that carries it.
THEOREM Files == Spec => []FilesAreIssued
  <1>1. ASSUME NumbersInv PROVE FilesAreIssued
    <2> SUFFICES ASSUME NEW f \in final
                 PROVE  /\ f.number \in issued[f.sender]
                        /\ \A i \in invoices :
                             i.number = f.number /\ BilledFrom[i.company] = f.sender
                             => i.company = f.company
      BY DEF FilesAreIssued
    <2>1. Describes(f.sender, f.number, f.company)
      BY <1>1 DEF NumbersInv, FilesDescribe
    <2>2. ASSUME NEW i \in invoices, i.number = f.number, BilledFrom[i.company] = f.sender
          PROVE  i.company = f.company
      <3>1. CASE i \in Durable.invoices
        BY <2>1, <2>2, <3>1 DEF Describes
      <3>2. CASE i \notin Durable.invoices
        <4>1. /\ conn # NoCaller /\ ~Args(conn).dryRun
              /\ i.number = req[conn].number /\ i.company = Args(conn).company
          BY <1>1, <3>2 DEF NumbersInv, Pending, Durable
        <4>2. req[conn].number \notin issued[From(conn)]
          BY <1>1, <4>1, PendingNumberIsNew
        <4> QED BY <2>1, <2>2, <4>1, <4>2 DEF Describes, From
      <3> QED BY <3>1, <3>2
    <2> QED BY <2>1, <2>2 DEF Describes
  <1> QED BY <1>1, Numbering, PTL

-----------------------------------------------------------------------------
\* Rows are finitely many: sums and maxima over them are what SQLite computes.
Finite == IsFiniteSet(invoices) /\ IsFiniteSet(saved.invoices)

\* What every step preserves: the types, with the numbering and the
\* transactions they depend on.
LedgerInv == TypeOK /\ NumbersInv /\ Finite

-----------------------------------------------------------------------------
(* The queries and helpers of the model.                                   *)

\* An id that is not taken, and larger than all that are.
LEMMA NextIdIsNew ==
    ASSUME NEW S, IsFiniteSet(S), \A i \in S : i.id \in Nat
    PROVE  NextId(S) \in Nat /\ \A i \in S : i.id < NextId(S)
<1> DEFINE f == [i \in S |-> i.id]
           T == {i.id : i \in S}
<1>1. T = {f[i] : i \in S}
  OBVIOUS
<1> HIDE DEF f
<1>2. IsFiniteSet(T) /\ T \in SUBSET Int
  <2>1. IsFiniteSet({f[i] : i \in S})
    BY ImageIsFinite
  <2>2. \A x \in T : x \in Int
    OBVIOUS
  <2> HIDE DEF T
  <2> QED BY <1>1, <2>1, <2>2
<1>3. CASE S = {}
  BY <1>3 DEF NextId
<1>4. CASE S # {}
  <2>1. T # {}
    BY <1>4
  <2>2. NextId(S) = Max(T) + 1
    BY <1>4 DEF NextId
  <2>3. Max(T) \in T /\ \A y \in T : y <= Max(T)
    <3> HIDE DEF T
    <3> QED BY <1>2, <2>1, MaxOfFinite
  <2>4. Max(T) \in Nat
    BY <2>3
  <2>5. \A i \in S : i.id \in T
    OBVIOUS
  <2> HIDE DEF T
  <2>6. ASSUME NEW i \in S PROVE i.id < Max(T) + 1
    BY <2>3, <2>4, <2>5
  <2> QED BY <2>2, <2>4, <2>6
<1> QED BY <1>3, <1>4

\* The anchor of company k among the rows S.
Anchor(S, k) ==
    LET sent == {i.sent : i \in {j \in S : j.company = k /\ j.kind # "advance"}}
    IN IF sent = {} THEN 0 ELSE Max(sent)

\* The anchor is the latest of the invoices it looks at, or zero.
LEMMA AnchorIsLatest ==
    ASSUME NEW S, IsFiniteSet(S), S \subseteq Invoice, NEW k
    PROVE  /\ Anchor(S, k) \in Nat
           /\ \A i \in S : i.company = k /\ i.kind # "advance" => i.sent <= Anchor(S, k)
           /\ Anchor(S, k) = 0 \/ \E i \in S : /\ i.company = k /\ i.kind # "advance"
                                              /\ i.sent = Anchor(S, k)
<1> DEFINE R == {j \in S : j.company = k /\ j.kind # "advance"}
           f == [i \in R |-> i.sent]
           T == {i.sent : i \in R}
<1>1. T = {f[i] : i \in R}
  OBVIOUS
<1>2. IsFiniteSet(T)
  <2>1. IsFiniteSet(R)
    BY FS_Subset
  <2>2. IsFiniteSet({f[i] : i \in R})
    <3> HIDE DEF f, R
    <3> QED BY <2>1, ImageIsFinite
  <2> HIDE DEF T, f
  <2> QED BY <1>1, <2>2
<1>3. \A i \in R : i.sent \in Nat
  BY DEF Invoice
<1>4. T \in SUBSET Nat
  BY <1>3
<1>5. Anchor(S, k) = IF T = {} THEN 0 ELSE Max(T)
  BY DEF Anchor
<1>6. CASE T = {}
  <2>1. \A i \in R : i.sent \in T
    OBVIOUS
  <2>2. R = {}
    BY <1>6, <2>1
  <2> QED BY <1>5, <1>6, <2>2
<1>7. CASE T # {}
  <2>1. Max(T) \in T /\ \A y \in T : y <= Max(T)
    <3> HIDE DEF T
    <3>1. T \in SUBSET Int
      BY <1>4
    <3> QED BY <1>2, <1>7, <3>1, MaxOfFinite
  <2>2. \A i \in R : i.sent \in T
    OBVIOUS
  <2>3. \E i \in R : i.sent = Max(T)
    BY <2>1
  <2>4. Anchor(S, k) = Max(T)
    BY <1>5, <1>7
  <2> HIDE DEF T
  <2> QED BY <1>4, <2>1, <2>2, <2>3, <2>4
<1> QED BY <1>6, <1>7

\* The model's anchor is that of all rows.
LEMMA AnchorOfAll == ASSUME NEW k PROVE LastInvoiceSent(k) = Anchor(invoices, k)
  BY DEF LastInvoiceSent, Anchor

\* Counted seconds lie in the window and on the clock.
LEMMA SecondsInWindow ==
    ASSUME TypeOK, NEW k, NEW from, NEW to
    PROVE  /\ SecondsBetween(k, from, to) \subseteq 1..MaxClock
           /\ \A ts \in SecondsBetween(k, from, to) : from <= ts /\ ts < to
  BY DEF TypeOK, SecondsBetween

\* Applied credit is not negative, and no more than there is.
LEMMA CreditApplied ==
    ASSUME NEW credit \in Int, NEW line \in Int, NEW goodwill \in Int
    PROVE  LET a == ApplyCredit(credit, line, goodwill)
           IN  a \in Nat /\ (a = 0 \/ a <= credit)
<1>1. ASSUME NEW a \in Int, NEW b \in Int
      PROVE  Max({a, b}) = (IF a >= b THEN a ELSE b) /\ Min({a, b}) = (IF a <= b THEN a ELSE b)
  <2>1. Max({a, b}) \in {a, b} /\ \A y \in {a, b} : y <= Max({a, b})
    <3>1. \E x \in {a, b} : \A y \in {a, b} : x >= y
      OBVIOUS
    <3> QED BY <3>1 DEF Max
  <2>2. Min({a, b}) \in {a, b} /\ \A y \in {a, b} : y >= Min({a, b})
    <3>1. \E x \in {a, b} : \A y \in {a, b} : x =< y
      OBVIOUS
    <3> QED BY <3>1 DEF Min
  <2> QED BY <2>1, <2>2
<1> DEFINE rest == Max({0, line - goodwill})
           least == Min({credit, rest})
<1>2. rest \in Int /\ rest >= 0
  BY <1>1
<1> HIDE DEF rest
<1>3. least \in Int /\ least <= credit
  BY <1>1, <1>2
<1>4. ApplyCredit(credit, line, goodwill) = Max({0, least})
  BY DEF ApplyCredit, rest
<1> HIDE DEF least
<1>5. Max({0, least}) = IF 0 >= least THEN 0 ELSE least
  BY <1>1, <1>3
<1> QED BY <1>3, <1>4, <1>5

\* What the rows S leave company k to spend.
Balance(S, k) ==
    LET rows == {i \in S : i.company = k}
    IN SumFunctionOnSet([i \in S |-> i.total], {i \in rows : i.kind = "advance"})
       - SumFunctionOnSet([i \in S |-> i.applied], rows)

\* The model's balance is that of all rows, and an amount.
LEMMA BalanceType ==
    ASSUME NEW S, IsFiniteSet(S), S \subseteq Invoice, NEW k
    PROVE  Balance(S, k) \in Int
<1> DEFINE R == {i \in S : i.company = k}
           A == {i \in R : i.kind = "advance"}
           f == [i \in S |-> i.total]
           g == [i \in S |-> i.applied]
<1>1. IsFiniteSet(R) /\ IsFiniteSet(A)
  <2>1. R \in SUBSET S /\ A \in SUBSET S
    OBVIOUS
  <2> HIDE DEF R, A
  <2> QED BY <2>1, FS_Subset
<1>2. (\A i \in A : f[i] \in Int) /\ (\A i \in R : g[i] \in Int)
  BY DEF Invoice
<1>3. Balance(S, k) = SumFunctionOnSet(f, A) - SumFunctionOnSet(g, R)
  BY DEF Balance
<1> HIDE DEF f, g, A, R
<1>4. SumFunctionOnSet(f, A) \in Int /\ SumFunctionOnSet(g, R) \in Int
  BY <1>1, <1>2, SumType
<1> QED BY <1>3, <1>4

\* A new row adds what it prepays and takes what it applies, of its own company.
LEMMA BalanceAdd ==
    ASSUME NEW S, IsFiniteSet(S), S \subseteq Invoice,
           NEW row \in Invoice, row \notin S, NEW k
    PROVE  Balance(S \cup {row}, k) =
             Balance(S, k) + (IF row.company = k /\ row.kind = "advance" THEN row.total ELSE 0)
                           - (IF row.company = k THEN row.applied ELSE 0)
<1> DEFINE R == {i \in S : i.company = k}
           A == {i \in R : i.kind = "advance"}
           f == [i \in S |-> i.total]
           g == [i \in S |-> i.applied]
           S2 == S \cup {row}
           R2 == {i \in S2 : i.company = k}
           A2 == {i \in R2 : i.kind = "advance"}
           f2 == [i \in S2 |-> i.total]
           g2 == [i \in S2 |-> i.applied]
<1>1. R \in SUBSET S /\ A \in SUBSET S
  OBVIOUS
<1>2. IsFiniteSet(R) /\ IsFiniteSet(A)
  <2> HIDE DEF R, A
  <2> QED BY <1>1, FS_Subset
<1>3. /\ \A i \in S : f2[i] = f[i] /\ g2[i] = g[i]
      /\ \A i \in S2 : f2[i] \in Int /\ g2[i] \in Int
      /\ f2[row] = row.total /\ g2[row] = row.applied
  BY DEF Invoice
<1>4. /\ R2 = IF row.company = k THEN R \cup {row} ELSE R
      /\ A2 = IF row.company = k /\ row.kind = "advance" THEN A \cup {row} ELSE A
  OBVIOUS
<1>5. /\ Balance(S, k) = SumFunctionOnSet(f, A) - SumFunctionOnSet(g, R)
      /\ Balance(S2, k) = SumFunctionOnSet(f2, A2) - SumFunctionOnSet(g2, R2)
  BY DEF Balance
<1>6. row \notin R /\ row \notin A
  BY <1>1
<1>7. row.total \in Int /\ row.applied \in Int
  BY DEF Invoice
<1>8. \A i \in R \cup {row} : i \in S2
  BY <1>1
<1>9. \A i \in A \cup {row} : i \in S2
  BY <1>1
<1> HIDE DEF f, g, A, R, f2, g2, A2, R2
<1>10. SumFunctionOnSet(f2, A) = SumFunctionOnSet(f, A) /\ SumFunctionOnSet(f, A) \in Int
  <2>1. \A i \in A : f2[i] = f[i] /\ f[i] \in Int
    BY <1>1, <1>3
  <2> QED BY <1>2, <2>1, SumSame, SumType
<1>11. SumFunctionOnSet(g2, R) = SumFunctionOnSet(g, R) /\ SumFunctionOnSet(g, R) \in Int
  <2>1. \A i \in R : g2[i] = g[i] /\ g[i] \in Int
    BY <1>1, <1>3
  <2> QED BY <1>2, <2>1, SumSame, SumType
<1>12. SumFunctionOnSet(f2, A \cup {row}) = SumFunctionOnSet(f, A) + row.total
  <2>1. \A i \in A \cup {row} : f2[i] \in Int
    BY <1>3, <1>9
  <2>2. SumFunctionOnSet(f2, A \cup {row}) = SumFunctionOnSet(f2, A) + f2[row]
    BY <1>2, <1>6, <2>1, SumAdd
  <2> QED BY <1>3, <1>10, <2>2
<1>13. SumFunctionOnSet(g2, R \cup {row}) = SumFunctionOnSet(g, R) + row.applied
  <2>1. \A i \in R \cup {row} : g2[i] \in Int
    BY <1>3, <1>8
  <2>2. SumFunctionOnSet(g2, R \cup {row}) = SumFunctionOnSet(g2, R) + g2[row]
    BY <1>2, <1>6, <2>1, SumAdd
  <2> QED BY <1>3, <1>11, <2>2
<1>14. SumFunctionOnSet(f2, A2) = SumFunctionOnSet(f, A)
         + (IF row.company = k /\ row.kind = "advance" THEN row.total ELSE 0)
  BY <1>4, <1>10, <1>12
<1>15. SumFunctionOnSet(g2, R2) = SumFunctionOnSet(g, R)
         + (IF row.company = k THEN row.applied ELSE 0)
  BY <1>4, <1>11, <1>13
<1> QED BY <1>5, <1>7, <1>10, <1>11, <1>14, <1>15

\* A company's rows go with it; the others keep their balance.
LEMMA BalanceDrop ==
    ASSUME NEW S, IsFiniteSet(S), NEW k, NEW gone
    PROVE  Balance({i \in S : i.company # gone}, k) = IF k = gone THEN 0 ELSE Balance(S, k)
<1> DEFINE S2 == {i \in S : i.company # gone}
           R == {i \in S : i.company = k}
           A == {i \in R : i.kind = "advance"}
           R2 == {i \in S2 : i.company = k}
           A2 == {i \in R2 : i.kind = "advance"}
           f == [i \in S |-> i.total]
           g == [i \in S |-> i.applied]
           f2 == [i \in S2 |-> i.total]
           g2 == [i \in S2 |-> i.applied]
<1>1. /\ Balance(S, k) = SumFunctionOnSet(f, A) - SumFunctionOnSet(g, R)
      /\ Balance(S2, k) = SumFunctionOnSet(f2, A2) - SumFunctionOnSet(g2, R2)
  BY DEF Balance
<1>2. CASE k = gone
  <2>1. R2 = {} /\ A2 = {}
    BY <1>2
  <2> HIDE DEF f2, g2, R2, A2
  <2>2. SumFunctionOnSet(f2, {}) = 0 /\ SumFunctionOnSet(g2, {}) = 0
    BY SumEmpty
  <2> QED BY <1>1, <1>2, <2>1, <2>2
<1>3. CASE k # gone
  <2>1. R2 = R /\ A2 = A
    BY <1>3
  <2>2. R \in SUBSET S /\ A \in SUBSET S
    OBVIOUS
  <2>3. \A i \in R : f2[i] = f[i] /\ g2[i] = g[i]
    BY <1>3
  <2>4. \A i \in A : i \in R
    OBVIOUS
  <2> HIDE DEF f, g, f2, g2, R2, A2, R, A
  <2>5. IsFiniteSet(R) /\ IsFiniteSet(A)
    BY <2>2, FS_Subset
  <2>6. SumFunctionOnSet(f2, A) = SumFunctionOnSet(f, A)
    BY <2>3, <2>4, <2>5, SumSame
  <2>7. SumFunctionOnSet(g2, R) = SumFunctionOnSet(g, R)
    BY <2>3, <2>5, SumSame
  <2> QED BY <1>1, <1>3, <2>1, <2>6, <2>7
<1> QED BY <1>2, <1>3

-----------------------------------------------------------------------------
(* What each handler does, as the proofs below look at it.                 *)

\* A line item is an amount, which only an advance can leave below zero.
LEMMA LineTotalType ==
    ASSUME LedgerInv, NEW c \in Caller, pc[c] # "idle"
    PROVE  LineTotal(c) \in Int
<1>1. Args(c) \in Request /\ Args(c).company \in Company
  BY ArgsInRequests, ConstantsAssumption DEF LedgerInv
<1>2. Args(c).amount \in Int
  BY <1>1 DEF Request
<1>3. Cardinality(req[c].secs) \in Nat
  <2>1. req[c].secs \in SUBSET (1..MaxClock)
    BY DEF LedgerInv, TypeOK
  <2>2. IsFiniteSet(1..MaxClock)
    BY FS_Interval, ConstantsAssumption
  <2> QED BY <2>1, <2>2, FS_Subset, FS_CardinalityType
<1>4. Rate \in Nat /\ Cardinality(req[c].secs) * Rate \in Int
  BY <1>3, ConstantsAssumption
<1> QED BY <1>2, <1>4 DEF LineTotal

\* The variables of a handler at place p, and the rest of the state.
HandlerTyped(p, h) ==
    /\ p \in Phase
    /\ h.args \subseteq Requests /\ h.secs \subseteq 1..MaxClock
    /\ {h.now, h.from, h.to, h.number, h.applied, h.id} \subseteq Nat

ClockTyped == clock \in 1..MaxClock /\ polling \in 0..MaxClock /\ calls \in 0..MaxCalls

RowsTyped ==
    /\ paused \subseteq Project /\ ticks \subseteq [ts : 1..MaxClock, proj : Project]
    /\ companies \subseteq Company
    /\ invoices \subseteq Invoice /\ saved.invoices \subseteq Invoice
    /\ Finite

FilesTyped == temp \subseteq Pdfs /\ final \subseteq Pdfs

\* The types fall into these parts; the numbering has those of numbers.
LEMMA TypeParts ==
    ASSUME NumbersInv
    PROVE  (TypeOK /\ Finite) <=> /\ ClockTyped /\ RowsTyped /\ FilesTyped
                                  /\ \A c \in Caller : HandlerTyped(pc[c], req[c])
  BY DEF NumbersInv, NumberTypes, TypeOK, ClockTyped, RowsTyped, FilesTyped, HandlerTyped, Finite

\* Likewise of the state after a step.
LEMMA TypePartsAfter ==
    ASSUME NumbersInv', ClockTyped', RowsTyped', FilesTyped',
           \A c \in Caller : HandlerTyped(pc'[c], req'[c])
    PROVE  TypeOK' /\ Finite'
  BY DEF NumbersInv, NumberTypes, TypeOK, ClockTyped, RowsTyped, FilesTyped, HandlerTyped, Finite

\* A step that moves one handler to w with the variables h.
LEMMA HandlerTypes ==
    ASSUME LedgerInv, NEW c \in Caller, NEW w, NEW h, HandlerTyped(w, h),
           pc' = [pc EXCEPT ![c] = w], req' = [req EXCEPT ![c] = h]
    PROVE  \A d \in Caller : HandlerTyped(pc'[d], req'[d])
<1> SUFFICES ASSUME NEW d \in Caller PROVE HandlerTyped(pc'[d], req'[d])
  OBVIOUS
<1>1. pc \in [Caller -> Phase] /\ req = [e \in Caller |-> req[e]]
  BY DEF LedgerInv, NumbersInv, NumberTypes
<1>2. CASE d = c
  BY <1>1, <1>2
<1>3. CASE d # c
  <2>1. pc'[d] = pc[d] /\ req'[d] = req[d]
    BY <1>1, <1>3
  <2>2. HandlerTyped(pc[d], req[d])
    BY TypeParts DEF LedgerInv
  <2> QED BY <2>1, <2>2
<1> QED BY <1>2, <1>3

\* An idle handler has variables of their types.
LEMMA IdleTyped == HandlerTyped("idle", Idle)
  BY DEF HandlerTyped, Idle, Phase, NoNumber

\* The fields of a request.
LEMMA RequestFields ==
    ASSUME NEW r \in Requests
    PROVE  /\ r.company \in Company
           /\ {r.issue, r.from, r.to} \subseteq Nat /\ {r.amount, r.discount} \subseteq Int
           /\ {r.noCredit, r.allowEmpty, r.dryRun, r.force} \subseteq BOOLEAN
           /\ r.kind = "advance" => r.discount = 0
<1>1. r \in Request /\ (r.kind = "advance" => r.discount = 0)
  BY ConstantsAssumption
<1>2. /\ r.company \in Company
      /\ r.issue \in Nat /\ r.from \in Nat /\ r.to \in Nat
      /\ r.amount \in Int /\ r.discount \in Int
      /\ r.noCredit \in BOOLEAN /\ r.allowEmpty \in BOOLEAN
      /\ r.dryRun \in BOOLEAN /\ r.force \in BOOLEAN
  BY <1>1 DEF Request
<1> QED BY <1>1, <1>2

\* The initial state has its types.
LEMMA InitLedger == Init => LedgerInv
<1> SUFFICES ASSUME Init PROVE LedgerInv
  OBVIOUS
<1>1. NumbersInv
  BY InitNumbers
<1>2. RowsTyped
  BY FS_EmptySet DEF Init, RowsTyped, Finite
<1>3. ClockTyped /\ FilesTyped
  BY ConstantsAssumption DEF Init, ClockTyped, FilesTyped
<1>4. \A c \in Caller : HandlerTyped(pc[c], req[c])
  BY IdleTyped DEF Init
<1> QED BY <1>1, <1>2, <1>3, <1>4, TypeParts DEF LedgerInv

\* The poller and the pauses.
LEMMA PollerTypes ==
    ASSUME LedgerInv, \/ Second \/ RecordTick \/ EmptyTick \/ UNCHANGED vars
                      \/ SetRows
    PROVE  TypeOK' /\ Finite'
<1>1. UNCHANGED <<invoices, txVars, fileVars, pc, req, calls, next, issued>>
  BY DEF Second, RecordTick, EmptyTick, SetRows, SetPaused, CompanyAdd, vars, dbVars, timeVars
<1>2. Finite'
  BY <1>1 DEF LedgerInv, Finite, txVars
<1>3. /\ clock' \in 1..MaxClock /\ polling' \in 0..MaxClock
      /\ paused' \subseteq Project /\ ticks' \subseteq [ts : 1..MaxClock, proj : Project]
      /\ companies' \subseteq Company
  <2>1. CASE Second
    <3>1. clock \in 1..MaxClock /\ polling \in 0..MaxClock /\ clock + 1 \in 1..MaxClock
      BY <2>1, ConstantsAssumption DEF Second, LedgerInv, TypeOK
    <3> QED BY <2>1, <3>1 DEF Second, LedgerInv, TypeOK, dbVars
  <2>2. CASE RecordTick
    <3>1. PICK P \in SUBSET (Project \ paused) :
            ticks' = ticks \cup {[ts |-> polling, proj |-> p] : p \in P}
      BY <2>2 DEF RecordTick
    <3>2. polling \in 1..MaxClock /\ polling' = 0 /\ UNCHANGED <<clock, paused, companies>>
      BY <2>2, ConstantsAssumption DEF RecordTick, LedgerInv, TypeOK
    <3>3. \A p \in P : [ts |-> polling, proj |-> p] \in [ts : 1..MaxClock, proj : Project]
      BY <3>2
    <3> QED BY <3>1, <3>2, <3>3, ConstantsAssumption DEF LedgerInv, TypeOK
  <2>3. CASE EmptyTick \/ UNCHANGED vars
    BY <2>3, ConstantsAssumption DEF EmptyTick, vars, timeVars, dbVars, LedgerInv, TypeOK
  <2>4. ASSUME NEW p \in Project, SetPaused(p)
        PROVE  /\ UNCHANGED <<clock, polling, ticks>> /\ paused' \subseteq Project
               /\ UNCHANGED companies
    BY <2>4 DEF SetPaused, LedgerInv, TypeOK, timeVars
  <2>5. ASSUME NEW k \in Company, CompanyAdd(k)
        PROVE  /\ UNCHANGED <<clock, polling, ticks, paused>> /\ companies' \subseteq Company
    BY <2>5 DEF CompanyAdd, LedgerInv, TypeOK, timeVars
  <2> QED BY <2>1, <2>2, <2>3, <2>4, <2>5 DEF LedgerInv, TypeOK, SetRows
<1>4. TypeOK'
  BY <1>1, <1>3 DEF LedgerInv, TypeOK, txVars, fileVars
<1> QED BY <1>2, <1>4

\* A new row is a row, and there are finitely many still.
LEMMA RowAdded ==
    ASSUME NEW S, S \subseteq Invoice, IsFiniteSet(S), NEW row \in Invoice
    PROVE  S \cup {row} \subseteq Invoice /\ IsFiniteSet(S \cup {row})
  BY FS_AddElement

\* A call begins its handler, or adds a cutoff.
LEMMA CallTypes ==
    ASSUME LedgerInv, NEW c \in Caller, Client(c), NumbersInv'
    PROVE  TypeOK' /\ Finite'
<1>1. PICK r \in Requests :
        \/ InvoiceGenerate(c, r) \/ InvoiceAdvance(c, r) \/ InvoiceSend(c, r)
        \/ \E i \in invoices : InvoiceDelete(c, r, i.id)
        \/ CompanyDelete(c, r)
  BY DEF Client
<1>2. /\ UNCHANGED <<timeVars, paused, ticks, companies, txVars, fileVars>>
      /\ calls' = calls + 1 /\ calls < MaxCalls
  BY <1>1 DEF InvoiceGenerate, InvoiceAdvance, InvoiceSend, InvoiceDelete, CompanyDelete, Called
<1>3. ClockTyped'
  BY <1>2, ConstantsAssumption DEF ClockTyped, LedgerInv, TypeOK, timeVars
<1>4. FilesTyped'
  BY <1>2 DEF FilesTyped, LedgerInv, TypeOK, fileVars
<1>5. /\ r.company \in Company /\ {r} \subseteq Requests
      /\ r.issue \in Nat /\ r.from \in Nat /\ r.to \in Nat /\ clock \in Nat
  BY RequestFields DEF LedgerInv, TypeOK
<1>6. ASSUME UNCHANGED invoices PROVE RowsTyped'
  BY <1>2, <1>6 DEF RowsTyped, Finite, LedgerInv, TypeOK, txVars
<1>7. CASE InvoiceSend(c, r)
  <2>1. NextId(invoices) \in Nat
    <3>1. \A i \in invoices : i.id \in Nat
      BY DEF LedgerInv, TypeOK, Invoice
    <3> QED BY <3>1, NextIdIsNew DEF LedgerInv, Finite
  <2> DEFINE row == [id |-> NextId(invoices), company |-> r.company,
                     sent |-> IF r.issue > 0 THEN r.issue ELSE clock, kind |-> "hourly",
                     number |-> NoNumber, total |-> 0, applied |-> 0, secs |-> {}]
  <2>2. row \in Invoice
    BY <1>5, <2>1 DEF Invoice, NoNumber
  <2>3. invoices' = invoices \cup {row} /\ UNCHANGED <<pc, req>>
    BY <1>7 DEF InvoiceSend
  <2> HIDE DEF row
  <2>4. invoices' \subseteq Invoice /\ IsFiniteSet(invoices')
    BY <2>2, <2>3, RowAdded DEF LedgerInv, TypeOK, Finite
  <2>5. RowsTyped'
    BY <1>2, <2>4 DEF RowsTyped, Finite, LedgerInv, TypeOK, txVars
  <2>6. \A d \in Caller : HandlerTyped(pc'[d], req'[d])
    BY <2>3, TypeParts DEF LedgerInv
  <2> QED BY <1>3, <1>4, <2>5, <2>6, TypePartsAfter
<1>8. ASSUME NEW h, NEW w \in {"count", "begin", "dropInvoice", "dropCompany"},
             pc' = [pc EXCEPT ![c] = w], req' = [req EXCEPT ![c] = h], UNCHANGED invoices,
             h.args = {r}, h.secs = {},
             {h.now, h.from, h.to, h.number, h.applied, h.id} \subseteq Nat
      PROVE  TypeOK' /\ Finite'
  <2>1. HandlerTyped(w, h)
    BY <1>5, <1>8 DEF HandlerTyped, Phase
  <2>2. \A d \in Caller : HandlerTyped(pc'[d], req'[d])
    BY <1>8, <2>1, HandlerTypes
  <2> QED BY <1>3, <1>4, <1>6, <1>8, <2>2, TypePartsAfter
<1>9. CASE InvoiceGenerate(c, r)
  <2>1. PeriodStart(r.company) \in Nat
    BY <1>5, ConstantsAssumption, AnchorOfAll, AnchorIsLatest
       DEF PeriodStart, LedgerInv, TypeOK, Finite
  <2> DEFINE now == IF r.issue > 0 THEN r.issue ELSE clock
             hourly == Mode[r.company] = "hourly"
             from == IF r.from > 0 THEN r.from ELSE IF hourly THEN PeriodStart(r.company) ELSE 0
             to == IF r.to > 0 THEN r.to ELSE IF hourly THEN now ELSE 0
             h == [Idle EXCEPT !.args = {r}, !.now = now, !.from = from, !.to = to]
  <2>2. now \in Nat /\ from \in Nat /\ to \in Nat
    BY <1>5, <2>1
  <2>3. /\ h.args = {r} /\ h.secs = {}
        /\ {h.now, h.from, h.to, h.number, h.applied, h.id} \subseteq Nat
    <3> HIDE DEF now, from, to
    <3> QED BY <2>2 DEF Idle, NoNumber
  <2>4. /\ pc' = [pc EXCEPT ![c] = IF hourly THEN "count" ELSE "begin"]
        /\ req' = [req EXCEPT ![c] = h] /\ UNCHANGED invoices
    BY <1>9 DEF InvoiceGenerate, Goto
  <2> HIDE DEF h, hourly
  <2> QED BY <1>8, <2>3, <2>4
<1>10. CASE InvoiceAdvance(c, r)
  <2> DEFINE h == [Idle EXCEPT !.args = {r}, !.now = IF r.issue > 0 THEN r.issue ELSE clock]
  <2>1. /\ h.args = {r} /\ h.secs = {}
        /\ {h.now, h.from, h.to, h.number, h.applied, h.id} \subseteq Nat
    BY <1>5 DEF Idle, NoNumber
  <2>2. /\ pc' = [pc EXCEPT ![c] = "begin"] /\ req' = [req EXCEPT ![c] = h] /\ UNCHANGED invoices
    BY <1>10 DEF InvoiceAdvance, Goto
  <2> HIDE DEF h
  <2> QED BY <1>8, <2>1, <2>2
<1>11. ASSUME NEW i \in invoices, InvoiceDelete(c, r, i.id) PROVE TypeOK' /\ Finite'
  <2> DEFINE h == [Idle EXCEPT !.args = {r}, !.id = i.id]
  <2>1. /\ h.args = {r} /\ h.secs = {}
        /\ {h.now, h.from, h.to, h.number, h.applied, h.id} \subseteq Nat
    BY <1>5 DEF Idle, NoNumber, LedgerInv, TypeOK, Invoice
  <2>2. /\ pc' = [pc EXCEPT ![c] = "dropInvoice"] /\ req' = [req EXCEPT ![c] = h]
        /\ UNCHANGED invoices
    BY <1>11 DEF InvoiceDelete, Goto
  <2> HIDE DEF h
  <2> QED BY <1>8, <2>1, <2>2
<1>12. CASE CompanyDelete(c, r)
  <2> DEFINE h == [Idle EXCEPT !.args = {r}]
  <2>1. /\ h.args = {r} /\ h.secs = {}
        /\ {h.now, h.from, h.to, h.number, h.applied, h.id} \subseteq Nat
    BY <1>5 DEF Idle, NoNumber
  <2>2. /\ pc' = [pc EXCEPT ![c] = "dropCompany"] /\ req' = [req EXCEPT ![c] = h]
        /\ UNCHANGED invoices
    BY <1>12 DEF CompanyDelete, Goto
  <2> HIDE DEF h
  <2> QED BY <1>8, <2>1, <2>2
<1> QED BY <1>1, <1>7, <1>9, <1>10, <1>11, <1>12

\* A statement outside a transaction, or a failure there.
LEMMA StatementTypes ==
    ASSUME LedgerInv, NEW c \in Caller, NumbersInv',
           CountTicks(c) \/ DropInvoice(c) \/ DropCompany(c) \/ Fails(c)
    PROVE  TypeOK' /\ Finite'
<1>1. /\ UNCHANGED <<timeVars, paused, ticks, txVars, fileVars, calls>>
      /\ invoices' \subseteq invoices /\ companies' \subseteq companies
  BY DEF CountTicks, DropInvoice, DropCompany, Fails, Statement, dbVars
<1>2. ClockTyped' /\ FilesTyped'
  BY <1>1 DEF ClockTyped, FilesTyped, LedgerInv, TypeOK, timeVars, fileVars
<1>3. RowsTyped'
  <2>1. IsFiniteSet(invoices')
    BY <1>1, FS_Subset DEF LedgerInv, Finite
  <2> QED BY <1>1, <2>1 DEF RowsTyped, Finite, LedgerInv, TypeOK, txVars
<1>4. \A d \in Caller : HandlerTyped(pc'[d], req'[d])
  <2>1. CASE Done(c)
    BY <2>1, IdleTyped, HandlerTypes DEF Done, Goto
  <2>2. CASE ~Done(c)
    <3> DEFINE secs == SecondsBetween(Args(c).company, req[c].from, req[c].to)
               h == [req[c] EXCEPT !.secs = secs]
    <3>1. pc' = [pc EXCEPT ![c] = "begin"] /\ req' = [req EXCEPT ![c].secs = secs]
      BY <2>2 DEF CountTicks, DropInvoice, DropCompany, Fails, Goto
    <3>2. req' = [req EXCEPT ![c] = h]
      BY <3>1
    <3>3. HandlerTyped("begin", h)
      <4>1. secs \subseteq 1..MaxClock
        BY SecondsInWindow DEF LedgerInv
      <4>2. HandlerTyped(pc[c], req[c]) /\ HasFields(req[c])
        BY TypeParts DEF LedgerInv, NumbersInv, NumberTypes
      <4> HIDE DEF secs
      <4>3. /\ h.args = req[c].args /\ h.secs = secs /\ h.now = req[c].now
            /\ h.from = req[c].from /\ h.to = req[c].to /\ h.number = req[c].number
            /\ h.applied = req[c].applied /\ h.id = req[c].id
        BY <4>2 DEF HasFields
      <4> HIDE DEF h
      <4> QED BY <4>1, <4>2, <4>3 DEF HandlerTyped, Phase
    <3> HIDE DEF h
    <3> QED BY <3>1, <3>2, <3>3, HandlerTypes
  <2> QED BY <2>1, <2>2
<1> QED BY <1>2, <1>3, <1>4, TypePartsAfter

\* The model's balance is that of all rows.
LEMMA BalanceOfAll == ASSUME NEW k PROVE CreditBalance(k) = Balance(invoices, k)
  BY DEF CreditBalance, Balance

\* What a transaction applies is an amount, no more than the balance it reads.
LEMMA CreditOfBegin ==
    ASSUME LedgerInv, NEW c \in Caller, Begin(c)
    PROVE  /\ HasFields(req'[c]) /\ req' = [req EXCEPT ![c] = req'[c]]
           /\ req'[c].args = req[c].args /\ req'[c].secs = req[c].secs
           /\ req'[c].now = req[c].now /\ req'[c].from = req[c].from
           /\ req'[c].to = req[c].to /\ req'[c].id = req[c].id
           /\ req'[c].number = Seeded(c)[From(c)]
           /\ req'[c].applied \in Nat
           /\ req'[c].applied = 0 \/ req'[c].applied <= Balance(invoices, Args(c).company)
           /\ Args(c).kind = "advance" => req'[c].applied = 0
<1> DEFINE a == IF Args(c).kind = "advance" \/ Args(c).noCredit THEN 0
                ELSE ApplyCredit(CreditBalance(Args(c).company), LineTotal(c), Args(c).discount)
           b == Balance(invoices, Args(c).company)
           n == Seeded(c)[From(c)]
<1>1. req' = [req EXCEPT ![c].number = n, ![c].applied = a]
  BY DEF Begin
<1>2. req = [d \in Caller |-> req[d]] /\ HasFields(req[c])
  BY DEF LedgerInv, NumbersInv, NumberTypes
<1>3. Args(c) \in Requests /\ pc[c] # "idle"
  BY ArgsInRequests DEF LedgerInv, Begin
<1>4. LineTotal(c) \in Int /\ Args(c).discount \in Int
  BY <1>3, LineTotalType, RequestFields
<1>5. b \in Int
  BY BalanceType DEF LedgerInv, TypeOK, Finite
<1>6. a \in Nat /\ (a = 0 \/ a <= b) /\ (Args(c).kind = "advance" => a = 0)
  <2> DEFINE l == LineTotal(c)
             g == Args(c).discount
  <2>1. ApplyCredit(b, l, g) \in Nat /\ (ApplyCredit(b, l, g) = 0 \/ ApplyCredit(b, l, g) <= b)
    <3> HIDE DEF b, l, g
    <3> QED BY <1>4, <1>5, CreditApplied DEF l, g
  <2>2. a = IF Args(c).kind = "advance" \/ Args(c).noCredit THEN 0 ELSE ApplyCredit(b, l, g)
    BY BalanceOfAll
  <2> HIDE DEF a, b, l, g
  <2> QED BY <2>1, <2>2
<1> HIDE DEF a, b, n
<1>7. req'[c] = [req[c] EXCEPT !.number = n, !.applied = a] /\ req' = [req EXCEPT ![c] = req'[c]]
  BY <1>1, <1>2
<1> QED BY <1>2, <1>6, <1>7 DEF HasFields, b, n

\* A transaction begins.
LEMMA BeginTypes ==
    ASSUME LedgerInv, NEW c \in Caller, Begin(c), NumbersInv'
    PROVE  TypeOK' /\ Finite'
<1>1. /\ UNCHANGED <<timeVars, paused, ticks, companies, invoices, fileVars, calls>>
      /\ saved'.invoices = invoices /\ pc' = [pc EXCEPT ![c] = "render"]
  BY DEF Begin, Goto
<1>2. ClockTyped' /\ FilesTyped' /\ RowsTyped'
  BY <1>1 DEF ClockTyped, FilesTyped, RowsTyped, Finite, LedgerInv, TypeOK, timeVars, fileVars
<1>3. HandlerTyped("render", req'[c])
  <2>1. Seeded(c)[From(c)] \in Nat
    <3>1. From(c) \in Sender
      BY ArgsInRequests DEF LedgerInv, Begin
    <3> QED BY <3>1, ConstantsAssumption DEF Seeded, LedgerInv, NumbersInv, NumberTypes
  <2>2. HandlerTyped(pc[c], req[c])
    BY TypeParts DEF LedgerInv
  <2> QED BY <2>1, <2>2, CreditOfBegin DEF HandlerTyped, Phase
<1>4. \A d \in Caller : HandlerTyped(pc'[d], req'[d])
  BY <1>1, <1>3, CreditOfBegin, HandlerTypes
<1> QED BY <1>2, <1>4, TypePartsAfter

\* The files a transaction leaves behind are files.
LEMMA PdfType ==
    ASSUME LedgerInv, NEW c \in Caller, pc[c] # "idle"
    PROVE  Pdf(c) \in Pdfs /\ TempWithout(c) \subseteq Pdfs
<1>1. From(c) \in Sender /\ Args(c).company \in Company /\ req[c].number \in Nat
  BY ArgsInRequests DEF LedgerInv, TypeOK
<1> QED BY <1>1 DEF Pdf, Pdfs, TempWithout, LedgerInv, TypeOK

\* A rollback brings the rows back that the transaction found.
LEMMA RollbackTypes ==
    ASSUME LedgerInv, NEW c \in Caller, Rollback(c), pc[c] # "idle",
           UNCHANGED <<timeVars, paused, ticks, companies, calls, final>>,
           temp' \in {temp, TempWithout(c)}, NumbersInv'
    PROVE  TypeOK' /\ Finite'
<1>1. /\ invoices' = saved.invoices /\ saved' = saved
      /\ pc' = [pc EXCEPT ![c] = "idle"] /\ req' = [req EXCEPT ![c] = Idle]
  BY DEF Rollback, Done, Goto
<1>2. ClockTyped' /\ RowsTyped'
  BY <1>1 DEF ClockTyped, RowsTyped, Finite, LedgerInv, TypeOK, timeVars
<1>3. FilesTyped'
  BY PdfType DEF FilesTyped, LedgerInv, TypeOK
<1>4. \A d \in Caller : HandlerTyped(pc'[d], req'[d])
  BY <1>1, IdleTyped, HandlerTypes
<1> QED BY <1>2, <1>3, <1>4, TypePartsAfter

\* The row of an invoice is a row.
LEMMA RowType ==
    ASSUME LedgerInv, NEW c \in Caller, pc[c] # "idle"
    PROVE  Row(c) \in Invoice /\ Row(c) \notin invoices
<1>1. NextId(invoices) \in Nat /\ \A i \in invoices : i.id < NextId(invoices)
  <2>1. \A i \in invoices : i.id \in Nat
    BY DEF LedgerInv, TypeOK, Invoice
  <2> QED BY <2>1, NextIdIsNew DEF LedgerInv, Finite
<1>2. Args(c) \in Requests /\ Args(c).company \in Company /\ Args(c).discount \in Int
  BY ArgsInRequests, RequestFields DEF LedgerInv
<1>3. /\ req[c].now \in Nat /\ req[c].number \in Nat /\ req[c].applied \in Nat
      /\ req[c].secs \in SUBSET (1..MaxClock)
  BY DEF LedgerInv, TypeOK
<1>4. LineTotal(c) \in Int
  BY LineTotalType
<1> DEFINE l == LineTotal(c)
           n == NextId(invoices)
<1>5. Row(c).id = n /\ Row(c) \in Invoice
  <2>1. Row(c) = [id |-> n, company |-> Args(c).company, sent |-> req[c].now,
                  kind |-> IF Args(c).kind = "advance" THEN "advance" ELSE "hourly",
                  number |-> req[c].number,
                  total |-> l - Args(c).discount - req[c].applied,
                  applied |-> req[c].applied, secs |-> req[c].secs]
    BY DEF Row
  <2>2. l \in Int /\ n \in Nat
    BY <1>1, <1>4
  <2> HIDE DEF l, n
  <2>3. l - Args(c).discount - req[c].applied \in Int
    BY <1>2, <1>3, <2>2
  <2> QED BY <1>2, <1>3, <2>1, <2>2, <2>3 DEF Invoice
<1> HIDE DEF n
<1>6. \A i \in invoices : i.id < n /\ n \in Nat /\ i.id \in Nat
  BY <1>1 DEF n, LedgerInv, TypeOK, Invoice
<1> QED BY <1>5, <1>6

\* The steps inside a transaction.
LEMMA InsideTypes ==
    ASSUME LedgerInv, NEW c \in Caller, Render(c) \/ Insert(c) \/ TxFails(c), NumbersInv'
    PROVE  TypeOK' /\ Finite'
<1>1. /\ UNCHANGED <<timeVars, paused, ticks, companies, calls>>
      /\ pc[c] \in TxPhase /\ pc[c] # "idle"
  BY DEF Render, Insert, TxFails, InTx, TxPhase
<1>2. CASE Rollback(c)
  <2>1. UNCHANGED final /\ temp' \in {temp, TempWithout(c)}
    <3>1. pc' = [pc EXCEPT ![c] = "idle"] /\ pc \in [Caller -> Phase]
      BY <1>2 DEF Rollback, Done, Goto, LedgerInv, NumbersInv, NumberTypes
    <3>2. pc'[c] = "idle"
      BY <3>1
    <3>3. CASE TxFails(c)
      BY <3>3 DEF TxFails
    <3>4. CASE Render(c)
      BY <3>1, <3>2, <3>4 DEF Render, Goto, fileVars
    <3>5. CASE Insert(c)
      BY <3>1, <3>2, <3>5 DEF Insert, Goto, fileVars
    <3> QED BY <3>3, <3>4, <3>5
  <2> QED BY <1>1, <1>2, <2>1, RollbackTypes
<1>3. CASE ~Rollback(c)
  <2>1. /\ \E w \in {"insert", "commit"} : pc' = [pc EXCEPT ![c] = w]
        /\ UNCHANGED <<txVars, final, req>>
    BY <1>3 DEF Render, Insert, TxFails, Goto, fileVars
  <2>2. FilesTyped'
    <3>1. temp' \subseteq temp \cup TempWithout(c) \cup {Pdf(c)}
      BY <1>3 DEF Render, Insert, TxFails, fileVars
    <3> QED BY <1>1, <2>1, <3>1, PdfType DEF FilesTyped, LedgerInv, TypeOK
  <2>3. invoices' \subseteq Invoice /\ IsFiniteSet(invoices')
    <3>1. invoices' = invoices \/ invoices' = invoices \cup {Row(c)}
      BY <1>3 DEF Render, Insert, TxFails
    <3>2. Row(c) \in Invoice
      BY <1>1, RowType
    <3> QED BY <3>1, <3>2, RowAdded DEF LedgerInv, TypeOK, Finite
  <2>4. RowsTyped' /\ ClockTyped'
    BY <1>1, <2>1, <2>3 DEF RowsTyped, ClockTyped, Finite, LedgerInv, TypeOK, timeVars, txVars
  <2>5. \A d \in Caller : HandlerTyped(pc'[d], req'[d])
    <3>1. \A d \in Caller : HandlerTyped(pc[d], req[d])
      BY TypeParts DEF LedgerInv
    <3>2. \A d \in Caller : pc'[d] \in Phase
      BY <2>1 DEF LedgerInv, NumbersInv, NumberTypes, Phase
    <3> QED BY <2>1, <3>1, <3>2 DEF HandlerTyped
  <2> QED BY <2>2, <2>4, <2>5, TypePartsAfter
<1> QED BY <1>2, <1>3

\* A commit, and the rename that follows it.
LEMMA CommitTypes ==
    ASSUME LedgerInv, NEW c \in Caller, Commit(c) \/ Rename(c), NumbersInv'
    PROVE  TypeOK' /\ Finite'
<1>1. /\ UNCHANGED <<timeVars, paused, ticks, companies, calls, invoices, saved>>
      /\ pc[c] # "idle" /\ temp' \subseteq temp /\ final' \subseteq final \cup {Pdf(c)}
  BY DEF Commit, Rename, InTx, dbVars, txVars, fileVars
<1>2. ClockTyped' /\ RowsTyped'
  BY <1>1 DEF ClockTyped, RowsTyped, Finite, LedgerInv, TypeOK, timeVars
<1>3. FilesTyped'
  BY <1>1, PdfType DEF FilesTyped, LedgerInv, TypeOK
<1>4. \A d \in Caller : HandlerTyped(pc'[d], req'[d])
  <2>1. CASE Done(c)
    BY <2>1, IdleTyped, HandlerTypes DEF Done, Goto
  <2>2. CASE ~Done(c)
    <3>1. pc' = [pc EXCEPT ![c] = "rename"] /\ UNCHANGED req
      BY <2>2 DEF Commit, Rename, Goto
    <3>2. \A d \in Caller : HandlerTyped(pc[d], req[d])
      BY TypeParts DEF LedgerInv
    <3>3. \A d \in Caller : pc'[d] \in Phase
      BY <3>1 DEF LedgerInv, NumbersInv, NumberTypes, Phase
    <3> QED BY <3>1, <3>2, <3>3 DEF HandlerTyped
  <2> QED BY <2>1, <2>2
<1> QED BY <1>2, <1>3, <1>4, TypePartsAfter

\* A stop.
LEMMA CrashTypes ==
    ASSUME LedgerInv, Crash, NumbersInv'
    PROVE  TypeOK' /\ Finite'
<1>1. /\ UNCHANGED <<clock, paused, ticks, companies, saved, fileVars, calls>>
      /\ invoices' \in {invoices, saved.invoices} /\ polling' = 0
      /\ pc' = [c \in Caller |-> "idle"] /\ req' = [c \in Caller |-> Idle]
  BY DEF Crash
<1>2. ClockTyped' /\ RowsTyped' /\ FilesTyped'
  BY <1>1, ConstantsAssumption
     DEF ClockTyped, RowsTyped, FilesTyped, Finite, LedgerInv, TypeOK, fileVars
<1>3. \A d \in Caller : HandlerTyped(pc'[d], req'[d])
  BY <1>1, IdleTyped
<1> QED BY <1>2, <1>3, TypePartsAfter

\* Every step keeps the types.
LEMMA LedgerKept ==
    ASSUME LedgerInv, Next \/ UNCHANGED vars
    PROVE  LedgerInv'
<1>1. NumbersInv'
  BY NextNumbers DEF LedgerInv
<1>2. TypeOK' /\ Finite'
  <2>1. ASSUME NEW c \in Caller, HandlerNext(c) PROVE TypeOK' /\ Finite'
    BY <1>1, <2>1, StatementTypes, BeginTypes, InsideTypes, CommitTypes DEF HandlerNext, HandlerWorks
  <2>2. ASSUME NEW c \in Caller, Client(c) PROVE TypeOK' /\ Finite'
    BY <1>1, <2>2, CallTypes
  <2> QED BY <1>1, <2>1, <2>2, PollerTypes, CrashTypes DEF Next, SetRows
<1> QED BY <1>1, <1>2 DEF LedgerInv

\* The clock, the rows, the files and what the handlers hold are of their types:
\* an id, a number and an applied credit are never negative, and counted seconds are
\* on the clock, whatever the clients ask for and whatever fails.
THEOREM LedgerTyped == Spec => []TypeOK
<1>1. Init => LedgerInv
  BY InitLedger
<1>2. LedgerInv /\ [Next]_vars => LedgerInv'
  BY LedgerKept
<1>3. LedgerInv => TypeOK
  BY DEF LedgerInv
<1> QED BY <1>1, <1>2, <1>3, PTL DEF Spec

-----------------------------------------------------------------------------
(* Who changes the rows of invoices, and whose handler moves.              *)

\* A transaction that adds its row: it holds the connection, and found the rows
\* as they are.
Inserts(c) ==
    /\ pc[c] = "insert" /\ conn = c /\ conn' = c /\ invoices = saved.invoices
    /\ ~Args(c).dryRun /\ Args(c).company \in companies
    /\ invoices' = invoices \cup {Row(c)}
    /\ pc' = [pc EXCEPT ![c] = "commit"] /\ UNCHANGED <<req, saved, ticks, companies, clock>>

\* A rollback, or a stop during a transaction.
Restores ==
    /\ conn # NoCaller /\ conn' = NoCaller /\ invoices' = saved.invoices
    /\ UNCHANGED <<ticks, companies>>

\* Nothing else changes an invoice.
LEMMA InvoiceWriters ==
    ASSUME LedgerInv, Next \/ UNCHANGED vars
    PROVE  \/ invoices' = invoices
           \/ Restores
           \/ \E c \in Caller : \/ Inserts(c) \/ DropInvoice(c) \/ DropCompany(c)
                                \/ \E r \in Requests : InvoiceSend(c, r)
<1> DEFINE G == \/ invoices' = invoices
                \/ Restores
                \/ \E c \in Caller : \/ Inserts(c) \/ DropInvoice(c) \/ DropCompany(c)
                                     \/ \E r \in Requests : InvoiceSend(c, r)
<1>1. CASE Second \/ RecordTick \/ EmptyTick \/ SetRows \/ UNCHANGED vars
  BY <1>1 DEF Second, RecordTick, EmptyTick, SetRows, SetPaused, CompanyAdd, dbVars, vars
<1>2. CASE Crash
  BY <1>2 DEF Crash, Restores
<1>3. ASSUME NEW c \in Caller, Client(c) PROVE G
  BY <1>3 DEF Client, InvoiceGenerate, InvoiceAdvance, InvoiceDelete, CompanyDelete
<1>4. ASSUME NEW c \in Caller, HandlerNext(c) PROVE G
  <2>1. CASE CountTicks(c) \/ Begin(c) \/ Commit(c) \/ Rename(c) \/ Fails(c)
    BY <2>1 DEF CountTicks, Begin, Commit, Rename, Fails, dbVars
  <2>2. CASE DropInvoice(c) \/ DropCompany(c)
    BY <2>2
  <2>3. ASSUME Rollback(c), pc[c] \in TxPhase, UNCHANGED <<ticks, companies>> PROVE Restores
    <3>1. conn = c /\ conn # NoCaller
      BY <2>3, ConstantsAssumption DEF LedgerInv, NumbersInv, HandlersHold
    <3> QED BY <2>3, <3>1 DEF Rollback, Restores
  <2>4. CASE Render(c) \/ TxFails(c)
    BY <2>3, <2>4 DEF Render, TxFails, InTx, TxPhase
  <2>5. CASE Insert(c)
    <3>1. pc[c] = "insert" /\ conn = c /\ conn # NoCaller /\ invoices = saved.invoices
      BY <2>5, ConstantsAssumption
         DEF Insert, InTx, LedgerInv, NumbersInv, HandlersHold, Pending, TxPhase
    <3>2. CASE Args(c).dryRun \/ Args(c).company \in companies
      BY <2>5, <3>1, <3>2 DEF Insert, InTx, Inserts, Goto, txVars, timeVars
    <3>3. CASE ~(Args(c).dryRun \/ Args(c).company \in companies)
      BY <2>3, <2>5, <3>1, <3>3 DEF Insert, InTx, TxPhase
    <3> QED BY <3>2, <3>3
  <2> QED BY <1>4, <2>1, <2>2, <2>4, <2>5 DEF HandlerNext, HandlerWorks
<1> QED BY <1>1, <1>2, <1>3, <1>4 DEF Next, SetRows

\* A row that a transaction inserts is a row of its own.
LEMMA InsertedRow ==
    ASSUME LedgerInv, NEW c \in Caller, Inserts(c)
    PROVE  /\ Row(c) \in Invoice /\ Row(c) \notin invoices
           /\ Row(c).company = Args(c).company /\ Row(c).sent = req[c].now
           /\ Row(c).kind = (IF Args(c).kind = "advance" THEN "advance" ELSE "hourly")
           /\ Row(c).secs = req[c].secs /\ Row(c).applied = req[c].applied
           /\ Args(c).kind = "advance" =>
                 Row(c).total = Args(c).amount - Args(c).discount - req[c].applied
           /\ \A i \in invoices : i.id # Row(c).id
<1>1. pc[c] # "idle"
  BY DEF Inserts
<1>2. \A i \in invoices : i.id \in Nat
  BY DEF LedgerInv, TypeOK, Invoice
<1>3. NextId(invoices) \in Nat /\ \A i \in invoices : i.id < NextId(invoices)
  BY <1>2, NextIdIsNew DEF LedgerInv, Finite
<1>4. \A i \in invoices : i.id # NextId(invoices)
  BY <1>2, <1>3
<1> QED BY <1>1, <1>4, RowType DEF Row, LineTotal

\* A cutoff is a row with a new id, that carries nothing.
LEMMA CutoffRow ==
    ASSUME LedgerInv, NEW c \in Caller, NEW r \in Requests, InvoiceSend(c, r)
    PROVE  \E row \in Invoice :
             /\ invoices' = invoices \cup {row} /\ row \notin invoices
             /\ row.company = r.company /\ row.kind = "hourly"
             /\ row.total = 0 /\ row.applied = 0 /\ row.secs = {}
             /\ \A i \in invoices : i.id # row.id
             /\ conn = NoCaller /\ UNCHANGED <<conn, saved, pc, req, companies, ticks>>
<1> DEFINE row == [id |-> NextId(invoices), company |-> r.company,
                   sent |-> IF r.issue > 0 THEN r.issue ELSE clock, kind |-> "hourly",
                   number |-> NoNumber, total |-> 0, applied |-> 0, secs |-> {}]
<1>1. \A i \in invoices : i.id \in Nat
  BY DEF LedgerInv, TypeOK, Invoice
<1>2. NextId(invoices) \in Nat /\ \A i \in invoices : i.id < NextId(invoices)
  BY <1>1, NextIdIsNew DEF LedgerInv, Finite
<1>3. \A i \in invoices : i.id # NextId(invoices)
  BY <1>1, <1>2
<1>4. row \in Invoice
  BY <1>2, RequestFields DEF Invoice, NoNumber, LedgerInv, TypeOK
<1>5. /\ invoices' = invoices \cup {row}
      /\ conn = NoCaller /\ UNCHANGED <<conn, saved, pc, req, companies, ticks>>
  BY DEF InvoiceSend, Called, txVars
<1>6. row \notin invoices /\ \A i \in invoices : i.id # row.id
  BY <1>3
<1> QED BY <1>4, <1>5, <1>6

\* One call at a time.
OneCaller == \A c, d \in Caller : c = d

\* A handler that is neither idle nor at its end moves by a step of its own, or is
\* stopped: with one caller, only a stop, the poller or itself does anything.
LEMMA AloneSteps ==
    ASSUME LedgerInv, Next \/ UNCHANGED vars, OneCaller, NEW c \in Caller
    PROVE  \/ UNCHANGED <<pc, req, invoices, conn, saved>> /\ companies \subseteq companies'
           \/ HandlerNext(c) \/ Client(c)
           \/ pc'[c] = "idle" /\ conn' = NoCaller /\ UNCHANGED companies
<1>1. CASE Second \/ RecordTick \/ EmptyTick \/ SetRows \/ UNCHANGED vars
  BY <1>1 DEF Second, RecordTick, EmptyTick, SetRows, SetPaused, CompanyAdd, dbVars, txVars, vars
<1>2. CASE Crash
  BY <1>2 DEF Crash
<1>3. ASSUME NEW d \in Caller, Client(d) \/ HandlerNext(d) PROVE HandlerNext(c) \/ Client(c)
  BY <1>3 DEF OneCaller
<1> QED BY <1>1, <1>2, <1>3 DEF Next, SetRows

-----------------------------------------------------------------------------
(* Deletions, one call at a time.                                          *)

\* No step of a handler leads to a deletion or a count: only a call does.
LEMMA DeletionsBegin ==
    ASSUME LedgerInv, NEW c \in Caller, HandlerNext(c)
    PROVE  pc'[c] \notin {"dropInvoice", "dropCompany", "count"}
<1>1. pc \in [Caller -> Phase]
  BY DEF LedgerInv, NumbersInv, NumberTypes
<1>2. \E w \in {"idle", "begin", "render", "insert", "commit", "rename"} : pc' = [pc EXCEPT ![c] = w]
  BY DEF HandlerNext, HandlerWorks, CountTicks, DropInvoice, DropCompany, Begin, Render, Insert,
         Commit, Rename, Fails, TxFails, Rollback, Done, Goto
<1> QED BY <1>1, <1>2

\* An id is never given twice while its row is there.
UniqueIds == \A i, j \in invoices : i.id = j.id => i = j

\* Ids stay unique: a new one is larger than all, and a rollback only removes rows.
LEMMA UniqueIdsKept ==
    ASSUME LedgerInv, UniqueIds, Next \/ UNCHANGED vars
    PROVE  UniqueIds'
<1>1. CASE invoices' = invoices
  BY <1>1 DEF UniqueIds
<1>2. CASE Restores
  BY <1>2 DEF Restores, UniqueIds, LedgerInv, NumbersInv, Pending
<1>3. ASSUME NEW row, invoices' = invoices \cup {row}, \A i \in invoices : i.id # row.id
      PROVE  UniqueIds'
  BY <1>3 DEF UniqueIds
<1>4. ASSUME NEW c \in Caller, Inserts(c) PROVE UniqueIds'
  BY <1>3, <1>4, InsertedRow DEF Inserts
<1>5. ASSUME NEW c \in Caller, NEW r \in Requests, InvoiceSend(c, r) PROVE UniqueIds'
  BY <1>3, <1>5, CutoffRow
<1>6. ASSUME NEW c \in Caller, DropInvoice(c) \/ DropCompany(c) PROVE UniqueIds'
  BY <1>6 DEF DropInvoice, DropCompany, UniqueIds
<1> QED BY <1>1, <1>2, <1>4, <1>5, <1>6, InvoiceWriters

\* A row about to be deleted without --force is still there and carries no credit.
DeleteChecked ==
    \A c \in Caller : pc[c] = "dropInvoice" /\ ~Args(c).force =>
        \E i \in invoices : i.id = req[c].id /\ i.kind # "advance" /\ i.applied = 0

\* What the guard of a deletion found is so when the deletion comes.
DeletionsInv == UniqueIds /\ DeleteChecked

\* With one caller nothing comes between a guard and its deletion but the poller.
LEMMA DeletionsKept ==
    ASSUME OneCaller, LedgerInv, DeletionsInv, Next \/ UNCHANGED vars
    PROVE  DeletionsInv'
<1>1. UniqueIds'
  BY UniqueIdsKept DEF DeletionsInv
<1>2. ASSUME NEW c \in Caller, pc'[c] \in {"dropCompany", "dropInvoice"}
      PROVE  \/ UNCHANGED <<pc, req, invoices>>
             \/ \E r \in Requests : \/ CompanyDelete(c, r)
                                    \/ \E i \in invoices : InvoiceDelete(c, r, i.id)
  <2>1. CASE HandlerNext(c)
    BY <1>2, <2>1, DeletionsBegin
  <2>2. ASSUME NEW r \in Requests, InvoiceGenerate(c, r) \/ InvoiceAdvance(c, r) \/ InvoiceSend(c, r)
        PROVE  FALSE
    <3>1. pc \in [Caller -> Phase] /\ pc[c] = "idle"
      BY <2>2 DEF LedgerInv, NumbersInv, NumberTypes, InvoiceGenerate, InvoiceAdvance, InvoiceSend,
                  Called
    <3>2. pc'[c] \in {"idle", "count", "begin"}
      BY <2>2, <3>1 DEF InvoiceGenerate, InvoiceAdvance, InvoiceSend, Goto
    <3> QED BY <1>2, <3>2
  <2>3. CASE Client(c)
    BY <2>2, <2>3 DEF Client
  <2> QED BY <1>2, <2>1, <2>3, AloneSteps
<1>3. pc \in [Caller -> Phase] /\ req = [d \in Caller |-> req[d]]
  BY DEF LedgerInv, NumbersInv, NumberTypes
<1>5. DeleteChecked'
  <2> SUFFICES ASSUME NEW c \in Caller, pc'[c] = "dropInvoice", ~Args(c)'.force
               PROVE  \E i \in invoices' : i.id = req'[c].id /\ i.kind # "advance" /\ i.applied = 0
    BY DEF DeleteChecked
  <2>1. CASE UNCHANGED <<pc, req, invoices>>
    BY <2>1 DEF DeletionsInv, DeleteChecked, Args
  <2>2. ASSUME NEW r \in Requests, NEW j \in invoices, InvoiceDelete(c, r, j.id)
        PROVE  \E i \in invoices' : i.id = req'[c].id /\ i.kind # "advance" /\ i.applied = 0
    <3>1. req'[c].args = {r} /\ req'[c].id = j.id /\ invoices' = invoices
      BY <1>3, <2>2 DEF InvoiceDelete, Idle
    <3>2. Args(c)' = r
      BY <3>1 DEF Args
    <3> QED BY <2>2, <3>1, <3>2 DEF InvoiceDelete
  <2>3. ASSUME NEW r \in Requests, CompanyDelete(c, r) PROVE FALSE
    BY <1>3, <2>3 DEF CompanyDelete, Goto
  <2> QED BY <1>2, <2>1, <2>2, <2>3
<1> QED BY <1>1, <1>5 DEF DeletionsInv

-----------------------------------------------------------------------------
(* Hours: no second is billed twice, none is left behind.                  *)

\* Generates that bill from the anchor to their own date, as without --from
\* and --to: a period of the client's choice may overlap any other.
OwnPeriods == \A r \in Requests : r.kind = "generate" => r.from = 0 /\ r.to = 0

\* The places of a handler between its call and its row, and a call that counts.
Billing == {"count", "begin", "render", "insert"}
HourlyCall(c) == Args(c).kind = "generate" /\ Mode[Args(c).company] = "hourly"

\* A step of a handler that goes on billing keeps its variables, but for what it
\* counts or applies, and touches no row.
LEMMA BillingSteps ==
    ASSUME LedgerInv, NEW c \in Caller, HandlerNext(c), pc'[c] \in Billing
    PROVE  /\ pc[c] \in Billing /\ Args(c)' = Args(c)
           /\ UNCHANGED <<invoices, ticks, companies, clock, paused>>
           /\ req'[c].now = req[c].now /\ req'[c].from = req[c].from /\ req'[c].to = req[c].to
           /\ IF pc[c] = "count"
              THEN req'[c].secs = SecondsBetween(Args(c).company, req[c].from, req[c].to)
              ELSE req'[c].secs = req[c].secs
<1>1. pc \in [Caller -> Phase] /\ req = [d \in Caller |-> req[d]] /\ HasFields(req[c])
  BY DEF LedgerInv, NumbersInv, NumberTypes
<1>2. ~Done(c)
  BY <1>1 DEF Done, Goto, Billing
<1>3. CASE CountTicks(c)
  <2> DEFINE secs == SecondsBetween(Args(c).company, req[c].from, req[c].to)
  <2>1. /\ pc[c] = "count" /\ req' = [req EXCEPT ![c].secs = secs]
        /\ UNCHANGED <<invoices, ticks, companies, clock, paused>>
    BY <1>2, <1>3 DEF CountTicks, Statement, timeVars
  <2> HIDE DEF secs
  <2>2. req'[c] = [req[c] EXCEPT !.secs = secs]
    BY <1>1, <2>1
  <2>3. /\ req'[c].args = req[c].args /\ req'[c].now = req[c].now
        /\ req'[c].from = req[c].from /\ req'[c].to = req[c].to /\ req'[c].secs = secs
    BY <1>1, <2>2 DEF HasFields
  <2> QED BY <2>1, <2>3 DEF Args, secs, Billing
<1>4. CASE Begin(c)
  <2>1. pc[c] = "begin" /\ UNCHANGED <<invoices, ticks, companies, clock, paused>>
    BY <1>4 DEF Begin, timeVars
  <2> QED BY <1>4, <2>1, CreditOfBegin DEF Args, Billing
<1>5. CASE Render(c)
  <2>1. /\ pc[c] = "render" /\ UNCHANGED <<req, invoices, ticks, companies, clock, paused>>
    BY <1>2, <1>5 DEF Render, InTx, Rollback, timeVars
  <2> QED BY <2>1 DEF Args, Billing
<1>6. CASE DropInvoice(c) \/ DropCompany(c) \/ Insert(c) \/ Commit(c) \/ Rename(c) \/ Fails(c) \/ TxFails(c)
  <2>1. pc' = [pc EXCEPT ![c] = "commit"] \/ pc' = [pc EXCEPT ![c] = "rename"]
    BY <1>2, <1>6 DEF DropInvoice, DropCompany, Insert, Commit, Rename, Fails, TxFails, Rollback,
                      Goto
  <2> QED BY <1>1, <2>1 DEF Billing
<1> QED BY <1>3, <1>4, <1>5, <1>6 DEF HandlerNext, HandlerWorks

\* A call that begins to bill.
LEMMA BillingBegins ==
    ASSUME LedgerInv, NEW c \in Caller, Client(c), pc'[c] \in Billing
    PROVE  /\ UNCHANGED <<invoices, ticks, companies, clock, paused>>
           /\ req'[c].secs = {}
           /\ \E r \in Requests :
                /\ Args(c)' = r /\ r.company \in companies
                /\ \/ r.kind = "advance" /\ r.amount > 0 /\ pc'[c] = "begin"
                   \/ /\ r.kind = "generate"
                      /\ (Mode[r.company] = "hourly") = (pc'[c] = "count")
                      /\ Mode[r.company] = "hourly" /\ r.from = 0 /\ r.to = 0 =>
                            /\ req'[c].from = PeriodStart(r.company)
                            /\ req'[c].to = req'[c].now
<1>1. pc \in [Caller -> Phase] /\ req = [d \in Caller |-> req[d]]
  BY DEF LedgerInv, NumbersInv, NumberTypes
<1>2. PICK r \in Requests :
        \/ InvoiceGenerate(c, r) \/ InvoiceAdvance(c, r) \/ InvoiceSend(c, r)
        \/ \E i \in invoices : InvoiceDelete(c, r, i.id)
        \/ CompanyDelete(c, r)
  BY DEF Client
<1>3. InvoiceGenerate(c, r) \/ InvoiceAdvance(c, r)
  <2>1. ~InvoiceSend(c, r)
    BY <1>1 DEF InvoiceSend, Called, Billing
  <2>2. ~CompanyDelete(c, r) /\ ~ \E i \in invoices : InvoiceDelete(c, r, i.id)
    BY <1>1 DEF CompanyDelete, InvoiceDelete, Goto, Billing
  <2> QED BY <1>2, <2>1, <2>2
<1>4. UNCHANGED <<invoices, ticks, companies, clock, paused>> /\ r.company \in companies
  BY <1>3 DEF InvoiceGenerate, InvoiceAdvance, Called, timeVars
<1>5. CASE InvoiceGenerate(c, r)
  <2> DEFINE now == IF r.issue > 0 THEN r.issue ELSE clock
             hourly == Mode[r.company] = "hourly"
             from == IF r.from > 0 THEN r.from ELSE IF hourly THEN PeriodStart(r.company) ELSE 0
             to == IF r.to > 0 THEN r.to ELSE IF hourly THEN now ELSE 0
  <2>1. /\ req' = [req EXCEPT ![c] = [Idle EXCEPT !.args = {r}, !.now = now,
                                                !.from = from, !.to = to]]
        /\ pc' = [pc EXCEPT ![c] = IF hourly THEN "count" ELSE "begin"]
        /\ r.kind = "generate"
    BY <1>5 DEF InvoiceGenerate, Goto, Called
  <2>2. hourly /\ r.from = 0 /\ r.to = 0 => from = PeriodStart(r.company) /\ to = now
    OBVIOUS
  <2> HIDE DEF now, from, to, hourly
  <2>3. /\ req'[c].args = {r} /\ req'[c].secs = {} /\ req'[c].now = now
        /\ req'[c].from = from /\ req'[c].to = to
    BY <1>1, <2>1 DEF Idle
  <2>4. hourly = (pc'[c] = "count")
    BY <1>1, <2>1 DEF hourly
  <2>5. Args(c)' = r
    BY <2>3 DEF Args
  <2> QED BY <1>4, <2>1, <2>2, <2>3, <2>4, <2>5 DEF hourly
<1>6. CASE InvoiceAdvance(c, r)
  <2>1. req'[c].args = {r} /\ req'[c].secs = {} /\ pc'[c] = "begin"
    BY <1>1, <1>6 DEF InvoiceAdvance, Idle, Goto
  <2>2. Args(c)' = r
    BY <2>1 DEF Args
  <2> QED BY <1>4, <1>6, <2>1, <2>2 DEF InvoiceAdvance, Called
<1> QED BY <1>3, <1>5, <1>6

\* What a handler is about to bill lies between the anchor, which is still the
\* anchor, and the date of its invoice.
Window(c) ==
    /\ \A ts \in req[c].secs : req[c].from <= ts /\ ts < req[c].now /\ HourlyCall(c)
    /\ HourlyCall(c) => req[c].from = PeriodStart(Args(c).company) /\ req[c].to = req[c].now
    /\ pc[c] = "count" => HourlyCall(c)

\* Seconds on an invoice come before its date, and an advance has none.
Stamped == \A i \in invoices : \A ts \in i.secs : i.kind # "advance" /\ ts < i.sent

\* Rows and windows together, at every step.
HoursInv ==
    /\ Stamped /\ HoursBilledOnce
    /\ \A c \in Caller : pc[c] \in Billing => Window(c)

\* A row inserted from the window has no second in common with a row before it.
LEMMA InsertBillsOnce ==
    ASSUME LedgerInv, HoursInv, NEW c \in Caller, Inserts(c)
    PROVE  /\ \A ts \in Row(c).secs : /\ Row(c).kind # "advance" /\ ts < Row(c).sent
                                      /\ ts >= LastInvoiceSent(Row(c).company)
           /\ \A i \in invoices : i.company = Row(c).company => i.secs \cap Row(c).secs = {}
<1>1. Window(c) /\ Stamped
  BY DEF HoursInv, Inserts, Billing
<1>2. ASSUME NEW ts \in Row(c).secs
      PROVE  /\ Row(c).kind # "advance" /\ ts < Row(c).sent
             /\ ts >= LastInvoiceSent(Row(c).company) /\ ts \in Nat
  <2>1. ts \in req[c].secs /\ ts \in Nat
    BY InsertedRow DEF LedgerInv, TypeOK
  <2>2. LastInvoiceSent(Args(c).company) \in Nat
    BY AnchorOfAll, AnchorIsLatest DEF LedgerInv, TypeOK, Finite
  <2>3. req[c].from <= ts /\ req[c].from = PeriodStart(Args(c).company)
    BY <1>1, <2>1 DEF Window
  <2>4. ts >= LastInvoiceSent(Args(c).company)
    BY <2>1, <2>2, <2>3 DEF PeriodStart
  <2> QED BY <1>1, <2>1, <2>4, InsertedRow DEF Window, HourlyCall
<1>3. ASSUME NEW i \in invoices, i.company = Row(c).company, NEW ts \in i.secs \cap Row(c).secs
      PROVE  FALSE
  <2>1. i.kind # "advance" /\ ts < i.sent /\ i.sent \in Nat
    BY <1>1 DEF Stamped, LedgerInv, TypeOK, Invoice
  <2>2. i.sent <= LastInvoiceSent(Row(c).company) /\ LastInvoiceSent(Row(c).company) \in Nat
    BY <1>3, <2>1, AnchorOfAll, AnchorIsLatest DEF LedgerInv, TypeOK, Finite
  <2> QED BY <1>2, <2>1, <2>2
<1> QED BY <1>2, <1>3

\* Rows: the window becomes a row that fits those before it; deletions and
\* rollbacks only take rows away.
LEMMA RowsKeepHours ==
    ASSUME LedgerInv, HoursInv, Next \/ UNCHANGED vars
    PROVE  Stamped' /\ HoursBilledOnce'
<1> USE DEF HoursInv, Stamped, HoursBilledOnce
<1>1. CASE invoices' \subseteq invoices
  BY <1>1
<1>2. CASE Restores
  BY <1>1, <1>2 DEF Restores, LedgerInv, NumbersInv, Pending
<1>3. ASSUME NEW row, invoices' = invoices \cup {row},
             \A ts \in row.secs : row.kind # "advance" /\ ts < row.sent,
             \A i \in invoices : i.company = row.company => i.secs \cap row.secs = {}
      PROVE  Stamped' /\ HoursBilledOnce'
  BY <1>3
<1>4. ASSUME NEW c \in Caller, Inserts(c) PROVE Stamped' /\ HoursBilledOnce'
  <2> DEFINE row == Row(c)
  <2>1. invoices' = invoices \cup {row}
    BY <1>4 DEF Inserts
  <2>2. /\ \A ts \in row.secs : row.kind # "advance" /\ ts < row.sent
        /\ \A i \in invoices : i.company = row.company => i.secs \cap row.secs = {}
    BY <1>4, InsertBillsOnce
  <2> HIDE DEF row
  <2> QED BY <1>3, <2>1, <2>2
<1>5. ASSUME NEW c \in Caller, NEW r \in Requests, InvoiceSend(c, r)
      PROVE  Stamped' /\ HoursBilledOnce'
  BY <1>3, <1>5, CutoffRow
<1>6. ASSUME NEW c \in Caller, DropInvoice(c) \/ DropCompany(c) PROVE invoices' \subseteq invoices
  BY <1>6 DEF DropInvoice, DropCompany
<1> QED BY <1>1, <1>2, <1>4, <1>5, <1>6, InvoiceWriters

\* Handlers: with one caller no row appears between anchor and insertion.
LEMMA WindowKept ==
    ASSUME OneCaller, OwnPeriods, LedgerInv, HoursInv, Next \/ UNCHANGED vars,
           NEW c \in Caller, pc'[c] \in Billing
    PROVE  Window(c)'
<1>1. CASE UNCHANGED <<pc, req, invoices>>
  <2>1. Window(c) /\ Args(c)' = Args(c) /\ HourlyCall(c)' = HourlyCall(c)
    BY <1>1 DEF HoursInv, Args, HourlyCall
  <2>2. PeriodStart(Args(c).company)' = PeriodStart(Args(c).company)
    BY <1>1, <2>1 DEF PeriodStart, LastInvoiceSent
  <2> QED BY <1>1, <2>1, <2>2 DEF Window
<1>2. CASE HandlerNext(c)
  <2>1. Window(c) /\ HourlyCall(c)' = HourlyCall(c)
    BY <1>2, BillingSteps DEF HoursInv, HourlyCall
  <2>2. PeriodStart(Args(c).company)' = PeriodStart(Args(c).company)
    BY <1>2, BillingSteps DEF PeriodStart, LastInvoiceSent
  <2>3. pc'[c] # "count"
    BY <1>2, DeletionsBegin
  <2>4. \A ts \in req'[c].secs : req[c].from <= ts /\ ts < req[c].now /\ HourlyCall(c)
    <3>1. CASE pc[c] = "count"
      <4>1. req'[c].secs = SecondsBetween(Args(c).company, req[c].from, req[c].to)
        BY <1>2, <3>1, BillingSteps
      <4>2. HourlyCall(c) /\ req[c].to = req[c].now
        BY <2>1, <3>1 DEF Window
      <4> QED BY <4>1, <4>2, SecondsInWindow DEF LedgerInv
    <3>2. CASE pc[c] # "count"
      BY <1>2, <2>1, <3>2, BillingSteps DEF Window
    <3> QED BY <3>1, <3>2
  <2> QED BY <1>2, <2>1, <2>2, <2>3, <2>4, BillingSteps DEF Window
<1>3. CASE Client(c)
  <2>1. PICK r \in Requests :
          /\ Args(c)' = r /\ r.company \in companies
          /\ \/ r.kind = "advance" /\ pc'[c] = "begin"
             \/ /\ r.kind = "generate"
                /\ (Mode[r.company] = "hourly") = (pc'[c] = "count")
                /\ Mode[r.company] = "hourly" /\ r.from = 0 /\ r.to = 0 =>
                      /\ req'[c].from = PeriodStart(r.company)
                      /\ req'[c].to = req'[c].now
    BY <1>3, BillingBegins
  <2>2. req'[c].secs = {} /\ invoices' = invoices
    BY <1>3, BillingBegins
  <2>3. HourlyCall(c)' = (r.kind = "generate" /\ Mode[r.company] = "hourly")
    BY <2>1 DEF HourlyCall
  <2>4. PeriodStart(Args(c).company)' = PeriodStart(r.company)
    BY <2>1, <2>2 DEF PeriodStart, LastInvoiceSent
  <2> QED BY <2>1, <2>2, <2>3, <2>4 DEF Window, OwnPeriods
<1> QED BY <1>1, <1>2, <1>3, AloneSteps DEF Billing

\* One call at a time, each with its own period: seconds are billed once.
LEMMA HoursInvariant ==
    ASSUME OneCaller, OwnPeriods
    PROVE  Spec => [](LedgerInv /\ HoursInv)
<1>1. Init => LedgerInv /\ HoursInv
  <2> SUFFICES ASSUME Init PROVE HoursInv
    BY InitLedger
  <2> QED BY DEF Init, HoursInv, Stamped, HoursBilledOnce, Billing
<1>2. LedgerInv /\ HoursInv /\ [Next]_vars => (LedgerInv /\ HoursInv)'
  <2> SUFFICES ASSUME LedgerInv, HoursInv, Next \/ UNCHANGED vars PROVE LedgerInv' /\ HoursInv'
    OBVIOUS
  <2> QED BY LedgerKept, RowsKeepHours, WindowKept DEF HoursInv
<1> QED BY <1>1, <1>2, PTL DEF Spec

\* A second is on one invoice of its company: what a call counts begins at the
\* latest date of an invoice, and every second on an invoice comes before its date.
THEOREM BilledOnce ==
    ASSUME OneCaller, OwnPeriods
    PROVE  Spec => []HoursBilledOnce
<1>1. HoursInv => HoursBilledOnce
  BY DEF HoursInv
<1> QED BY <1>1, HoursInvariant, PTL

-----------------------------------------------------------------------------
(* Hours: an invoice leaves no second behind.                              *)

\* No cutoffs: moving the anchor without billing what lies behind it is what a
\* cutoff is for.
NoCutoff == \A r \in Requests : r.kind # "send"

\* No call is dated after the second it is made in: seconds between its date and
\* the clock are counted by nobody, the next invoice looks back to that date.
NotAhead == \A c \in Caller : req[c].now <= clock

\* The poller writes its tick in the tick's own second, no project is paused,
\* and rows are not dated ahead.
Timely ==
    /\ paused = {} /\ polling \in {0, clock}
    /\ \A i \in invoices : i.kind # "advance" => i.sent <= clock

\* A call that counted holds every second of its company in its period.
Bills(c) ==
    /\ Args(c).kind \in {"generate", "advance"}
    /\ HourlyCall(c) => Args(c).company \in companies
    /\ HourlyCall(c) /\ pc[c] # "count" =>
         \A t \in ticks : /\ CompanyOf[t.proj] = Args(c).company
                          /\ req[c].from <= t.ts /\ t.ts < req[c].now
                          => t.ts \in req[c].secs

\* What an open transaction has inserted begins at the anchor it found.
Fresh ==
    conn # NoCaller =>
        \A i \in invoices \ saved.invoices : \A ts \in i.secs :
            ts >= Anchor(saved.invoices, i.company)

\* The inductive invariant.
KeptInv == Timely /\ Fresh /\ \A c \in Caller : pc[c] \in Billing => Bills(c)

\* Only a poll tick adds seconds.
LEMMA TickWriters ==
    ASSUME LedgerInv, Next \/ UNCHANGED vars
    PROVE  RecordTick \/ UNCHANGED ticks
<1>1. CASE Second \/ RecordTick \/ EmptyTick \/ SetRows \/ UNCHANGED vars
  BY <1>1 DEF Second, EmptyTick, SetRows, SetPaused, CompanyAdd, dbVars, vars
<1>2. CASE Crash
  BY <1>2 DEF Crash
<1>3. ASSUME NEW c \in Caller, Client(c) PROVE UNCHANGED ticks
  BY <1>3 DEF Client, InvoiceGenerate, InvoiceAdvance, InvoiceSend, InvoiceDelete, CompanyDelete,
              Called
<1>4. ASSUME NEW c \in Caller, HandlerNext(c) PROVE UNCHANGED ticks
  BY <1>4 DEF HandlerNext, HandlerWorks, CountTicks, DropInvoice, DropCompany, Statement, Begin,
              Render, Insert, Commit, TxFails, InTx, Rename, Fails, dbVars
<1> QED BY <1>1, <1>2, <1>3, <1>4 DEF Next, SetRows

\* The clock never goes back, and without a lagging poller or pauses a tick in
\* progress is of this second.
LEMMA ClockKept ==
    ASSUME LedgerInv, Timely, Next \/ UNCHANGED vars, ~MayPause, ~PollerLags
    PROVE  clock <= clock' /\ paused' = {} /\ polling' \in {0, clock'}
<1> DEFINE G == clock <= clock' /\ paused' = {} /\ polling' \in {0, clock'}
<1>0. clock \in Nat /\ paused = {} /\ polling \in {0, clock}
  BY DEF LedgerInv, TypeOK, Timely
<1>1. CASE Second
  BY <1>0, <1>1 DEF Second, dbVars
<1>2. CASE RecordTick \/ EmptyTick \/ SetRows \/ UNCHANGED vars
  BY <1>0, <1>2 DEF RecordTick, EmptyTick, SetRows, SetPaused, CompanyAdd, dbVars, timeVars, vars
<1>3. CASE Crash
  BY <1>0, <1>3 DEF Crash
<1>4. ASSUME NEW c \in Caller, Client(c) PROVE G
  <2>1. UNCHANGED <<clock, paused, polling>>
    BY <1>4 DEF Client, InvoiceGenerate, InvoiceAdvance, InvoiceSend, InvoiceDelete, CompanyDelete,
                Called, timeVars
  <2> QED BY <1>0, <2>1
<1>5. ASSUME NEW c \in Caller, HandlerNext(c) PROVE G
  <2>1. UNCHANGED <<clock, paused, polling>>
    BY <1>5 DEF HandlerNext, HandlerWorks, CountTicks, DropInvoice, DropCompany, Statement, Begin,
                Render, Insert, Commit, TxFails, InTx, Rename, Fails, dbVars, timeVars
  <2> QED BY <1>0, <2>1
<1> QED BY <1>1, <1>2, <1>3, <1>4, <1>5 DEF Next, SetRows

\* An open transaction has just begun, has just inserted, or changed nothing.
LEMMA OpenSteps ==
    ASSUME LedgerInv, Next \/ UNCHANGED vars, conn' # NoCaller
    PROVE  \/ saved'.invoices = invoices'
           \/ UNCHANGED <<conn, saved, invoices>>
           \/ \E c \in Caller : Inserts(c)
<1> DEFINE G == saved'.invoices = invoices' \/ UNCHANGED <<conn, saved, invoices>>
<1>1. CASE Second \/ RecordTick \/ EmptyTick \/ SetRows \/ UNCHANGED vars
  BY <1>1 DEF Second, RecordTick, EmptyTick, SetRows, SetPaused, CompanyAdd, dbVars, txVars, vars
<1>2. CASE Crash
  BY <1>2 DEF Crash
<1>3. ASSUME NEW c \in Caller, Client(c) PROVE FALSE
  BY <1>3 DEF Client, InvoiceGenerate, InvoiceAdvance, InvoiceSend, InvoiceDelete, CompanyDelete,
              Called, txVars
<1>4. ASSUME NEW c \in Caller, HandlerNext(c) PROVE G \/ Inserts(c)
  <2>1. CASE CountTicks(c) \/ DropInvoice(c) \/ DropCompany(c)
    BY <2>1 DEF CountTicks, DropInvoice, DropCompany, Statement, txVars
  <2>2. CASE Begin(c)
    BY <2>2 DEF Begin
  <2>3. CASE Rename(c) \/ Fails(c)
    BY <2>3 DEF Rename, Fails, dbVars, txVars
  <2>4. CASE Commit(c) \/ TxFails(c)
    BY <2>4 DEF Commit, TxFails, Rollback
  <2>5. CASE Render(c)
    BY <2>5 DEF Render, Rollback, txVars
  <2>6. CASE Insert(c)
    <3>1. pc[c] = "insert" /\ conn = c /\ invoices = saved.invoices
      BY <2>6, ConstantsAssumption
         DEF Insert, InTx, LedgerInv, NumbersInv, HandlersHold, Pending, TxPhase
    <3>2. UNCHANGED <<req, saved, conn, ticks, companies, clock>>
      BY <2>6 DEF Insert, InTx, Rollback, txVars, timeVars
    <3>3. \/ UNCHANGED invoices
          \/ /\ ~Args(c).dryRun /\ Args(c).company \in companies
             /\ invoices' = invoices \cup {Row(c)} /\ pc' = [pc EXCEPT ![c] = "commit"]
      BY <2>6 DEF Insert, Rollback, Goto
    <3> QED BY <3>1, <3>2, <3>3 DEF Inserts
  <2> QED BY <1>4, <2>1, <2>2, <2>3, <2>4, <2>5, <2>6 DEF HandlerNext, HandlerWorks
<1> QED BY <1>1, <1>2, <1>3, <1>4 DEF Next, SetRows

\* Rows are dated no later than the clock.
LEMMA TimelyKept ==
    ASSUME LedgerInv, KeptInv, NotAhead, Next \/ UNCHANGED vars, ~MayPause, ~PollerLags, NoCutoff
    PROVE  Timely'
<1>1. clock <= clock' /\ paused' = {} /\ polling' \in {0, clock'}
  BY ClockKept DEF KeptInv
<1>2. clock \in Nat /\ clock' \in Nat /\ \A i \in invoices : i.sent \in Nat
  BY LedgerKept DEF LedgerInv, TypeOK, Invoice
<1>3. CASE invoices' \subseteq invoices
  BY <1>1, <1>2, <1>3 DEF KeptInv, Timely
<1>4. CASE Restores
  BY <1>3, <1>4 DEF Restores, LedgerInv, NumbersInv, Pending
<1>5. ASSUME NEW c \in Caller, Inserts(c) PROVE Timely'
  <2>1. Row(c).sent = req[c].now /\ req[c].now <= clock /\ req[c].now \in Nat
    BY <1>5, InsertedRow DEF NotAhead, LedgerInv, TypeOK
  <2> DEFINE row == Row(c)
  <2>2. invoices' = invoices \cup {row} /\ clock' = clock
    BY <1>5 DEF Inserts
  <2>3. row.sent <= clock
    BY <2>1
  <2> HIDE DEF row
  <2> QED BY <1>1, <2>2, <2>3 DEF KeptInv, Timely
<1>6. ASSUME NEW c \in Caller, DropInvoice(c) \/ DropCompany(c) PROVE invoices' \subseteq invoices
  BY <1>6 DEF DropInvoice, DropCompany
<1>7. ASSUME NEW c \in Caller, NEW r \in Requests, InvoiceSend(c, r) PROVE FALSE
  BY <1>7 DEF InvoiceSend, Called, NoCutoff
<1> QED BY <1>3, <1>4, <1>5, <1>6, <1>7, InvoiceWriters

\* What a transaction inserts begins at the anchor it found.
LEMMA FreshKept ==
    ASSUME LedgerInv, HoursInv, KeptInv, Next \/ UNCHANGED vars
    PROVE  Fresh'
<1> SUFFICES ASSUME conn' # NoCaller,
                    NEW i \in invoices' \ saved'.invoices, NEW ts \in i.secs
             PROVE  ts >= Anchor(saved'.invoices, i.company)
  BY DEF Fresh, Anchor
<1>1. CASE UNCHANGED <<conn, saved, invoices>>
  BY <1>1 DEF KeptInv, Fresh
<1>2. ASSUME NEW c \in Caller, Inserts(c) PROVE ts >= Anchor(saved'.invoices, i.company)
  <2>1. saved' = saved /\ saved.invoices = invoices /\ i = Row(c)
    BY <1>2 DEF Inserts
  <2> QED BY <1>2, <2>1, InsertBillsOnce, AnchorOfAll
<1> QED BY <1>1, <1>2, OpenSteps

\* With one caller, what was counted stays complete until the row is inserted:
\* the poller only adds seconds from the clock on, and nobody deletes the company.
LEMMA BillsKept ==
    ASSUME OneCaller, OwnPeriods, LedgerInv, HoursInv, KeptInv, NotAhead,
           Next \/ UNCHANGED vars, NEW c \in Caller, pc'[c] \in Billing
    PROVE  Bills(c)'
<1>1. CASE UNCHANGED <<pc, req, invoices, conn, saved>> /\ companies \subseteq companies'
  <2>1. Bills(c) /\ Args(c)' = Args(c) /\ HourlyCall(c)' = HourlyCall(c)
    BY <1>1 DEF KeptInv, Args, HourlyCall
  <2>2. \A t \in ticks' \ ticks : t.ts = clock /\ clock \in Nat
    BY TickWriters DEF RecordTick, KeptInv, Timely, LedgerInv, TypeOK
  <2>3. req[c].now <= clock /\ req[c].now \in Nat /\ clock \in Nat
    BY DEF NotAhead, LedgerInv, TypeOK
  <2>4. \A t \in ticks' \ ticks : ~(t.ts < req[c].now)
    BY <2>2, <2>3
  <2> QED BY <1>1, <2>1, <2>4 DEF Bills
<1>2. CASE HandlerNext(c)
  <2>1. /\ pc[c] \in Billing /\ Args(c)' = Args(c)
        /\ UNCHANGED <<invoices, ticks, companies, clock, paused>>
        /\ req'[c].now = req[c].now /\ req'[c].from = req[c].from
    BY <1>2, BillingSteps
  <2>2. Bills(c) /\ Window(c) /\ HourlyCall(c)' = HourlyCall(c)
    BY <2>1 DEF KeptInv, HoursInv, HourlyCall
  <2>3. ASSUME HourlyCall(c), NEW t \in ticks, CompanyOf[t.proj] = Args(c).company,
               req[c].from <= t.ts, t.ts < req[c].now
        PROVE  t.ts \in req'[c].secs
    <3>1. CASE pc[c] # "count"
      BY <1>2, <2>2, <2>3, <3>1, BillingSteps DEF Bills
    <3>2. CASE pc[c] = "count"
      <4>1. req'[c].secs = SecondsBetween(Args(c).company, req[c].from, req[c].to)
        BY <1>2, <3>2, BillingSteps
      <4>2. req[c].to = req[c].now /\ Args(c).company \in companies /\ paused = {}
        BY <2>2, <2>3 DEF Window, Bills, KeptInv, Timely
      <4> QED BY <2>3, <4>1, <4>2 DEF SecondsBetween
    <3> QED BY <3>1, <3>2
  <2> QED BY <2>1, <2>2, <2>3 DEF Bills
<1>3. CASE Client(c)
  <2>1. PICK r \in Requests :
          /\ Args(c)' = r /\ r.company \in companies
          /\ \/ r.kind = "advance"
             \/ r.kind = "generate" /\ (Mode[r.company] = "hourly") = (pc'[c] = "count")
    BY <1>3, BillingBegins
  <2>2. UNCHANGED companies
    BY <1>3, BillingBegins
  <2>3. HourlyCall(c)' = (r.kind = "generate" /\ Mode[r.company] = "hourly")
    BY <2>1 DEF HourlyCall
  <2> QED BY <2>1, <2>2, <2>3 DEF Bills
<1> QED BY <1>1, <1>2, <1>3, AloneSteps DEF Billing

\* One call at a time, from anchor to a date that has come, no pauses, cutoffs or
\* late ticks: counts are complete.
LEMMA KeptInvariant ==
    ASSUME OneCaller, OwnPeriods, NoCutoff, ~MayPause, ~PollerLags
    PROVE  Spec /\ []NotAhead => [](LedgerInv /\ HoursInv /\ KeptInv)
<1>1. Init => KeptInv
  <2> SUFFICES ASSUME Init PROVE KeptInv
    OBVIOUS
  <2>1. Timely /\ Fresh
    BY DEF Init, Timely, Fresh
  <2>2. \A c \in Caller : pc[c] \notin Billing
    BY DEF Init, Billing
  <2> QED BY <2>1, <2>2 DEF KeptInv
<1>2. LedgerInv /\ HoursInv /\ KeptInv /\ NotAhead /\ [Next]_vars => KeptInv'
  <2> SUFFICES ASSUME LedgerInv, HoursInv, KeptInv, NotAhead, Next \/ UNCHANGED vars PROVE KeptInv'
    OBVIOUS
  <2> QED BY TimelyKept, FreshKept, BillsKept DEF KeptInv
<1>3. Spec => [](LedgerInv /\ HoursInv)
  BY HoursInvariant
<1> QED BY <1>1, <1>2, <1>3, PTL DEF Spec

\* The seconds dropped, among given ticks and rows.
LEMMA DroppedMeans ==
    ASSUME NEW t
    PROVE  t \in Dropped <=>
             /\ t \in ticks /\ Mode[CompanyOf[t.proj]] = "hourly"
             /\ t.ts < Anchor(invoices, CompanyOf[t.proj])
             /\ t.ts >= CreatedAt[CompanyOf[t.proj]]
             /\ \A i \in invoices : i.company = CompanyOf[t.proj] => t.ts \notin i.secs
  BY AnchorOfAll DEF Dropped, BehindAnchor

\* The same of the state after a step.
LEMMA DroppedMeansAfter ==
    ASSUME NEW t
    PROVE  t \in Dropped' <=>
             /\ t \in ticks' /\ Mode[CompanyOf[t.proj]] = "hourly"
             /\ t.ts < Anchor(invoices', CompanyOf[t.proj])
             /\ t.ts >= CreatedAt[CompanyOf[t.proj]]
             /\ \A i \in invoices' : i.company = CompanyOf[t.proj] => t.ts \notin i.secs
  BY DEF Dropped, BehindAnchor, LastInvoiceSent, Anchor

\* No step but the deletion of an invoice drops a second.
LEMMA NothingDropped ==
    ASSUME LedgerInv, HoursInv, KeptInv, NotAhead, NoCutoff, Next \/ UNCHANGED vars,
           ~ \E c \in Caller : DropInvoice(c), NEW t \in Dropped'
    PROVE  t \in Dropped
<1> DEFINE k == CompanyOf[t.proj]
           old == Anchor(invoices, k)
           new == Anchor(invoices', k)
<1>1. /\ t \in ticks' /\ Mode[k] = "hourly" /\ t.ts < new /\ t.ts >= CreatedAt[k]
      /\ \A i \in invoices' : i.company = k => t.ts \notin i.secs
  BY DroppedMeansAfter
<1>2. /\ IsFiniteSet(invoices) /\ invoices \subseteq Invoice
      /\ IsFiniteSet(invoices') /\ invoices' \subseteq Invoice
  BY LedgerKept DEF LedgerInv, TypeOK, Finite
<1>3. t.ts \in Nat
  BY <1>1, LedgerKept DEF LedgerInv, TypeOK
<1>4. old \in Nat /\ \A i \in invoices : i.company = k /\ i.kind # "advance" => i.sent <= old
  BY <1>2, AnchorIsLatest
<1>5. /\ new \in Nat
      /\ new = 0 \/ \E i \in invoices' : i.company = k /\ i.kind # "advance" /\ i.sent = new
  BY <1>2, AnchorIsLatest
<1> HIDE DEF old, new
<1>6. PICK last \in invoices' : last.company = k /\ last.kind # "advance" /\ last.sent = new
  BY <1>1, <1>3, <1>5
<1>7. last \in invoices => t.ts < old
  BY <1>1, <1>3, <1>4, <1>5, <1>6
<1>8. ASSUME t.ts < old, t \in ticks, \A i \in invoices : i.company = k => t.ts \notin i.secs
      PROVE  t \in Dropped
  BY <1>1, <1>8, DroppedMeans DEF old
<1>9. CASE invoices' = invoices
  <2>1. CASE t \in ticks
    BY <1>1, <1>6, <1>7, <1>8, <1>9, <2>1
  <2>2. CASE t \notin ticks
    <3>1. t.ts = clock
      BY <1>1, <2>2, TickWriters DEF RecordTick, KeptInv, Timely, LedgerInv, TypeOK
    <3>2. last.sent <= clock /\ clock \in Nat
      BY <1>6, <1>9 DEF KeptInv, Timely, LedgerInv, TypeOK
    <3> QED BY <1>1, <1>5, <1>6, <3>1, <3>2
  <2> QED BY <2>1, <2>2
<1>10. CASE Restores
  <2>1. invoices' = saved.invoices /\ saved.invoices \subseteq invoices /\ ticks' = ticks
    BY <1>10 DEF Restores, LedgerInv, NumbersInv, Pending
  <2>2. ASSUME NEW i \in invoices, i.company = k, t.ts \in i.secs PROVE FALSE
    <3>1. i \in invoices \ saved.invoices
      BY <1>1, <2>1, <2>2
    <3>2. t.ts >= Anchor(saved.invoices, i.company)
      BY <1>10, <2>2, <3>1 DEF Restores, KeptInv, Fresh
    <3>3. t.ts >= new
      BY <2>1, <2>2, <3>2 DEF new
    <3> QED BY <1>1, <1>3, <1>5, <3>3
  <2> QED BY <1>1, <1>6, <1>7, <1>8, <2>1, <2>2
<1>11. ASSUME NEW c \in Caller, Inserts(c) PROVE t \in Dropped
  <2> DEFINE row == Row(c)
  <2>1. invoices' = invoices \cup {row} /\ ticks' = ticks
    BY <1>11 DEF Inserts
  <2>2. /\ row.company = Args(c).company /\ row.sent = req[c].now /\ row.secs = req[c].secs
        /\ row.kind = (IF Args(c).kind = "advance" THEN "advance" ELSE "hourly")
    BY <1>11, InsertedRow
  <2>3. pc[c] \in Billing /\ pc[c] # "count" /\ Bills(c) /\ Window(c)
    BY <1>11 DEF Inserts, Billing, KeptInv, HoursInv
  <2> HIDE DEF row
  <2>4. CASE t.ts < old
    BY <1>1, <1>8, <2>1, <2>4
  <2>5. CASE ~(t.ts < old)
    <3>1. last = row
      BY <1>7, <2>1, <2>5
    <3>2. Args(c).company = k /\ Args(c).kind # "advance" /\ new = req[c].now
      BY <1>6, <2>2, <3>1
    <3>3. HourlyCall(c)
      BY <1>1, <2>3, <3>2 DEF Bills, HourlyCall
    <3>4. req[c].from = IF old > 0 THEN old ELSE CreatedAt[k]
      BY <2>3, <3>2, <3>3, AnchorOfAll DEF Window, PeriodStart, old
    <3>5. req[c].from <= t.ts
      BY <1>1, <1>3, <1>4, <2>5, <3>4
    <3>6. t.ts \in req[c].secs
      BY <1>1, <1>3, <2>1, <2>3, <3>2, <3>3, <3>5 DEF Bills
    <3> QED BY <1>1, <1>6, <2>2, <3>1, <3>6
  <2> QED BY <2>4, <2>5
<1>12. ASSUME NEW c \in Caller, DropCompany(c) PROVE t \in Dropped
  <2>1. invoices' = {i \in invoices : i.company # Args(c).company} /\ ticks' = ticks
    BY <1>12 DEF DropCompany, Statement
  <2> QED BY <1>1, <1>6, <1>7, <1>8, <2>1
<1>13. ASSUME NEW c \in Caller, NEW r \in Requests, InvoiceSend(c, r) PROVE FALSE
  BY <1>13 DEF InvoiceSend, Called, NoCutoff
<1> QED BY <1>9, <1>10, <1>11, <1>12, <1>13, InvoiceWriters

\* Making an invoice, with all that can fail or stop in it, and deleting a company,
\* leave no second of a company billed by the hour, recorded since the company was
\* created, behind its anchor and unbilled.
THEOREM NoHourDropped ==
    ASSUME OneCaller, OwnPeriods, NoCutoff, ~MayPause, ~PollerLags
    PROVE  Spec /\ []NotAhead => HoursNotDropped
<1>1. ASSUME LedgerInv, HoursInv, KeptInv, NotAhead, [Next]_vars
      PROVE  [Dropped' \subseteq Dropped \/ \E c \in Caller : DropInvoice(c)]_vars
  BY <1>1, NothingDropped
<1> QED BY <1>1, KeptInvariant, PTL DEF Spec, HoursNotDropped

-----------------------------------------------------------------------------
(* Credit: no balance is overdrawn.                                        *)

\* An advance that is still to be inserted prepays something, and what an open
\* transaction applies is left of its company's balance.
Spends(c) ==
    /\ pc[c] \in Billing /\ Args(c).kind = "advance" => Args(c).amount > 0
    /\ pc[c] \in {"render", "insert"} =>
         /\ req[c].applied <= 0 \/ req[c].applied <= Balance(invoices, Args(c).company)
         /\ Args(c).kind = "advance" => req[c].applied = 0

\* The inductive invariant: balances, also those a rollback would restore.
CreditInv ==
    /\ \A k \in Company : Balance(invoices, k) >= 0
    /\ conn # NoCaller => \A k \in Company : Balance(saved.invoices, k) >= 0
    /\ \A c \in Caller : Spends(c)

\* A handler's variables change by a step of its own, or when the daemon stops.
LEMMA OwnSteps ==
    ASSUME LedgerInv, Next \/ UNCHANGED vars, NEW c \in Caller
    PROVE  \/ pc'[c] = pc[c] /\ req'[c] = req[c]
           \/ HandlerNext(c) \/ Client(c) \/ pc'[c] = "idle"
<1>0. pc \in [Caller -> Phase] /\ req = [d \in Caller |-> req[d]]
  BY DEF LedgerInv, NumbersInv, NumberTypes
<1>1. CASE Second \/ RecordTick \/ EmptyTick \/ SetRows \/ UNCHANGED vars
  BY <1>1 DEF Second, RecordTick, EmptyTick, SetRows, SetPaused, CompanyAdd, vars
<1>2. CASE Crash
  BY <1>2 DEF Crash
<1>3. ASSUME NEW d \in Caller, d # c, Client(d) PROVE pc'[c] = pc[c] /\ req'[c] = req[c]
  BY <1>0, <1>3 DEF Client, InvoiceGenerate, InvoiceAdvance, InvoiceSend, InvoiceDelete,
                    CompanyDelete, Called, Goto
<1>4. ASSUME NEW d \in Caller, d # c, HandlerNext(d) PROVE pc'[c] = pc[c] /\ req'[c] = req[c]
  <2>1. /\ \E w : pc' = [pc EXCEPT ![d] = w]
        /\ \E h : req' = [req EXCEPT ![d] = h]
    <3>1. CASE CountTicks(d) \/ DropInvoice(d) \/ DropCompany(d) \/ Rename(d) \/ Fails(d)
      <4>1. CASE Done(d)
        BY <4>1 DEF Done, Goto
      <4>2. CASE ~Done(d)
        <5> DEFINE secs == SecondsBetween(Args(d).company, req[d].from, req[d].to)
        <5>1. pc' = [pc EXCEPT ![d] = "begin"] /\ req' = [req EXCEPT ![d].secs = secs]
          BY <3>1, <4>2 DEF CountTicks, DropInvoice, DropCompany, Rename, Fails, Goto
        <5> QED BY <5>1
      <4> QED BY <4>1, <4>2
    <3>2. CASE Begin(d)
      <4>1. pc' = [pc EXCEPT ![d] = "render"]
        BY <3>2 DEF Begin, Goto
      <4>2. req' = [req EXCEPT ![d] = req'[d]]
        BY <3>2, CreditOfBegin
      <4> QED BY <4>1, <4>2
    <3>3. CASE Render(d) \/ Insert(d) \/ Commit(d) \/ TxFails(d)
      <4>1. req' = req => req' = [req EXCEPT ![d] = req[d]]
        BY <1>0
      <4> QED BY <3>3, <4>1 DEF Render, Insert, Commit, TxFails, Rollback, Done, Goto, fileVars
    <3> QED BY <1>4, <3>1, <3>2, <3>3 DEF HandlerNext, HandlerWorks
  <2> QED BY <1>0, <1>4, <2>1
<1> QED BY <1>1, <1>2, <1>3, <1>4 DEF Next, SetRows

\* A handler in its transaction has begun it, or keeps what it holds; nobody else
\* touches a row meanwhile.
LEMMA HoldingSteps ==
    ASSUME LedgerInv, Next \/ UNCHANGED vars, NEW c \in Caller, pc'[c] \in {"render", "insert"}
    PROVE  \/ Begin(c)
           \/ pc[c] \in {"render", "insert"} /\ req'[c] = req[c] /\ invoices' = invoices
<1>0. pc \in [Caller -> Phase] /\ req = [d \in Caller |-> req[d]]
  BY DEF LedgerInv, NumbersInv, NumberTypes
<1>1. CASE HandlerNext(c)
  <2>1. CASE Render(c)
    <3>1. ~Done(c)
      BY <1>0 DEF Done, Goto
    <3> QED BY <2>1, <3>1 DEF Render, InTx, Rollback
  <2>2. CASE CountTicks(c) \/ DropInvoice(c) \/ DropCompany(c) \/ Insert(c) \/ Commit(c)
             \/ Rename(c) \/ Fails(c) \/ TxFails(c)
    <3>1. \E w \in {"idle", "begin", "commit", "rename"} : pc' = [pc EXCEPT ![c] = w]
      BY <2>2 DEF CountTicks, DropInvoice, DropCompany, Insert, Commit, Rename, Fails, TxFails,
                  Rollback, Done, Goto
    <3> QED BY <1>0, <3>1
  <2> QED BY <1>1, <2>1, <2>2 DEF HandlerNext, HandlerWorks
<1>2. CASE Client(c)
  <2>1. pc' = pc \/ \E w \in {"count", "begin", "dropInvoice", "dropCompany"} :
                       pc' = [pc EXCEPT ![c] = w]
    BY <1>2 DEF Client, InvoiceGenerate, InvoiceAdvance, InvoiceSend, InvoiceDelete,
                CompanyDelete, Goto
  <2>2. pc[c] = "idle"
    BY <1>2 DEF Client, InvoiceGenerate, InvoiceAdvance, InvoiceSend, InvoiceDelete,
                CompanyDelete, Called
  <2> QED BY <1>0, <2>1, <2>2
<1>3. CASE pc'[c] = pc[c] /\ req'[c] = req[c]
  <2>1. conn = c /\ conn # NoCaller /\ conn' = c
    BY <1>3, LedgerKept, ConstantsAssumption DEF LedgerInv, NumbersInv, HandlersHold, TxPhase
  <2>2. ~Restores
    BY <2>1 DEF Restores
  <2>3. \A d \in Caller : Inserts(d) => d = c /\ pc' = [pc EXCEPT ![c] = "commit"]
    BY <2>1 DEF Inserts
  <2>4. \A d \in Caller : ~Inserts(d)
    BY <1>0, <2>3
  <2>5. \A d \in Caller : /\ ~DropInvoice(d) /\ ~DropCompany(d)
                          /\ \A r \in Requests : ~InvoiceSend(d, r)
    BY <2>1 DEF DropInvoice, DropCompany, Statement, InvoiceSend, Called
  <2> QED BY <1>3, <2>2, <2>4, <2>5, InvoiceWriters
<1> QED BY <1>1, <1>2, <1>3, OwnSteps

\* A balance that a transaction spends is what it was read as.
LEMMA SpendsKept ==
    ASSUME LedgerInv, CreditInv, Next \/ UNCHANGED vars, NEW c \in Caller
    PROVE  Spends(c)'
<1>1. ASSUME pc'[c] \in Billing, Args(c)'.kind = "advance"
      PROVE  Args(c)'.amount > 0
  <2>1. CASE pc'[c] = pc[c] /\ req'[c] = req[c]
    BY <1>1, <2>1 DEF CreditInv, Spends, Args
  <2>2. CASE HandlerNext(c)
    BY <1>1, <2>2, BillingSteps DEF CreditInv, Spends
  <2>3. CASE Client(c)
    BY <1>1, <2>3, BillingBegins
  <2> QED BY <1>1, <2>1, <2>2, <2>3, OwnSteps DEF Billing
<1>2. ASSUME pc'[c] \in {"render", "insert"}
      PROVE  /\ \/ req'[c].applied <= 0
                \/ req'[c].applied <= Balance(invoices', Args(c)'.company)
             /\ Args(c)'.kind = "advance" => req'[c].applied = 0
  <2>1. CASE Begin(c)
    <3>1. invoices' = invoices /\ Args(c)' = Args(c)
      BY <2>1, CreditOfBegin DEF Begin, Args
    <3> QED BY <2>1, <3>1, CreditOfBegin
  <2>2. CASE pc[c] \in {"render", "insert"} /\ req'[c] = req[c] /\ invoices' = invoices
    <3>1. Args(c)' = Args(c)
      BY <2>2 DEF Args
    <3> QED BY <2>2, <3>1 DEF CreditInv, Spends
  <2> QED BY <1>2, <2>1, <2>2, HoldingSteps
<1> QED BY <1>1, <1>2 DEF Spends, Balance

\* A row that a transaction inserts leaves its company's balance above zero.
LEMMA InsertSpends ==
    ASSUME LedgerInv, CreditInv, NEW c \in Caller, Inserts(c), NEW k \in Company
    PROVE  Balance(invoices', k) >= 0
<1> DEFINE row == Row(c)
           b == Balance(invoices, k)
<1>1. /\ row \in Invoice /\ row \notin invoices
      /\ row.company = Args(c).company /\ row.applied = req[c].applied
      /\ row.kind = (IF Args(c).kind = "advance" THEN "advance" ELSE "hourly")
      /\ Args(c).kind = "advance" => row.total = Args(c).amount - Args(c).discount - req[c].applied
  BY InsertedRow
<1>2. invoices' = invoices \cup {row} /\ pc[c] = "insert"
  BY DEF Inserts
<1>3. b \in Int /\ b >= 0
  BY BalanceType DEF LedgerInv, TypeOK, Finite, CreditInv
<1>4. /\ row.applied <= 0 \/ row.applied <= Balance(invoices, row.company)
      /\ row.kind = "advance" => row.applied = 0 /\ row.total > 0
  <2>1. Spends(c) /\ pc[c] \in Billing
    BY <1>2 DEF CreditInv, Billing
  <2>2. Args(c) \in Requests
    BY <1>2, ArgsInRequests DEF LedgerInv
  <2>3. Args(c).kind = "advance" => Args(c).discount = 0
    BY <2>2, ConstantsAssumption
  <2>4. Args(c).amount \in Int
    BY <2>2, RequestFields
  <2> HIDE DEF row
  <2> QED BY <1>1, <1>2, <2>1, <2>3, <2>4 DEF Spends
<1>5. row.applied \in Int /\ row.applied >= 0 /\ row.total \in Int
  BY <1>1 DEF Invoice
<1> HIDE DEF row, b
<1>6. Balance(invoices', k) = b + (IF row.company = k /\ row.kind = "advance" THEN row.total ELSE 0)
                                - (IF row.company = k THEN row.applied ELSE 0)
  BY <1>1, <1>2, BalanceAdd DEF b, LedgerInv, TypeOK, Finite
<1> QED BY <1>3, <1>4, <1>5, <1>6 DEF b

\* Deletions of invoices that a client does not insist on, one call at a time: a
\* prepaid row deleted by force, or by a guard that another client has overtaken,
\* takes credit away that is already spent.
CarefulDeletes == \A r \in Requests : r.kind = "invoiceDelete" => OneCaller /\ ~r.force

\* A row that carries no credit can go without changing a balance.
LEMMA DeleteSpends ==
    ASSUME LedgerInv, DeletionsInv, NEW c \in Caller, DropInvoice(c), ~Args(c).force, NEW k
    PROVE  Balance(invoices', k) = Balance(invoices, k)
<1>1. pc[c] = "dropInvoice" /\ invoices' = {j \in invoices : j.id # req[c].id}
  BY DEF DropInvoice, Statement
<1>2. PICK j \in invoices : j.id = req[c].id /\ j.kind # "advance" /\ j.applied = 0
  BY <1>1 DEF DeletionsInv, DeleteChecked
<1> DEFINE S == invoices \ {j}
<1>3. invoices' = S /\ S \cup {j} = invoices
  BY <1>1, <1>2 DEF DeletionsInv, UniqueIds
<1>4. IsFiniteSet(S) /\ S \subseteq Invoice /\ j \in Invoice /\ j \notin S
  BY <1>2, FS_Subset DEF LedgerInv, TypeOK, Finite
<1> HIDE DEF S
<1>5. Balance(S \cup {j}, k) =
        Balance(S, k) + (IF j.company = k /\ j.kind = "advance" THEN j.total ELSE 0)
                      - (IF j.company = k THEN j.applied ELSE 0)
  BY <1>4, BalanceAdd
<1>6. Balance(S, k) \in Int
  BY <1>4, BalanceType
<1> QED BY <1>2, <1>3, <1>5, <1>6

\* No step overdraws a company.
LEMMA BalancesKept ==
    ASSUME LedgerInv, CreditInv, Next \/ UNCHANGED vars, NEW k \in Company,
           \A c \in Caller : DropInvoice(c) => DeletionsInv /\ ~Args(c).force
    PROVE  Balance(invoices', k) >= 0
<1>1. CASE invoices' = invoices
  BY <1>1 DEF CreditInv
<1>2. CASE Restores
  BY <1>2 DEF Restores, CreditInv
<1>3. ASSUME NEW c \in Caller, Inserts(c) PROVE Balance(invoices', k) >= 0
  BY <1>3, InsertSpends
<1>4. ASSUME NEW c \in Caller, NEW r \in Requests, InvoiceSend(c, r)
      PROVE  Balance(invoices', k) >= 0
  <2>1. PICK row \in Invoice : /\ invoices' = invoices \cup {row} /\ row \notin invoices
                               /\ row.kind = "hourly" /\ row.applied = 0
    BY <1>4, CutoffRow
  <2>2. Balance(invoices \cup {row}, k) =
          Balance(invoices, k) + (IF row.company = k /\ row.kind = "advance" THEN row.total ELSE 0)
                               - (IF row.company = k THEN row.applied ELSE 0)
    BY <2>1, BalanceAdd DEF LedgerInv, TypeOK, Finite
  <2>3. Balance(invoices, k) \in Int /\ Balance(invoices, k) >= 0
    BY BalanceType DEF LedgerInv, TypeOK, Finite, CreditInv
  <2> QED BY <2>1, <2>2, <2>3
<1>5. ASSUME NEW c \in Caller, DropInvoice(c) PROVE Balance(invoices', k) >= 0
  <2>1. Balance(invoices', k) = Balance(invoices, k)
    BY <1>5, DeleteSpends
  <2>2. Balance(invoices, k) >= 0
    BY DEF CreditInv
  <2> QED BY <2>1, <2>2
<1>6. ASSUME NEW c \in Caller, DropCompany(c) PROVE Balance(invoices', k) >= 0
  <2> DEFINE gone == Args(c).company
  <2>1. invoices' = {i \in invoices : i.company # gone}
    BY <1>6 DEF DropCompany
  <2> HIDE DEF gone
  <2>2. Balance({i \in invoices : i.company # gone}, k) = IF k = gone THEN 0 ELSE Balance(invoices, k)
    BY BalanceDrop DEF LedgerInv, Finite
  <2>3. Balance(invoices, k) >= 0
    BY DEF CreditInv
  <2> QED BY <2>1, <2>2, <2>3
<1> QED BY <1>1, <1>2, <1>3, <1>4, <1>5, <1>6, InvoiceWriters

\* Credit spent, whether kept or rolled back, was there.
LEMMA CreditKept ==
    ASSUME LedgerInv, CreditInv, Next \/ UNCHANGED vars,
           \A c \in Caller : DropInvoice(c) => DeletionsInv /\ ~Args(c).force
    PROVE  CreditInv'
<1>1. \A k \in Company : Balance(invoices', k) >= 0
  BY BalancesKept
<1>2. ASSUME conn' # NoCaller, NEW k \in Company
      PROVE  Balance(saved'.invoices, k) >= 0
  <2>1. CASE saved'.invoices = invoices'
    BY <1>1, <2>1
  <2>2. CASE UNCHANGED <<conn, saved, invoices>>
    BY <1>2, <2>2 DEF CreditInv
  <2>3. ASSUME NEW c \in Caller, Inserts(c) PROVE Balance(saved'.invoices, k) >= 0
    BY <2>3, ConstantsAssumption DEF Inserts, CreditInv
  <2> QED BY <1>2, <2>1, <2>2, <2>3, OpenSteps
<1>3. \A c \in Caller : Spends(c)'
  BY SpendsKept
<1> QED BY <1>1, <1>2, <1>3 DEF CreditInv, Balance

\* A row is deleted because a client asked for it.
Asked == \A c \in Caller : pc[c] = "dropInvoice" => Args(c).kind = "invoiceDelete"

\* No other handler gets there.
LEMMA AskedKept ==
    ASSUME LedgerInv, Asked, Next \/ UNCHANGED vars
    PROVE  Asked'
<1>0. pc \in [Caller -> Phase] /\ req = [d \in Caller |-> req[d]]
  BY DEF LedgerInv, NumbersInv, NumberTypes
<1> SUFFICES ASSUME NEW c \in Caller, pc'[c] = "dropInvoice"
             PROVE  Args(c)'.kind = "invoiceDelete"
  BY DEF Asked
<1>1. CASE pc'[c] = pc[c] /\ req'[c] = req[c]
  BY <1>1 DEF Asked, Args
<1>2. CASE HandlerNext(c)
  BY <1>2, DeletionsBegin
<1>3. CASE Client(c)
  <2>1. PICK r \in Requests :
          \/ InvoiceGenerate(c, r) \/ InvoiceAdvance(c, r) \/ InvoiceSend(c, r)
          \/ CompanyDelete(c, r)
          \/ \E i \in invoices : InvoiceDelete(c, r, i.id)
    BY <1>3 DEF Client
  <2>2. ASSUME InvoiceGenerate(c, r) \/ InvoiceAdvance(c, r) \/ CompanyDelete(c, r) PROVE FALSE
    <3>1. \E w \in {"count", "begin", "dropCompany"} : pc' = [pc EXCEPT ![c] = w]
      BY <2>2 DEF InvoiceGenerate, InvoiceAdvance, CompanyDelete, Goto
    <3> QED BY <1>0, <3>1
  <2>3. ASSUME InvoiceSend(c, r) PROVE FALSE
    BY <2>3 DEF InvoiceSend, Called
  <2>4. ASSUME NEW i \in invoices, InvoiceDelete(c, r, i.id) PROVE Args(c)'.kind = "invoiceDelete"
    <3>1. req'[c].args = {r} /\ r.kind = "invoiceDelete"
      BY <1>0, <2>4 DEF InvoiceDelete, Called, Idle
    <3> QED BY <3>1 DEF Args
  <2> QED BY <2>1, <2>2, <2>3, <2>4
<1> QED BY <1>1, <1>2, <1>3, OwnSteps

\* Without deletions of invoices, any number of clients; with them, one.
LEMMA CreditInvariant ==
    ASSUME CarefulDeletes
    PROVE  Spec => [](LedgerInv /\ (OneCaller => DeletionsInv) /\ Asked /\ CreditInv)
<1> DEFINE Inv == LedgerInv /\ (OneCaller => DeletionsInv) /\ Asked /\ CreditInv
<1>1. Init => Inv
  <2> SUFFICES ASSUME Init PROVE Inv
    OBVIOUS
  <2>1. \A k : Balance({}, k) = 0
    <3> SUFFICES ASSUME NEW k PROVE Balance({}, k) = 0
      OBVIOUS
    <3> DEFINE f == [i \in {} |-> i.total]
               g == [i \in {} |-> i.applied]
               R == {i \in {} : i.company = k}
               A == {i \in R : i.kind = "advance"}
    <3>1. Balance({}, k) = SumFunctionOnSet(f, A) - SumFunctionOnSet(g, R)
      BY DEF Balance
    <3>2. R = {} /\ A = {}
      OBVIOUS
    <3> HIDE DEF f, g, R, A
    <3>3. SumFunctionOnSet(f, {}) = 0 /\ SumFunctionOnSet(g, {}) = 0
      BY SumEmpty
    <3> QED BY <3>1, <3>2, <3>3
  <2>2. \A c \in Caller : Spends(c)
    BY DEF Init, Spends, Billing
  <2>3. CreditInv
    BY <2>1, <2>2 DEF Init, CreditInv
  <2>4. DeletionsInv /\ Asked
    BY DEF Init, DeletionsInv, UniqueIds, DeleteChecked, Asked
  <2> QED BY <2>3, <2>4, InitLedger
<1>2. Inv /\ [Next]_vars => Inv'
  <2> SUFFICES ASSUME LedgerInv, OneCaller => DeletionsInv, Asked, CreditInv, Next \/ UNCHANGED vars
               PROVE  Inv'
    OBVIOUS
  <2>1. LedgerInv' /\ Asked' /\ (OneCaller => DeletionsInv')
    BY LedgerKept, AskedKept, DeletionsKept
  <2>2. ASSUME NEW c \in Caller, DropInvoice(c) PROVE DeletionsInv /\ ~Args(c).force
    <3>1. Args(c) \in Requests /\ Args(c).kind = "invoiceDelete"
      BY <2>2, ArgsInRequests DEF DropInvoice, Statement, LedgerInv, Asked
    <3> QED BY <3>1 DEF CarefulDeletes
  <2>3. CreditInv'
    BY <2>2, CreditKept
  <2> QED BY <2>1, <2>3
<1> QED BY <1>1, <1>2, PTL DEF Spec

\* Prepaid credit is never spent twice: a transaction reads the balance it spends
\* on the connection that it holds until its row is there.
THEOREM CreditOnce ==
    ASSUME CarefulDeletes
    PROVE  Spec => []CreditNotOverdrawn
<1>1. CreditInv => CreditNotOverdrawn
  BY BalanceOfAll DEF CreditInv, CreditNotOverdrawn
<1> QED BY <1>1, CreditInvariant, PTL
=============================================================================
