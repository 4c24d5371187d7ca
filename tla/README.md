# Antitimely in TLA+

Antitimely watches what its user and the user's coding agents do, turns each
second of it into a row of `ticks`, gives rows to projects by rules, and
invoices the seconds. A long-running daemon (`internal/daemon`) keeps the
SQLite database; a command line (`internal/cli`) calls it over a Unix socket.
These modules specify the daemon: what it decides, in what order, and what may
happen in between.

Run a model with `tlc -config X.cfg M`, the proofs with `tlapm M.tla`;
`PROJECT.json` lists which configuration belongs to which module, the source
lines each definition stands for, and a broken variant of the code for each
property.

## 1. The system

### Goroutines and what they share

| goroutine | runs | started by |
|---|---|---|
| poller | `Pipeline.RunTick` once per interval, never two at once (`poll.go`) | `Run` |
| one per RPC call | a method of `AntitimelyService` (`rpc.go`, `rpc_invoice.go`) | the RPC server |
| signal handler | `ReloadCache` on SIGHUP | `Run` |
| checkpointer | a WAL checkpoint now and then (`checkpoint.go`) | `Run` |

They share the **database**, behind a pool of one connection (`openDB`), and the
**runtime cache** (`cache.go`): an immutable snapshot behind an atomic pointer
(the rules, the allowlist, the paused and the armed projects), and a mutex-guarded
map of suppression counters. Nothing else is shared; the poller's streaks,
per-process maps and file offsets are its own.

### Components

| component | state | operations | what is hard | what makes it correct | modelled |
|---|---|---|---|---|---|
| Runtime cache (`cache.go`) | snapshot pointer, suppression counters | arm, arm all, disarm, mark active, reload, count a suppressed tick | lock-free loops; a reload computed long before it is installed | every mutator takes effect at one instant; a reload keeps arms; progress | yes |
| Poll tick (`pipeline.go`, `poll.go`) | snapshot taken at its start, streak per project, what was disarmed, counted and ticked in this tick | observe, ignore, disarm by a window, drop while paused, auto-resume, gate agents of armed projects, insert a tick | the snapshot is stale while handlers run; several statements per signal, each of which can fail | time is kept, belongs to projects that exist; paused projects get none; an arming ends, and not early | yes |
| Project, rule, watch and review handlers (`rpc.go`) | rows; the cache through `ReloadCache` | add, delete, pause, resume (one or all), rule add and delete, tag, ignore, allowlist | statement, reads for the reload and installation are separate steps of several goroutines | the cache settles on what the database says; tags miss nothing | yes |
| Rule matching (`internal/domain`, the sweep's SQL) | none | first match, directory patterns, validation | two implementations, Go and SQL, each with its own special characters | they agree | directories, without ranges |
| Invoicing (`rpc_invoice.go`, `internal/invoice`, handlers of `rpc.go`) | `invoices`, `sender_state`, PDFs on disk | generate, advance, cutoff, delete, company delete | a transaction over rows and a file; concurrency before it begins; crashes between commit and rename | gapless unique numbers, credit spent once, each second billed once, no PDF without a row | without rounding |
| Companies and settings (`rpc.go`) | `companies` | add, delete, billing settings, company of a project | deletion cascades; a company younger than its projects' time | history is not lost, hours are billed | without settings |
| Status and the live view (`rpc.go`, `cli/status.go`) | the view's connection, its last body, the newest tick it knows | probe, fetch, redial | queries at different instants while rows and companies change; restarts and failing calls; days of different lengths | totals of a reply fit; the view shows what is there, and comes back | yes |
| Agent activity (`collectAgentSignals`) | CPU time, rise and fall counts, cached directory and space, per process id | classify each process per tick | reused ids, failed listings and probes | a signal is of the process that has the id; a failure is not remembered | yes |
| Window titles and permission (`collectFocusSignal`, `permission.go`) | back-off times, permission state | probe, back off | slow or refused probes | the probe comes back, a denial stays visible | yes |
| Transcript tails (`transcript.go`, `codex.go`, `opencode.go`) | an offset per file, last activity; opencode's handle | read what was appended | half-written lines, truncation, replacement | each recent turn is seen; the collector comes back | yes |
| Transcript import (`transcript_import.go`, `rpc_transcript.go`) | none | fill in ticks from whole files | doing it twice, over live ticks | no second twice, no holes | yes |
| Herdr resolver (`internal/herdr`, `transcriptSpace`) | the parsed session file of another program; panes per session | resolve session, process, space | the file is rewritten while read | fails closed; an answer outlives its session | yes |
| Life cycle (`daemon.go`, `checkpoint.go`) | socket, PID file | boot, shut down, reload | leftovers of a kill, two daemons at once | whole daemons serve, leftovers keep nobody out | without the checkpointer |
| Migrations (`migrate_*.go`) | the schema | add columns, rebuild tables at boot | a stop in the middle | no row lost, finished by the next boot | yes |
| Reset (`reset.go`, `cli/reset.go`) | rows by scope | check, prompt, one transaction | run beside a daemon | all or nothing | one scope |
| Store (`internal/store`, `schema.sql`) | tables and constraints | generated statements | ids are reused, cascades, `SET NULL` | modelled by the statements' effects | what the others use |
| Operating system bridge, PDF layout, sender file, menus | | | | inputs and outputs of the above | no |

The hazards of this code, each at its line, with the properties that cover it,
are in `PROJECT.json`.

## 2. The modules

| module | models | theorems |
|---|---|---|
| `AtomicCache` | what the cache promises: arms and pauses change at one instant per operation | |
| `ArmCache`, `MCArmCache` | `cache.go` at the level of pointer loads and compare-and-swaps | `ArmCacheProofs` |
| `Attribution`, `MCAttribution` | a tick against the handlers, statement by statement | `AttributionProofs` |
| `RuleMatching` | a directory pattern by Go and by SQL | `TranscriptProofs` |
| `Invoicing`, `MCInvoicing` | billing: transaction, files, failures, crashes, the poller recording hours | `InvoicingProofs` |
| `StatusView` | the queries of Status and LatestTick, and the live view that calls them | `StatusViewProofs` |
| `AgentActivity` | the classification of one process id, tick by tick | `CollectorProofs` |
| `TitleProbe` | the title probe's back-off, the permission state, the slow-tick report | `CollectorProofs` |
| `TranscriptTail` | one Claude or Codex file and the collector that follows it | `TranscriptProofs` |
| `OpencodeProbe` | opencode's database, the handle kept on it, the back-off | |
| `TranscriptImport` | imports against live ticks, statement by statement | `TranscriptProofs` |
| `HerdrSessions` | herdr's session file and the two lookups | `CollectorProofs` |
| `Lifecycle` | boot, migrations, socket and PID file, shutdown, kill, reset | `LifecycleProofs` |
| `DataLemmas` | nothing: facts about numbers, finite sets and sums that the proofs share | itself |
| `MCDaemonParts`, `MCRecovery` | instances of the nine modules from `RuleMatching` and `StatusView` on | |

`Attribution` and `Invoicing` share no state but the ticks: the first says which
ticks are written, the second lets the poller write any and says who is billed
for them. What feeds a tick (the collectors) reaches it only as signals, which
`Attribution` takes from any sequence of sightings. The collectors, the boot and
the view share no state with each other either: each has its own map or file
and the poller runs them one after the other. `MCDaemonParts` and `MCRecovery`
therefore choose one `part` at the start and leave the rest alone, so that one run
explores each of them in full and no products of unrelated states.

### ArmCache: pointers and swaps

`snap` is what the pointer points to, with the arm set and the paused set of
`CacheSnapshot` (rules and allowlist travel with the paused set: all are replaced
by a reload and by nothing else). Each goroutine loads (`Load`, or `LoadAndReturn` when
there is nothing to do), builds its copy and swaps (`Swap`, `SwapFails`), then
clears counters (`ClearSuppressed`). The pointer's identity is `stale`: the
callers whose loaded pointer is no longer the installed one. Two equal snapshots
at different addresses are thus told apart, as the hardware does.

### Attribution: one tick, many handlers

The database has one connection, so one statement or transaction is one
action. A tick is a record: its snapshot, the signals still to come, and
the `disarmed`, `counted` and `ticked` sets of `RunTick`. Its `pc` names the next
step: `signal` (upsert and ignore check), `disarmed` and `autoDisarmed` (the swap is done, the counter
is not yet reset), `resume`, `mark`, `arm`, `armed` (auto-resume and the
two cache mutators after it, the second in two steps) and `insert`. A handler's `pc` names its next
statement, or the cache mutator that follows: `ReloadCache` is `rules`, `paused`,
`install`. A cache mutator is one step because `ArmCache` implements
`AtomicCache`; the reset of counters that follows a swap is a step of its own,
of the poller as of the handlers, since `Status` reads arms and counters one after the other. `MayFail` lets any statement fail: the tick skips to its next
signal, a handler returns its error.

Signals are abstracted to observations with a source and a space, rules to the
set of observations they match, in (priority, id) order. Ids are reused, as
SQLite does without `AUTOINCREMENT`. Five history variables are read by nothing but properties. `evidence` counts the
agent ticks since a project was last armed, by anyone and also if it was armed already. `quiet` holds the projects
that were paused, with no handler running, when the tick began. `overtaken` holds the callers whose reload has read
rules or pauses that have changed since; `behind` says that the cache may be behind the database with no reload
to come, because such a reload was installed, a reload failed, or the poller's `MarkProjectActive` came after a new pause.
It ends with the next reload that nothing overtook. `doubt` is its value when the tick began.

### Invoicing: one connection, one transaction

`conn` is who holds the connection. While a transaction is open everybody else
waits, so its writes are made in place and `saved` is what a rollback or a
crash restores. `InvoiceGenerate` is `InvoiceGenerate` (anchor and period),
`CountTicks`, `Begin` (seed, begin, balance, number), `Render`, `Insert`, `Commit`,
`Rename`; an advance enters at `Begin`. Companies are added by `CompanyAdd`, at `CreatedAt`, while their projects may have
been recorded long before; `PeriodStart` is the anchor, or the creation where there is none. `temp` holds PDFs at hidden paths, `final`
those a client may see. `Fails`, `TxFails` and `Crash` stop any of it; a failed or
interrupted rename leaves the hidden file behind. Tick rows keep their second,
`secs` on an invoice is what was counted for it: a history field, by which a
property can ask who paid for which second. Money is an integer; a second costs
`Rate`. The rounding of hours to hundredths is left out, so that amounts of real invoices
differ by less than a hundredth of an hour from the model's.

### AgentActivity: one process id

One action is a tick's work for one id: `Measured`, or a failing step before it.
`Exec` gives the id to another process at any time, `Reload` changes what is tracked. `prev` is
the CPU sample, `act` the rise and fall counts, `pane` and `class` the two caches, each with
what it could not find out yet. The history variables `seen` (whether the process was busy at each of
its ticks) and `verdict` let `RightProcess` say what the counts should say; `slipped` is the one
case no tick can tell: an id that passes to a process of the same name with more CPU time.

### TranscriptTail, OpencodeProbe, TranscriptImport: turns on disk

A line is two units long, so that half of it can be on disk. `Stat` and `Read`
are two steps, with the agent writing, truncating, replacing or removing
the file before, between and after. The two formats differ in one operator (`Consumed`): Claude's
collector moves to the size that the stat found, Codex's to the end of the last whole line.
`OpencodeProbe` has no offsets but a handle that lives on while the file under it is
replaced. An import is one action per statement (listing, reading,
matching, existence check, insertion), since nothing makes check and insertion
one. A check that fails (`CheckFails`) is taken as "no tick there", as the code does, and marks the row it lets in as `blind`; `call[c].before` is what was recorded when it began.

### HerdrSessions: somebody else's file

`disk` is herdr's file with a version that each write raises (its modification time
and size), `r` what the resolver parsed and the version it saw. A lookup stats and then
reads; herdr may write in between. A missing or torn file is `FailClosed`. A session that
the file does not name is resolved by its process, and what was found is kept.

### TitleProbe: what keeps quiet

One action is one tick. `titleRetryAt` and `slowTickRetryAt` are kept as waits
and the time of the last denial as an age. Each answer of `osascript` is an
action of its own: titles, a denial, a time-out, no window.

### Lifecycle: one boot after another

Every start migrates, then looks at the socket's path, the PID file and whether anyone answers,
binds, writes the PID file and serves; a stop removes both files, a kill does not. A rebuild of a table is one
transaction and one step; the check before it is another. Tables are abstracted to
the forms that released versions left behind, rows to their id and space. `Alien` is a live process
that is not the daemon and has its id. The history variable `overlapped` records that a start
or a stop began while another was under way.

### StatusView: queries at different instants

The poller, imports (`Imports`), tags (`Retags`), invoices, changes of company (`ProjectSetCompany`, `CompanyDelete`)
and restarts come between any two queries of one `Status` call. A count of distinct seconds is kept as the set of seconds.
The view probes `LatestTick`, fetches a body when there is another newest tick or another day, and drops its connection when a
call fails or breaks, the probe's included. The two notions of a day are apart: the view compares local days (`StartOfDay`, any
increasing sequence of `Midnights`), a reply's total of today spans `DaySeconds` from the beginning of one. A reply carries two
history fields: `missed`, the rows put behind the newest tick since its probe, which no newest tick gives away, and
`moved`, the projects whose company changed while its queries ran. A project that has ticks cannot be deleted
(`schema.sql:77` has no `ON DELETE`), so deleting one changes no total.

### RuleMatching: two languages

`MatchesCwd` (`path.Match` on a directory and its ancestors) and the sweep's `GLOB`, over sequences of characters. One reader
(`ReadChar`) turns a pattern into tokens, with what the two languages differ in: where `*` and `?` stop, escapes (Go only), and `]` right after `[`.
`Ends` says, for each token, where in the word it can end. `MatchersAgree` compares the two for every pattern that
`ValidateCwdPattern` accepts, and does not hold (section 5); `PlainMatchersAgree` compares them for patterns that have no star or no other special
character. Of brackets only the ranges (`a-z`) and the negation (`^`) are left out.

## 3. What the runs check

| run | actors and bounds | shows |
|---|---|---|
| `ArmCache` | 2 goroutines, 2 projects | `AtomicSpec`, the implementation of `AtomicCache`; `ReloadKeepsArms`; `LockFree`, under fairness |
| `Attribution` | poller and 1 client, every kind of call, failures; 2 projects, 2 ticks, 2 calls | `NoOrphanTick`, `TicksAreKept`, `OnlyPollerDisarms`, `WarningMeansArmed`, `TypeOK` |
| `AttributionSettles` | poller and 2 clients, every kind of call, failures, automatic resumes; 1 project, 2 ticks, 2 calls | `CacheSettles`, `PausedIsQuiet` |
| `AttributionArms` | busy agents, the user present, endless ticks, pauses and reloads | `Unstuck`, under fairness |
| `InvoiceLedger` | 2 clients, 2 companies of one sender, both billing modes, advances, discounts, failures, crashes | `GaplessNumbers`, `UniqueNumbers`, `FilesAreIssued`, `CreditNotOverdrawn`; `ConnectionReturned`, under fairness |
| `InvoiceHours` | 1 client, a company created in second 3 of 4, back-dated invoices, deletes, forced and not, failures, crashes | `HoursBilledOnce`, `HoursNotDropped`, `TypeOK` |
| `DaemonParts` | one of seven parts at a time, see below | what each collector, an import, a boot and the matchers promise |
| `Recovery` | the live view (1 project, 1 company, 2 days of 2 seconds, 1 change by others), or opencode's collector | `CompanyCoversProjects`, `ViewFresh`; `ViewCatchesUp` and `ComesBack`, under fairness |
| `PauseResumeRace`, `TagRace`, `DoubleBilling`, `PausedHours` | see section 5 | the code does not do what it says |

| part | bounds | properties |
|---|---|---|
| tails | 2 lines of 2 halves, 4 seconds, grace 2 | `TurnsSeen`, `HalfLinesWait` |
| import | 2 transcripts of up to 3 turns, 2 imports by 1 client, checks that fail, 4 seconds | `NothingTwice`, `ImportIsWhole` |
| activity | 3 processes for one id, rise 2, fall 3, 2 snapshots | `RightProcess`, `SeenOnceResolved` |
| herdr | 2 sessions, 2 spaces, 4 versions of the file | `NothingStale`, `SpaceOutlivesSession` |
| probe | back-off from 2 to 5, streak 2, states stale after 15 | `QuietLessThanCap`, `DenialStaysVisible` |
| life | 2 processes, the released forms of the tables, 2 spaces | `ServesWhole`, `RefusedOnlyIfServing`, `ObservationsSurvive` |
| rule | patterns up to 3 characters, directories up to 4 | `PlainMatchersAgree` |

**Bounds.** Two goroutines suffice to interleave two loops in `ArmCache`, and the proofs
cover any number. In `Attribution` two ticks are the least that separate
deciding from the next tick's snapshot, and two projects the least that tell one
from another and reuse an id; the counter `streak` saturates at `AutoDisarm` (2, so that
a streak can be incomplete). A clock of two or three seconds gives an invoice
a window with something before, in and after it (`HoursNotDropped` is about companies billed by the hour: a monthly fee
leaves no seconds unbilled); three or four calls allow an
advance, two invoices that draw it down, and a delete.

In the parts: a rise of 2 and a fall of 3 can be broken off half-way; two lines are one that is
read and one that is half written; two processes are a daemon and one that
starts, and a process that is gone and unnamed by any file stands for a new one, so the starts
are not limited; doubling from 2 under a cap of 5 meets the cap without hitting it. A pattern
of 3 characters can hold a separator, one more character, special or not, and the final star, and a directory of 4 can cross a
separator that the pattern does not have; the proof covers any length. In the view a day is 2 seconds, so that midnight comes, and one call of
another client (a tag, an import, an invoice, a change of company) may fall between any two of its steps; the clock of `InvoiceHours`
has seconds before and after the company's creation. `MaxNow`, `MaxClock`, `MaxCalls`, `MaxProject`,
`MaxSuppressed`, `MaxLines`, `MaxTime`, `MaxImports`, `MaxVersion`, `LastSecond`, `MaxChanges`, `MaxPattern` and `MaxCwd` are the only bounds.

`Invoicing` and the parts stop when the clock, the calls, the lines or the versions have run out, hence
`CHECK_DEADLOCK FALSE` in their configurations; that nobody waits for ever on the
connection is what `ConnectionReturned` checks. `ArmCache` and `Attribution` never
stop and are checked for deadlock.

**What is left out of a run on purpose.** `AttributionSettles` is reduced by the symmetry of its two clients, which no
property tells apart. `Attribution` has one client, since two break
`OnlyPollerDisarms`, and `InvoiceHours` one client, no pause and
no late tick. Each of these is what section 5 is
about: with it the property fails, in the code as in the model. `CacheSettles`, `PausedIsQuiet`, `ViewFresh`, `ViewCatchesUp`,
`CompanyCoversProjects`, `NothingTwice`, `TurnsSeen`, `HalfLinesWait`, `RightProcess`,
`ServesWhole`, `RefusedOnlyIfServing`, `ObservationsSurvive` and `ComesBack` name the cases they exclude
by a history variable or field, while the step itself is in the model; `NothingTwice` speaks of the ticks that were there when an import began
and of its own; `HoursNotDropped` of seconds since the company's creation (`AllHoursBilled` of all); section 5 lists what is outside.

**Fairness.** The Go scheduler runs every runnable goroutine, so `WF` holds of the
poller's step, of a cache loop's step and of a handler's; of the view's loop (`ViewFairness`) and of
the collector's tick (`OpencodeFairness`), which both run on a timer. In `Invoicing` a handler
competes for the connection, which is free again and again but not for ever:
`database/sql` serves waiters in order, so `SF` holds of `HandlerWorks`, a
handler's step that is not a failure: no scheduler owes anybody an error. Nothing is assumed of
clients, of the clock or of the user; the premises of `Unstuck` (a busy agent, a present user), `ViewCatchesUp`
(the daemon stays up, calls stop failing) and `ComesBack` (the database is readable, messages come) are in the formulas or the instance.

## 4. What is proved

For every value of the constants, with the assumptions the modules name:

* **`ArmCacheProofs`.** `IInv` is inductive. Its heart is `FreshIsCurrent`: a caller
  whose pointer is still installed holds the installed snapshot, because every swap
  makes all others stale. A swap therefore applies its mutator to the
  current state. `SwapIsNeeded` adds that nobody swaps in a copy it would not
  have made from the current state; it is needed because the abstract operation with nothing to do must return
  at once and not take effect. From the two follow `ReloadsKeepArms` and
  `Refinement`: with `snap` mapped to its sets and the phases of a loop to those of an
  operation, a swap is the abstract `TakeEffect` and loads and failed swaps are
  stutters.
* **`InvoicingProofs`.** `GaplessNumbers` says nothing while a transaction is open
  and is not inductive. `NumbersInv` speaks instead of `Durable`, what a rollback
  or a crash would leave (`Committed`: the numbers issued are those the durable
  counter has passed, every durable row has one of them, no two the same), and of what the open
  transaction has done on top (`Pending`: it took exactly the next number and added at
  most the one row that carries it). `HandlersHold` ties a handler's place to the
  connection; `FilesDescribe` ties a PDF, and a rename still to come, to its row.
  Rollback, failure and crash return to `Durable` (`Restored`); a commit makes `Pending` durable
  (`CommitNumbers`); every other step issues nothing (`NothingIssued`). Theorems `Gapless`,
  `Unique` and `Files` follow.

  On it rests what is billed. `LedgerInv`, types with the numbering above, is inductive with nothing assumed. `DeletionsInv` carries what a
  guard found to the deletion that it allowed, which `CreditOnce` needs; `HoursInv` carries the window that a
  generate reads from the anchor to the row it inserts, so two rows of a company bill disjoint
  windows; `KeptInv` adds that what was counted is all there is in the window, which begins at the anchor or, without one, at the company's creation.
`CreditInv` holds in spite of
  any number of clients, because the balance is read inside the transaction that spends it: every row
  leaves the balance at zero or more, in what is committed and in what a rollback would restore.
  A balance is a sum over rows, for which `DataLemmas` proves what a sum is.
* **`LifecycleProofs`.** Until two starts or stops overlap, `InOrder` holds: at most one process is booting or
  stopping (`OneInTransit`), a process at the socket's path is alone there (`AloneAtPath`), the files
  name who they should at each place of the boot (`Named`), and a process at migration k has the tables
  migrated up to k (`MigratedSoFar`, `UpTo`), since nobody else changes them. `RowsFitTables`, that rows have
  a space only if their table has the column, is why a rebuild without the column drops
  no space. `OneWholeDaemon`, `LeftoversKeepNobodyOut` and `NoObservationLost` follow.
* **`AttributionProofs`.** Inductive arguments over the statements of a tick and of any number of
  handlers. `TypeInv` (theorem `Typed`) is enough for the rows of ticks: `TicksHaveProjects` holds because a
  delete needs its project to have no ticks, and the inserts and tags, statements of their own, name a project only while its row is there;
  `TicksStay` because a retag touches rows without a project. `GateInv` says that a project a handler is about to arm, that the poller is about
  to reset, or that counts suppressed time, is armed, in one of these two moments, or gone, and that the list of a resume-all is the whole list
  (`WarningsAreTrue`, `ArmsAreKept`). `FollowInv` says what each handler half-way through its reload holds, as long as nothing has
  overtaken it, and what the cache lacks: nothing, but for a reload to come, a resume of the poller between its row and the cache, or `behind`.
  `QuietInv` carries it into the tick: what is in `quiet` is paused in the tick's snapshot, unless `doubt` (`CacheFollows`, `PausesAreQuiet`).
* **`CollectorProofs`**, about three of the collectors:
  * `ActivityInv` says of each cache what its entry is
    worth: it is of the process that has the id, or the id has just changed hands and the next tick will
    tell, or `slipped`; and of the counts (`CountsRuns`) that they are the lengths of the current runs
    of busy and idle ticks, cut off at their thresholds, so that "working" means what `RightProcess` says.
    `SeenInv` is the converse: no full rise goes uncounted and no fall is counted that was not seen, and a final
    classification passes over no process that the snapshot tracks (`TrackedIsSeen`).
  * Waits shrink while ages grow: `TitleInv` and `SlowInv` say
    that a wait and the time since what began it share the back-off's length, which never passes the cap.
    `QuietBounded` follows; `DenialVisible` needs also that a wait after a denial is shorter than the
    time after which a permission state is stale.
  * `NothingStale` is about answers and says nothing of a
    lookup that has stat'ed. `HerdrInv` adds that the version kept is never
    newer than the file's, and that when they are equal, what is kept is what is there (`Trusted`):
    the version is the stat's, from before the read, so a write in between makes it old. `PaneInv` says
    that a space learnt for a session is the session's own, and that a second lookup is for a session
    whose space was learnt (`SpacesOutlive`).
* **`StatusViewProofs`.** `CoverInv` says that the rows a project's count has seen are still
  recorded when its company is counted, from the same anchors, so the second count includes the first, unless the project
  has changed its company since (`ProjectsCovered`). `FreshInv` follows the rows behind the newest tick that was probed: each query of the
  `Status` call after it counts all of them by the anchors and companies it has read, but for those that a tag, an import or a late tick
  put there since, and so does what the view then shows, until it fetches again (`ViewIsFresh`).
* **`TranscriptProofs`**, about what transcripts give:
  * `TailInv`: while the offset is of the file at the path, every line it has passed is accounted for,
    that is cut, known or too old to count, and the file is at least as long as the last stat found it,
    whatever the agent writes between stat and read. `TurnsAreSeen` and `HalfLinesAreKept` follow.
  * `TwiceInv`: between the check of an interval and the insertion, the rows the import answers for (those it found
    and its own) leave the interval alone, because only it writes its own, or the check has failed and the row to come is `blind` (`NeverTwice`).
    `WholeInv`: every candidate has a row of its project near or is still to do, and every turn in a file read has a
    candidate less than an interval before it (`GridIsNear`), whoever else inserts (`ImportFillsGaps`).
  * `PlainMatchersAlwaysAgree`: the recursive reader and glob are shown to exist (`ReaderIs`, `EndsAre`), a pattern of plain characters to be read as itself,
    and a pattern that is accepted, which has no star or is plain and ends in one, to mean in both languages that the directory or an ancestor begins with the
    characters before the star, for words of any length.
* **`DataLemmas`.** The library states induction with an operator for a parameter, which the provers
  cannot instantiate. Here it is stated over a given set (`InductionUpTo`, `SubsetInduction`, from `LeastNat`), and a
  recursive function is first proved to exist. That is how a sum over a finite set is shown not to depend on
  the order of its choices (`SumAnyOrder`, `SumAdd`). Two definitions of the model are written as they
  are for this reason: `Without` as a function on prefixes and `CreditBalance` with `SumFunctionOnSet`, where
  `SelectSeq` and a fold would be opaque to the prover.

**Hypotheses.** Some theorems restrict the constants, and each restriction is needed: with it dropped, TLC
finds the property violated by what the code does. In `Attribution`:

| theorem | hypothesis | violated without it by |
|---|---|---|
| `ArmsAreKept` | one call at a time, or no resume-all | two clients: a project added between the list and the arms of a resume-all |
| `WarningsAreTrue` | the same | the same, with a rule for the new project |

and in `Invoicing`:

| theorem | hypothesis | violated without it by |
|---|---|---|
| `CreditOnce` | `CarefulDeletes`: who deletes invoices is alone and does not force | one client that forces the deletion of an advance; two that do not (an id is reused between guard and deletion) |
| `BilledOnce` | one call at a time, `OwnPeriods` | two generates; a period given by `--from` and `--to` |
| `NoHourDropped` | these, `NoCutoff`, `~MayPause`, `~PollerLags`, and `NotAhead` at every step | a generate around a forced deletion; a chosen period; a cutoff; a pause; a late tick; an issue date after the clock |

`NotAhead` is about states, so `NoHourDropped` has it as a premise, `Spec /\ []NotAhead => HoursNotDropped`; it holds
of every behaviour in which clients date invoices no later than the second they ask in.
All other theorems hold with no hypothesis but the assumptions of the constants, `CacheFollows` and `PausesAreQuiet` among them: what they except
is named in their properties by history variables, and the steps that cause it are in the model.

Only model-checked: the liveness properties (`LockFree`, `Unstuck`, `ConnectionReturned`, `ViewCatchesUp`,
`ComesBack`), which are beyond the prover, and with the last of them all of `OpencodeProbe`. Every safety property of
a passing run is stated by a theorem.

The definitions that the proofs shaped, beside those named under `DataLemmas`: `Glob` is a recursive
function of one argument, because two would need induction over pairs; the candidates of an import are a set whose
least member is next, where a sequence would add only its order; `Read` of a tail says with `IF` which guard
comes first, as the code does.

## 5. Where code and words disagree

Listed as findings, each with a run whose counterexample shows it:

* **`PauseResumeRace`**: a tick that decided to auto-resume writes the row and the
  cache in two steps; a `ProjectPause` in between leaves the project paused in the
  database and active in the cache.
* **`TagRace`**: a tick decided before a tag's transaction writes its row after it, unassigned.
* **`DoubleBilling`**: two generates for one company count the same seconds before either commits.
* **`PausedHours`**: seconds of a project paused when its invoice is made fall behind
  the anchor and are never billed.

Eight more promises are stated in the modules, and TLC finds each of them violated when it is put, alone, into the
configuration named, with the constants given:

| property | module | configuration | what happens |
|---|---|---|---|
| `FullStreak` | `Attribution` | `TagRace` with `Matchers <- AgentMatchers`, `Sightings <- BusySightings`, `InitDB <- Empty`, calls `add`, `ruleAdd`, `delete`, `MaxNow = 3`, `MaxCalls = 5` | the poller's streak outlives its project, and a new project with the reused id is disarmed before "an armed project must accumulate" (`pipeline.go:21`) the limit |
| `AllHoursBilled` | `Invoicing` | `InvoiceHours` | the first invoice begins at the company's creation (`rpc_invoice.go:232`); what its projects recorded before is never billed, though `Status` counts it until then, as "all-time" (`rpc.go:181`) |
| `CompanyDeleteKeepsInvoices` | `Invoicing` | `DoubleBilling` with `Requests <- GenerateOrDelete` | an invoice committed between the guard and the cascade goes with the company; "Refuse unless --force is passed" (`rpc.go:1032`) |
| `InvoiceDeleteKeepsCredit` | `Invoicing` | `DoubleBilling` with `Requests <- DeleteAndReplace`, `MaxCalls = 4` | the row checked is deleted by another client, an advance takes its id and is deleted in its place; "Refuse those deletes" (`rpc.go:1138`) |
| `SafeToRerun` | `TranscriptImport` | `DaemonParts` | an existence check whose `Scan` fails is taken as "no tick there" (`transcript_import.go:74`); "safe to re-run" (`rpc_transcript.go:10`) |
| `MatchersAgree` | `RuleMatching` | `DaemonParts` | an accepted pattern with a final star and a `?`, `[` or backslash before it means one thing in a tick and another in the sweep: `/a?b*` takes `/a/b` in SQL only, since Go's `?` stops at `/`; the two "must agree on every rule" (`match.go:88`) |
| `NewTicksFetched` | `StatusView` | `Recovery` | an import records ticks older than the newest and the view is not told; it fetches "when a new tick was recorded" (`status.go:301`) |
| `TodayIsWhole` | `StatusView` | `Recovery` with `Midnights = {0}`, `DaySeconds = 1` | the total of today stops 86400 seconds after midnight (`rpc.go:97`), an hour before the end of a day of 25; "anything since startOfDay is today's ticks" (`rpc.go:171`) |

Met while modelling, besides. Of the tick and of billing:

* `behind` in `Attribution`: two handlers reload at once and the one that read first installs last, or a reload
  fails; the cache then lacks a stored rule or pause until the next reload (`rpc.go`, `ReloadCache`).
* `Attribution` with two clients violates `OnlyPollerDisarms`: resume-all lists the
  projects, another client adds one, and `ArmAllProjects` disarms it.
* A resume-all lets a streak live on as well (`ArmAllProjects` resets the counters, not `armedAgentStreak`).
* `InvoiceHours` with `PollerLags = TRUE` violates `HoursNotDropped`: a tick is written
  after an invoice counted its second.

Of the collectors, in the cases the properties exclude:

* Claude's collector moves past a line that is half written, and loses its turn (`cut`;
  `transcript.go:126`); Codex's takes care not to.
* A transcript replaced by a longer file is read from the old offset (`follows`).
* An id that passes to a process of the same name with more CPU time keeps the old
  directory and space until it passes on (`slipped`).
* A Claude that is killed leaves its registry file, so its process is still found.
* The comment on the title probe promises that a grant is noticed within `titleDenyBackoffSec`; after
  repeated denials it can take up to `titleBackoffMaxSec` (`pipeline.go:597`). `QuietLessThanCap` checks the latter.
* A replaced opencode database that the handle can still read answers with its old rows, and nothing ever
  drops that handle (`oldReads`).
* An import that checks an interval just before the poller writes to it adds it a second time, and two imports
  at once can add the same. It matches
  by directory only, which a rule with other clauses may not mean.

Of the life cycle, in the case that starts or stops overlap (`overlapped`) or an id is
reused:

* Two starts on a stale socket can both serve: the second removes the socket the first has bound. A start
  during a shutdown can have its socket or PID file removed by the daemon that leaves.
* Two boots that both found the space column missing rebuild the table twice; the second copy drops the spaces recorded since.
* A `source` migration on a table that has a space column, which no release left behind, would drop it.
* If the id of a killed daemon is taken by another program, starts are refused until that ends (`Alien`).
* Reset asks whether a daemon answers before it prompts, not after; `reset all` leaves `sender_state`.

Of the live view: the body is fetched again only for a newer newest tick or another day. A pause, a tag, an
import of older ticks, an invoice, a project's new company, or another row of the second already shown is seen only then. A project that changes its
company between the queries of a reply may be in the total of neither (`moved`). `TodayTotal`
is read at another instant than the totals beside it, and may be one tick behind them.

## 6. Not modelled, and what could come next

* Proofs about `OpencodeProbe`: its types and the bounds of its back-off; types of the collectors as theorems of their own.
* Of rules: ranges and negation in brackets, titles, and
  `generalizeCwd`, whose proposal the user confirms (for `/` it proposes a rule that matches nothing).
* `checkpoint.go`: it changes no row. Report, Summary and the lists: one query each, or two of the same rows.
* `SetCompanyBilling`, and `ProjectSetCompany` in billing: single statements on settings that `Invoicing` holds constant.
* Of reset, the scopes other than observations.

Left out for good: layout of PDFs and fonts, YAML and flag parsing, terminal
menus, the text of errors, what `ps`, `lsof` and AppleScript print. They are
functions of one input, or the environment of the models. SQLite and the Go
runtime are trusted: serial statements, atomic transactions, linearizable atomics.
