-------------------------- MODULE TranscriptImport --------------------------
(* Filling in ticks from whole transcripts (transcript_import.go) while the   *)
(* poller writes ticks and other clients import too. Each statement is a step *)
(* of its own: nothing makes the existence check and the insertion one.       *)
EXTENDS Integers, FiniteSets, FiniteSetsExt, SequencesExt

CONSTANTS
    Importer,        \* clients
    Transcripts,     \* the transcripts, in the order the directories list them
    StampsOf,        \* the seconds of each transcript's lines, present and future
    MatchOf,         \* the project the rules give each transcript's directory, or NoMatch
    NoMatch,
    SpaceProject,    \* the project bound to the herdr space sessions may run in
    Ranges,          \* what clients ask for: from, to
    GraceSec,        \* TranscriptGraceSec
    Interval,        \* TickIntervalSeconds
    MaxTime,         \* bound on the clock
    MaxImports       \* bound on the calls

ASSUME ImportAssumption ==
    /\ Interval \in Nat \ {0} /\ GraceSec \in Nat /\ MaxTime \in Nat
    /\ Ranges \subseteq [from : Nat, to : Nat]
    /\ Transcripts \in Seq(Range(Transcripts)) /\ "live" \notin Importer
    /\ \A i \in DOMAIN Transcripts : StampsOf[Transcripts[i]] \subseteq Nat

VARIABLES
    time,            \* seconds
    ticks,           \* rows: ts, observation, project, and (history) who wrote them, unchecked or not
    polled,          \* the poller's last tick
    imports,         \* calls made
    call             \* per client: the transcripts and the candidates still to do

importVars == <<time, ticks, polled, imports, call>>

\* blind, began, before, read and plan are history: the check of the candidate to
\* insert was not answered, the time and the ticks when the call began, the
\* transcripts it could read and its candidates so far.
NotCalled == [file |-> 0, from |-> 0, to |-> 0, todo |-> {}, insert |-> FALSE, blind |-> FALSE,
              began |-> 0, before |-> {}, read |-> {}, plan |-> {}]
-----------------------------------------------------------------------------
(* splitBlocks: a block ends where the next stamp is more than the grace away. *)
Starts(stamps, grace) == {s \in stamps : \A t \in stamps : t < s => s - t > grace}
BlockEnd(stamps, grace, s) ==
    Max({e \in stamps : \A b \in Starts(stamps, grace) : b <= s \/ b > e})

\* Mutant: the grid begins an interval late.
GridAfterStart(start, end) == {ts \in start + 1 .. end : (ts - start) % Interval = 0}

\* The grid of a block, from its start in steps of the interval.
Grid(start, end) == {ts \in start .. end : (ts - start) % Interval = 0}
Candidates(stamps) ==
    UNION {Grid(s, BlockEnd(stamps, GraceSec, s)) : s \in Starts(stamps, GraceSec)}

Window == Interval - 1
Near(t, ts) == t.ts \in ts - Window .. ts + Window

\* INSERT OR IGNORE: a second has one row per observation.
Inserted(row) ==
    IF \E t \in ticks : t.ts = row.ts /\ t.obs = row.obs THEN ticks ELSE ticks \cup {row}
-----------------------------------------------------------------------------
PassTime ==
    /\ time < MaxTime
    /\ time' = time + 1
    /\ UNCHANGED <<ticks, polled, imports, call>>

\* A tick of the poller, which keeps its own grid and looks at no other rows. A
\* session in a space is another observation, and its space's project goes first.
LiveTick(session, inSpace) ==
    /\ time >= polled + Interval
    /\ polled' = time
    /\ ticks' = Inserted([ts |-> time, obs |-> <<session, inSpace>>, by |-> "live",
                          proj |-> IF inSpace THEN SpaceProject ELSE MatchOf[session],
                          blind |-> FALSE])
    /\ UNCHANGED <<time, imports, call>>

Import(c) ==
    /\ call[c].file = 0 /\ imports < MaxImports
    /\ \E r \in Ranges :
          call' = [call EXCEPT ![c] = [NotCalled EXCEPT !.file = 1, !.from = r.from,
                                                        !.to = r.to, !.began = time,
                                                        !.before = ticks]]
    /\ imports' = imports + 1
    /\ UNCHANGED <<time, ticks, polled>>

Reading(c) == call[c].file # 0 /\ call[c].todo = {}

\* scanEntries and the grid of what is in the next file by now; a file without a
\* stamp in range, or whose directory no rule matches, is passed over.
ReadFile(c) ==
    /\ Reading(c) /\ call[c].file <= Len(Transcripts)
    /\ LET session == Transcripts[call[c].file]
           inRange == {s \in StampsOf[session] :
                          s <= time /\ s >= call[c].from /\ s <= call[c].to}
           grid == IF MatchOf[session] = NoMatch THEN {} ELSE Candidates(inRange)
       IN  call' = [call EXCEPT ![c].file = @ + 1,
                                ![c].todo = grid,
                                ![c].read = @ \cup {session},
                                ![c].plan = @ \cup {[ts |-> ts, proj |-> MatchOf[session]] : ts \in grid}]
    /\ UNCHANGED <<time, ticks, polled, imports>>

\* A file that cannot be read, or whose observation cannot be stored.
SkipFile(c) ==
    /\ Reading(c) /\ call[c].file <= Len(Transcripts)
    /\ call' = [call EXCEPT ![c].file = @ + 1]
    /\ UNCHANGED <<time, ticks, polled, imports>>

\* The row for the next candidate, in the order of time: by directory alone, whatever
\* space it ran in.
NextTs(c) == Min(call[c].todo)
Candidate(c) ==
    LET session == Transcripts[call[c].file - 1]
    IN  [ts |-> NextTs(c), obs |-> <<session, FALSE>>, by |-> c, proj |-> MatchOf[session],
         blind |-> call[c].blind]
Done(c) == [call EXCEPT ![c].todo = @ \ {NextTs(c)}, ![c].insert = FALSE, ![c].blind = FALSE]

\* Mutant: only a tick of the same observation counts.
TakenByObservation(c) ==
    \E t \in ticks : t.obs = Candidate(c).obs /\ Near(t, Candidate(c).ts)

\* ProjectTickExistsNear.
Taken(c) == \E t \in ticks : t.proj = Candidate(c).proj /\ Near(t, Candidate(c).ts)

CheckTick(c) ==
    /\ call[c].todo # {} /\ ~call[c].insert
    /\ call' = IF Taken(c) THEN Done(c) ELSE [call EXCEPT ![c].insert = TRUE]
    /\ UNCHANGED <<time, ticks, polled, imports>>

\* The existence check fails; its error is dropped, and it counts as no tick there.
CheckFails(c) ==
    /\ call[c].todo # {} /\ ~call[c].insert
    /\ call' = [call EXCEPT ![c].insert = TRUE, ![c].blind = TRUE]
    /\ UNCHANGED <<time, ticks, polled, imports>>

ImportTick(c) ==
    /\ call[c].insert
    /\ ticks' = Inserted(Candidate(c))
    /\ call' = Done(c)
    /\ UNCHANGED <<time, polled, imports>>

\* The insertion fails: the call ends, what it has inserted stays.
ImportFails(c) ==
    /\ call[c].insert
    /\ call' = [call EXCEPT ![c] = NotCalled]
    /\ UNCHANGED <<time, ticks, polled, imports>>

Imported(c) ==
    /\ Reading(c) /\ call[c].file > Len(Transcripts)
    /\ call' = [call EXCEPT ![c] = NotCalled]
    /\ UNCHANGED <<time, ticks, polled, imports>>
-----------------------------------------------------------------------------
ImportInit ==
    /\ time = 0 /\ ticks = {} /\ polled = -Interval /\ imports = 0
    /\ call = [c \in Importer |-> NotCalled]

ImportNext ==
    \/ PassTime
    \/ \E s \in ToSet(Transcripts) : MatchOf[s] # NoMatch /\ \E inSpace \in BOOLEAN : LiveTick(s, inSpace)
    \/ \E c \in Importer : \/ Import(c) \/ ReadFile(c) \/ SkipFile(c) \/ CheckTick(c)
                           \/ CheckFails(c) \/ ImportTick(c) \/ ImportFails(c) \/ Imported(c)

ImportSpec == ImportInit /\ [][ImportNext]_importVars
-----------------------------------------------------------------------------
(* Properties.                                                                *)

\* A second the call of c has inserted, and another of its project near it that was
\* there before the call or is of its own.
Doubled(c, t, u) ==
    /\ t.by = c /\ t \notin call[c].before /\ call[c].file # 0
    /\ u \in call[c].before \/ u.by = c
    /\ u # t /\ u.proj = t.proj
    /\ Near(u, t.ts)

\* An import gives its project no second that a tick there before the call, or one
\* of its own, already stands for (TranscriptImport: "safe to re-run") ...
SafeToRerun == \A c \in Importer : \A t, u \in ticks : ~Doubled(c, t, u)

\* ... as long as its existence checks are answered: a doubled second, or its double,
\* is one of this call whose check failed.
NothingTwice ==
    \A c \in Importer : \A t, u \in ticks :
        Doubled(c, t, u) => t.blind \/ (u.blind /\ u \notin call[c].before)

\* When an import ends well, every turn it was asked for in a file it could read has a
\* tick of its project near it, so skipping a candidate never leaves a hole ("while
\* still filling genuine gaps"), and doing it again would insert nothing.
ImportIsWhole ==
    [][\A c \in Importer : Imported(c) =>
           /\ \A f \in call[c].read : \A s \in StampsOf[f] :
                  /\ MatchOf[f] # NoMatch
                  /\ s \in call[c].from .. call[c].to /\ s <= call[c].began
                  => \E t \in ticks : /\ t.proj = MatchOf[f]
                                     /\ t.ts \in s - 2 * Window .. s + 2 * Window
           /\ \A p \in call[c].plan : \E t \in ticks : t.proj = p.proj /\ Near(t, p.ts)]_importVars
=============================================================================
