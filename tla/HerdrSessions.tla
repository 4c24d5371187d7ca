--------------------------- MODULE HerdrSessions ---------------------------
(* Which herdr space a Claude session ran in: the resolver of session.json    *)
(* (herdr.go), which herdr rewrites as it likes, and the panes learnt from the *)
(* sessions' own processes for sessions the file does not name                *)
(* (transcriptSpace, claudeSessionPIDs). The collector asks; the mutex of the  *)
(* resolver keeps one reload from another, not from herdr's writes.           *)
EXTENDS Naturals, FiniteSets

CONSTANTS
    Session,      \* Claude sessions
    Workspace,    \* herdr's spaces
    HomeOf,       \* the space each session runs in, or Nowhere
    Headless,     \* sessions that herdr's file never names
    Nowhere,
    MaxVersion    \* bound on herdr's writes

ASSUME HerdrAssumption ==
    /\ Nowhere \notin Workspace /\ MaxVersion \in Nat
    /\ Headless \subseteq Session /\ HomeOf \in [Session -> Workspace \cup {Nowhere}]

VARIABLES
    disk,         \* session.json: valid, or missing or torn; its spaces; the sessions named
    r,            \* the Resolver
    running,      \* the sessions in Claude Code's registry of processes
    transcripts,  \* the sessions whose transcript file is there
    sessionPane,  \* the pane learnt from a session's process: its space, or Unlearnt
    ask,          \* the question under way
    answer        \* the last answer

herdrVars == <<disk, r, running, transcripts, sessionPane, ask, answer>>

Unlearnt == "unlearnt"
\* A question: which session, which of the two lookups, and what its stat found.
NoAsk == [session |-> Nowhere, lookup |-> 0, stat |-> 0]
Named(s, spaces) == s \notin Headless /\ HomeOf[s] \in spaces
-----------------------------------------------------------------------------
(* The world.                                                                 *)

HerdrWrites ==
    /\ disk.version < MaxVersion
    /\ \E state \in {"valid", "torn", "missing"}, spaces \in SUBSET Workspace, S \in SUBSET Session :
          /\ state # "valid" => spaces = {} /\ S = {}
          /\ \A s \in S : Named(s, spaces)
          /\ disk' = [state |-> state, version |-> disk.version + 1, spaces |-> spaces, named |-> S]
    /\ UNCHANGED <<r, running, transcripts, sessionPane, ask, answer>>

SessionStarts(s) ==
    /\ running' = running \cup {s} /\ transcripts' = transcripts \cup {s}
    /\ UNCHANGED <<disk, r, sessionPane, ask, answer>>

\* Claude Code deletes the registry entry; the transcript stays.
SessionExits(s) ==
    /\ running' = running \ {s}
    /\ UNCHANGED <<disk, r, transcripts, sessionPane, ask, answer>>

\* The collector prunes what it learnt with the transcript.
Pruned(s) ==
    /\ s \in transcripts \ running /\ ask = NoAsk
    /\ transcripts' = transcripts \ {s}
    /\ sessionPane' = [sessionPane EXCEPT ![s] = Unlearnt]
    /\ UNCHANGED <<disk, r, running, ask, answer>>
-----------------------------------------------------------------------------
(* A lookup: reloadLocked, then the map.                                      *)

FailClosed == [loaded |-> TRUE, warned |-> TRUE, version |-> 0, spaces |-> {}, sessions |-> {}]

\* Mutant: a file that does not parse leaves the old maps.
ParsedKeepsOld(stat) ==
    IF disk.state = "valid"
    THEN [loaded |-> TRUE, warned |-> FALSE, version |-> stat, spaces |-> disk.spaces,
          sessions |-> r.sessions \cup disk.named]
    ELSE r

\* Mutant: bindings of sessions are replaced too.
ParsedForgets(stat) ==
    IF disk.state = "valid"
    THEN [loaded |-> TRUE, warned |-> FALSE, version |-> stat, spaces |-> disk.spaces,
          sessions |-> disk.named]
    ELSE FailClosed

\* Spaces are replaced, bindings of sessions accumulate.
Parsed(stat) ==
    IF disk.state = "valid"
    THEN [loaded |-> TRUE, warned |-> FALSE, version |-> stat, spaces |-> disk.spaces,
          sessions |-> r.sessions \cup disk.named]
    ELSE FailClosed

Unchanged == r.loaded /\ ~r.warned /\ disk.version = r.version

Answer(w) == answer' = w /\ ask' = NoAsk /\ UNCHANGED sessionPane

\* What the collector does with a first lookup that found no binding.
AskProcess(s, spaces) ==
    \/ /\ sessionPane[s] # Unlearnt
       /\ ask' = IF sessionPane[s] = Nowhere THEN NoAsk ELSE [session |-> s, lookup |-> 2, stat |-> 0]
       /\ answer' = IF sessionPane[s] = Nowhere THEN Nowhere ELSE answer
       /\ UNCHANGED sessionPane
    \/ /\ sessionPane[s] = Unlearnt /\ s \in running
       /\ sessionPane' = [sessionPane EXCEPT ![s] = HomeOf[s]]
       /\ ask' = IF HomeOf[s] = Nowhere THEN NoAsk ELSE [session |-> s, lookup |-> 2, stat |-> 0]
       /\ answer' = IF HomeOf[s] = Nowhere THEN Nowhere ELSE answer

\* Not running, or the probe of its process failed: asked again next tick.
ProcessUnknown(s) == sessionPane[s] = Unlearnt /\ Answer(Nowhere)

Found(rr) ==
    LET s == ask.session
    IN  IF ask.lookup = 2
        THEN Answer(IF sessionPane[s] \in rr.spaces THEN sessionPane[s] ELSE Nowhere)
        ELSE IF s \in rr.sessions
        THEN Answer(IF HomeOf[s] \in rr.spaces THEN HomeOf[s] ELSE Nowhere)
        ELSE AskProcess(s, rr.spaces) \/ ProcessUnknown(s)

AskSpace(s) ==
    /\ ask = NoAsk /\ s \in transcripts
    /\ ask' = [session |-> s, lookup |-> 1, stat |-> 0]
    /\ UNCHANGED <<disk, r, running, transcripts, sessionPane, answer>>

StatSession ==
    /\ ask # NoAsk /\ ask.stat = 0
    /\ \/ disk.state = "missing" /\ r' = FailClosed /\ Found(FailClosed)
       \/ disk.state # "missing" /\ Unchanged /\ Found(r) /\ UNCHANGED r
       \/ /\ disk.state # "missing" /\ ~Unchanged
          /\ ask' = [ask EXCEPT !.stat = disk.version]
          /\ UNCHANGED <<r, sessionPane, answer>>
    /\ UNCHANGED <<disk, running, transcripts>>

ReadSession ==
    /\ ask # NoAsk /\ ask.stat # 0
    /\ r' = Parsed(ask.stat) /\ Found(Parsed(ask.stat))
    /\ UNCHANGED <<disk, running, transcripts>>
-----------------------------------------------------------------------------
HerdrInit ==
    /\ disk = [state |-> "missing", version |-> 1, spaces |-> {}, named |-> {}]
    /\ r = [loaded |-> FALSE, warned |-> FALSE, version |-> 0, spaces |-> {}, sessions |-> {}]
    /\ running = {} /\ transcripts = {} /\ sessionPane = [s \in Session |-> Unlearnt]
    /\ ask = NoAsk /\ answer = Nowhere

HerdrNext ==
    \/ HerdrWrites \/ StatSession \/ ReadSession
    \/ \E s \in Session : SessionStarts(s) \/ SessionExits(s) \/ Pruned(s) \/ AskSpace(s)

HerdrSpec == HerdrInit /\ [][HerdrNext]_herdrVars
-----------------------------------------------------------------------------
(* Properties.                                                                *)

\* What a lookup answers from is in the file at that moment, also when herdr wrote
\* between its stat and its read, or it did not read at all; a missing or torn
\* file answers nothing ("a stale mapping is never served").
NothingStale ==
    [][ask.lookup # 0 /\ ask'.stat = 0 /\ ask' # ask => r'.spaces \subseteq disk.spaces]_herdrVars

\* A session whose process was once asked, or that was once named, keeps its space
\* after it rotates or exits, while the file names that space and stays readable.
SpaceOutlivesSession ==
    [][ask # NoAsk /\ ask' = NoAsk /\ ~r'.warned /\ HomeOf[ask.session] \in r'.spaces
           /\ (ask.session \in r.sessions \/ sessionPane[ask.session] # Unlearnt)
       => answer' = HomeOf[ask.session]]_herdrVars
=============================================================================
