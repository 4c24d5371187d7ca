--------------------------- MODULE AgentActivity ---------------------------
(* The agent collector (collectAgentSignals): what it remembers of a process   *)
(* id between ticks, and when it takes the process for a working agent.        *)
(*                                                                             *)
(* Processes do not touch each other's entries, so one id is enough; its       *)
(* process may end and another take the id between any two ticks. CPU time is  *)
(* kept as what a tick makes of it: how it compares with the last one seen.    *)
EXTENDS Naturals, Sequences

CONSTANTS
    Process,        \* what can run under the id: records of a name, a cwd and a space
    NoSpace,        \* the space of a process outside herdr
    Snapshots,      \* cache snapshots: allowed binaries, covered cwds, bound spaces
    Rise, Fall      \* AgentBusyRiseTicks, AgentBusyFallTicks, at least 1

ASSUME ActivityAssumption == Rise \in Nat \ {0} /\ Fall \in Nat \ {0}

VARIABLES
    proc,           \* the process that has the id
    snapshot,       \* the installed snapshot
    lastSnap,       \* the one of the last tick
    prev,           \* prevCPU has the id: "" , or whose CPU time it is, "own" or "other"
    act,            \* procActivity: working, aboveStreak, belowStreak
    pane,           \* procPane
    class,          \* procClass
    sent,           \* the signal of the last tick, or NoSignal
    seen,           \* history: which of its last ticks found the process busy
    verdict,        \* history: working or not, by those ticks
    slipped         \* history: the id changed hands and no tick could tell

activityVars == <<proc, snapshot, lastSnap, prev, act, pane, class, sent, seen, verdict, slipped>>

Idle == [working |-> FALSE, above |-> 0, below |-> 0]
NoPane == [known |-> FALSE, space |-> NoSpace]
NoClass == [known |-> FALSE, name |-> "", cwd |-> "", track |-> FALSE, final |-> FALSE]
NoSignal == [cwd |-> "", space |-> NoSpace]

\* The last ticks, as many as a verdict needs.
Recent(ticks, busy) ==
    LET all == Append(ticks, busy)
        most == IF Rise > Fall THEN Rise ELSE Fall
    IN  IF Len(all) > most THEN Tail(all) ELSE all
LastAll(ticks, n, busy) ==
    Len(ticks) >= n /\ \A i \in Len(ticks) - n + 1 .. Len(ticks) : ticks[i] = busy

\* The least of a count and a bound: longer streaks act alike.
Capped(n, bound) == IF n > bound THEN bound ELSE n
-----------------------------------------------------------------------------
(* The world.                                                                  *)

Exec(p) ==
    /\ proc' = p
    /\ prev' = IF prev = "" THEN "" ELSE "other"
    /\ UNCHANGED <<snapshot, lastSnap, act, pane, class, sent, seen, verdict, slipped>>

Reload(s) ==
    /\ snapshot' = s
    /\ UNCHANGED <<proc, lastSnap, prev, act, pane, class, sent, seen, verdict, slipped>>
-----------------------------------------------------------------------------
(* One tick.                                                                   *)

\* The id is not listed, or the listing fails: every map forgets it.
Unlisted ==
    /\ prev' = "" /\ act' = Idle /\ pane' = NoPane /\ class' = NoClass
    /\ sent' = NoSignal /\ lastSnap' = snapshot
    /\ seen' = <<>> /\ verdict' = FALSE /\ slipped' = FALSE
    /\ UNCHANGED <<proc, snapshot>>

\* A new snapshot clears the classifications before anything else.
ClassNow == IF snapshot # lastSnap THEN NoClass ELSE class

\* The first tick that sees an id has nothing to compare with.
FirstSeen ==
    /\ prev = ""
    /\ prev' = "own" /\ class' = ClassNow /\ lastSnap' = snapshot /\ sent' = NoSignal
    /\ seen' = <<>> /\ verdict' = FALSE /\ slipped' = FALSE
    /\ UNCHANGED <<proc, snapshot, act, pane>>

NameChanged == ClassNow.known /\ ClassNow.name # proc.name

\* Mutant: the classification survives.
RegressedKeepsClass ==
    /\ prev = "other"
    /\ prev' = "own" /\ act' = Idle /\ pane' = NoPane /\ class' = ClassNow
    /\ lastSnap' = snapshot /\ sent' = NoSignal
    /\ seen' = <<>> /\ verdict' = FALSE /\ slipped' = FALSE
    /\ UNCHANGED <<proc, snapshot>>

\* CPU time went back: another process, which the next tick measures.
Regressed ==
    /\ prev = "other"
    /\ prev' = "own" /\ act' = Idle /\ pane' = NoPane /\ class' = NoClass
    /\ lastSnap' = snapshot /\ sent' = NoSignal
    /\ seen' = <<>> /\ verdict' = FALSE /\ slipped' = FALSE
    /\ UNCHANGED <<proc, snapshot>>

\* Streaks on either side of the bar; the longer one flips the verdict.
Counted(a, busy) ==
    LET above == IF busy THEN Capped(a.above + 1, Rise) ELSE 0
        below == IF busy THEN 0 ELSE Capped(a.below + 1, Fall)
    IN  [above |-> above, below |-> below,
         working |-> IF busy THEN a.working \/ above >= Rise ELSE a.working /\ below < Fall]

TracksWithoutSpace(name, cwd) == name \in snapshot.binaries \/ cwd \in snapshot.cwds
Tracks(name, cwd, space) ==
    TracksWithoutSpace(name, cwd) \/ (space # NoSpace /\ space \in snapshot.spaces)

\* Mutant: what is decided without the space is final.
FinalAtOnce(name, cwd, spaceKnown) == TRUE

\* When a classification needs no second look.
Final(name, cwd, spaceKnown) == TracksWithoutSpace(name, cwd) \/ spaceKnown

\* A tick that can compare. busy: the difference reaches the bar of the user's
\* presence. envOK, cwdOK: the probes for the pane and the directory answer.
\* resolved: herdr's file knows the pane's space right now.
Measured(busy, envOK, cwdOK, resolved) ==
    LET a == Counted(IF NameChanged THEN Idle ELSE act, busy)
        cachedPane == IF NameChanged THEN NoPane ELSE pane
        cachedClass == IF NameChanged THEN NoClass ELSE ClassNow
        p == IF ~cachedPane.known /\ envOK THEN [known |-> TRUE, space |-> proc.space] ELSE cachedPane
        space == IF p.known /\ resolved THEN p.space ELSE NoSpace
        spaceKnown == p.known /\ (p.space = NoSpace \/ resolved)
        looked == IF cachedClass.known THEN cachedClass
                  ELSE [NoClass EXCEPT !.known = TRUE, !.name = proc.name, !.cwd = proc.cwd]
        c == IF looked.final THEN looked
             ELSE [looked EXCEPT !.track = Tracks(proc.name, looked.cwd, space),
                                 !.final = Final(proc.name, looked.cwd, spaceKnown)]
        classified == cachedClass.known \/ cwdOK
    IN  /\ prev # ""
        /\ prev' = "own" /\ act' = a /\ lastSnap' = snapshot
        /\ pane' = IF a.working THEN p ELSE cachedPane
        /\ class' = IF a.working /\ classified THEN c ELSE cachedClass
        /\ sent' = IF a.working /\ classified /\ c.track
                   THEN [cwd |-> c.cwd, space |-> space] ELSE NoSignal
        /\ slipped' = (~NameChanged /\ (slipped \/ prev = "other"))
        /\ seen' = Recent(IF NameChanged THEN <<>> ELSE seen, busy)
        /\ verdict' = IF LastAll(seen', Rise, TRUE) THEN TRUE
                      ELSE verdict /\ ~NameChanged /\ ~LastAll(seen', Fall, FALSE)
        /\ UNCHANGED <<proc, snapshot>>

Tick ==
    \/ Unlisted \/ FirstSeen \/ Regressed
    \/ \E busy, envOK, cwdOK, resolved \in BOOLEAN : Measured(busy, envOK, cwdOK, resolved)

ActivityInit ==
    /\ proc \in Process /\ snapshot \in Snapshots /\ lastSnap = snapshot
    /\ prev = "" /\ act = Idle /\ pane = NoPane /\ class = NoClass /\ sent = NoSignal
    /\ seen = <<>> /\ verdict = FALSE /\ slipped = FALSE

ActivityNext ==
    \/ \E p \in Process : Exec(p)
    \/ \E s \in Snapshots : Reload(s)
    \/ Tick

ActivitySpec == ActivityInit /\ [][ActivityNext]_activityVars
-----------------------------------------------------------------------------
(* Properties.                                                                *)

\* A signal is of a process busy for Rise ticks in a row and not idle for Fall since;
\* it names the directory and the space of the process that has the id now, and one
\* of them is tracked now: nothing cached outlives its process or its snapshot,
\* unless the id changed hands and no tick could tell.
RightProcess ==
    [][sent' # NoSignal /\ ~slipped' /\ Tick =>
           /\ verdict' /\ sent'.cwd = proc.cwd /\ sent'.space \in {proc.space, NoSpace}
           /\ Tracks(proc.name, proc.cwd, proc.space)]_activityVars

\* Once the probes answer, a working process that is tracked is seen, with its
\* space, whatever failed before (procPane, procClass: a failure is not cached).
SeenOnceResolved ==
    [][\A busy \in BOOLEAN :
           Measured(busy, TRUE, TRUE, TRUE) /\ verdict' /\ ~slipped'
               /\ Tracks(proc.name, proc.cwd, proc.space)
           => sent' = [cwd |-> proc.cwd, space |-> proc.space]]_activityVars
=============================================================================
