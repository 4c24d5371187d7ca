----------------------------- MODULE TitleProbe -----------------------------
(* The probe for the title of the window in front, which macOS may deny or     *)
(* leave hanging (collectFocusSignal, permission.go), and the report of ticks  *)
(* that overran, which keeps quiet the same way (reportSlowTick).              *)
(*                                                                             *)
(* One action is one tick, and one unit of time. titleRetryAt and              *)
(* slowTickRetryAt are kept as waits, the time of a permission state as an age. *)
EXTENDS Naturals

CONSTANTS
    First, Most,     \* the back-offs' first length and cap
    Streak,          \* osascriptTimeoutStreak
    PermStale        \* permStaleAfterSec

ASSUME ProbeAssumption ==
    /\ First \in Nat \ {0} /\ Most \in Nat /\ First <= Most
    /\ Streak \in Nat \ {0} /\ PermStale = 3 * Most

VARIABLES
    title,           \* wait, back-off and streak of timeouts
    perm,            \* the PermissionTracker: state and age
    slow,            \* wait and back-off of the slow-tick report
    failedAge,       \* history: age of the last failure that backed off
    denied,          \* history: all ticks since a denial looked and met no other answer
    reportedAge      \* history: age of the last report of this run of slow ticks

probeVars == <<title, perm, slow, failedAge, denied, reportedAge>>

Older(age) == IF age > PermStale THEN age ELSE age + 1
Waited(b) == [b EXCEPT !.wait = IF b.wait > 0 THEN b.wait - 1 ELSE 0]
Ready == [wait |-> 0, backoff |-> 0]

\* backOffTitle, backOffSlowTick: First, then twice as long each time, up to Most.
Grown(backoff) ==
    IF backoff = 0 THEN First
    ELSE IF 2 * backoff < Most THEN 2 * backoff ELSE Most
BackedOff(b) == [b EXCEPT !.backoff = Grown(b.backoff), !.wait = Grown(b.backoff)]

\* PermissionTracker: what a probe found, until it is too old to be evidence.
Observed(state) == [state |-> state, age |-> 0]
Aged == [perm EXCEPT !.age = Older(@)]
PermissionNow == IF perm.age > PermStale THEN "unknown" ELSE perm.state
-----------------------------------------------------------------------------
(* collectFocusSignal, with p the permission state after the idle check and t  *)
(* the title's waits now.                                                      *)

\* Nobody there, or an app in front that is not on the allowlist or has no name.
NotInFront(p, t) ==
    perm' = p /\ title' = t /\ denied' = FALSE /\ failedAge' = Older(failedAge)

\* Even the name of the app in front is denied.
FrontDenied(t) ==
    /\ perm' = Observed("accessibility_denied") /\ title' = t
    /\ denied' = TRUE /\ failedAge' = Older(failedAge)

Waits(p, t) ==
    /\ t.wait > 0
    /\ perm' = p /\ title' = t /\ failedAge' = Older(failedAge)
    /\ denied' = (denied /\ p = Aged)

Captures(t) ==
    /\ t.wait = 0
    /\ perm' = Observed("ok") /\ title' = [wait |-> 0, backoff |-> 0, streak |-> 0]
    /\ denied' = FALSE /\ failedAge' = Older(failedAge)

\* Mutant: a denial already known is not observed again.
TitleDeniedOnce(t) ==
    /\ t.wait = 0
    /\ perm' = IF perm.state = "accessibility_denied" THEN Aged ELSE Observed("accessibility_denied")
    /\ title' = BackedOff([t EXCEPT !.streak = 0])
    /\ denied' = TRUE /\ failedAge' = 0

TitleDenied(t) ==
    /\ t.wait = 0
    /\ perm' = Observed("accessibility_denied")
    /\ title' = BackedOff([t EXCEPT !.streak = 0])
    /\ denied' = TRUE /\ failedAge' = 0

\* A timeout backs off only when it is the last of a streak.
TimesOut(p, t) ==
    /\ t.wait = 0
    /\ perm' = p /\ denied' = FALSE
    /\ IF t.streak + 1 >= Streak
       THEN title' = BackedOff([t EXCEPT !.streak = 0]) /\ failedAge' = 0
       ELSE title' = [t EXCEPT !.streak = @ + 1] /\ failedAge' = Older(failedAge)

\* Any other failure: the next tick tries again.
Errs(p, t) ==
    /\ t.wait = 0
    /\ perm' = p /\ title' = [t EXCEPT !.streak = 0]
    /\ denied' = FALSE /\ failedAge' = Older(failedAge)

\* The idle check fails open: the user counts as present.
Probe ==
    LET t == Waited(title)
    IN  \E p \in {Aged, Observed("idle_detection_failed")} :
            \/ NotInFront(p, t) \/ FrontDenied(t) \/ Waits(p, t)
            \/ Captures(t) \/ TitleDenied(t) \/ TimesOut(p, t) \/ Errs(p, t)
-----------------------------------------------------------------------------
(* reportSlowTick, at the end of the tick.                                     *)

\* Mutant: an open window stays open.
InBudgetKeepsWait == slow' = Waited(slow) /\ reportedAge' = Most

InBudget == slow' = Ready /\ reportedAge' = Most
Quiet ==
    /\ Waited(slow).wait > 0
    /\ slow' = Waited(slow)
    /\ reportedAge' = IF reportedAge < Most THEN reportedAge + 1 ELSE Most
Reports ==
    /\ Waited(slow).wait = 0
    /\ slow' = BackedOff(slow) /\ reportedAge' = 0

ProbeInit ==
    /\ title = [wait |-> 0, backoff |-> 0, streak |-> 0]
    /\ perm = [state |-> "unknown", age |-> 0]
    /\ slow = Ready
    /\ failedAge = PermStale + 1 /\ denied = FALSE /\ reportedAge = Most

ProbeTick == Probe /\ (InBudget \/ Quiet \/ Reports)
ProbeSpec == ProbeInit /\ [][ProbeTick]_probeVars
-----------------------------------------------------------------------------
(* Properties.                                                                 *)

\* A tick that looked for a title and did not probe comes less than the cap after the
\* failure that silenced it, so a granted permission is noticed by then; a slow tick
\* that is not reported, less than the cap after a report, with only slow ticks
\* between: a new incident is "reported at once rather than swallowed by an open
\* window".
QuietLessThanCap ==
    [][/\ (\E p \in {Aged, Observed("idle_detection_failed")} : Waits(p, Waited(title)))
              => failedAge' < Most
       /\ Quiet => reportedAge' < Most]_probeVars

\* While every probe is denied, the state shown is never "unknown" (permission.go:
\* it "would otherwise decay to unknown between two legitimate attempts").
DenialStaysVisible == denied => PermissionNow = "accessibility_denied"
=============================================================================
