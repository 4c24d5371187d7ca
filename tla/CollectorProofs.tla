--------------------------- MODULE CollectorProofs ---------------------------
(***************************************************************************)
(* What the collectors of a poll tick promise, for any processes, answers  *)
(* and writes between two reads: an agent's signal is of the process that  *)
(* works, a denied title stays visible and no failure silences the probe,  *)
(* and herdr's spaces are never those of a file that is gone.              *)
(* The three parts share no state.                                         *)
(***************************************************************************)
EXTENDS AgentActivity, TitleProbe, HerdrSessions, TLAPS

-----------------------------------------------------------------------------
(* The agent collector: what it remembers of a process id never credits    *)
(* the wrong directory or space, nor an idle process.                      *)

\* The ticks a verdict can look back on.
Longest == IF Rise > Fall THEN Rise ELSE Fall
\* The process is one that the snapshot tracks.
TrackedIn(snap) ==
    \/ proc.name \in snap.binaries \/ proc.cwd \in snap.cwds
    \/ proc.space # NoSpace /\ proc.space \in snap.spaces

\* What is remembered of activity, and the fields of a cached classification.
Activities == [working : BOOLEAN, above : 0 .. Rise, below : 0 .. Fall]
ClassFields == {"known", "name", "cwd", "track", "final"}

\* A pane and a classification that are cached are those of the process.
PaneIsOf(p) == p.known = TRUE => p.space = proc.space

\* A cached classification has the process's name and directory, and tracks it only if
\* the snapshot does.
ClassIsOf(c, snap) ==
    c.known = TRUE =>
        /\ c.name = proc.name /\ c.cwd = proc.cwd
        /\ c.track = TRUE => TrackedIn(snap)

\* The types, with the history no longer than a verdict needs.
Prevs == {"", "own", "other"}
Shapes ==
    /\ prev \in Prevs /\ slipped \in BOOLEAN /\ verdict \in BOOLEAN
    /\ act \in Activities
    /\ seen \in Seq(BOOLEAN) /\ Len(seen) <= Longest
    /\ {"known", "space"} \subseteq DOMAIN pane /\ ClassFields \subseteq DOMAIN class
    /\ class.final = TRUE => class.known = TRUE

\* An id that was not listed has nothing cached.
Blank ==
    /\ act = Idle /\ pane = NoPane /\ class = NoClass
    /\ seen = <<>> /\ verdict = FALSE /\ slipped = FALSE

\* What was not listed at the last tick is forgotten.
UnlistedIsBlank == prev = "" => Blank

\* Unless the id changed hands unnoticed, what is cached is the process's.
CachesAreRight ==
    prev = "own" /\ slipped = FALSE => PaneIsOf(pane) /\ ClassIsOf(class, lastSnap)

\* The last n ticks all found the process busy, or n is 0; or found it idle.
RoseFor(ticks, n) == LastAll(ticks, n, TRUE)
FellFor(ticks, n) == LastAll(ticks, n, FALSE)

\* The counters are lengths of the run the last ticks end in: a rise that is counted
\* was seen, and no fall goes uncounted.
CountsRuns(a, ticks) ==
    /\ RoseFor(ticks, a.above)
    /\ \A n \in 0 .. Fall : FellFor(ticks, n) => a.below >= n

\* The streaks count what was seen, and working is a verdict of the ticks.
StreaksAreSeen == CountsRuns(act, seen) /\ (act.working = TRUE => verdict = TRUE)

\* The inductive invariant of the agent collector.
ActivityInv == Shapes /\ UnlistedIsBlank /\ CachesAreRight /\ StreaksAreSeen
-----------------------------------------------------------------------------
\* The window of ticks is one longer, or drops its oldest.
LEMMA RecentWindow ==
    ASSUME NEW ticks \in Seq(BOOLEAN), Len(ticks) <= Longest, NEW busy \in BOOLEAN
    PROVE  /\ Recent(ticks, busy) \in Seq(BOOLEAN) /\ Len(Recent(ticks, busy)) <= Longest
           /\ \A n \in 1 .. Longest, b \in BOOLEAN :
                 LastAll(Recent(ticks, busy), n, b) <=> busy = b /\ LastAll(ticks, n - 1, b)
<1> DEFINE all == Append(ticks, busy)
<1>1. /\ all \in Seq(BOOLEAN) /\ Len(all) = Len(ticks) + 1 /\ all[Len(ticks) + 1] = busy
      /\ \A i \in 1 .. Len(ticks) : all[i] = ticks[i]
  OBVIOUS
<1>2. Longest \in Nat /\ Longest > 0
  BY ActivityAssumption DEF Longest
<1>3. CASE Len(all) <= Longest
  <2>1. Recent(ticks, busy) = all
    BY <1>1, <1>2, <1>3 DEF Recent, Longest
  <2>2. ASSUME NEW n \in 1 .. Longest, NEW b \in BOOLEAN
        PROVE  LastAll(all, n, b) <=> busy = b /\ LastAll(ticks, n - 1, b)
    <3> HIDE DEF all
    <3>1. ASSUME LastAll(all, n, b)
          PROVE  busy = b /\ LastAll(ticks, n - 1, b)
      BY <1>1, <3>1 DEF LastAll
    <3>2. ASSUME busy = b, LastAll(ticks, n - 1, b)
          PROVE  LastAll(all, n, b)
      BY <1>1, <3>2 DEF LastAll
    <3> QED BY <3>1, <3>2
  <2> QED BY <1>1, <1>3, <2>1, <2>2
<1>4. CASE Len(all) > Longest
  <2> DEFINE rest == Tail(all)
  <2>1. Recent(ticks, busy) = rest
    BY <1>1, <1>2, <1>4 DEF Recent, Longest
  <2>2. /\ rest \in Seq(BOOLEAN) /\ Len(rest) = Len(ticks) /\ Len(ticks) = Longest
        /\ rest[Len(ticks)] = busy
        /\ \A i \in 1 .. Len(ticks) - 1 : rest[i] = ticks[i + 1]
    BY <1>1, <1>2, <1>4
  <2>3. ASSUME NEW n \in 1 .. Longest, NEW b \in BOOLEAN
        PROVE  LastAll(rest, n, b) <=> busy = b /\ LastAll(ticks, n - 1, b)
    <3> HIDE DEF all, rest
    <3>1. ASSUME LastAll(rest, n, b)
          PROVE  busy = b /\ LastAll(ticks, n - 1, b)
      <4>1. busy = b
        BY <1>2, <2>2, <3>1 DEF LastAll
      <4>2. ASSUME NEW i \in Len(ticks) - (n - 1) + 1 .. Len(ticks)
            PROVE  ticks[i] = b
        <5>1. /\ i - 1 \in 1 .. Len(ticks) - 1
              /\ i - 1 \in Len(ticks) - n + 1 .. Len(ticks)
          BY <1>2, <2>2
        <5>2. rest[i - 1] = b
          BY <2>2, <3>1, <5>1 DEF LastAll
        <5>3. rest[i - 1] = ticks[(i - 1) + 1]
          BY <2>2, <5>1
        <5> QED BY <5>1, <5>2, <5>3
      <4> QED BY <1>2, <2>2, <4>1, <4>2 DEF LastAll
    <3>2. ASSUME busy = b, LastAll(ticks, n - 1, b)
          PROVE  LastAll(rest, n, b)
      <4>1. ASSUME NEW i \in Len(ticks) - n + 1 .. Len(ticks)
            PROVE  rest[i] = b
        <5>1. CASE i = Len(ticks)
          BY <2>2, <3>2, <5>1
        <5>2. CASE i < Len(ticks)
          BY <1>2, <2>2, <3>2, <5>2 DEF LastAll
        <5> QED BY <2>2, <5>1, <5>2
      <4> QED BY <1>2, <2>2, <4>1 DEF LastAll
    <3> QED BY <3>1, <3>2
  <2> QED BY <2>1, <2>2, <2>3
<1> QED BY <1>1, <1>2, <1>3, <1>4
-----------------------------------------------------------------------------
\* The same for each kind of tick.
LEMMA RunsGrow ==
    ASSUME NEW ticks \in Seq(BOOLEAN), Len(ticks) <= Longest, NEW busy \in BOOLEAN
    PROVE  \A n \in 1 .. Longest :
              /\ RoseFor(Recent(ticks, busy), n) <=> busy = TRUE /\ RoseFor(ticks, n - 1)
              /\ FellFor(Recent(ticks, busy), n) <=> busy = FALSE /\ FellFor(ticks, n - 1)
  BY RecentWindow, Zenon DEF RoseFor, FellFor

\* The end of a run of busy ticks is one.
LEMMA RoseFewer ==
    ASSUME NEW ticks \in Seq(BOOLEAN), NEW n \in Nat, NEW m \in 0 .. n, RoseFor(ticks, n)
    PROVE  RoseFor(ticks, m)
  BY DEF LastAll, RoseFor

\* A run of no ticks asks nothing.
LEMMA RunOfNone ==
    ASSUME NEW ticks \in Seq(BOOLEAN)
    PROVE  RoseFor(ticks, 0) /\ FellFor(ticks, 0)
  BY DEF LastAll, RoseFor, FellFor

\* A tick that compares: the counters stay what the ticks end in, and the verdict is
\* TRUE only after a full rise, or if it was and no full fall has come.
LEMMA CountedSeen ==
    ASSUME NEW a \in Activities, NEW busy \in BOOLEAN,
           NEW ticks \in Seq(BOOLEAN), Len(ticks) <= Longest, CountsRuns(a, ticks)
    PROVE  /\ Counted(a, busy) \in Activities
           /\ CountsRuns(Counted(a, busy), Recent(ticks, busy))
           /\ Counted(a, busy).working = TRUE =>
                 \/ RoseFor(Recent(ticks, busy), Rise)
                 \/ a.working = TRUE /\ ~FellFor(Recent(ticks, busy), Fall)
<1> DEFINE next == Recent(ticks, busy)
           above == Capped(a.above + 1, Rise)
           below == Capped(a.below + 1, Fall)
<1>1. /\ Rise \in Nat /\ Rise > 0 /\ Fall \in Nat /\ Fall > 0
      /\ Rise <= Longest /\ Fall <= Longest /\ Longest \in Nat
  BY ActivityAssumption DEF Longest
<1>2. a.above \in 0 .. Rise /\ a.below \in 0 .. Fall /\ a.working \in BOOLEAN
  BY DEF Activities
<1>3. /\ next \in Seq(BOOLEAN)
      /\ \A n \in 1 .. Longest :
            /\ RoseFor(next, n) <=> busy = TRUE /\ RoseFor(ticks, n - 1)
            /\ FellFor(next, n) <=> busy = FALSE /\ FellFor(ticks, n - 1)
  BY RecentWindow, RunsGrow
<1>4. above \in 1 .. Rise /\ above - 1 \in 0 .. a.above
  BY <1>1, <1>2 DEF Capped
<1>5. below \in 1 .. Fall /\ (\A n \in 1 .. Fall : a.below >= n - 1 => below >= n)
  BY <1>1, <1>2 DEF Capped
<1>6. RoseFor(next, 0) /\ FellFor(next, 0)
  BY <1>3, RunOfNone
<1>7. RoseFor(ticks, a.above) /\ (\A n \in 0 .. Fall : FellFor(ticks, n) => a.below >= n)
  BY DEF CountsRuns
<1> HIDE DEF next, above, below
<1>8. CASE busy = TRUE
  <2>1. /\ Counted(a, busy).above = above /\ Counted(a, busy).below = 0
        /\ Counted(a, busy).working = TRUE => a.working = TRUE \/ above >= Rise
    BY <1>2, <1>8 DEF Counted, above
  <2>2. Counted(a, busy) \in Activities
    BY <1>1, <1>2, <1>4, <1>8 DEF Counted, above, Activities
  <2>3. RoseFor(next, above)
    <3>1. RoseFor(ticks, above - 1)
      BY <1>2, <1>4, <1>7, RoseFewer
    <3>2. above \in 1 .. Longest
      BY <1>1, <1>4
    <3> QED BY <1>3, <1>8, <3>1, <3>2
  <2>4. ASSUME NEW n \in 1 .. Fall
        PROVE  ~FellFor(next, n)
    <3>1. n \in 1 .. Longest
      BY <1>1
    <3> QED BY <1>3, <1>8, <3>1
  <2>5. above >= Rise => RoseFor(next, Rise)
    <3>1. above >= Rise => above = Rise
      BY <1>1, <1>4
    <3> QED BY <2>3, <3>1
  <2>6. Fall \in 1 .. Fall
    BY <1>1
  <2>7. ASSUME NEW n \in 0 .. Fall, FellFor(next, n)
        PROVE  0 >= n
    BY <1>1, <2>4, <2>7
  <2> QED BY <2>1, <2>2, <2>3, <2>4, <2>5, <2>6, <2>7 DEF next, CountsRuns
<1>9. CASE busy = FALSE
  <2>1. /\ Counted(a, busy).above = 0 /\ Counted(a, busy).below = below
        /\ Counted(a, busy).working = TRUE => a.working = TRUE /\ below < Fall
    BY <1>2, <1>9 DEF Counted, below
  <2>2. Counted(a, busy) \in Activities
    BY <1>1, <1>2, <1>5, <1>9 DEF Counted, below, Activities
  <2>3. ASSUME NEW n \in 1 .. Fall, FellFor(next, n)
        PROVE  below >= n
    <3>1. n \in 1 .. Longest /\ n - 1 \in 0 .. Fall
      BY <1>1
    <3>2. FellFor(ticks, n - 1)
      BY <1>3, <2>3, <3>1
    <3>3. a.below >= n - 1
      BY <1>7, <3>1, <3>2
    <3> QED BY <1>5, <3>3
  <2>4. Fall \in 1 .. Fall /\ below \in Nat
    BY <1>1, <1>5
  <2>5. below < Fall => ~FellFor(next, Fall)
    <3>1. FellFor(next, Fall) => below >= Fall
      BY <2>3, <2>4
    <3> QED BY <1>1, <2>4, <3>1
  <2>6. ASSUME NEW n \in 0 .. Fall, FellFor(next, n)
        PROVE  below >= n
    <3>1. CASE n = 0
      BY <2>4, <3>1
    <3>2. CASE n # 0
      <4>1. n \in 1 .. Fall
        BY <1>1, <3>2
      <4> QED BY <2>3, <2>6, <4>1
    <3> QED BY <3>1, <3>2
  <2> QED BY <1>6, <2>1, <2>2, <2>5, <2>6 DEF next, CountsRuns
<1> QED BY <1>8, <1>9
-----------------------------------------------------------------------------
\* The window has a length.
LEMMA LongestIsNat == Longest \in Nat /\ 0 <= Longest
  BY ActivityAssumption DEF Longest

\* No ticks are a history.
LEMMA NoTicks == <<>> \in Seq(BOOLEAN) /\ Len(<<>>) = 0
<1>1. ASSUME NEW S PROVE <<>> \in Seq(S) /\ Len(<<>>) = 0
  OBVIOUS
<1> QED BY <1>1

\* A fresh activity counts no tick.
LEMMA BlankStreaks ==
    Idle \in Activities /\ Idle.working = FALSE /\ CountsRuns(Idle, <<>>)
<1>1. Idle \in Activities
  <2>1. 0 \in 0 .. Rise /\ 0 \in 0 .. Fall
    BY ActivityAssumption
  <2> QED BY <2>1 DEF Idle, Activities
<1>2. Idle.above = 0 /\ Idle.below = 0 /\ Idle.working = FALSE
  BY DEF Idle
<1>3. RoseFor(<<>>, 0)
  BY NoTicks, RunOfNone
<1>4. ASSUME NEW n \in 0 .. Fall, FellFor(<<>>, n)
      PROVE  0 >= n
  BY <1>4, ActivityAssumption DEF FellFor, LastAll
<1> QED BY <1>1, <1>2, <1>3, <1>4 DEF CountsRuns

\* A blank entry is of its types.
LEMMA BlankShapes ==
    /\ {"known", "space"} \subseteq DOMAIN NoPane /\ ClassFields \subseteq DOMAIN NoClass
    /\ NoClass.final = FALSE
  BY DEF NoPane, NoClass, ClassFields

\* Nothing remembered satisfies the invariant, whoever has the id.
LEMMA BlankInv ==
    ASSUME prev \in Prevs, Blank
    PROVE  ActivityInv
<1>1. Shapes
  <2>4. <<>> \in Seq(BOOLEAN) /\ Len(<<>>) <= Longest
    BY NoTicks, LongestIsNat
  <2> QED BY BlankStreaks, BlankShapes, <2>4 DEF Blank, Shapes
<1>2. CachesAreRight
  BY DEF Blank, CachesAreRight, PaneIsOf, ClassIsOf, NoPane, NoClass
<1>3. StreaksAreSeen
  BY BlankStreaks DEF Blank, StreaksAreSeen
<1> QED BY <1>1, <1>2, <1>3 DEF ActivityInv, UnlistedIsBlank

\* The same of the state after a step.
LEMMA BlankInvNext ==
    (prev \in Prevs /\ Blank)' => ActivityInv'
<1>1. prev \in Prevs /\ Blank => ActivityInv
  BY BlankInv
<1> QED BY <1>1, PTL

\* Initially nothing is remembered.
LEMMA ActivityInitInv == ActivityInit => ActivityInv
<1>1. ActivityInit => prev = "" /\ Blank
  BY DEF ActivityInit, Blank
<1> QED BY <1>1, BlankInv DEF Prevs

\* A tick that cannot compare forgets, or starts with nothing remembered.
LEMMA ForgottenKeeps ==
    ASSUME ActivityInv, Unlisted \/ FirstSeen \/ Regressed
    PROVE  ActivityInv' /\ sent' = NoSignal
<1>1. CASE Unlisted \/ Regressed
  BY <1>1, BlankInvNext DEF Unlisted, Regressed, Blank, Prevs
<1>2. CASE FirstSeen
  <2>1. Blank /\ ClassNow = NoClass
    BY <1>2 DEF FirstSeen, ActivityInv, UnlistedIsBlank, Blank, ClassNow
  <2>2. Blank' /\ prev' = "own" /\ sent' = NoSignal
    BY <1>2, <2>1 DEF FirstSeen, Blank
  <2> QED BY <2>2, BlankInvNext DEF Prevs
<1> QED BY <1>1, <1>2

\* What is cached belongs to the process, when a tick would have noticed another one.
LEMMA CachedNow ==
    ASSUME ActivityInv, prev # "", NameChanged \/ (slipped = FALSE /\ prev # "other")
    PROVE  /\ PaneIsOf(IF NameChanged THEN NoPane ELSE pane)
           /\ ClassIsOf(IF NameChanged THEN NoClass ELSE ClassNow, snapshot)
<1>1. PaneIsOf(NoPane) /\ ClassIsOf(NoClass, snapshot)
  BY DEF PaneIsOf, ClassIsOf, NoPane, NoClass
<1>2. CASE NameChanged
  BY <1>1, <1>2
<1>3. CASE ~NameChanged
  <2>1. prev = "own" /\ slipped = FALSE
    BY <1>3 DEF ActivityInv, Shapes, Prevs
  <2>2. PaneIsOf(pane) /\ ClassIsOf(class, lastSnap)
    BY <2>1 DEF ActivityInv, CachesAreRight
  <2>3. ClassIsOf(ClassNow, snapshot)
    BY <1>1, <2>2 DEF ClassNow
  <2> QED BY <1>3, <2>2, <2>3
<1> QED BY <1>2, <1>3

\* What a signal must be when an id that changed hands would have been noticed.
RightSignal ==
    sent' # NoSignal /\ slipped' = FALSE =>
        /\ verdict' = TRUE /\ sent'.cwd = proc.cwd /\ sent'.space \in {proc.space, NoSpace}
        /\ Tracks(proc.name, proc.cwd, proc.space)

\* A tick that compares, by its parts.
LEMMA MeasuredKeeps ==
    ASSUME ActivityInv, NEW busy \in BOOLEAN, NEW envOK \in BOOLEAN, NEW cwdOK \in BOOLEAN,
           NEW resolved \in BOOLEAN, Measured(busy, envOK, cwdOK, resolved)
    PROVE  ActivityInv' /\ RightSignal
<1> DEFINE before == IF NameChanged THEN Idle ELSE act
           ticks == IF NameChanged THEN <<>> ELSE seen
           a == Counted(before, busy)
           cachedPane == IF NameChanged THEN NoPane ELSE pane
           cachedClass == IF NameChanged THEN NoClass ELSE ClassNow
           p == IF ~cachedPane.known /\ envOK THEN [known |-> TRUE, space |-> proc.space]
                ELSE cachedPane
           space == IF p.known /\ resolved THEN p.space ELSE NoSpace
           spaceKnown == p.known /\ (p.space = NoSpace \/ resolved)
           looked == IF cachedClass.known THEN cachedClass
                     ELSE [NoClass EXCEPT !.known = TRUE, !.name = proc.name, !.cwd = proc.cwd]
           tracks == Tracks(proc.name, looked.cwd, space)
           c == IF looked.final THEN looked
                ELSE [looked EXCEPT !.track = tracks,
                                    !.final = Final(proc.name, looked.cwd, spaceKnown)]
           classified == cachedClass.known \/ cwdOK
<1>1. /\ prev # "" /\ prev' = "own" /\ act' = a /\ lastSnap' = snapshot
      /\ pane' = IF a.working THEN p ELSE cachedPane
      /\ class' = IF a.working /\ classified THEN c ELSE cachedClass
      /\ sent' = IF a.working /\ classified /\ c.track
                 THEN [cwd |-> c.cwd, space |-> space] ELSE NoSignal
      /\ slipped' = (~NameChanged /\ (slipped \/ prev = "other"))
      /\ seen' = Recent(ticks, busy)
      /\ verdict' = IF LastAll(seen', Rise, TRUE) THEN TRUE
                    ELSE verdict /\ ~NameChanged /\ ~LastAll(seen', Fall, FALSE)
      /\ UNCHANGED <<proc, snapshot>>
  BY DEF Measured
<1>2. /\ before \in Activities /\ ticks \in Seq(BOOLEAN) /\ Len(ticks) <= Longest
      /\ CountsRuns(before, ticks)
      /\ before.working = TRUE => verdict = TRUE /\ ~NameChanged
  <2>1. CASE NameChanged
    <3>1. Idle \in Activities /\ Idle.working = FALSE /\ CountsRuns(Idle, <<>>)
      BY BlankStreaks
    <3> QED BY <2>1, <3>1, NoTicks, LongestIsNat
  <2>2. CASE ~NameChanged
    BY <2>2 DEF ActivityInv, Shapes, StreaksAreSeen
  <2> QED BY <2>1, <2>2
<1>3. /\ a \in Activities /\ CountsRuns(a, seen')
      /\ a.working = TRUE => \/ RoseFor(seen', Rise)
                             \/ before.working = TRUE /\ ~FellFor(seen', Fall)
      /\ seen' \in Seq(BOOLEAN) /\ Len(seen') <= Longest
  BY <1>1, <1>2, CountedSeen, RecentWindow
<1> HIDE DEF before, ticks, a
<1>4. a.working = TRUE => verdict' = TRUE
  BY <1>1, <1>2, <1>3 DEF RoseFor, FellFor
<1>5. ASSUME slipped' = FALSE
      PROVE  PaneIsOf(cachedPane) /\ ClassIsOf(cachedClass, snapshot)
  <2>1. NameChanged \/ (slipped = FALSE /\ prev # "other")
    BY <1>1, <1>5 DEF ActivityInv, Shapes
  <2> QED BY <1>1, <2>1, CachedNow
<1>6. /\ {"known", "space"} \subseteq DOMAIN cachedPane
      /\ ClassFields \subseteq DOMAIN cachedClass
      /\ cachedClass.final = TRUE => cachedClass.known = TRUE
  <2>1. /\ {"known", "space"} \subseteq DOMAIN NoPane /\ ClassFields \subseteq DOMAIN NoClass
        /\ NoClass.final = FALSE
    BY BlankShapes
  <2> QED BY <2>1 DEF ActivityInv, Shapes, ClassNow
<1> HIDE DEF cachedPane, cachedClass
<1>7. /\ {"known", "space"} \subseteq DOMAIN p
      /\ PaneIsOf(cachedPane) => PaneIsOf(p) /\ space \in {proc.space, NoSpace}
  BY <1>6 DEF PaneIsOf
<1>8. /\ ClassFields \subseteq DOMAIN looked
      /\ looked.known = TRUE
      /\ ClassIsOf(cachedClass, snapshot) =>
            /\ looked.name = proc.name /\ looked.cwd = proc.cwd
            /\ looked.final = TRUE /\ looked.track = TRUE => TrackedIn(snapshot)
  <2>1. CASE cachedClass.known = TRUE
    BY <1>6, <2>1 DEF ClassIsOf
  <2>2. CASE ~(cachedClass.known = TRUE)
    <3>1. looked = [NoClass EXCEPT !.known = TRUE, !.name = proc.name, !.cwd = proc.cwd]
      BY <2>2
    <3>2. /\ ClassFields \subseteq DOMAIN looked /\ looked.final = FALSE /\ looked.known = TRUE
          /\ looked.name = proc.name /\ looked.cwd = proc.cwd
      BY <3>1, BlankShapes DEF ClassFields
    <3> QED BY <3>2
  <2> QED BY <2>1, <2>2
<1> HIDE DEF p, space, looked
<1>9. space \in {proc.space, NoSpace} /\ looked.cwd = proc.cwd /\ tracks => TrackedIn(snapshot)
  BY DEF Tracks, TracksWithoutSpace, TrackedIn
<1> HIDE DEF tracks
<1>10. /\ ClassFields \subseteq DOMAIN c /\ c.known = TRUE
       /\ c.name = looked.name /\ c.cwd = looked.cwd
       /\ c.track = TRUE => (looked.final = TRUE /\ looked.track = TRUE) \/ tracks
  <2>1. CASE looked.final = TRUE
    <3>1. c = looked
      BY <2>1
    <3> QED BY <1>8, <2>1, <3>1
  <2>2. CASE ~(looked.final = TRUE)
    <3>1. c = [looked EXCEPT !.track = tracks, !.final = Final(proc.name, looked.cwd, spaceKnown)]
      BY <2>2
    <3>2. ClassFields \subseteq DOMAIN c /\ c.name = looked.name /\ c.cwd = looked.cwd
      BY <1>8, <3>1 DEF ClassFields
    <3>3. c.known = looked.known /\ c.track = tracks
      BY <1>8, <3>1 DEF ClassFields
    <3> QED BY <1>8, <3>2, <3>3
  <2> QED BY <2>1, <2>2
<1> HIDE DEF c, spaceKnown
<1>11. ASSUME slipped' = FALSE
       PROVE  /\ PaneIsOf(p) /\ space \in {proc.space, NoSpace}
              /\ ClassIsOf(c, snapshot) /\ c.cwd = proc.cwd
              /\ c.track = TRUE => TrackedIn(snapshot)
  BY <1>5, <1>7, <1>8, <1>9, <1>10, <1>11 DEF ClassIsOf
<1>12. RightSignal
  <2> SUFFICES ASSUME sent' # NoSignal, slipped' = FALSE
               PROVE  /\ verdict' = TRUE /\ sent'.cwd = proc.cwd
                      /\ sent'.space \in {proc.space, NoSpace} /\ TrackedIn(snapshot)
    BY DEF RightSignal, Tracks, TracksWithoutSpace, TrackedIn
  <2>1. a.working = TRUE /\ c.track = TRUE /\ sent' = [cwd |-> c.cwd, space |-> space]
    BY <1>1
  <2>2. sent'.cwd = c.cwd /\ sent'.space = space
    BY <2>1
  <2> QED BY <1>4, <1>11, <2>1, <2>2
<1>13. Shapes'
  <2>1. prev' \in Prevs /\ slipped' \in BOOLEAN
    BY <1>1 DEF Prevs
  <2>2. verdict' \in BOOLEAN
    BY <1>1
  <2>3. act' \in Activities /\ seen' \in Seq(BOOLEAN) /\ Len(seen') <= Longest
    BY <1>1, <1>3
  <2>4. {"known", "space"} \subseteq DOMAIN pane'
    BY <1>1, <1>6, <1>7
  <2>5. /\ ClassFields \subseteq DOMAIN class'
        /\ class'.final = TRUE => class'.known = TRUE
    BY <1>1, <1>6, <1>10
  <2> QED BY <2>1, <2>2, <2>3, <2>4, <2>5 DEF Shapes
<1>14. CachesAreRight'
  <2> SUFFICES ASSUME slipped' = FALSE
               PROVE  (PaneIsOf(pane) /\ ClassIsOf(class, lastSnap))'
    BY DEF CachesAreRight
  <2>1. PaneIsOf(pane') /\ ClassIsOf(class', snapshot)
    BY <1>1, <1>5, <1>11
  <2> QED BY <1>1, <2>1 DEF PaneIsOf, ClassIsOf, TrackedIn
<1>15. StreaksAreSeen'
  BY <1>1, <1>3, <1>4 DEF StreaksAreSeen, CountsRuns
<1>16. UnlistedIsBlank'
  BY <1>1 DEF UnlistedIsBlank
<1> QED BY <1>12, <1>13, <1>14, <1>15, <1>16 DEF ActivityInv

\* Every step keeps the invariant, and every tick's signal is right.
LEMMA ActivityNextInv ==
    ActivityInv /\ [ActivityNext]_activityVars =>
        ActivityInv' /\ (Tick => RightSignal)
<1> SUFFICES ASSUME ActivityInv, [ActivityNext]_activityVars
             PROVE  ActivityInv' /\ (Tick => RightSignal)
  OBVIOUS
<1>1. ASSUME Tick PROVE ActivityInv' /\ RightSignal
  <2>1. CASE Unlisted \/ FirstSeen \/ Regressed
    BY <2>1, ForgottenKeeps DEF RightSignal
  <2>2. CASE \E busy, envOK, cwdOK, resolved \in BOOLEAN : Measured(busy, envOK, cwdOK, resolved)
    BY <2>2, MeasuredKeeps
  <2> QED BY <1>1, <2>1, <2>2 DEF Tick
<1>2. ASSUME NEW new \in Process, Exec(new) PROVE ActivityInv'
  <2>1. CASE prev = ""
    <3>1. Blank /\ Blank' /\ prev' = ""
      BY <1>2, <2>1 DEF ActivityInv, UnlistedIsBlank, Exec, Blank
    <3> QED BY <3>1, BlankInvNext DEF Prevs
  <2>2. CASE prev # ""
    <3>1. prev' = "other" /\ UNCHANGED <<act, pane, class, seen, verdict, slipped>>
      BY <1>2, <2>2 DEF Exec
    <3>2. Shapes' /\ StreaksAreSeen'
      BY <3>1 DEF ActivityInv, Shapes, Prevs, StreaksAreSeen, CountsRuns
    <3> QED BY <3>1, <3>2 DEF ActivityInv, UnlistedIsBlank, CachesAreRight
  <2> QED BY <2>1, <2>2
<1>3. ASSUME UNCHANGED <<proc, lastSnap, prev, act, pane, class, seen, verdict, slipped>>
      PROVE  ActivityInv'
  BY <1>3 DEF ActivityInv, Shapes, UnlistedIsBlank, Blank, CachesAreRight, PaneIsOf, ClassIsOf,
              TrackedIn, StreaksAreSeen, CountsRuns
<1>4. ASSUME NEW s \in Snapshots, Reload(s) PROVE ActivityInv'
  BY <1>3, <1>4 DEF Reload
<1>5. CASE UNCHANGED activityVars
  <2>1. ActivityInv'
    BY <1>3, <1>5 DEF activityVars
  <2> QED BY <1>1, <2>1
<1> QED BY <1>1, <1>2, <1>4, <1>5 DEF ActivityNext
-----------------------------------------------------------------------------
\* A signal names the directory and the space of the process that has the id, which
\* was busy for Rise ticks in a row and not idle for Fall since, and is tracked now
\* (collectAgentSignals), for any processes, snapshots and bounds.
THEOREM SignalIsOfTheProcess == ActivitySpec => RightProcess
<1>1. ActivityInv /\ [ActivityNext]_activityVars =>
          [sent' # NoSignal /\ ~slipped' /\ Tick =>
              /\ verdict' /\ sent'.cwd = proc.cwd /\ sent'.space \in {proc.space, NoSpace}
              /\ Tracks(proc.name, proc.cwd, proc.space)]_activityVars
  <2> SUFFICES ASSUME ActivityInv, [ActivityNext]_activityVars,
                      sent' # NoSignal, ~slipped', Tick
               PROVE  /\ verdict' /\ sent'.cwd = proc.cwd
                      /\ sent'.space \in {proc.space, NoSpace}
                      /\ Tracks(proc.name, proc.cwd, proc.space)
    OBVIOUS
  <2>1. ActivityInv' /\ RightSignal
    BY ActivityNextInv
  <2>2. slipped' = FALSE
    BY <2>1 DEF ActivityInv, Shapes
  <2> QED BY <2>1, <2>2 DEF RightSignal
<1> QED BY <1>1, ActivityInitInv, ActivityNextInv, PTL DEF ActivitySpec, RightProcess
-----------------------------------------------------------------------------
\* The converse: no full rise goes uncounted, and a fall that is counted was seen.
CountsAll(a, ticks) ==
    /\ FellFor(ticks, a.below)
    /\ \A n \in 0 .. Rise : RoseFor(ticks, n) => a.above >= n

\* A classification that is final and does not track is of a process that the
\* snapshot does not track, wherever it runs.
ClassIsWhole(c, snap) ==
    c.known = TRUE /\ c.final = TRUE /\ TrackedIn(snap) => c.track = TRUE

\* With this a verdict is acted on, and a tracked process is not passed over.
SeenInv ==
    /\ CountsAll(act, seen) /\ (verdict = TRUE => act.working = TRUE)
    /\ prev = "own" /\ slipped = FALSE => ClassIsWhole(class, lastSnap)

\* The end of a run of idle ticks is one.
LEMMA FellFewer ==
    ASSUME NEW ticks \in Seq(BOOLEAN), NEW n \in Nat, NEW m \in 0 .. n, FellFor(ticks, n)
    PROVE  FellFor(ticks, m)
  BY DEF LastAll, FellFor

\* A tick that compares misses neither a rise nor a verdict.
LEMMA CountedAll ==
    ASSUME NEW a \in Activities, NEW busy \in BOOLEAN,
           NEW ticks \in Seq(BOOLEAN), Len(ticks) <= Longest, CountsAll(a, ticks)
    PROVE  /\ CountsAll(Counted(a, busy), Recent(ticks, busy))
           /\ RoseFor(Recent(ticks, busy), Rise) => Counted(a, busy).working = TRUE
           /\ a.working = TRUE /\ ~FellFor(Recent(ticks, busy), Fall)
                 => Counted(a, busy).working = TRUE
<1> DEFINE next == Recent(ticks, busy)
           above == Capped(a.above + 1, Rise)
           below == Capped(a.below + 1, Fall)
<1>1. /\ Rise \in Nat /\ Rise > 0 /\ Fall \in Nat /\ Fall > 0
      /\ Rise <= Longest /\ Fall <= Longest /\ Longest \in Nat
  BY ActivityAssumption DEF Longest
<1>2. a.above \in 0 .. Rise /\ a.below \in 0 .. Fall /\ a.working \in BOOLEAN
  BY DEF Activities
<1>3. /\ next \in Seq(BOOLEAN)
      /\ \A n \in 1 .. Longest :
            /\ RoseFor(next, n) <=> busy = TRUE /\ RoseFor(ticks, n - 1)
            /\ FellFor(next, n) <=> busy = FALSE /\ FellFor(ticks, n - 1)
  BY RecentWindow, RunsGrow
<1>4. below \in 1 .. Fall /\ below - 1 \in 0 .. a.below
  BY <1>1, <1>2 DEF Capped
<1>5. above \in 1 .. Rise /\ \A n \in 1 .. Rise : a.above >= n - 1 => above >= n
  BY <1>1, <1>2 DEF Capped
<1>6. RoseFor(next, 0) /\ FellFor(next, 0)
  BY <1>3, RunOfNone
<1>7. FellFor(ticks, a.below) /\ \A n \in 0 .. Rise : RoseFor(ticks, n) => a.above >= n
  BY DEF CountsAll
<1> HIDE DEF next, above, below
<1>8. CASE busy = TRUE
  <2>1. /\ Counted(a, busy).above = above /\ Counted(a, busy).below = 0
        /\ Counted(a, busy).working = TRUE <=> a.working = TRUE \/ above >= Rise
    BY <1>2, <1>8 DEF Counted, above
  <2>2. ASSUME NEW n \in 0 .. Rise, RoseFor(next, n) PROVE above >= n
    <3>1. CASE n = 0
      BY <1>5, <3>1
    <3>2. CASE n # 0
      <4>1. n \in 1 .. Longest /\ n \in 1 .. Rise /\ n - 1 \in 0 .. Rise
        BY <1>1, <3>2
      <4>2. RoseFor(ticks, n - 1)
        BY <1>3, <2>2, <4>1
      <4> QED BY <1>5, <1>7, <4>1, <4>2
    <3> QED BY <3>1, <3>2
  <2>3. RoseFor(next, Rise) => above >= Rise
    <3>1. Rise \in 0 .. Rise
      BY <1>1
    <3> QED BY <2>2, <3>1
  <2> QED BY <1>6, <2>1, <2>2, <2>3 DEF next, CountsAll
<1>9. CASE busy = FALSE
  <2>1. /\ Counted(a, busy).above = 0 /\ Counted(a, busy).below = below
        /\ Counted(a, busy).working = TRUE <=> a.working = TRUE /\ below < Fall
    BY <1>2, <1>9 DEF Counted, below
  <2>2. FellFor(next, below)
    <3>1. FellFor(ticks, below - 1)
      BY <1>2, <1>4, <1>7, FellFewer
    <3>2. below \in 1 .. Longest
      BY <1>1, <1>4
    <3> QED BY <1>3, <1>9, <3>1, <3>2
  <2>3. ASSUME NEW n \in 1 .. Rise PROVE ~RoseFor(next, n)
    <3>1. n \in 1 .. Longest
      BY <1>1
    <3> QED BY <1>3, <1>9, <3>1
  <2>4. ASSUME NEW n \in 0 .. Rise, RoseFor(next, n) PROVE 0 >= n
    BY <1>1, <2>3, <2>4
  <2>5. Rise \in 1 .. Rise
    BY <1>1
  <2>6. ~FellFor(next, Fall) => below < Fall
    <3>1. below >= Fall => below = Fall
      BY <1>1, <1>4
    <3> QED BY <1>1, <1>4, <2>2, <3>1
  <2> QED BY <2>1, <2>2, <2>3, <2>4, <2>5, <2>6 DEF next, CountsAll
<1> QED BY <1>8, <1>9

\* Nothing remembered misses nothing.
LEMMA BlankSees ==
    /\ CountsAll(Idle, <<>>) /\ Idle.working = FALSE
    /\ \A snap : ClassIsWhole(NoClass, snap)
<1>1. Idle.above = 0 /\ Idle.below = 0 /\ Idle.working = FALSE
  BY DEF Idle
<1>2. FellFor(<<>>, 0)
  BY NoTicks, RunOfNone
<1>3. ASSUME NEW n \in 0 .. Rise, RoseFor(<<>>, n) PROVE 0 >= n
  BY <1>3, ActivityAssumption DEF RoseFor, LastAll
<1> QED BY <1>1, <1>2, <1>3 DEF CountsAll, ClassIsWhole, NoClass

\* A blank entry after a step.
LEMMA BlankSeesNext ==
    ASSUME Blank'
    PROVE  SeenInv'
<1>1. CountsAll(act', seen') /\ verdict' = FALSE
  BY BlankSees DEF Blank
<1>2. NoClass.known = FALSE
  BY DEF NoClass
<1> QED BY <1>1, <1>2 DEF SeenInv, CountsAll, ClassIsWhole, Blank

\* A tick that compares, by its parts.
LEMMA MeasuredSees ==
    ASSUME ActivityInv, SeenInv, NEW busy \in BOOLEAN, NEW envOK \in BOOLEAN,
           NEW cwdOK \in BOOLEAN, NEW resolved \in BOOLEAN,
           Measured(busy, envOK, cwdOK, resolved)
    PROVE  /\ SeenInv'
           /\ envOK /\ cwdOK /\ resolved /\ verdict' = TRUE /\ slipped' = FALSE
              /\ TrackedIn(snapshot)
                => sent' = [cwd |-> proc.cwd, space |-> proc.space]
<1> DEFINE before == IF NameChanged THEN Idle ELSE act
           ticks == IF NameChanged THEN <<>> ELSE seen
           a == Counted(before, busy)
           cachedPane == IF NameChanged THEN NoPane ELSE pane
           cachedClass == IF NameChanged THEN NoClass ELSE ClassNow
           p == IF ~cachedPane.known /\ envOK THEN [known |-> TRUE, space |-> proc.space]
                ELSE cachedPane
           space == IF p.known /\ resolved THEN p.space ELSE NoSpace
           spaceKnown == p.known /\ (p.space = NoSpace \/ resolved)
           looked == IF cachedClass.known THEN cachedClass
                     ELSE [NoClass EXCEPT !.known = TRUE, !.name = proc.name, !.cwd = proc.cwd]
           tracks == Tracks(proc.name, looked.cwd, space)
           final == Final(proc.name, looked.cwd, spaceKnown)
           c == IF looked.final THEN looked
                ELSE [looked EXCEPT !.track = tracks, !.final = final]
           classified == cachedClass.known \/ cwdOK
<1>1. /\ prev # "" /\ prev' = "own" /\ act' = a /\ lastSnap' = snapshot
      /\ class' = IF a.working /\ classified THEN c ELSE cachedClass
      /\ sent' = IF a.working /\ classified /\ c.track
                 THEN [cwd |-> c.cwd, space |-> space] ELSE NoSignal
      /\ slipped' = (~NameChanged /\ (slipped \/ prev = "other"))
      /\ seen' = Recent(ticks, busy)
      /\ verdict' = IF LastAll(seen', Rise, TRUE) THEN TRUE
                    ELSE verdict /\ ~NameChanged /\ ~LastAll(seen', Fall, FALSE)
      /\ UNCHANGED <<proc, snapshot>>
  BY DEF Measured
<1>2. /\ before \in Activities /\ ticks \in Seq(BOOLEAN) /\ Len(ticks) <= Longest
      /\ CountsAll(before, ticks)
      /\ verdict = TRUE /\ ~NameChanged => before.working = TRUE
  <2>1. CASE NameChanged
    BY <2>1, BlankStreaks, BlankSees, NoTicks, LongestIsNat
  <2>2. CASE ~NameChanged
    BY <2>2 DEF ActivityInv, Shapes, SeenInv
  <2> QED BY <2>1, <2>2
<1>3. /\ CountsAll(a, seen')
      /\ RoseFor(seen', Rise) => a.working = TRUE
      /\ before.working = TRUE /\ ~FellFor(seen', Fall) => a.working = TRUE
  BY <1>1, <1>2, CountedAll
<1> HIDE DEF before, ticks, a
<1>4. verdict' = TRUE => a.working = TRUE
  BY <1>1, <1>2, <1>3 DEF RoseFor, FellFor, ActivityInv, Shapes
<1>5. ASSUME slipped' = FALSE
      PROVE  /\ PaneIsOf(cachedPane) /\ ClassIsOf(cachedClass, snapshot)
             /\ ClassIsWhole(cachedClass, snapshot)
  <2>1. NameChanged \/ (slipped = FALSE /\ prev # "other")
    BY <1>1, <1>5 DEF ActivityInv, Shapes
  <2>2. PaneIsOf(cachedPane) /\ ClassIsOf(cachedClass, snapshot)
    BY <1>1, <2>1, CachedNow
  <2>3. ClassIsWhole(cachedClass, snapshot)
    <3>1. CASE NameChanged
      BY <3>1, BlankSees
    <3>2. CASE ~NameChanged
      <4>1. prev = "own" /\ slipped = FALSE
        BY <1>1, <2>1, <3>2 DEF ActivityInv, Shapes, Prevs
      <4> QED BY <3>2, <4>1, BlankSees DEF SeenInv, ClassNow
    <3> QED BY <3>1, <3>2
  <2> QED BY <2>2, <2>3
<1>6. /\ {"known", "space"} \subseteq DOMAIN cachedPane
      /\ ClassFields \subseteq DOMAIN cachedClass
      /\ cachedClass.final = TRUE => cachedClass.known = TRUE
  <2>1. /\ {"known", "space"} \subseteq DOMAIN NoPane /\ ClassFields \subseteq DOMAIN NoClass
        /\ NoClass.final = FALSE
    BY BlankShapes
  <2> QED BY <2>1 DEF ActivityInv, Shapes, ClassNow
<1> HIDE DEF cachedPane, cachedClass
<1>7. /\ PaneIsOf(cachedPane) => PaneIsOf(p)
      /\ envOK => p.known
      /\ PaneIsOf(p) /\ (spaceKnown \/ (p.known /\ resolved)) => space = proc.space
  BY <1>6 DEF PaneIsOf
<1>8. /\ ClassFields \subseteq DOMAIN looked /\ looked.known = TRUE
      /\ ClassIsOf(cachedClass, snapshot) => looked.cwd = proc.cwd
      /\ ClassIsWhole(cachedClass, snapshot) => ClassIsWhole(looked, snapshot)
  <2>1. CASE cachedClass.known = TRUE
    BY <1>6, <2>1 DEF ClassIsOf
  <2>2. CASE ~(cachedClass.known = TRUE)
    <3>1. looked = [NoClass EXCEPT !.known = TRUE, !.name = proc.name, !.cwd = proc.cwd]
      BY <2>2
    <3>2. /\ ClassFields \subseteq DOMAIN looked /\ looked.final = FALSE /\ looked.known = TRUE
          /\ looked.cwd = proc.cwd
      BY <3>1, BlankShapes DEF ClassFields
    <3> QED BY <3>2 DEF ClassIsWhole
  <2> QED BY <2>1, <2>2
<1> HIDE DEF p, space, looked, spaceKnown
<1>9. looked.cwd = proc.cwd /\ TrackedIn(snapshot) =>
        /\ space = proc.space => tracks
        /\ final => tracks \/ spaceKnown
  BY DEF Tracks, TracksWithoutSpace, TrackedIn, Final
<1> HIDE DEF tracks, final
<1>10. ASSUME slipped' = FALSE
       PROVE  /\ ClassIsWhole(c, snapshot) /\ c.cwd = proc.cwd
              /\ TrackedIn(snapshot) /\ space = proc.space => c.track
  <2>1. looked.cwd = proc.cwd /\ ClassIsWhole(looked, snapshot) /\ PaneIsOf(p)
    BY <1>5, <1>7, <1>8, <1>10
  <2>2. CASE looked.final = TRUE
    BY <1>8, <2>1, <2>2 DEF ClassIsWhole
  <2>3. CASE ~(looked.final = TRUE)
    <3>1. c = [looked EXCEPT !.track = tracks, !.final = final]
      BY <2>3
    <3>2. c.cwd = looked.cwd /\ c.track = tracks /\ c.final = final
      BY <1>8, <3>1 DEF ClassFields
    <3> QED BY <1>7, <1>9, <2>1, <3>2 DEF ClassIsWhole
  <2> QED BY <2>2, <2>3
<1> HIDE DEF c
<1>11. SeenInv'
  <2>1. slipped' = FALSE => ClassIsWhole(class', snapshot)
    BY <1>1, <1>5, <1>10
  <2> QED BY <1>1, <1>3, <1>4, <2>1 DEF SeenInv, CountsAll, ClassIsWhole, TrackedIn
<1>12. ASSUME envOK, cwdOK, resolved, verdict' = TRUE, slipped' = FALSE, TrackedIn(snapshot)
       PROVE  sent' = [cwd |-> proc.cwd, space |-> proc.space]
  <2>1. space = proc.space
    BY <1>5, <1>7, <1>12
  <2> QED BY <1>1, <1>4, <1>10, <1>12, <2>1
<1> QED BY <1>11, <1>12

\* Every step keeps it.
LEMMA SeenNextInv ==
    ASSUME ActivityInv, SeenInv, [ActivityNext]_activityVars
    PROVE  SeenInv'
<1>1. CASE Unlisted \/ Regressed
  BY <1>1, BlankSeesNext DEF Unlisted, Regressed, Blank
<1>2. CASE FirstSeen
  <2>1. Blank /\ ClassNow = NoClass
    BY <1>2 DEF FirstSeen, ActivityInv, UnlistedIsBlank, Blank, ClassNow
  <2>2. Blank'
    BY <1>2, <2>1 DEF FirstSeen, Blank
  <2> QED BY <2>2, BlankSeesNext
<1>3. CASE \E busy, envOK, cwdOK, resolved \in BOOLEAN : Measured(busy, envOK, cwdOK, resolved)
  BY <1>3, MeasuredSees
<1>4. ASSUME NEW new \in Process, Exec(new) PROVE SeenInv'
  <2>1. prev' # "own" /\ UNCHANGED <<act, seen, verdict>>
    BY <1>4 DEF Exec
  <2> QED BY <2>1 DEF SeenInv, CountsAll
<1>5. CASE \/ \E s \in Snapshots : Reload(s)
           \/ UNCHANGED activityVars
  BY <1>5 DEF Reload, activityVars, SeenInv, CountsAll, ClassIsWhole, TrackedIn
<1> QED BY <1>1, <1>2, <1>3, <1>4, <1>5 DEF ActivityNext, Tick

\* Once the probes answer, a process that is tracked and works by its ticks is seen
\* at that very tick, with its directory and space, whatever failed before
\* (procPane, procClass: a failure is not cached).
THEOREM TrackedIsSeen == ActivitySpec => SeenOnceResolved
<1>1. ActivityInit => ActivityInv /\ SeenInv
  <2> SUFFICES ASSUME ActivityInit PROVE SeenInv
    BY ActivityInitInv
  <2>1. act = Idle /\ seen = <<>> /\ verdict = FALSE /\ prev = ""
    BY DEF ActivityInit
  <2> QED BY <2>1, BlankSees DEF SeenInv
<1>2. ActivityInv /\ SeenInv /\ [ActivityNext]_activityVars => (ActivityInv /\ SeenInv)'
  BY ActivityNextInv, SeenNextInv
<1>3. ASSUME ActivityInv, SeenInv, [ActivityNext]_activityVars
      PROVE  [\A busy \in BOOLEAN :
                 Measured(busy, TRUE, TRUE, TRUE) /\ verdict' /\ ~slipped'
                     /\ Tracks(proc.name, proc.cwd, proc.space)
                 => sent' = [cwd |-> proc.cwd, space |-> proc.space]]_activityVars
  <2> SUFFICES ASSUME NEW busy \in BOOLEAN, Measured(busy, TRUE, TRUE, TRUE), verdict', ~slipped',
                      Tracks(proc.name, proc.cwd, proc.space)
               PROVE  sent' = [cwd |-> proc.cwd, space |-> proc.space]
    OBVIOUS
  <2>1. Shapes'
    BY <1>3, ActivityNextInv DEF ActivityInv
  <2>2. verdict' = TRUE /\ slipped' = FALSE
    BY <2>1 DEF Shapes
  <2>3. TrackedIn(snapshot)
    BY DEF Tracks, TracksWithoutSpace, TrackedIn
  <2> QED BY <1>3, <2>2, <2>3, MeasuredSees
<1> QED BY <1>1, <1>2, <1>3, PTL DEF ActivitySpec, SeenOnceResolved

-----------------------------------------------------------------------------
(* The title probe and the slow-tick report.                               *)

\* Waits, back-offs and permission states.
TitleWaits == [wait : Nat, backoff : Nat, streak : Nat]
SlowWaits == [wait : Nat, backoff : Nat]
States == {"unknown", "ok", "accessibility_denied", "idle_detection_failed"}
Permission == [state : States, age : Nat]

\* A wait and the age of the failure that began it share the cap between them, and a
\* denial is as young as the wait it leaves is long.
TitleInv ==
    /\ title \in TitleWaits /\ perm \in Permission
    /\ failedAge \in Nat /\ denied \in BOOLEAN
    /\ title.wait <= Most
    /\ title.wait > 0 => failedAge + title.wait <= Most
    /\ denied => perm.state = "accessibility_denied" /\ perm.age + title.wait <= Most

\* The same of the report of slow ticks.
SlowInv ==
    /\ slow \in SlowWaits /\ reportedAge \in Nat
    /\ slow.wait <= Most
    /\ slow.wait > 0 => reportedAge + slow.wait <= Most

\* The inductive invariant of the probe.
ProbeInv == TitleInv /\ SlowInv

\* The permission a tick can start from.
AnyPermission == {Aged, Observed("idle_detection_failed")}
-----------------------------------------------------------------------------
\* Every back-off is at least a tick and at most the cap.
LEMMA GrownBounds ==
    ASSUME NEW b \in Nat
    PROVE  Grown(b) \in Nat /\ Grown(b) > 0 /\ Grown(b) <= Most
  BY ProbeAssumption DEF Grown

\* A tick later, a wait is one tick shorter.
LEMMA WaitedTitle ==
    ASSUME NEW b \in TitleWaits
    PROVE  /\ Waited(b) \in TitleWaits
           /\ Waited(b).wait = IF b.wait > 0 THEN b.wait - 1 ELSE 0
  BY DEF Waited, TitleWaits

\* The same of the report of slow ticks.
LEMMA WaitedSlow ==
    ASSUME NEW b \in SlowWaits
    PROVE  /\ Waited(b) \in SlowWaits
           /\ Waited(b).wait = IF b.wait > 0 THEN b.wait - 1 ELSE 0
  BY DEF Waited, SlowWaits

\* A failure leaves a wait within the cap.
LEMMA BackedOffTitle ==
    ASSUME NEW b \in TitleWaits
    PROVE  /\ BackedOff(b) \in TitleWaits
           /\ BackedOff(b).wait > 0 /\ BackedOff(b).wait <= Most
<1>1. b.backoff \in Nat
  BY DEF TitleWaits
<1>2. Grown(b.backoff) \in Nat /\ Grown(b.backoff) > 0 /\ Grown(b.backoff) <= Most
  BY <1>1, GrownBounds
<1> QED BY <1>2 DEF BackedOff, TitleWaits

\* The same of the report of slow ticks.
LEMMA BackedOffSlow ==
    ASSUME NEW b \in SlowWaits
    PROVE  /\ BackedOff(b) \in SlowWaits
           /\ BackedOff(b).wait > 0 /\ BackedOff(b).wait <= Most
<1>1. b.backoff \in Nat
  BY DEF SlowWaits
<1>2. Grown(b.backoff) \in Nat /\ Grown(b.backoff) > 0 /\ Grown(b.backoff) <= Most
  BY <1>1, GrownBounds
<1> QED BY <1>2 DEF BackedOff, SlowWaits

\* An age below the cap grows by one: it saturates only beyond PermStale.
LEMMA AgesGrow ==
    ASSUME NEW age \in Nat
    PROVE  Older(age) \in Nat /\ (age <= Most => Older(age) = age + 1)
  BY ProbeAssumption DEF Older

\* The permission a tick starts from says what it said, or that idleness is unknown.
LEMMA AgedPermission ==
    ASSUME perm \in Permission, NEW p \in AnyPermission
    PROVE  /\ p \in Permission
           /\ p = Aged /\ perm.age <= Most => p.state = perm.state /\ p.age = perm.age + 1
<1>1. CASE p = Aged
  BY <1>1, ProbeAssumption DEF Aged, Older, Permission
<1>2. CASE p = Observed("idle_detection_failed") /\ p # Aged
  BY <1>2 DEF Observed, Permission, States
<1> QED BY <1>1, <1>2 DEF AnyPermission

\* What a probe has just found is no age.
LEMMA ObservedPermission ==
    ASSUME NEW s \in States
    PROVE  Observed(s) \in Permission /\ Observed(s).state = s /\ Observed(s).age = 0
  BY DEF Observed, Permission
-----------------------------------------------------------------------------
\* Initially nothing waits and nothing is denied.
LEMMA ProbeInitInv == ProbeInit => ProbeInv
<1> SUFFICES ASSUME ProbeInit PROVE ProbeInv
  OBVIOUS
<1>1. title \in TitleWaits /\ title.wait = 0
  BY DEF ProbeInit, TitleWaits
<1>2. perm \in Permission
  BY DEF ProbeInit, Permission, States
<1>3. slow \in SlowWaits /\ slow.wait = 0
  BY DEF ProbeInit, Ready, SlowWaits
<1>4. ~denied /\ denied \in BOOLEAN
  BY DEF ProbeInit
<1>5. failedAge \in Nat /\ reportedAge \in Nat
  BY ProbeAssumption DEF ProbeInit
<1> QED BY <1>1, <1>2, <1>3, <1>4, <1>5, ProbeAssumption DEF ProbeInv, TitleInv, SlowInv

\* The probe keeps its invariant, whatever it is answered.
LEMMA ProbeKeeps ==
    ASSUME TitleInv, Probe
    PROVE  TitleInv'
<1> DEFINE t == Waited(title)
<1>1. t \in TitleWaits /\ t.wait = IF title.wait > 0 THEN title.wait - 1 ELSE 0
  BY WaitedTitle DEF TitleInv
<1>2. PICK p \in AnyPermission :
         \/ NotInFront(p, t) \/ FrontDenied(t) \/ Waits(p, t)
         \/ Captures(t) \/ TitleDenied(t) \/ TimesOut(p, t) \/ Errs(p, t)
  BY DEF Probe, AnyPermission
<1>3. /\ p \in Permission
      /\ p = Aged /\ perm.age <= Most => p.state = perm.state /\ p.age = perm.age + 1
  BY AgedPermission DEF TitleInv
<1>4. Older(failedAge) \in Nat /\ (failedAge <= Most => Older(failedAge) = failedAge + 1)
  BY AgesGrow DEF TitleInv
<1>5. t.wait <= Most /\ (t.wait > 0 => Older(failedAge) + t.wait <= Most)
  BY <1>1, <1>4, ProbeAssumption DEF TitleInv, TitleWaits
<1>6. [t EXCEPT !.streak = 0] \in TitleWaits /\ [t EXCEPT !.streak = 0].wait = t.wait
  BY <1>1 DEF TitleWaits
<1>7. /\ BackedOff([t EXCEPT !.streak = 0]) \in TitleWaits
      /\ BackedOff([t EXCEPT !.streak = 0]).wait <= Most
  BY <1>6, BackedOffTitle
<1>8. /\ [t EXCEPT !.streak = t.streak + 1] \in TitleWaits
      /\ [t EXCEPT !.streak = t.streak + 1].wait = t.wait
  BY <1>1 DEF TitleWaits
<1>9. /\ Observed("accessibility_denied") \in Permission
      /\ Observed("accessibility_denied").state = "accessibility_denied"
      /\ Observed("accessibility_denied").age = 0
      /\ Observed("ok") \in Permission
  BY ObservedPermission DEF States
<1>10. t.wait \in Nat /\ BackedOff([t EXCEPT !.streak = 0]).wait \in Nat
  BY <1>1, <1>7 DEF TitleWaits
<1> HIDE DEF t
<1>11. CASE NotInFront(p, t)
  BY <1>1, <1>3, <1>4, <1>5, <1>11 DEF NotInFront, TitleInv
<1>12. CASE FrontDenied(t)
  BY <1>1, <1>4, <1>5, <1>9, <1>10, <1>12, ProbeAssumption DEF FrontDenied, TitleInv
<1>13. CASE Waits(p, t)
  <2>1. denied' \in BOOLEAN /\ (denied' => denied /\ p = Aged)
    BY <1>13 DEF Waits
  <2>2. ASSUME denied'
        PROVE  p.state = "accessibility_denied" /\ p.age + t.wait <= Most
    <3>1. /\ denied /\ p = Aged
          /\ perm.age \in Nat /\ title.wait \in Nat
          /\ perm.state = "accessibility_denied" /\ perm.age + title.wait <= Most
      BY <2>1, <2>2 DEF TitleInv, Permission, TitleWaits
    <3>2. t.wait = title.wait - 1
      BY <1>1, <1>13, <3>1 DEF Waits
    <3> QED BY <1>3, <3>1, <3>2, ProbeAssumption
  <2> QED BY <1>1, <1>3, <1>4, <1>5, <1>13, <2>1, <2>2 DEF Waits, TitleInv
<1>14. CASE Captures(t)
  <2>1. title' \in TitleWaits /\ title'.wait = 0
    BY <1>14 DEF Captures, TitleWaits
  <2>2. ~denied' /\ denied' \in BOOLEAN /\ perm' = Observed("ok") /\ failedAge' = Older(failedAge)
    BY <1>14 DEF Captures
  <2> QED BY <1>4, <1>9, <2>1, <2>2, ProbeAssumption DEF TitleInv
<1>15. CASE TitleDenied(t)
  BY <1>7, <1>9, <1>10, <1>15, ProbeAssumption DEF TitleDenied, TitleInv
<1>16. CASE TimesOut(p, t)
  <2>1. ~denied' /\ denied' \in BOOLEAN /\ perm' = p
    BY <1>16 DEF TimesOut
  <2>2. CASE title' = BackedOff([t EXCEPT !.streak = 0]) /\ failedAge' = 0
    BY <1>3, <1>7, <1>10, <2>1, <2>2 DEF TitleInv
  <2>3. CASE title' = [t EXCEPT !.streak = t.streak + 1] /\ failedAge' = Older(failedAge)
    BY <1>3, <1>4, <1>5, <1>8, <2>1, <2>3 DEF TitleInv
  <2> QED BY <1>16, <2>2, <2>3 DEF TimesOut
<1>17. CASE Errs(p, t)
  BY <1>3, <1>4, <1>5, <1>6, <1>17 DEF Errs, TitleInv
<1> QED BY <1>2, <1>11, <1>12, <1>13, <1>14, <1>15, <1>16, <1>17

\* So does the report.
LEMMA ReportKeeps ==
    ASSUME SlowInv, InBudget \/ Quiet \/ Reports
    PROVE  SlowInv'
<1>1. /\ Waited(slow) \in SlowWaits
      /\ Waited(slow).wait = IF slow.wait > 0 THEN slow.wait - 1 ELSE 0
  BY WaitedSlow DEF SlowInv
<1>2. CASE InBudget
  BY <1>2, ProbeAssumption DEF InBudget, SlowInv, Ready, SlowWaits
<1>3. CASE Quiet
  BY <1>1, <1>3, ProbeAssumption DEF Quiet, SlowInv, SlowWaits
<1>4. CASE Reports
  <2>1. BackedOff(slow) \in SlowWaits /\ BackedOff(slow).wait <= Most
    BY BackedOffSlow DEF SlowInv
  <2>2. BackedOff(slow).wait \in Nat
    BY <2>1 DEF SlowWaits
  <2> QED BY <1>4, <2>1, <2>2 DEF Reports, SlowInv
<1> QED BY <1>2, <1>3, <1>4

\* Every tick keeps both.
LEMMA ProbeNextInv == ProbeInv /\ [ProbeTick]_probeVars => ProbeInv'
<1> SUFFICES ASSUME ProbeInv, [ProbeTick]_probeVars PROVE ProbeInv'
  OBVIOUS
<1>1. CASE ProbeTick
  BY <1>1, ProbeKeeps, ReportKeeps DEF ProbeTick, ProbeInv
<1>2. CASE UNCHANGED probeVars
  BY <1>2 DEF probeVars, ProbeInv, TitleInv, SlowInv
<1> QED BY <1>1, <1>2
-----------------------------------------------------------------------------
\* At every tick of any history of answers the waits are bounded so.
THEOREM ProbeInvariance == ProbeSpec => []ProbeInv
  BY ProbeInitInv, ProbeNextInv, PTL DEF ProbeSpec

\* A denial that is still the last word is shown as one (permission.go).
THEOREM DenialVisible == ProbeSpec => []DenialStaysVisible
<1>1. ProbeInv => DenialStaysVisible
  BY ProbeAssumption
  DEF ProbeInv, TitleInv, TitleWaits, Permission, DenialStaysVisible, PermissionNow
<1> QED BY <1>1, ProbeInvariance, PTL

\* No failure keeps the probe quiet for as long as the cap, nor the report, and what
\* keeps the report quiet is a report of the same run of slow ticks.
THEOREM QuietBounded == ProbeSpec => QuietLessThanCap
<1> DEFINE Bounded ==
      /\ (\E p \in {Aged, Observed("idle_detection_failed")} : Waits(p, Waited(title)))
            => failedAge' < Most
      /\ Quiet => reportedAge' < Most
<1>1. ProbeInv /\ [ProbeTick]_probeVars => [Bounded]_probeVars
  <2> SUFFICES ASSUME ProbeInv PROVE Bounded
    OBVIOUS
  <2>1. ASSUME NEW p \in {Aged, Observed("idle_detection_failed")}, Waits(p, Waited(title))
        PROVE  failedAge' < Most
    <3>1. /\ Waited(title).wait = IF title.wait > 0 THEN title.wait - 1 ELSE 0
          /\ title.wait \in Nat
      BY WaitedTitle DEF ProbeInv, TitleInv, TitleWaits
    <3>2. title.wait > 1
      BY <2>1, <3>1 DEF Waits
    <3>3. failedAge <= Most /\ failedAge + title.wait <= Most /\ failedAge \in Nat
      BY <3>1, <3>2, ProbeAssumption DEF ProbeInv, TitleInv
    <3>4. failedAge' = failedAge + 1
      BY <2>1, <3>3, AgesGrow DEF Waits
    <3> QED BY <3>1, <3>2, <3>3, <3>4, ProbeAssumption
  <2>2. ASSUME Quiet
        PROVE  reportedAge' < Most
    <3>1. /\ Waited(slow).wait = IF slow.wait > 0 THEN slow.wait - 1 ELSE 0
          /\ slow.wait \in Nat
      BY WaitedSlow DEF ProbeInv, SlowInv, SlowWaits
    <3>2. slow.wait > 1
      BY <2>2, <3>1 DEF Quiet
    <3> QED BY <2>2, <3>1, <3>2, ProbeAssumption DEF Quiet, ProbeInv, SlowInv
  <2> QED BY <2>1, <2>2
<1> QED BY <1>1, ProbeInvariance, PTL DEF ProbeSpec, QuietLessThanCap

-----------------------------------------------------------------------------
(* The resolver of herdr's session file, which herdr may rewrite between   *)
(* the resolver's stat and its read.                                       *)

\* What the resolver keeps is the file's present content: the version it keeps is the
\* stat's, so a write after the stat makes it old and the next lookup reads again.
Trusted == r.loaded /\ ~r.warned /\ r.version = disk.version

\* The inductive invariant of the resolver: versions never run ahead of the file, and
\* a file that is not valid has no spaces.
HerdrInv ==
    /\ disk.version \in Nat /\ disk.version > 0
    /\ disk.state # "valid" => disk.spaces = {}
    /\ r.version \in Nat /\ r.version <= disk.version
    /\ "stat" \in DOMAIN ask /\ ask.stat \in Nat /\ ask.stat <= disk.version
    /\ Trusted => r.spaces = disk.spaces
-----------------------------------------------------------------------------
\* A lookup that has its map is answered, or becomes the second lookup: in either
\* case nothing has been stat'ed for what comes next.
LEMMA FoundEnds ==
    ASSUME NEW rr, Found(rr)
    PROVE  "stat" \in DOMAIN ask' /\ ask'.stat = 0
<1>1. "stat" \in DOMAIN NoAsk /\ NoAsk.stat = 0
  BY DEF NoAsk
<1>2. CASE ask' = NoAsk
  BY <1>1, <1>2
<1>3. CASE ask' = [session |-> ask.session, lookup |-> 2, stat |-> 0]
  BY <1>3
<1> QED BY <1>2, <1>3 DEF Found, Answer, AskProcess, ProcessUnknown

\* A file that is missing or torn leaves nothing to answer from.
LEMMA ClosedIsEmpty ==
    FailClosed.warned /\ FailClosed.version = 0 /\ FailClosed.spaces = {}
  BY DEF FailClosed

\* A read takes the spaces that are in the file now.
LEMMA ParsedIsDisk ==
    ASSUME HerdrInv, NEW stat \in Nat, stat <= disk.version
    PROVE  /\ Parsed(stat).spaces \subseteq disk.spaces
           /\ Parsed(stat).version \in Nat /\ Parsed(stat).version <= disk.version
           /\ ~Parsed(stat).warned => Parsed(stat).spaces = disk.spaces
<1>1. CASE disk.state = "valid"
  BY <1>1 DEF Parsed
<1>2. CASE disk.state # "valid"
  BY <1>2, ClosedIsEmpty DEF Parsed, HerdrInv
<1> QED BY <1>1, <1>2

\* Initially there is no file and nothing is loaded.
LEMMA HerdrInitInv == HerdrInit => HerdrInv
<1> SUFFICES ASSUME HerdrInit PROVE HerdrInv
  OBVIOUS
<1>1. disk.version = 1 /\ disk.spaces = {}
  BY DEF HerdrInit
<1>2. r.version = 0 /\ ~r.loaded
  BY DEF HerdrInit
<1>3. "stat" \in DOMAIN ask /\ ask.stat = 0
  BY DEF HerdrInit, NoAsk
<1> QED BY <1>1, <1>2, <1>3 DEF HerdrInv, Trusted

\* A write of herdr's makes whatever was read before it old.
LEMMA WriteKeeps ==
    ASSUME HerdrInv, HerdrWrites
    PROVE  HerdrInv'
<1>1. /\ disk'.version = disk.version + 1
      /\ disk'.state # "valid" => disk'.spaces = {}
      /\ UNCHANGED <<r, ask>>
  BY DEF HerdrWrites
<1>2. ~Trusted'
  BY <1>1 DEF HerdrInv, Trusted
<1> QED BY <1>1, <1>2 DEF HerdrInv

\* A stat answers at once only from nothing, or from what is still the file.
LEMMA StatKeeps ==
    ASSUME HerdrInv, StatSession
    PROVE  HerdrInv' /\ (ask'.stat = 0 => r'.spaces \subseteq disk.spaces)
<1>1. disk' = disk
  BY DEF StatSession
<1>2. CASE disk.state = "missing" /\ r' = FailClosed /\ Found(FailClosed)
  <2>1. "stat" \in DOMAIN ask' /\ ask'.stat = 0
    BY <1>2, FoundEnds
  <2> QED BY <1>1, <1>2, <2>1, ClosedIsEmpty DEF HerdrInv, Trusted
<1>3. CASE disk.state # "missing" /\ Unchanged /\ Found(r) /\ UNCHANGED r
  <2>1. "stat" \in DOMAIN ask' /\ ask'.stat = 0
    BY <1>3, FoundEnds
  <2>2. r.spaces = disk.spaces
    BY <1>3 DEF HerdrInv, Unchanged, Trusted
  <2> QED BY <1>1, <1>3, <2>1, <2>2 DEF HerdrInv, Trusted
<1>4. CASE ask' = [ask EXCEPT !.stat = disk.version] /\ UNCHANGED r
  <2>1. "stat" \in DOMAIN ask' /\ ask'.stat = disk.version
    BY <1>4 DEF HerdrInv
  <2> QED BY <1>1, <1>4, <2>1 DEF HerdrInv, Trusted
<1> QED BY <1>2, <1>3, <1>4 DEF StatSession

\* A read answers from what it read.
LEMMA ReadKeeps ==
    ASSUME HerdrInv, ReadSession
    PROVE  HerdrInv' /\ r'.spaces \subseteq disk.spaces
<1>1. disk' = disk /\ r' = Parsed(ask.stat) /\ Found(Parsed(ask.stat))
  BY DEF ReadSession
<1>2. "stat" \in DOMAIN ask' /\ ask'.stat = 0
  BY <1>1, FoundEnds
<1>3. ask.stat \in Nat /\ ask.stat <= disk.version
  BY DEF HerdrInv
<1>4. /\ r'.spaces \subseteq disk.spaces
      /\ r'.version \in Nat /\ r'.version <= disk.version
      /\ ~r'.warned => r'.spaces = disk.spaces
  BY <1>1, <1>3, ParsedIsDisk
<1> QED BY <1>1, <1>2, <1>4 DEF HerdrInv, Trusted

\* Sessions come and go, and questions begin, without the resolver.
LEMMA OthersKeep ==
    ASSUME HerdrInv, NEW s \in Session,
           SessionStarts(s) \/ SessionExits(s) \/ Pruned(s) \/ AskSpace(s)
    PROVE  HerdrInv' /\ (ask' = ask \/ ask.lookup = 0)
<1>1. CASE SessionStarts(s) \/ SessionExits(s) \/ Pruned(s)
  BY <1>1 DEF SessionStarts, SessionExits, Pruned, HerdrInv, Trusted
<1>2. CASE AskSpace(s)
  <2>1. "stat" \in DOMAIN ask' /\ ask'.stat = 0 /\ UNCHANGED <<disk, r>>
    BY <1>2 DEF AskSpace
  <2>2. ask.lookup = 0
    BY <1>2 DEF AskSpace, NoAsk
  <2> QED BY <2>1, <2>2 DEF HerdrInv, Trusted
<1> QED BY <1>1, <1>2

\* Every step keeps the invariant and answers only from the file.
LEMMA HerdrNextInv ==
    HerdrInv /\ [HerdrNext]_herdrVars =>
        /\ HerdrInv'
        /\ ask.lookup # 0 /\ ask'.stat = 0 /\ ask' # ask => r'.spaces \subseteq disk.spaces
<1> SUFFICES ASSUME HerdrInv, [HerdrNext]_herdrVars
             PROVE  /\ HerdrInv'
                    /\ ask.lookup # 0 /\ ask'.stat = 0 /\ ask' # ask
                          => r'.spaces \subseteq disk.spaces
  OBVIOUS
<1>1. CASE HerdrWrites
  BY <1>1, WriteKeeps DEF HerdrWrites
<1>2. CASE StatSession
  BY <1>2, StatKeeps
<1>3. CASE ReadSession
  BY <1>3, ReadKeeps
<1>4. CASE \E s \in Session : SessionStarts(s) \/ SessionExits(s) \/ Pruned(s) \/ AskSpace(s)
  BY <1>4, OthersKeep
<1>5. CASE UNCHANGED herdrVars
  BY <1>5 DEF herdrVars, HerdrInv, Trusted
<1> QED BY <1>1, <1>2, <1>3, <1>4, <1>5 DEF HerdrNext
-----------------------------------------------------------------------------
\* "A stale mapping is never served" (herdr.go): what a lookup answers from is in the
\* file at that moment, for any file, sessions, spaces and order of writes and lookups.
THEOREM NeverStale == HerdrSpec => NothingStale
  BY HerdrInitInv, HerdrNextInv, PTL DEF HerdrSpec, NothingStale

-----------------------------------------------------------------------------
\* What was learnt of a session is its space, and a second lookup is of a session
\* whose space was learnt.
PaneInv ==
    /\ ask = NoAsk \/ ask \in [session : Session, lookup : {1, 2}, stat : Nat]
    /\ sessionPane = [s \in Session |-> sessionPane[s]]
    /\ \A s \in Session : sessionPane[s] \in {Unlearnt, HomeOf[s]}
    /\ ask # NoAsk /\ ask.lookup = 2 => sessionPane[ask.session] = HomeOf[ask.session]

\* What a lookup answers for a session that its map names, or whose space was learnt.
Remembers(rr) ==
    ask' = NoAsk /\ HomeOf[ask.session] \in rr.spaces
        /\ (ask.session \in rr.sessions \/ sessionPane[ask.session] # Unlearnt)
      => answer' = HomeOf[ask.session]

\* A lookup that has its map keeps what was learnt and remembers it.
LEMMA FoundRemembers ==
    ASSUME PaneInv, ask # NoAsk, NEW rr, Found(rr)
    PROVE  PaneInv' /\ Remembers(rr)
<1>1. PICK s \in Session : s = ask.session
  BY DEF PaneInv
<1>2. \A l \in {1, 2} : [session |-> s, lookup |-> l, stat |-> 0] # NoAsk
  BY DEF NoAsk
<1>3. ASSUME NEW w, Answer(w) PROVE PaneInv'
  BY <1>3 DEF Answer, PaneInv
<1>4. CASE ask.lookup = 2
  <2>1. Answer(IF sessionPane[s] \in rr.spaces THEN sessionPane[s] ELSE Nowhere)
    BY <1>1, <1>4 DEF Found
  <2>2. sessionPane[s] = HomeOf[s]
    BY <1>1, <1>4 DEF PaneInv
  <2> QED BY <1>1, <1>3, <2>1, <2>2 DEF Answer, Remembers
<1>5. CASE ask.lookup # 2 /\ s \in rr.sessions
  <2>1. Answer(IF HomeOf[s] \in rr.spaces THEN HomeOf[s] ELSE Nowhere)
    BY <1>1, <1>5 DEF Found
  <2> QED BY <1>1, <1>3, <2>1 DEF Answer, Remembers
<1>6. CASE ask.lookup # 2 /\ s \notin rr.sessions /\ ProcessUnknown(s)
  BY <1>1, <1>3, <1>6 DEF ProcessUnknown, Answer, Remembers
<1>7. CASE ask.lookup # 2 /\ s \notin rr.sessions /\ AskProcess(s, rr.spaces)
  <2> DEFINE again == [session |-> s, lookup |-> 2, stat |-> 0]
  <2>1. /\ sessionPane'[s] = HomeOf[s]
        /\ sessionPane' = [x \in Session |-> sessionPane'[x]]
        /\ \A x \in Session : sessionPane'[x] \in {Unlearnt, HomeOf[x]}
    <3>1. CASE sessionPane[s] # Unlearnt
      BY <1>7, <3>1 DEF AskProcess, PaneInv
    <3>2. CASE sessionPane[s] = Unlearnt
      <4>1. sessionPane' = [sessionPane EXCEPT ![s] = HomeOf[s]]
        BY <1>7, <3>2 DEF AskProcess
      <4> QED BY <4>1 DEF PaneInv
    <3> QED BY <3>1, <3>2
  <2>2. ask' = (IF HomeOf[s] = Nowhere THEN NoAsk ELSE again)
        /\ (HomeOf[s] = Nowhere => answer' = Nowhere)
    BY <1>7, <2>1 DEF AskProcess
  <2>3. again \in [session : Session, lookup : {1, 2}, stat : Nat] /\ again.session = s /\ again # NoAsk
    BY <1>2
  <2> HIDE DEF again
  <2>4. PaneInv'
    BY <2>1, <2>2, <2>3 DEF PaneInv
  <2>5. Remembers(rr)
    BY <1>1, <2>2, <2>3 DEF Remembers
  <2> QED BY <2>4, <2>5
<1> QED BY <1>1, <1>4, <1>5, <1>6, <1>7 DEF Found

\* A question that ends with a readable file remembers.
Outlives ==
    ask # NoAsk /\ ask' = NoAsk /\ ~r'.warned /\ HomeOf[ask.session] \in r'.spaces
        /\ (ask.session \in r.sessions \/ sessionPane[ask.session] # Unlearnt)
      => answer' = HomeOf[ask.session]

\* Every step keeps what was learnt, and a reload keeps the sessions that were named.
LEMMA PaneNextInv ==
    ASSUME HerdrInv, PaneInv, [HerdrNext]_herdrVars
    PROVE  PaneInv' /\ Outlives
<1>1. CASE HerdrWrites \/ (\E s \in Session : SessionStarts(s) \/ SessionExits(s)) \/ UNCHANGED herdrVars
  BY <1>1 DEF HerdrWrites, SessionStarts, SessionExits, herdrVars, PaneInv, Outlives
<1>2. ASSUME NEW s \in Session, Pruned(s) PROVE PaneInv' /\ Outlives
  BY <1>2 DEF Pruned, PaneInv, Outlives
<1>3. ASSUME NEW s \in Session, AskSpace(s) PROVE PaneInv' /\ Outlives
  <2>1. ask = NoAsk /\ ask' = [session |-> s, lookup |-> 1, stat |-> 0] /\ UNCHANGED sessionPane
    BY <1>3 DEF AskSpace
  <2> QED BY <2>1 DEF PaneInv, Outlives
<1>4. CASE StatSession
  <2>1. ask # NoAsk
    BY <1>4 DEF StatSession
  <2>2. CASE r' = FailClosed /\ Found(FailClosed)
    BY <2>1, <2>2, FoundRemembers, ClosedIsEmpty DEF Outlives
  <2>3. CASE r' = r /\ Found(r)
    BY <2>1, <2>3, FoundRemembers DEF Outlives, Remembers
  <2>4. CASE ask' = [ask EXCEPT !.stat = disk.version] /\ UNCHANGED <<r, sessionPane, answer>> /\ ask.stat = 0 /\ disk.version # 0
    <3>1. ask' \in [session : Session, lookup : {1, 2}, stat : Nat] /\ ask'.session = ask.session
          /\ ask'.lookup = ask.lookup /\ ask' # NoAsk
      BY <2>1, <2>4 DEF PaneInv, HerdrInv, NoAsk
    <3> QED BY <2>1, <2>4, <3>1 DEF PaneInv, Outlives
  <2> QED BY <1>4, <2>2, <2>3, <2>4 DEF StatSession, HerdrInv
<1>5. CASE ReadSession
  <2>1. ask # NoAsk /\ r' = Parsed(ask.stat) /\ Found(Parsed(ask.stat))
    BY <1>5 DEF ReadSession
  <2>2. Parsed(ask.stat).warned \/ r.sessions \subseteq Parsed(ask.stat).sessions
    BY ClosedIsEmpty DEF Parsed
  <2> HIDE DEF Parsed
  <2>3. PaneInv' /\ Remembers(Parsed(ask.stat))
    BY <2>1, FoundRemembers
  <2> QED BY <2>1, <2>2, <2>3 DEF Outlives, Remembers
<1> QED BY <1>1, <1>2, <1>3, <1>4, <1>5 DEF HerdrNext

\* A session that was named once, or whose process was asked once, keeps its space
\* after it rotates or exits (transcriptSpace), while herdr's file names that space.
THEOREM SpacesOutlive == HerdrSpec => SpaceOutlivesSession
<1>1. HerdrInit => HerdrInv /\ PaneInv
  <2> SUFFICES ASSUME HerdrInit PROVE PaneInv
    BY HerdrInitInv
  <2>1. ask = NoAsk /\ sessionPane = [s \in Session |-> Unlearnt]
    BY DEF HerdrInit
  <2> QED BY <2>1 DEF PaneInv
<1>2. HerdrInv /\ PaneInv /\ [HerdrNext]_herdrVars => (HerdrInv /\ PaneInv)'
  BY HerdrNextInv, PaneNextInv
<1>3. ASSUME HerdrInv, PaneInv, [HerdrNext]_herdrVars
      PROVE  [ask # NoAsk /\ ask' = NoAsk /\ ~r'.warned /\ HomeOf[ask.session] \in r'.spaces
                 /\ (ask.session \in r.sessions \/ sessionPane[ask.session] # Unlearnt)
               => answer' = HomeOf[ask.session]]_herdrVars
  BY <1>3, PaneNextInv DEF Outlives
<1> QED BY <1>1, <1>2, <1>3, PTL DEF HerdrSpec, SpaceOutlivesSession
=============================================================================
