------------------------- MODULE AttributionProofs -------------------------
(***************************************************************************)
(* Proofs about Attribution: the types, the rows of ticks, the arm gate,   *)
(* and the cache's rules and pauses.                                       *)
(*                                                                         *)
(* Nothing is assumed of the signals, the clients or the failures beyond   *)
(* what a theorem's own hypotheses say.  Each of these names a constant of *)
(* the model (how many callers, which calls, whether statements fail, what *)
(* a tick can see) and each is needed: README.md names the behaviour that  *)
(* breaks the property without it.                                         *)
(***************************************************************************)
EXTENDS Attribution, DataLemmas, SequenceTheorems

-----------------------------------------------------------------------------
(* The operators of the model.  A recursive function is proved to exist,   *)
(* and to be of its type, by induction over the lengths it is built for.   *)

\* MatchRules gives a project or none.
LEMMA MatchRulesType ==
    ASSUME NEW o, NEW rs \in Seq(Rule)
    PROVE  MatchRules(o, rs) \in Project \cup {NoProject}
<1>1. CASE \E i \in 1..Len(rs) : o \in rs[i].obs
  <2> DEFINE T == {i \in 1..Len(rs) : o \in rs[i].obs}
             First(i) == o \in rs[i].obs /\ \A j \in 1..(i - 1) : o \notin rs[j].obs
  <2>1. Len(rs) \in Nat
    OBVIOUS
  <2>2. T \in SUBSET Nat /\ T # {}
    BY <1>1
  <2> HIDE DEF T
  <2>3. PICK x \in T : \A y \in T : x <= y
    BY <2>2, LeastNat
  <2>4. First(x) /\ x \in 1..Len(rs)
    BY <2>1, <2>3 DEF T
  <2>5. (CHOOSE i \in 1..Len(rs) : First(i)) \in 1..Len(rs)
    BY <2>4
  <2>6. MatchRules(o, rs) = rs[CHOOSE i \in 1..Len(rs) : First(i)].proj
    BY <1>1 DEF MatchRules
  <2> HIDE DEF First
  <2>7. \A k \in 1..Len(rs) : rs[k] \in Rule
    BY ElementOfSeq
  <2> QED BY <2>5, <2>6, <2>7 DEF Rule
<1>2. CASE ~ \E i \in 1..Len(rs) : o \in rs[i].obs
  BY <1>2 DEF MatchRules
<1> QED BY <1>1, <1>2

\* The rules left when a project is deleted are rules.
LEMMA WithoutType ==
    ASSUME NEW rs \in Seq(Rule), NEW p
    PROVE  Without(rs, p) \in Seq(Rule)
<1> DEFINE Step(f, i) == IF i = 0 THEN <<>> ELSE IF rs[i].proj = p THEN f[i - 1] ELSE Append(f[i - 1], rs[i])
           Good(n, f) == f \in [0..n -> Seq(Rule)] /\ \A i \in 0..n : f[i] = Step(f, i)
           Built == {n \in 0..Len(rs) : \E f : Good(n, f)}
           kept == CHOOSE g : g = [i \in 0..Len(rs) |-> Step(g, i)]
<1>1. Len(rs) \in Nat /\ (\A i \in 1..Len(rs) : rs[i] \in Rule) /\ <<>> \in Seq(Rule)
  BY ElementOfSeq
<1>2. 0 \in Built
  <2> DEFINE g == [i \in 0..0 |-> <<>>]
  <2>1. g \in [0..0 -> Seq(Rule)]
    BY <1>1
  <2>2. \A i \in 0..0 : g[i] = Step(g, i)
    OBVIOUS
  <2>3. \E f : Good(0, f)
    BY <2>1, <2>2
  <2> HIDE DEF Good
  <2> QED BY <1>1, <2>3
<1>3. ASSUME NEW n \in 1..Len(rs), n - 1 \in Built PROVE n \in Built
  <2>1. PICK f : Good(n - 1, f)
    BY <1>3
  <2> DEFINE g == [i \in 0..n |-> IF i = n THEN Step(f, n) ELSE f[i]]
  <2>2. n - 1 \in 0..(n - 1) /\ f[n - 1] \in Seq(Rule) /\ rs[n] \in Rule
    BY <1>1, <2>1
  <2>3. Step(f, n) \in Seq(Rule)
    BY <1>1, <2>2, AppendProperties
  <2>4. \A i \in 0..(n - 1) : g[i] = f[i]
    OBVIOUS
  <2>5. g \in [0..n -> Seq(Rule)]
    BY <2>1, <2>3
  <2>6. ASSUME NEW i \in 0..n PROVE g[i] = Step(g, i)
    <3>1. CASE i = n
      <4>1. g[i] = Step(f, n) /\ g[n - 1] = f[n - 1]
        BY <2>2, <2>4, <3>1
      <4> HIDE DEF g
      <4> QED BY <3>1, <4>1
    <3>2. CASE i = 0 /\ i # n
      BY <2>1, <3>2
    <3>3. CASE i \in 1..(n - 1)
      <4>1. i \in 0..(n - 1) /\ i - 1 \in 0..(n - 1)
        BY <3>3
      <4>2. g[i] = f[i] /\ g[i - 1] = f[i - 1] /\ f[i] = Step(f, i)
        BY <2>1, <2>4, <4>1
      <4> HIDE DEF g
      <4> QED BY <4>2
    <3> QED BY <3>1, <3>2, <3>3
  <2> HIDE DEF g
  <2>7. \E h : Good(n, h)
    BY <2>5, <2>6
  <2> HIDE DEF Good
  <2> QED BY <2>7
<1>4. Len(rs) \in Built
  <2> HIDE DEF Built
  <2>1. Len(rs) \in 0..Len(rs)
    BY <1>1
  <2> QED BY <1>1, <1>2, <1>3, <2>1, InductionUpTo
<1>5. kept = [i \in 0..Len(rs) |-> Step(kept, i)]
  <2>1. PICK f : Good(Len(rs), f)
    BY <1>4
  <2>2. f = [i \in 0..Len(rs) |-> Step(f, i)]
    BY <2>1
  <2> QED BY <2>2
<1> HIDE DEF kept
<1> DEFINE Typed == {i \in 0..Len(rs) : kept[i] \in Seq(Rule)}
<1>6. \A i \in 0..Len(rs) : kept[i] = Step(kept, i)
  BY <1>5
<1>7. 0 \in Typed
  <2>1. 0 \in 0..Len(rs)
    BY <1>1
  <2> QED BY <1>1, <1>6, <2>1
<1>8. ASSUME NEW i \in 1..Len(rs), i - 1 \in Typed PROVE i \in Typed
  <2>1. i \in 0..Len(rs) /\ i # 0 /\ kept[i - 1] \in Seq(Rule) /\ rs[i] \in Rule
    BY <1>1, <1>8
  <2>2. Step(kept, i) \in Seq(Rule)
    BY <1>1, <2>1, AppendProperties
  <2> QED BY <1>6, <2>1, <2>2
<1>9. kept[Len(rs)] \in Seq(Rule)
  <2>1. Len(rs) \in Typed
    <3> HIDE DEF Typed
    <3>1. Len(rs) \in 0..Len(rs)
      BY <1>1
    <3> QED BY <1>1, <1>7, <1>8, <3>1, InductionUpTo
  <2> QED BY <2>1
<1>10. Without(rs, p) = kept[Len(rs)]
  BY DEF Without, kept
<1> QED BY <1>9, <1>10

\* A rule inserted into rules, and a rule removed, leave rules.
LEMMA EditType ==
    ASSUME NEW rs \in Seq(Rule), NEW r \in Rule
    PROVE  /\ \A i \in 1..(Len(rs) + 1) : InsertAt(rs, i, r) \in Seq(Rule)
           /\ \A i \in 1..Len(rs) : RemoveAt(rs, i) \in Seq(Rule)
<1>1. Len(rs) \in Nat /\ (\A i \in 1..Len(rs) : rs[i] \in Rule) /\ <<r>> \in Seq(Rule)
  BY ElementOfSeq
<1>2. ASSUME NEW i \in 1..(Len(rs) + 1) PROVE InsertAt(rs, i, r) \in Seq(Rule)
  <2>1. SubSeq(rs, 1, i - 1) \in Seq(Rule) /\ SubSeq(rs, i, Len(rs)) \in Seq(Rule)
    BY <1>1, SubSeqProperties
  <2>2. SubSeq(rs, 1, i - 1) \o <<r>> \in Seq(Rule)
    BY <1>1, <2>1, ConcatProperties
  <2> QED BY <2>1, <2>2, ConcatProperties DEF InsertAt
<1>3. ASSUME NEW i \in 1..Len(rs) PROVE RemoveAt(rs, i) \in Seq(Rule)
  <2>1. SubSeq(rs, 1, i - 1) \in Seq(Rule) /\ SubSeq(rs, i + 1, Len(rs)) \in Seq(Rule)
    BY <1>1, SubSeqProperties
  <2> QED BY <2>1, ConcatProperties DEF RemoveAt
<1> QED BY <1>2, <1>3

-----------------------------------------------------------------------------
(* Types.                                                                  *)
TickInProgress ==
    [pc : Poll, present : BOOLEAN, queue : Seq(Obs), snap : CacheSnapshot,
     disarmed : SUBSET Project, counted : SUBSET Project, ticked : SUBSET Project]

\* The poller's own part of the inductive invariant.  A tick in progress has a
\* signal and a second of the clock, resumes only what it holds paused, is where
\* its signal takes it, and inserts nothing of what it holds paused but for a
\* transcript.
PollInv ==
    /\ tick \in TickInProgress
    /\ tick.pc # "idle" => tick.queue # <<>> /\ now \in 1..MaxNow
    /\ tick.pc \in {"resume", "mark", "arm", "armed"} => Paused /\ (IsAgent \/ IsTranscript)
    /\ tick.pc \in {"arm", "armed"} => IsAgent
    /\ tick.pc = "disarmed" => Human
    /\ tick.pc = "autoDisarmed" => ~Paused /\ Pid \in Project /\ Pid \in tick.disarmed
    /\ tick.pc = "insert" => ~Paused \/ IsTranscript

\* A handler that arms one project has a project to arm.
HandlersHaveProject ==
    \A c \in Caller : pc[c] \in {"armNew", "armedNew"} => got[c].proj \in Project

\* What every step preserves: the types, and these two facts about who is at work.
TypeInv == StateTypes /\ PollInv /\ HandlersHaveProject

\* What a signal of the tick in progress is about.
LEMMA SignalTypes ==
    ASSUME TypeInv, tick.pc # "idle"
    PROVE  /\ Sig \in Obs /\ Pid \in Project \cup {NoProject}
           /\ Human => Pid \in Project
           /\ Gated => Pid \in Project
           /\ Paused => Pid \in Project
           /\ now \in 1..MaxNow
<1>1. Sig \in Obs
  BY HeadTailProperties DEF TypeInv, PollInv, TickInProgress, Sig
<1>2. tick.snap \in CacheSnapshot
  BY DEF TypeInv, PollInv, TickInProgress
<1>3. Pid \in Project \cup {NoProject}
  BY <1>2, MatchRulesType DEF Pid, CacheSnapshot
<1> QED BY <1>1, <1>2, <1>3 DEF TypeInv, PollInv, Human, Gated, Paused, CacheSnapshot

\* On to the next signal: the tick is over, or it goes on with what it had.
LEMMA NextSignalType ==
    ASSUME NEW t \in TickInProgress, t.queue # <<>>, NextSignal(t)
    PROVE  \/ tick' = IdleTick
           \/ /\ tick' \in TickInProgress
              /\ tick'.pc = "signal" /\ tick'.queue = Tail(t.queue) /\ tick'.queue # <<>>
              /\ tick'.snap = t.snap /\ tick'.present = t.present
              /\ tick'.disarmed = t.disarmed /\ tick'.counted = t.counted
              /\ tick'.ticked = t.ticked
<1>1. CASE Len(t.queue) = 1
  BY <1>1 DEF NextSignal
<1>2. CASE Len(t.queue) # 1
  <2>1. tick' = [t EXCEPT !.queue = Tail(@), !.pc = "signal"]
    BY <1>2 DEF NextSignal
  <2>2. t.queue \in Seq(Obs)
    BY DEF TickInProgress
  <2>3. Tail(t.queue) \in Seq(Obs) /\ Len(Tail(t.queue)) = Len(t.queue) - 1
        /\ Len(t.queue) \in Nat \ {0}
    BY <2>2, HeadTailProperties, EmptySeq
  <2>4. Tail(t.queue) # <<>>
    <3>1. Len(Tail(t.queue)) # 0
      BY <1>2, <2>3
    <3>2. Len(<<>>) = 0
      OBVIOUS
    <3> QED BY <3>1, <3>2
  <2> QED BY <2>1, <2>3, <2>4 DEF TickInProgress, Poll
<1> QED BY <1>1, <1>2

\* The poll tick that has nothing left is one of its states.
LEMMA IdleTickType == IdleTick \in TickInProgress /\ IdleTick.pc = "idle"
<1>1. <<>> \in Seq(Obs) /\ <<>> \in Seq(Rule)
  BY EmptySeq
<1> QED BY <1>1 DEF IdleTick, TickInProgress, CacheSnapshot, Poll

\* Next signal, as the invariant of the poller needs it.
LEMMA NextSignalPollInv ==
    ASSUME NEW t \in TickInProgress, t.queue # <<>>, NextSignal(t), now' = now, now \in 1..MaxNow
    PROVE  PollInv'
<1>1. CASE tick' = IdleTick
  BY <1>1, IdleTickType DEF PollInv
<1>2. CASE tick' # IdleTick
  <2>1. tick' \in TickInProgress /\ tick'.pc = "signal" /\ tick'.queue # <<>>
    BY <1>2, NextSignalType
  <2> QED BY <2>1 DEF PollInv
<1> QED BY <1>1, <1>2

\* The tick after a focus or transcript signal is still a tick.
LEMMA AfterHumanType ==
    ASSUME TypeInv, tick.pc # "idle"
    PROVE  /\ AfterHuman \in TickInProgress
           /\ AfterHuman.queue = tick.queue /\ AfterHuman.snap = tick.snap
           /\ AfterHuman.present = tick.present /\ AfterHuman.pc = tick.pc
           /\ AfterHuman.counted = tick.counted /\ AfterHuman.ticked = tick.ticked
           /\ AfterHuman.disarmed = IF Human THEN tick.disarmed \cup {Pid} ELSE tick.disarmed
           /\ AfterHuman.queue # <<>>
  BY SignalTypes DEF TypeInv, PollInv, TickInProgress, AfterHuman

\* A signal is decided: what the statements of a signal leave typed.
LEMMA DecidesTypes ==
    ASSUME TypeInv, Decides
    PROVE  /\ seen' \subseteq Obs /\ ignored' \subseteq seen'
           /\ cache' \in CacheSnapshot /\ suppressing' \subseteq Project
           /\ streak' \in [Project -> Nat] /\ evidence' \in [Project -> Nat]
           /\ UNCHANGED <<projects, paused, rules, ticks, now, rpcVars, quiet, doubt, behind>>
           /\ tick.pc \in {"signal", "disarmed"}
<1>1. tick.pc \in {"signal", "disarmed"} /\ (tick.pc = "signal" => Observe)
      /\ (tick.pc # "signal" => UNCHANGED <<dbVars, now, rpcVars, quiet, doubt, behind>>)
  BY DEF Decides, Observe
<1>2. /\ seen' \subseteq Obs /\ ignored' \subseteq seen'
      /\ UNCHANGED <<projects, paused, rules, ticks, now, rpcVars, quiet, doubt, behind>>
  BY <1>1, SignalTypes DEF TypeInv, StateTypes, Observe, dbVars
<1>3. /\ cache' \in CacheSnapshot /\ suppressing' \subseteq Project
      /\ streak' \in [Project -> Nat] /\ evidence' \in [Project -> Nat]
  BY DEF Decides, TypeInv, StateTypes
<1> QED BY <1>1, <1>2, <1>3

\* The rows a poller step leaves alone.
LEMMA PollerKeepsRpc ==
    ASSUME TypeInv, UNCHANGED <<projects, rules, rpcVars>>
    PROVE  /\ projects' \subseteq Project /\ rules' \in Seq(Rule)
           /\ pc' \in [Caller -> Handler] /\ calls' \in 0..MaxCalls
           /\ got' = got /\ pc' = pc /\ HandlersHaveProject'
  BY DEF TypeInv, StateTypes, HandlersHaveProject, rpcVars

\* Types hold at boot.
LEMMA InitTypes == Init => TypeInv
<1> SUFFICES ASSUME Init PROVE TypeInv
  OBVIOUS
<1>1. PICK db \in InitDB : /\ projects = db.projects /\ paused = db.paused /\ rules = db.rules
                          /\ cache = [rules |-> db.rules, paused |-> db.paused, armed |-> {}]
  BY DEF Init
<1>2. /\ projects \subseteq Project /\ paused \subseteq projects /\ rules \in Seq(Rule)
      /\ cache \in CacheSnapshot
  BY <1>1, ConstantsAssumption DEF CacheSnapshot
<1>3. <<>> \in Seq(Rule)
  BY EmptySeq
<1>4. PollInv
  BY IdleTickType DEF Init, PollInv
<1>5. tick \in TickInProgress /\ got \in [Caller -> [rules : Seq(Rule), paused : SUBSET Project,
          ids : SUBSET Project, proj : Project \cup {NoProject}, obs : SUBSET Obs,
          rule : SUBSET Matchers, thenArm : BOOLEAN]]
  BY <1>3, <1>4 DEF Init, NothingRead, PollInv
<1>6. /\ seen = {} /\ ignored = {} /\ ticks = {} /\ suppressing = {} /\ now \in 0..MaxNow
      /\ streak \in [Project -> Nat] /\ evidence \in [Project -> Nat] /\ quiet = {}
      /\ calls \in 0..MaxCalls /\ pc = [c \in Caller |-> "idle"]
  BY ConstantsAssumption DEF Init
<1> QED BY <1>2, <1>4, <1>5, <1>6 DEF TypeInv, StateTypes, HandlersHaveProject, TickInProgress, Handler

\* The poller keeps the types: one lemma per kind of step.
LEMMA StartTickTypes ==
    ASSUME TypeInv, NEW s \in Sightings, StartTick(s)
    PROVE  TypeInv'
<1>1. /\ now' \in 1..MaxNow
      /\ tick' = [IdleTick EXCEPT !.pc = "signal", !.present = s.present,
                                !.queue = s.queue, !.snap = cache]
      /\ quiet' \subseteq Project
  BY ConstantsAssumption DEF StartTick, TypeInv, StateTypes
<1>2. s.present \in BOOLEAN /\ s.queue \in Seq(Obs) /\ s.queue # <<>>
  BY ConstantsAssumption DEF Sighting
<1>3. cache \in CacheSnapshot
  BY DEF TypeInv, StateTypes
<1>4. tick' \in TickInProgress /\ tick'.pc = "signal" /\ tick'.queue = s.queue
  BY <1>1, <1>2, <1>3 DEF TickInProgress, IdleTick, Poll
<1>5. PollInv'
  BY <1>1, <1>2, <1>4 DEF PollInv
<1>6. UNCHANGED <<dbVars, cacheVars, streak, rpcVars, evidence>>
  BY DEF StartTick
<1> QED BY <1>1, <1>4, <1>5, <1>6 DEF TypeInv, StateTypes, HandlersHaveProject, TickInProgress,
      dbVars, cacheVars, rpcVars

\* The steps that decide a signal, each of which leaves the rows alone.
SignalStep ==
    \/ SkipIgnored \/ DisarmHuman \/ DropPaused \/ BeginResume \/ GateAgain
    \/ GateSuppress \/ GateDisarm \/ SkipTicked \/ Pass

LEMMA SignalStepKeeps ==
    ASSUME TypeInv, SignalStep
    PROVE  /\ UNCHANGED <<projects, paused, rules, ticks, now, rpcVars, quiet, doubt, behind>>
           /\ seen' \subseteq Obs /\ ignored' \subseteq seen'
           /\ tick.pc \in {"signal", "disarmed"}
<1>1. CASE Observe
  BY <1>1, SignalTypes DEF Observe, TypeInv, StateTypes
<1>2. CASE Decides
  BY <1>2, DecidesTypes
<1> QED BY <1>1, <1>2 DEF SignalStep, SkipIgnored, DisarmHuman, DropPaused, BeginResume,
           GateAgain, GateSuppress, GateDisarm, SkipTicked, Pass

LEMMA SignalStepTypes ==
    ASSUME TypeInv, SignalStep
    PROVE  TypeInv'
<1>1. /\ UNCHANGED <<projects, paused, rules, ticks, now, rpcVars, quiet>>
      /\ seen' \subseteq Obs /\ ignored' \subseteq seen'
      /\ tick.pc \in {"signal", "disarmed"} /\ tick.pc # "idle"
  BY SignalStepKeeps
<1>2. /\ projects' \subseteq Project /\ paused' \subseteq projects' /\ rules' \in Seq(Rule)
      /\ pc' \in [Caller -> Handler] /\ calls' \in 0..MaxCalls
      /\ got' = got /\ HandlersHaveProject'
      /\ ticks' \subseteq Tick /\ quiet' \subseteq Project /\ now' = now
  BY <1>1, PollerKeepsRpc DEF TypeInv, StateTypes
<1>3. tick \in TickInProgress /\ tick.queue # <<>> /\ now \in 1..MaxNow
  BY <1>1 DEF TypeInv, PollInv
<1>4. /\ AfterHuman \in TickInProgress /\ AfterHuman.queue # <<>>
      /\ AfterHuman.queue = tick.queue /\ AfterHuman.snap = tick.snap
      /\ AfterHuman.present = tick.present
  BY <1>1, AfterHumanType
<1>5. PollInv'
  <2>1. CASE SkipIgnored \/ GateAgain
    BY <1>2, <1>3, <2>1, NextSignalPollInv DEF SkipIgnored, GateAgain
  <2>2. CASE DropPaused \/ SkipTicked
    BY <1>2, <1>3, <1>4, <2>2, NextSignalPollInv DEF DropPaused, SkipTicked
  <2>3. CASE BeginResume
    <3>1. tick' = [AfterHuman EXCEPT !.pc = "resume"] /\ Paused /\ (IsAgent \/ IsTranscript)
      BY <2>3 DEF BeginResume, Resumes
    <3>2. /\ tick' \in TickInProgress /\ tick'.pc = "resume"
          /\ tick'.queue = tick.queue /\ tick'.snap = tick.snap
      BY <1>4, <3>1 DEF TickInProgress, Poll
    <3> QED BY <1>2, <1>3, <3>1, <3>2 DEF PollInv, Paused, Pid, Sig, IsAgent, IsTranscript
  <2>4. CASE GateSuppress
    <3> DEFINE t == [tick EXCEPT !.counted = @ \cup {Pid}]
    <3>1. t \in TickInProgress /\ t.queue = tick.queue
      BY <1>1, <1>3, <2>4, SignalTypes DEF TickInProgress, GateSuppress
    <3>2. NextSignal(t)
      BY <2>4 DEF GateSuppress
    <3> QED BY <1>2, <1>3, <3>1, <3>2, NextSignalPollInv
  <2>5. CASE GateDisarm
    <3>1. PICK where \in {"autoDisarmed", "insert"} :
            tick' = [tick EXCEPT !.pc = where, !.counted = @ \cup {Pid}, !.disarmed = @ \cup {Pid}]
      BY <2>5 DEF GateDisarm
    <3>2. Pid \in Project /\ ~Paused
      BY <1>1, <2>5, SignalTypes DEF GateDisarm, Gated
    <3>3. /\ tick' \in TickInProgress /\ tick'.pc = where /\ tick'.queue = tick.queue
          /\ tick'.snap = tick.snap /\ Pid \in tick'.disarmed
      BY <1>3, <3>1, <3>2 DEF TickInProgress, Poll
    <3> QED BY <1>2, <1>3, <3>2, <3>3 DEF PollInv, Paused, Pid, Sig
  <2>6. CASE Pass
    <3>1. tick' = [AfterHuman EXCEPT !.pc = "insert"] /\ ~Paused
      BY <2>6 DEF Pass
    <3>2. /\ tick' \in TickInProgress /\ tick'.pc = "insert" /\ tick'.queue = tick.queue
          /\ tick'.snap = tick.snap
      BY <1>4, <3>1 DEF TickInProgress, Poll
    <3> QED BY <1>2, <1>3, <3>1, <3>2 DEF PollInv, Paused, Pid, Sig
  <2>7. CASE DisarmHuman
    <3>1. tick' = [tick EXCEPT !.pc = "disarmed"] /\ Human
      BY <2>7 DEF DisarmHuman
    <3>2. /\ tick' \in TickInProgress /\ tick'.pc = "disarmed" /\ tick'.queue = tick.queue
          /\ tick'.snap = tick.snap
      BY <1>3, <3>1 DEF TickInProgress, Poll
    <3> QED BY <1>2, <1>3, <3>1, <3>2 DEF PollInv, Human, IsAgent, Pid, Sig
  <2> QED BY <2>1, <2>2, <2>3, <2>4, <2>5, <2>6, <2>7 DEF SignalStep
<1>6. /\ cache' \in CacheSnapshot /\ suppressing' \subseteq Project
      /\ streak' \in [Project -> Nat] /\ evidence' \in [Project -> Nat]
  <2>1. CASE SkipIgnored \/ GateAgain
    BY <2>1 DEF SkipIgnored, GateAgain, TypeInv, StateTypes, cacheVars
  <2>2. CASE DropPaused \/ SkipTicked \/ BeginResume \/ Pass
    BY <2>2, DecidesTypes DEF DropPaused, SkipTicked, BeginResume, Pass
  <2>3. CASE GateSuppress
    BY <1>1, <2>3, SignalTypes DEF GateSuppress, TypeInv, StateTypes
  <2>4. cache \in CacheSnapshot /\ suppressing \subseteq Project
        /\ streak \in [Project -> Nat] /\ evidence \in [Project -> Nat]
    BY DEF TypeInv, StateTypes
  <2>5. [cache EXCEPT !.armed = @ \ {Pid}] \in CacheSnapshot
    BY <2>4 DEF CacheSnapshot
  <2>6. CASE GateDisarm
    <3>1. [streak EXCEPT ![Pid] = 0] \in [Project -> Nat] /\ [evidence EXCEPT ![Pid] = 0] \in [Project -> Nat]
      BY <2>4
    <3> QED BY <2>4, <2>5, <2>6, <3>1 DEF GateDisarm
  <2>7. CASE DisarmHuman
    BY <2>4, <2>5, <2>7 DEF DisarmHuman
  <2> QED BY <2>1, <2>2, <2>3, <2>6, <2>7 DEF SignalStep
<1> QED BY <1>1, <1>2, <1>3, <1>5, <1>6 DEF TypeInv, StateTypes, PollInv, TickInProgress

\* The steps that come after the decision, and the failure of any.
LEMMA LaterStepTypes ==
    ASSUME TypeInv, \/ ResumeProjectByID \/ MarkActive \/ ArmResumed \/ CounterReset \/ InsertTick \/ SignalFails
    PROVE  TypeInv'
<1>1. tick.pc # "idle"
  BY DEF ResumeProjectByID, MarkActive, ArmResumed, CounterReset, InsertTick, SignalFails
<1>2. UNCHANGED <<projects, rules, rpcVars, quiet, now>>
  BY DEF ResumeProjectByID, MarkActive, ArmResumed, CounterReset, InsertTick, SignalFails, dbVars, history
<1>3. /\ projects' \subseteq Project /\ rules' \in Seq(Rule)
      /\ pc' \in [Caller -> Handler] /\ calls' \in 0..MaxCalls
      /\ got' = got /\ pc' = pc /\ HandlersHaveProject'
  BY <1>2, PollerKeepsRpc
<1>4. tick \in TickInProgress /\ tick.queue # <<>> /\ now \in 1..MaxNow /\ now' = now
  BY <1>1, <1>2 DEF TypeInv, PollInv
<1>5. CASE ResumeProjectByID
  <2>1. /\ tick' = [tick EXCEPT !.pc = "mark"] /\ Paused /\ (IsAgent \/ IsTranscript)
        /\ paused' = paused \ {Pid}
        /\ UNCHANGED <<projects, rules, seen, ignored, ticks, cacheVars, now, streak, rpcVars, history>>
    BY <1>5 DEF ResumeProjectByID, TypeInv, PollInv
  <2>2. /\ tick' \in TickInProgress /\ tick'.pc = "mark"
        /\ tick'.queue = tick.queue /\ tick'.snap = tick.snap
    BY <1>4, <2>1 DEF TickInProgress, Poll
  <2>3. PollInv'
    BY <1>2, <1>4, <2>1, <2>2 DEF PollInv, Paused, Pid, Sig, IsAgent, IsTranscript
  <2> QED BY <1>3, <2>1, <2>2, <2>3 DEF TypeInv, StateTypes, TickInProgress, cacheVars, history
<1>6. CASE MarkActive
  <2>1. /\ cache' = [cache EXCEPT !.paused = @ \ {Pid}] /\ Paused /\ (IsAgent \/ IsTranscript)
        /\ UNCHANGED <<dbVars, suppressing, now, rpcVars, quiet>>
    BY <1>6 DEF MarkActive, TypeInv, PollInv
  <2>2. cache' \in CacheSnapshot
    BY <2>1 DEF TypeInv, StateTypes, CacheSnapshot
  <2>3. streak' \in [Project -> Nat] /\ evidence' \in [Project -> Nat]
    <3>1. CASE IsAgent
      BY <1>6, <3>1 DEF MarkActive, TypeInv, StateTypes
    <3>2. CASE ~IsAgent
      <4>1. streak' = [streak EXCEPT ![Pid] = 0] /\ evidence' = [evidence EXCEPT ![Pid] = 0]
        BY <1>6, <3>2 DEF MarkActive
      <4> QED BY <4>1 DEF TypeInv, StateTypes
    <3> QED BY <3>1, <3>2
  <2>4. PollInv'
    <3>1. CASE IsAgent
      <4>1. tick' = [tick EXCEPT !.pc = "arm"]
        BY <1>6, <3>1 DEF MarkActive
      <4>2. /\ tick' \in TickInProgress /\ tick'.pc = "arm"
            /\ tick'.queue = tick.queue /\ tick'.snap = tick.snap
        BY <1>4, <4>1 DEF TickInProgress, Poll
      <4> QED BY <1>4, <2>1, <3>1, <4>2 DEF PollInv, Paused, Pid, Sig, IsAgent
    <3>2. CASE ~IsAgent /\ TickedAlready
      BY <1>4, <1>6, <3>2, NextSignalPollInv DEF MarkActive
    <3>3. CASE ~IsAgent /\ ~TickedAlready
      <4>1. tick' = [tick EXCEPT !.pc = "insert"]
        BY <1>6, <3>3 DEF MarkActive
      <4>2. /\ tick' \in TickInProgress /\ tick'.pc = "insert" /\ tick'.queue = tick.queue
            /\ tick'.snap = tick.snap
        BY <1>4, <4>1 DEF TickInProgress, Poll
      <4> QED BY <1>4, <2>1, <3>3, <4>2 DEF PollInv, IsTranscript, Sig
    <3> QED BY <3>1, <3>2, <3>3
  <2> QED BY <1>3, <2>1, <2>2, <2>3, <2>4 DEF TypeInv, StateTypes, PollInv, TickInProgress, dbVars
<1>7. CASE ArmResumed
  <2>1. /\ cache' = [cache EXCEPT !.armed = @ \cup {Pid}] /\ Pid \in Project
        /\ suppressing' \subseteq suppressing
        /\ streak' \in [Project -> Nat] /\ evidence' \in [Project -> Nat]
        /\ UNCHANGED <<dbVars, now, rpcVars, quiet>> /\ Paused /\ IsAgent
    BY <1>1, <1>7, SignalTypes DEF ArmResumed, TypeInv, StateTypes, PollInv
  <2>2. cache' \in CacheSnapshot
    BY <2>1 DEF TypeInv, StateTypes, CacheSnapshot
  <2>3. PollInv'
    <3>1. CASE NextSignal(tick)
      BY <1>4, <3>1, NextSignalPollInv
    <3>2. CASE tick' = [tick EXCEPT !.pc = "armed"]
      <4>1. /\ tick' \in TickInProgress /\ tick'.pc = "armed" /\ tick'.queue = tick.queue
            /\ tick'.snap = tick.snap
        BY <1>4, <3>2 DEF TickInProgress, Poll
      <4> QED BY <1>4, <2>1, <4>1 DEF PollInv, Paused, Pid, Sig, IsAgent
    <3> QED BY <1>7, <3>1, <3>2 DEF ArmResumed
  <2> QED BY <1>3, <2>1, <2>2, <2>3 DEF TypeInv, StateTypes, PollInv, TickInProgress, dbVars
<1>8. CASE InsertTick
  <2>1. UNCHANGED <<projects, paused, rules, seen, ignored, cacheVars, now, streak, rpcVars, history>>
    BY <1>8 DEF InsertTick
  <2>2. ticks' \subseteq Tick
    BY <1>1, <1>8, SignalTypes DEF InsertTick, TypeInv, StateTypes, Tick
  <2>3. PollInv'
    <3>1. CASE Pid \in projects \cup {NoProject}
      <4> DEFINE t == [tick EXCEPT !.ticked = @ \cup ({Pid} \ {NoProject})]
      <4>1. t \in TickInProgress /\ t.queue = tick.queue
        BY <1>1, <1>4, SignalTypes DEF TickInProgress
      <4>2. NextSignal(t)
        BY <1>8, <3>1 DEF InsertTick
      <4> QED BY <1>4, <4>1, <4>2, NextSignalPollInv
    <3>2. CASE Pid \notin projects \cup {NoProject}
      BY <1>4, <1>8, <3>2, NextSignalPollInv DEF InsertTick
    <3> QED BY <3>1, <3>2
  <2> QED BY <1>3, <2>1, <2>2, <2>3 DEF TypeInv, StateTypes, PollInv, TickInProgress, cacheVars, history
<1>9. CASE SignalFails
  <2>1. /\ UNCHANGED <<projects, paused, rules, ignored, ticks, cacheVars, now, streak, rpcVars, history>>
        /\ seen' \subseteq Obs /\ seen \subseteq seen'
    BY <1>1, <1>9, SignalTypes DEF SignalFails, TypeInv, StateTypes
  <2>2. PollInv'
    BY <1>4, <1>9, NextSignalPollInv DEF SignalFails
  <2> QED BY <1>3, <2>1, <2>2 DEF TypeInv, StateTypes, PollInv, TickInProgress, cacheVars, history
<1>10. CASE CounterReset
  <2>1. /\ UNCHANGED <<dbVars, cache, now, streak, rpcVars, history>> /\ suppressing' \subseteq Project
        /\ tick.pc \in {"autoDisarmed", "armed"}
    BY <1>10 DEF CounterReset, TypeInv, StateTypes
  <2>2. PollInv'
    <3>1. CASE NextSignal(tick)
      BY <1>4, <3>1, NextSignalPollInv
    <3>2. CASE tick.pc = "autoDisarmed" /\ tick' = [tick EXCEPT !.pc = "insert"]
      <4>1. /\ tick' \in TickInProgress /\ tick'.pc = "insert" /\ tick'.queue = tick.queue
            /\ tick'.snap = tick.snap
        BY <1>4, <3>2 DEF TickInProgress, Poll
      <4>2. ~Paused
        BY <3>2 DEF TypeInv, PollInv
      <4> QED BY <1>4, <4>1, <4>2 DEF PollInv, Paused, Pid, Sig
    <3> QED BY <1>10, <2>1, <3>1, <3>2 DEF CounterReset
  <2> QED BY <1>3, <2>1, <2>2 DEF TypeInv, StateTypes, PollInv, TickInProgress, dbVars, history
<1> QED BY <1>5, <1>6, <1>7, <1>8, <1>9, <1>10

\* The poller keeps the types.
LEMMA PollerTypes == TypeInv /\ PollerStep => TypeInv'
  BY StartTickTypes, SignalStepTypes, LaterStepTypes DEF PollerStep, PollerMove, SignalStep

\* What a handler has read, typed.
Read == [rules : Seq(Rule), paused : SUBSET Project, ids : SUBSET Project,
         proj : Project \cup {NoProject}, obs : SUBSET Obs,
         rule : SUBSET Matchers, thenArm : BOOLEAN]

\* A step of a handler leaves the poller where it was.
LEMMA HandlerKeepsPoller ==
    ASSUME PollInv, UNCHANGED <<tick, now>>
    PROVE  PollInv'
  BY DEF PollInv, Paused, Pid, Sig, IsAgent, IsTranscript, Human

\* The end of a handler.
LEMMA DoneTypes ==
    ASSUME TypeInv, NEW c \in Caller, Done(c)
    PROVE  /\ pc' \in [Caller -> Handler] /\ got' \in [Caller -> Read] /\ HandlersHaveProject'
<1>1. NothingRead \in Read
  BY EmptySeq DEF NothingRead, Read
<1>2. pc' = [pc EXCEPT ![c] = "idle"] /\ got' = [got EXCEPT ![c] = NothingRead]
  BY DEF Done, Goto
<1>3. pc \in [Caller -> Handler] /\ got \in [Caller -> Read] /\ HandlersHaveProject
  BY DEF TypeInv, StateTypes, Read
<1>4. \A d \in Caller : d # c => pc'[d] = pc[d] /\ got'[d] = got[d]
  BY <1>2, <1>3
<1>5. pc'[c] = "idle"
  BY <1>2, <1>3
<1> QED BY <1>1, <1>2, <1>3, <1>4, <1>5 DEF HandlersHaveProject, Handler

\* A handler moves on with what it had.
LEMMA GotoTypes ==
    ASSUME TypeInv, NEW c \in Caller, NEW where \in Handler \ {"armNew", "armedNew"}, Goto(c, where),
           \/ got' = got
           \/ \E g \in Read : got' = [got EXCEPT ![c] = g]
    PROVE  /\ pc' \in [Caller -> Handler] /\ got' \in [Caller -> Read] /\ HandlersHaveProject'
<1>1. pc \in [Caller -> Handler] /\ got \in [Caller -> Read] /\ HandlersHaveProject
  BY DEF TypeInv, StateTypes, Read
<1>2. pc' = [pc EXCEPT ![c] = where]
  BY DEF Goto
<1>3. got' \in [Caller -> Read] /\ \A d \in Caller : d # c => pc'[d] = pc[d] /\ got'[d] = got[d]
  BY <1>1, <1>2
<1> QED BY <1>1, <1>2, <1>3 DEF HandlersHaveProject

\* A handler goes on to arm a project.
LEMMA GotoArmTypes ==
    ASSUME TypeInv, NEW c \in Caller, NEW where \in {"armNew", "armedNew"}, Goto(c, where),
           NEW g \in Read, got' = [got EXCEPT ![c] = g], g.proj \in Project
    PROVE  /\ pc' \in [Caller -> Handler] /\ got' \in [Caller -> Read] /\ HandlersHaveProject'
<1>1. pc \in [Caller -> Handler] /\ got \in [Caller -> Read] /\ HandlersHaveProject
  BY DEF TypeInv, StateTypes, Read
<1>2. pc' = [pc EXCEPT ![c] = where]
  BY DEF Goto
<1>3. /\ got' \in [Caller -> Read] /\ got'[c] = g
      /\ \A d \in Caller : d # c => pc'[d] = pc[d] /\ got'[d] = got[d]
  BY <1>1, <1>2
<1> QED BY <1>1, <1>2, <1>3 DEF HandlersHaveProject, Handler

\* A call changes the database and where its handler is, and nothing else.
LEMMA CalledKeeps ==
    ASSUME TypeInv, NEW c \in Caller, NEW kind, Called(c, kind)
    PROVE  /\ UNCHANGED <<seen, cacheVars, pollVars, history>>
           /\ calls' \in 0..MaxCalls /\ PollInv' /\ pc[c] = "idle"
<1>1. UNCHANGED <<seen, cacheVars, pollVars, history>> /\ calls < MaxCalls /\ calls' = calls + 1
      /\ pc[c] = "idle"
  BY DEF Called
<1>2. calls' \in 0..MaxCalls
  BY <1>1, ConstantsAssumption DEF TypeInv, StateTypes
<1>3. PollInv'
  BY <1>1, HandlerKeepsPoller DEF TypeInv, pollVars
<1> QED BY <1>1, <1>2, <1>3

\* So a call keeps the types when what it writes is typed.
LEMMA CallTypes ==
    ASSUME TypeInv, NEW c \in Caller, NEW kind, Called(c, kind),
           projects' \subseteq Project, paused' \subseteq projects', rules' \in Seq(Rule),
           ignored' \subseteq seen, ticks' = ticks,
           pc' \in [Caller -> Handler], got' \in [Caller -> Read], HandlersHaveProject'
    PROVE  TypeInv'
<1>1. /\ UNCHANGED <<seen, cacheVars, pollVars, history>>
      /\ calls' \in 0..MaxCalls /\ PollInv'
  BY CalledKeeps
<1> QED BY <1>1 DEF TypeInv, StateTypes, Read, cacheVars, pollVars, history

\* The calls keep the types.
LEMMA ClientTypes ==
    ASSUME TypeInv, NEW c \in Caller, Client(c)
    PROVE  TypeInv'
<1>1. /\ projects \subseteq Project /\ paused \subseteq projects /\ rules \in Seq(Rule)
      /\ ignored \subseteq seen /\ seen \subseteq Obs
      /\ pc \in [Caller -> Handler] /\ got \in [Caller -> Read] /\ HandlersHaveProject
      /\ got[c] \in Read
  BY DEF TypeInv, StateTypes, Read
<1>2. "rules" \in Handler \ {"armNew", "armedNew"} /\ "tag" \in Handler \ {"armNew", "armedNew"}
      /\ "armNew" \in {"armNew", "armedNew"}
  BY DEF Handler
<1>3. ASSUME NEW p \in Project, SetProjectPaused(c, p) \/ ProjectResume(c, p) PROVE TypeInv'
  <2>1. /\ Called(c, "pause") \/ Called(c, "resume")
        /\ UNCHANGED <<projects, rules, ignored, ticks, got>> /\ Goto(c, "rules")
        /\ p \in projects /\ paused' \in {paused \cup {p}, paused \ {p}}
    BY <1>3 DEF SetProjectPaused, ProjectResume
  <2>2. paused' \subseteq projects
    BY <1>1, <2>1
  <2> QED BY <1>1, <1>2, <2>1, <2>2, CallTypes, GotoTypes
<1>4. ASSUME NEW p \in Project, ProjectDelete(c, p) PROVE TypeInv'
  <2>1. /\ Called(c, "delete") /\ UNCHANGED <<ignored, ticks, got>> /\ Goto(c, "rules")
        /\ projects' = projects \ {p} /\ paused' = paused \ {p} /\ rules' = Without(rules, p)
    BY <1>4 DEF ProjectDelete
  <2>2. rules' \in Seq(Rule)
    BY <1>1, <2>1, WithoutType
  <2> QED BY <1>1, <1>2, <2>1, <2>2, CallTypes, GotoTypes
<1>5. CASE ProjectPauseAll(c)
  BY <1>1, <1>2, <1>5, CallTypes, GotoTypes DEF ProjectPauseAll
<1>6. CASE ProjectResumeAll(c)
  <2> DEFINE g == [got[c] EXCEPT !.thenArm = TRUE]
  <2>1. g \in Read /\ got' = [got EXCEPT ![c] = g]
    BY <1>1, <1>6 DEF ProjectResumeAll, Read
  <2> HIDE DEF g
  <2>2. pc' \in [Caller -> Handler] /\ got' \in [Caller -> Read] /\ HandlersHaveProject'
    BY <1>2, <1>6, <2>1, GotoTypes DEF ProjectResumeAll
  <2> QED BY <1>1, <1>6, <2>2, CallTypes DEF ProjectResumeAll
<1>7. CASE ProjectAdd(c)
  <2> DEFINE g == [got[c] EXCEPT !.proj = NextId(projects)]
  <2>1. g \in Read /\ g.proj \in Project /\ got' = [got EXCEPT ![c] = g]
    BY <1>1, <1>7 DEF ProjectAdd, Read
  <2> HIDE DEF g
  <2>2. pc' \in [Caller -> Handler] /\ got' \in [Caller -> Read] /\ HandlersHaveProject'
    BY <1>2, <1>7, <2>1, GotoArmTypes DEF ProjectAdd
  <2>3. projects' \subseteq Project /\ projects \subseteq projects'
    BY <1>1, <1>7 DEF ProjectAdd
  <2>4. Called(c, "add") /\ UNCHANGED <<paused, rules, ignored, ticks>>
    BY <1>7 DEF ProjectAdd
  <2>5. paused' \subseteq projects' /\ rules' \in Seq(Rule) /\ ignored' \subseteq seen /\ ticks' = ticks
    BY <1>1, <2>3, <2>4
  <2> QED BY <2>2, <2>3, <2>4, <2>5, CallTypes
<1>8. CASE WatchChange(c)
  BY <1>1, <1>2, <1>8, CallTypes, GotoTypes DEF WatchChange
<1>9. ASSUME NEW p \in Project, NEW m \in Matchers, NEW i \in 1..(Len(rules) + 1), RuleAdd(c, p, m, i)
      PROVE  TypeInv'
  <2>1. /\ Called(c, "ruleAdd") /\ UNCHANGED <<projects, paused, ignored, ticks, got>>
        /\ Goto(c, "rules") /\ rules' = InsertAt(rules, i, [proj |-> p, obs |-> m])
    BY <1>9 DEF RuleAdd
  <2>2. [proj |-> p, obs |-> m] \in Rule
    BY DEF Rule
  <2>3. rules' \in Seq(Rule)
    BY <1>1, <2>1, <2>2, EditType
  <2> QED BY <1>1, <1>2, <2>1, <2>3, CallTypes, GotoTypes
<1>10. ASSUME NEW i \in 1..Len(rules), RuleDelete(c, i) PROVE TypeInv'
  <2>1. /\ Called(c, "ruleDelete") /\ UNCHANGED <<projects, paused, ignored, ticks, got>>
        /\ Goto(c, "rules") /\ rules' = RemoveAt(rules, i)
    BY <1>10 DEF RuleDelete
  <2>2. rules[i] \in Rule
    BY <1>1, ElementOfSeq
  <2>3. rules' \in Seq(Rule)
    BY <1>1, <2>1, <2>2, EditType
  <2> QED BY <1>1, <1>2, <2>1, <2>3, CallTypes, GotoTypes
<1>11. ASSUME NEW o \in Obs, IgnoreSignature(c, o) PROVE TypeInv'
  <2>1. /\ Called(c, "ignore") /\ UNCHANGED <<projects, paused, rules, ticks, pc, got>>
        /\ ignored' = ignored \cup {o} /\ o \in seen
    BY <1>11 DEF IgnoreSignature
  <2>2. HandlersHaveProject'
    BY <1>1, <2>1 DEF HandlersHaveProject
  <2> QED BY <1>1, <2>1, <2>2, CallTypes
<1>12. ASSUME NEW p \in Project, NEW o \in Obs, NEW rule \in {{}} \cup {{m} : m \in Matchers},
             TagSignature(c, p, o, rule)
       PROVE TypeInv'
  <2> DEFINE g == [got[c] EXCEPT !.proj = p, !.obs = {o}, !.rule = rule]
  <2>1. g \in Read /\ g.proj \in Project
    <3>1. {o} \in SUBSET Obs /\ rule \in SUBSET Matchers
      OBVIOUS
    <3> QED BY <1>1, <3>1 DEF Read
  <2>2. got' = [got EXCEPT ![c] = g]
    BY <1>1, <1>12 DEF TagSignature
  <2> HIDE DEF g
  <2>3. pc' \in [Caller -> Handler] /\ got' \in [Caller -> Read] /\ HandlersHaveProject'
    <3>1. CASE Goto(c, "tag")
      BY <1>2, <2>1, <2>2, <3>1, GotoTypes
    <3>2. CASE Goto(c, "armNew")
      BY <1>2, <2>1, <2>2, <3>2, GotoArmTypes
    <3>3. Goto(c, "tag") \/ Goto(c, "armNew")
      BY <1>12 DEF TagSignature
    <3> QED BY <3>1, <3>2, <3>3
  <2>4. projects' \subseteq Project /\ projects \subseteq projects'
    BY <1>1, <1>12 DEF TagSignature
  <2>5. Called(c, "tag") /\ UNCHANGED <<paused, rules, ignored, ticks>>
    BY <1>12 DEF TagSignature
  <2>6. paused' \subseteq projects' /\ rules' \in Seq(Rule) /\ ignored' \subseteq seen /\ ticks' = ticks
    BY <1>1, <2>4, <2>5
  <2> QED BY <2>3, <2>4, <2>5, <2>6, CallTypes
<1> QED BY <1>3, <1>4, <1>5, <1>6, <1>7, <1>8, <1>9, <1>10, <1>11, <1>12 DEF Client, ClientCall

\* Tagging gives a project to ticks that have none.
LEMMA RetagType ==
    ASSUME ticks \subseteq Tick, NEW S \in SUBSET ticks, NEW p \in Project
    PROVE  Retag(S, p) \subseteq Tick
  BY DEF Retag, Tick

\* The statements of a tag keep the types.
LEMMA TagStatementTypes ==
    ASSUME TypeInv, NEW c \in Caller, TagStatement(c)
    PROVE  TypeInv'
<1>1. /\ projects \subseteq Project /\ paused \subseteq projects /\ rules \in Seq(Rule)
      /\ ticks \subseteq Tick /\ pc \in [Caller -> Handler] /\ got[c] \in Read
  BY DEF TypeInv, StateTypes, Read
<1>2. UNCHANGED <<projects, paused, seen, ignored, cacheVars, pollVars, calls, history>>
  BY DEF TagStatement
<1>3. PollInv'
  BY <1>2, HandlerKeepsPoller DEF TypeInv, pollVars
<1>4. PICK o \in got[c].obs :
        IF got[c].proj \notin projects THEN UNCHANGED <<ticks, rules>> /\ Done(c)
        ELSE /\ ticks' = Retag(Swept(o, got[c].rule), got[c].proj)
             /\ IF got[c].rule = {} THEN UNCHANGED rules /\ Done(c)
                ELSE /\ \E m \in got[c].rule, i \in 1..(Len(rules) + 1) :
                          rules' = InsertAt(rules, i, [proj |-> got[c].proj, obs |-> m])
                     /\ Goto(c, "rules")
                     /\ got' = [got EXCEPT ![c] = NothingRead]
  BY DEF TagStatement
<1>5. ticks' \subseteq Tick
  <2>1. Swept(o, got[c].rule) \in SUBSET ticks
    BY DEF Swept
  <2>2. CASE got[c].proj \notin projects
    BY <1>1, <1>4, <2>2
  <2>3. CASE got[c].proj \in projects
    BY <1>1, <1>4, <2>1, <2>3, RetagType
  <2> QED BY <2>2, <2>3
<1>6. rules' \in Seq(Rule)
  <2>1. CASE got[c].proj \notin projects \/ got[c].rule = {}
    BY <1>1, <1>4, <2>1
  <2>2. CASE got[c].proj \in projects /\ got[c].rule # {}
    <3>1. PICK m \in got[c].rule, i \in 1..(Len(rules) + 1) :
            rules' = InsertAt(rules, i, [proj |-> got[c].proj, obs |-> m])
      BY <1>4, <2>2
    <3>2. [proj |-> got[c].proj, obs |-> m] \in Rule
      BY <1>1, <2>2 DEF Rule, Read
    <3> QED BY <1>1, <3>1, <3>2, EditType
  <2> QED BY <2>1, <2>2
<1>7. pc' \in [Caller -> Handler] /\ got' \in [Caller -> Read] /\ HandlersHaveProject'
  <2>1. CASE Done(c)
    BY <2>1, DoneTypes
  <2>2. CASE Goto(c, "rules") /\ got' = [got EXCEPT ![c] = NothingRead]
    <3>1. NothingRead \in Read /\ "rules" \in Handler \ {"armNew", "armedNew"}
      BY EmptySeq DEF NothingRead, Read, Handler
    <3> QED BY <2>2, <3>1, GotoTypes
  <2>3. Done(c) \/ (Goto(c, "rules") /\ got' = [got EXCEPT ![c] = NothingRead])
    BY <1>4
  <2> QED BY <2>1, <2>2, <2>3
<1> QED BY <1>2, <1>3, <1>5, <1>6, <1>7 DEF TypeInv, StateTypes, Read, cacheVars, pollVars, history

\* A step of a reload or of an arming keeps the types when what it writes is
\* typed.
LEMMA HandlerStepTypes ==
    ASSUME TypeInv, NEW c \in Caller, NEW from, HandlerStep(c, from),
           cache' \in CacheSnapshot, suppressing' \subseteq Project, evidence' \in [Project -> Nat],
           pc' \in [Caller -> Handler], got' \in [Caller -> Read], HandlersHaveProject'
    PROVE  TypeInv'
<1>1. UNCHANGED <<dbVars, pollVars, calls, quiet>>
  BY DEF HandlerStep
<1>2. PollInv'
  BY <1>1, HandlerKeepsPoller DEF TypeInv, pollVars
<1> QED BY <1>1, <1>2 DEF TypeInv, StateTypes, Read, dbVars, pollVars

\* The steps of the handlers keep the types.
LEMMA HandlerTypes ==
    ASSUME TypeInv, NEW c \in Caller, HandlerNext(c)
    PROVE  TypeInv'
<1>1. /\ projects \subseteq Project /\ paused \subseteq projects /\ rules \in Seq(Rule)
      /\ cache \in CacheSnapshot /\ suppressing \subseteq Project /\ evidence \in [Project -> Nat]
      /\ pc \in [Caller -> Handler] /\ got \in [Caller -> Read] /\ got[c] \in Read
      /\ HandlersHaveProject
  BY DEF TypeInv, StateTypes, Read
<1>2. \A where \in Handler : where \in {"paused", "install", "list", "armAll", "armedAll", "tag"}
                             => where \notin {"armNew", "armedNew"}
  OBVIOUS
<1>3. {"paused", "install", "list", "armAll", "armedAll", "tag"} \subseteq Handler
  BY DEF Handler
<1>4. CASE TagStatement(c)
  BY <1>4, TagStatementTypes
<1>5. CASE ReadRules(c)
  <2> DEFINE g == [got[c] EXCEPT !.rules = rules]
  <2>1. g \in Read /\ got' = [got EXCEPT ![c] = g]
    BY <1>1, <1>5 DEF ReadRules, Read
  <2> HIDE DEF g
  <2>2. pc' \in [Caller -> Handler] /\ got' \in [Caller -> Read] /\ HandlersHaveProject'
    BY <1>2, <1>3, <1>5, <2>1, GotoTypes DEF ReadRules
  <2> QED BY <1>1, <1>5, <2>2, HandlerStepTypes DEF ReadRules, cacheVars
<1>6. CASE ReadPaused(c)
  <2> DEFINE g == [got[c] EXCEPT !.paused = paused]
  <2>1. g \in Read /\ got' = [got EXCEPT ![c] = g]
    BY <1>1, <1>6 DEF ReadPaused, Read
  <2> HIDE DEF g
  <2>2. pc' \in [Caller -> Handler] /\ got' \in [Caller -> Read] /\ HandlersHaveProject'
    BY <1>2, <1>3, <1>6, <2>1, GotoTypes DEF ReadPaused
  <2> QED BY <1>1, <1>6, <2>2, HandlerStepTypes DEF ReadPaused, cacheVars
<1>7. CASE Install(c)
  <2>1. cache' \in CacheSnapshot
    BY <1>1, <1>7 DEF Install, CacheSnapshot, Read
  <2>2. pc' \in [Caller -> Handler] /\ got' \in [Caller -> Read] /\ HandlersHaveProject'
    <3>1. CASE Done(c)
      BY <3>1, DoneTypes
    <3>2. CASE Goto(c, "list") /\ UNCHANGED got
      BY <1>2, <1>3, <3>2, GotoTypes
    <3> QED BY <1>7, <3>1, <3>2 DEF Install
  <2> QED BY <1>1, <1>7, <2>1, <2>2, HandlerStepTypes DEF Install
<1>8. CASE ListProjects(c)
  <2> DEFINE g == [NothingRead EXCEPT !.ids = projects]
  <2>1. g \in Read /\ got' = [got EXCEPT ![c] = g]
    BY <1>1, <1>8, EmptySeq DEF ListProjects, Read, NothingRead
  <2> HIDE DEF g
  <2>2. pc' \in [Caller -> Handler] /\ got' \in [Caller -> Read] /\ HandlersHaveProject'
    BY <1>2, <1>3, <1>8, <2>1, GotoTypes DEF ListProjects
  <2> QED BY <1>1, <1>8, <2>2, HandlerStepTypes DEF ListProjects, cacheVars
<1>9. CASE ArmAllProjects(c)
  <2>1. cache' \in CacheSnapshot /\ evidence' \in [Project -> Nat]
    <3>1. CASE got[c].ids = {}
      BY <1>1, <1>9, <3>1 DEF ArmAllProjects
    <3>2. CASE got[c].ids # {}
      <4>1. /\ cache' = [cache EXCEPT !.armed = got[c].ids]
            /\ evidence' = [p \in Project |-> IF p \in got[c].ids THEN 0 ELSE evidence[p]]
        BY <1>9, <3>2 DEF ArmAllProjects
      <4>2. cache' \in CacheSnapshot
        BY <1>1, <4>1 DEF CacheSnapshot, Read
      <4> QED BY <1>1, <4>1, <4>2
    <3> QED BY <3>1, <3>2
  <2>2. pc' \in [Caller -> Handler] /\ got' \in [Caller -> Read] /\ HandlersHaveProject'
    <3>1. CASE Done(c)
      BY <3>1, DoneTypes
    <3>2. CASE Goto(c, "armedAll") /\ UNCHANGED got
      BY <1>2, <1>3, <3>2, GotoTypes
    <3> QED BY <1>9, <3>1, <3>2 DEF ArmAllProjects
  <2> QED BY <1>1, <1>9, <2>1, <2>2, HandlerStepTypes DEF ArmAllProjects
<1>10. CASE ResetSuppressed(c)
  BY <1>1, <1>10, DoneTypes, HandlerStepTypes DEF ResetSuppressed
<1>11. ASSUME AfterArm(c)
       PROVE  pc' \in [Caller -> Handler] /\ got' \in [Caller -> Read] /\ HandlersHaveProject'
  <2>1. CASE Done(c)
    BY <2>1, DoneTypes
  <2>2. CASE Goto(c, "tag") /\ UNCHANGED got
    BY <1>2, <1>3, <2>2, GotoTypes
  <2> QED BY <1>11, <2>1, <2>2 DEF AfterArm
<1>12. CASE ArmNew(c)
  <2>1. HandlerStep(c, "armNew") /\ UNCHANGED suppressing /\ got[c].proj \in Project
    BY <1>1, <1>12 DEF ArmNew, HandlerStep, HandlersHaveProject
  <2>2. cache' \in CacheSnapshot /\ evidence' \in [Project -> Nat]
    <3>1. CASE got[c].proj \in cache.armed
      BY <1>1, <1>12, <2>1, <3>1 DEF ArmNew
    <3>2. CASE got[c].proj \notin cache.armed
      <4>1. /\ cache' = [cache EXCEPT !.armed = @ \cup {got[c].proj}]
            /\ evidence' = [evidence EXCEPT ![got[c].proj] = 0]
        BY <1>12, <3>2 DEF ArmNew
      <4> QED BY <1>1, <2>1, <4>1 DEF CacheSnapshot
    <3> QED BY <3>1, <3>2
  <2>3. pc' \in [Caller -> Handler] /\ got' \in [Caller -> Read] /\ HandlersHaveProject'
    <3>1. CASE AfterArm(c)
      BY <1>11, <3>1
    <3>2. CASE Goto(c, "armedNew") /\ UNCHANGED got
      <4>1. got' = [got EXCEPT ![c] = got[c]]
        BY <1>1, <3>2
      <4> QED BY <1>1, <2>1, <3>2, <4>1, GotoArmTypes
    <3> QED BY <1>12, <3>1, <3>2 DEF ArmNew
  <2> QED BY <1>1, <2>1, <2>2, <2>3, HandlerStepTypes
<1>13. CASE ClearSuppressed(c)
  BY <1>1, <1>11, <1>13, HandlerStepTypes DEF ClearSuppressed
<1>14. CASE HandlerFails(c)
  <2>1. UNCHANGED <<dbVars, cacheVars, pollVars, calls, quiet, evidence>>
    BY <1>14 DEF HandlerFails
  <2>2. PollInv'
    BY <2>1, HandlerKeepsPoller DEF TypeInv, pollVars
  <2>3. pc' \in [Caller -> Handler] /\ got' \in [Caller -> Read] /\ HandlersHaveProject'
    BY <1>14, DoneTypes DEF HandlerFails
  <2> QED BY <2>1, <2>2, <2>3 DEF TypeInv, StateTypes, Read, dbVars, cacheVars, pollVars, history
<1> QED BY <1>4, <1>5, <1>6, <1>7, <1>8, <1>9, <1>10, <1>12, <1>13, <1>14 DEF HandlerNext, HandlerMove

\* A step that changes nothing keeps the types.
LEMMA StutterTypes == TypeInv /\ UNCHANGED vars => TypeInv'
<1> SUFFICES ASSUME TypeInv, UNCHANGED vars PROVE TypeInv'
  OBVIOUS
<1>1. PollInv'
  BY HandlerKeepsPoller DEF TypeInv, vars, pollVars
<1> QED BY <1>1 DEF TypeInv, StateTypes, HandlersHaveProject, vars, dbVars, cacheVars, pollVars,
        rpcVars, history

\* Every step keeps the types.
LEMMA TypesKept ==
    ASSUME TypeInv, Next \/ UNCHANGED vars
    PROVE  TypeInv'
  BY PollerTypes, ClientTypes, HandlerTypes, StutterTypes DEF Next, EmptyTick

\* What the types of the state come to, for every theorem below.
LEMMA TypeInvariant == Spec => []TypeInv
<1>1. Init => TypeInv
  BY InitTypes
<1>2. TypeInv /\ [Next]_vars => TypeInv'
  BY TypesKept
<1> QED BY <1>1, <1>2, PTL DEF Spec

\* What a step does to the history of the reloads.
LEMMA HistoryKept ==
    ASSUME TypeInv, Next \/ UNCHANGED vars
    PROVE  /\ Overtake \/ UNCHANGED <<overtaken, pc, rules, paused>>
           /\ behind \in BOOLEAN /\ doubt \in BOOLEAN => behind' \in BOOLEAN /\ doubt' \in BOOLEAN
<1>1. CASE PollerStep
  <2>1. CASE \E s \in Sightings : StartTick(s)
    BY <1>1, <2>1 DEF StartTick, PollerStep
  <2>2. CASE SignalStep
    BY <1>1, <2>2, SignalStepKeeps DEF PollerStep
  <2>3. CASE ResumeProjectByID \/ MarkActive \/ ArmResumed \/ CounterReset \/ InsertTick \/ SignalFails
    BY <1>1, <2>3 DEF PollerStep, ResumeProjectByID, MarkActive, ArmResumed, CounterReset,
       InsertTick, SignalFails, history
  <2> QED BY <1>1, <2>1, <2>2, <2>3 DEF PollerStep, PollerMove, SignalStep
<1>2. ASSUME NEW c \in Caller, Client(c) PROVE Overtake /\ UNCHANGED <<behind, doubt>>
  BY <1>2 DEF Client, ClientCall, SetProjectPaused, ProjectResume, ProjectDelete, ProjectPauseAll,
     ProjectResumeAll, ProjectAdd, WatchChange, RuleAdd, RuleDelete, IgnoreSignature, TagSignature,
     Called, history
<1>3. ASSUME NEW c \in Caller, HandlerNext(c)
      PROVE  Overtake /\ (behind \in BOOLEAN => behind' \in BOOLEAN) /\ UNCHANGED doubt
  <2>1. Overtake
    BY <1>3 DEF HandlerNext
  <2>2. CASE TagStatement(c)
    BY <2>1, <2>2 DEF TagStatement, history
  <2>3. CASE \E from : HandlerStep(c, from)
    <3>1. PICK from : HandlerStep(c, from)
      BY <2>3
    <3>2. CASE from = "install"
      <4>1. UNCHANGED doubt /\ behind' = (c \in overtaken)
        BY <3>1, <3>2 DEF HandlerStep
      <4> QED BY <2>1, <4>1
    <3>3. CASE from # "install"
      <4>1. UNCHANGED <<doubt, behind>>
        BY <3>1, <3>3 DEF HandlerStep
      <4> QED BY <2>1, <4>1
    <3> QED BY <3>2, <3>3
  <2>4. CASE HandlerFails(c)
    <3>1. UNCHANGED doubt /\ behind' = (behind \/ pc[c] \in {"rules", "paused"})
      BY <2>4 DEF HandlerFails
    <3> QED BY <2>1, <3>1
  <2>5. TagStatement(c) \/ HandlerFails(c) \/ \E from : HandlerStep(c, from)
    BY <1>3 DEF HandlerNext, HandlerMove, ReadRules, ReadPaused, Install, ListProjects,
       ArmAllProjects, ResetSuppressed, ArmNew, ClearSuppressed
  <2> QED BY <2>2, <2>3, <2>4, <2>5
<1>4. CASE EmptyTick \/ UNCHANGED vars
  BY <1>4 DEF EmptyTick, vars, dbVars, rpcVars, history
<1> QED BY <1>1, <1>2, <1>3, <1>4 DEF Next

\* The rows, the cache, the tick in progress and what the handlers hold are of
\* their types, whatever the clients, the signals and the failures: in
\* particular a paused project exists, and an ignored observation was seen.
THEOREM Typed == Spec => []TypeOK
<1>1. Init => TypeInv /\ TypeOK
  <2> SUFFICES ASSUME Init PROVE doubt \in BOOLEAN /\ behind \in BOOLEAN /\ overtaken \subseteq Caller
    BY InitTypes DEF TypeOK, TypeInv
  <2> QED BY DEF Init
<1>2. TypeInv /\ TypeOK /\ [Next]_vars => TypeInv' /\ TypeOK'
  <2> SUFFICES ASSUME TypeInv, TypeOK, Next \/ UNCHANGED vars PROVE TypeInv' /\ TypeOK'
    OBVIOUS
  <2>1. TypeInv'
    BY TypesKept
  <2>2. overtaken' \subseteq Caller
    BY HistoryKept DEF TypeOK, Overtake
  <2>3. doubt' \in BOOLEAN /\ behind' \in BOOLEAN
    BY HistoryKept DEF TypeOK
  <2> QED BY <2>1, <2>2, <2>3 DEF TypeOK, TypeInv
<1> QED BY <1>1, <1>2, PTL DEF Spec

-----------------------------------------------------------------------------
(* The rows of ticks.                                                      *)

\* Who writes ticks: the poller's insert and the statements of a tag.
LEMMA TicksWriters ==
    ASSUME TypeInv, Next \/ UNCHANGED vars
    PROVE  InsertTick \/ (\E c \in Caller : TagStatement(c)) \/ ticks' = ticks
<1>1. CASE PollerStep
  <2>1. CASE \E s \in Sightings : StartTick(s)
    BY <2>1 DEF StartTick, dbVars
  <2>2. CASE SignalStep
    BY <2>2, SignalStepKeeps
  <2>3. CASE ResumeProjectByID \/ MarkActive \/ ArmResumed \/ CounterReset \/ SignalFails
    BY <2>3 DEF ResumeProjectByID, MarkActive, ArmResumed, CounterReset, SignalFails, dbVars
  <2> QED BY <1>1, <2>1, <2>2, <2>3 DEF PollerStep, PollerMove, SignalStep
<1>2. ASSUME NEW c \in Caller, Client(c) PROVE ticks' = ticks
  BY <1>2 DEF Client, ClientCall, SetProjectPaused, ProjectResume, ProjectDelete, ProjectPauseAll,
     ProjectResumeAll, ProjectAdd, WatchChange, RuleAdd, RuleDelete, IgnoreSignature, TagSignature
<1>3. ASSUME NEW c \in Caller, HandlerNext(c), ~TagStatement(c) PROVE ticks' = ticks
  BY <1>3 DEF HandlerNext, HandlerMove, ReadRules, ReadPaused, Install, ListProjects, ArmAllProjects,
     ResetSuppressed, ArmNew, ClearSuppressed, HandlerFails, HandlerStep, dbVars
<1>4. CASE EmptyTick \/ UNCHANGED vars
  BY <1>4 DEF EmptyTick, vars, dbVars
<1> QED BY <1>1, <1>2, <1>3, <1>4 DEF Next

\* Who removes a project: the deletion, and only it.
LEMMA ProjectsWriters ==
    ASSUME TypeInv, Next \/ UNCHANGED vars
    PROVE  (\E c \in Caller, p \in Project : ProjectDelete(c, p)) \/ projects \subseteq projects'
<1>1. CASE PollerStep
  <2>1. CASE \E s \in Sightings : StartTick(s)
    BY <2>1 DEF StartTick, dbVars
  <2>2. CASE SignalStep
    BY <2>2, SignalStepKeeps
  <2>3. CASE ResumeProjectByID \/ MarkActive \/ ArmResumed \/ CounterReset \/ InsertTick \/ SignalFails
    BY <2>3 DEF ResumeProjectByID, MarkActive, ArmResumed, CounterReset, InsertTick, SignalFails, dbVars
  <2> QED BY <1>1, <2>1, <2>2, <2>3 DEF PollerStep, PollerMove, SignalStep
<1>2. ASSUME NEW c \in Caller, Client(c), ~ \E p \in Project : ProjectDelete(c, p)
      PROVE  projects \subseteq projects'
  BY <1>2 DEF Client, ClientCall, SetProjectPaused, ProjectResume, ProjectPauseAll,
     ProjectResumeAll, ProjectAdd, WatchChange, RuleAdd, RuleDelete, IgnoreSignature, TagSignature
<1>3. ASSUME NEW c \in Caller, HandlerNext(c) PROVE projects \subseteq projects'
  BY <1>3 DEF HandlerNext, HandlerMove, TagStatement, ReadRules, ReadPaused, Install, ListProjects,
     ArmAllProjects, ResetSuppressed, ArmNew, ClearSuppressed, HandlerFails, HandlerStep, dbVars
<1>4. CASE EmptyTick \/ UNCHANGED vars
  BY <1>4 DEF EmptyTick, vars, dbVars
<1> QED BY <1>1, <1>2, <1>3, <1>4 DEF Next

\* Every tick is of a project that exists, or of none: an insert or a tag
\* checks it in the step that writes, and a deletion checks it in the step that
\* deletes, so the order in which they come does not matter.
THEOREM TicksHaveProjects == Spec => []NoOrphanTick
<1>1. Init => NoOrphanTick
  BY DEF Init, NoOrphanTick
<1>2. TypeInv /\ NoOrphanTick /\ [Next]_vars => NoOrphanTick'
  <2> SUFFICES ASSUME TypeInv, NoOrphanTick, Next \/ UNCHANGED vars PROVE NoOrphanTick'
    OBVIOUS
  <2>1. ASSUME NEW c \in Caller, NEW p \in Project, ProjectDelete(c, p) PROVE NoOrphanTick'
    BY <2>1 DEF ProjectDelete, NoOrphanTick
  <2>2. ASSUME projects \subseteq projects' PROVE NoOrphanTick'
    <3>1. CASE ticks' = ticks
      BY <2>2, <3>1 DEF NoOrphanTick
    <3>2. CASE InsertTick
      BY <2>2, <3>2 DEF InsertTick, NoOrphanTick
    <3>3. ASSUME NEW c \in Caller, TagStatement(c), ticks' # ticks PROVE NoOrphanTick'
      <4>1. PICK o \in got[c].obs : ticks' = Retag(Swept(o, got[c].rule), got[c].proj)
                                   /\ got[c].proj \in projects
        BY <3>3 DEF TagStatement
      <4>2. \A r \in ticks : [r EXCEPT !.proj = got[c].proj].proj = got[c].proj
        BY DEF TypeInv, StateTypes, Tick
      <4>3. Swept(o, got[c].rule) \subseteq ticks
        BY DEF Swept
      <4> QED BY <2>2, <4>1, <4>2, <4>3 DEF NoOrphanTick, Retag
    <3> QED BY <3>1, <3>2, <3>3, TicksWriters
  <2> QED BY <2>1, <2>2, ProjectsWriters
<1> QED BY <1>1, <1>2, TypeInvariant, PTL DEF Spec

\* No step takes a tick away or moves one that has a project.
THEOREM TicksStay == Spec => TicksAreKept
<1>1. ASSUME TypeInv, [Next]_vars
      PROVE  [\A r \in ticks : IF r.proj = NoProject
                              THEN \E q \in ticks' : q.ts = r.ts /\ q.obs = r.obs
                              ELSE r \in ticks']_vars
  <2> SUFFICES ASSUME NEW r \in ticks
               PROVE  IF r.proj = NoProject THEN \E q \in ticks' : q.ts = r.ts /\ q.obs = r.obs
                      ELSE r \in ticks'
    OBVIOUS
  <2>1. CASE ticks' = ticks \/ InsertTick
    BY <2>1 DEF InsertTick
  <2>2. ASSUME NEW c \in Caller, TagStatement(c), ticks' # ticks
        PROVE  IF r.proj = NoProject THEN \E q \in ticks' : q.ts = r.ts /\ q.obs = r.obs
               ELSE r \in ticks'
    <3>1. PICK o \in got[c].obs : ticks' = Retag(Swept(o, got[c].rule), got[c].proj)
      BY <2>2 DEF TagStatement
    <3> DEFINE q == [r EXCEPT !.proj = got[c].proj]
    <3>2. q.ts = r.ts /\ q.obs = r.obs
      BY <1>1 DEF TypeInv, StateTypes, Tick
    <3>3. CASE r \in Swept(o, got[c].rule)
      <4>1. q \in ticks' /\ r.proj = NoProject
        BY <3>1, <3>3 DEF Retag, Swept
      <4> QED BY <3>2, <4>1
    <3>4. CASE r \notin Swept(o, got[c].rule)
      BY <3>1, <3>4 DEF Retag
    <3> QED BY <3>3, <3>4
  <2>3. Next \/ UNCHANGED vars
    BY <1>1
  <2> QED BY <1>1, <2>1, <2>2, <2>3, TicksWriters
<1> QED BY <1>1, TypeInvariant, PTL DEF Spec, TicksAreKept

-----------------------------------------------------------------------------
(* The arm gate.                                                           *)

\* The tick in progress holds p armed: it took it with its snapshot and has
\* not disarmed it since.
Held(p) == tick.pc # "idle" /\ p \in tick.snap.armed \ tick.disarmed

\* A step to the next signal holds no more than the tick it goes on with.
LEMMA NextSignalHeld ==
    ASSUME NEW t \in TickInProgress, t.queue # <<>>, NextSignal(t), NEW p, Held(p)'
    PROVE  p \in t.snap.armed \ t.disarmed
<1>1. tick' # IdleTick
  BY IdleTickType DEF Held
<1>2. tick'.snap = t.snap /\ tick'.disarmed = t.disarmed
  BY <1>1, NextSignalType
<1> QED BY <1>2 DEF Held

\* A decision that ends a disarm closes the gate for the signal's project; every
\* other decision leaves the gate as it was.
LEMMA DecidesGate ==
    ASSUME TypeInv, Decides, NEW p, p \notin cache'.armed,
           Held(p)' => p \in tick.snap.armed \ AfterHuman.disarmed
    PROVE  \/ p \notin suppressing' /\ ~Held(p)'
           \/ /\ p \notin cache.armed /\ ~Clearing(p) /\ (p \in suppressing' => p \in suppressing)
              /\ (Held(p)' => Held(p))
<1>1. tick.pc \in {"signal", "disarmed"} /\ tick.pc # "idle"
  BY DecidesTypes
<1>2. AfterHuman.disarmed = IF Human THEN tick.disarmed \cup {Pid} ELSE tick.disarmed
  BY <1>1, AfterHumanType
<1>3. Held(p)' => Held(p)
  BY <1>1, <1>2 DEF Held
<1>4. (p \in suppressing' => p \in suppressing) /\ p \notin cache.armed
  BY DEF Decides
<1>5. CASE Clearing(p)
  <2>1. tick.pc = "disarmed" /\ p = Pid /\ Human
    BY <1>1, <1>5 DEF Clearing, TypeInv, PollInv
  <2> QED BY <1>2, <2>1 DEF Decides
<1>6. CASE ~Clearing(p)
  BY <1>3, <1>4, <1>6
<1> QED BY <1>5, <1>6

\* A project the poller leaves without an arm has no warning and is not held
\* by the tick, unless it was so before.
LEMMA PollerGate ==
    ASSUME TypeInv, PollerStep, NEW p, p \notin cache'.armed, ~Clearing(p)'
    PROVE  \/ p \notin suppressing' /\ ~Held(p)'
           \/ /\ p \notin cache.armed /\ ~Clearing(p)
              /\ p \in suppressing' => p \in suppressing \/ Held(p)
              /\ Held(p)' => Held(p)
<1>1. cache \in CacheSnapshot
  BY DEF TypeInv, StateTypes
<1>2. ASSUME NEW s \in Sightings, StartTick(s)
      PROVE  ~Held(p)' /\ p \notin cache.armed /\ suppressing' = suppressing /\ ~Clearing(p)
  BY <1>2 DEF StartTick, IdleTick, Held, Clearing, cacheVars
<1>3. tick \in TickInProgress /\ (tick.pc # "idle" => tick.queue # <<>>)
  BY DEF TypeInv, PollInv
<1>4. CASE SkipIgnored \/ GateAgain \/ SignalFails
  <2>1. tick.pc # "idle" /\ NextSignal(tick) /\ UNCHANGED cacheVars /\ ~Clearing(p)
    BY <1>4 DEF SkipIgnored, GateAgain, SignalFails, Observe, Clearing
  <2> QED BY <1>3, <2>1, NextSignalHeld DEF cacheVars, Held
<1>5. CASE DropPaused \/ SkipTicked
  <2>1. Decides /\ NextSignal(AfterHuman) /\ tick.pc # "idle"
    BY <1>5, DecidesTypes DEF DropPaused, SkipTicked
  <2>2. Held(p)' => p \in tick.snap.armed \ AfterHuman.disarmed
    BY <2>1, AfterHumanType, NextSignalHeld
  <2> QED BY <2>1, <2>2, DecidesGate
<1>6. CASE BeginResume \/ Pass
  <2>1. Decides /\ tick.pc # "idle"
        /\ \E where \in Poll : tick' = [AfterHuman EXCEPT !.pc = where]
    BY <1>6, DecidesTypes DEF BeginResume, Pass, Poll
  <2>2. tick'.snap = tick.snap /\ tick'.disarmed = AfterHuman.disarmed
    BY <2>1, AfterHumanType DEF TickInProgress
  <2> QED BY <2>1, <2>2, DecidesGate DEF Held
<1>7. CASE GateSuppress
  <2> DEFINE t == [tick EXCEPT !.counted = @ \cup {Pid}]
  <2>1. NextSignal(t) /\ tick.pc # "idle" /\ Gated /\ UNCHANGED cache
        /\ suppressing' = suppressing \cup {Pid} /\ ~Clearing(p)
    BY <1>7 DEF GateSuppress, Observe, Clearing
  <2>2. t \in TickInProgress /\ t.queue # <<>> /\ t.snap = tick.snap /\ t.disarmed = tick.disarmed
    BY <1>3, <2>1, SignalTypes DEF TickInProgress
  <2> HIDE DEF t
  <2>3. Held(p)' => Held(p)
    BY <2>1, <2>2, NextSignalHeld DEF Held
  <2> QED BY <2>1, <2>3 DEF Gated, Held
<1>8. CASE GateDisarm
  <2>1. /\ tick' = [tick EXCEPT !.pc = IF Pid \in cache.armed THEN "autoDisarmed" ELSE "insert",
                               !.counted = @ \cup {Pid}, !.disarmed = @ \cup {Pid}]
        /\ cache' = [cache EXCEPT !.armed = @ \ {Pid}] /\ tick.pc # "idle"
        /\ UNCHANGED suppressing /\ ~Clearing(p)
    BY <1>8 DEF GateDisarm, Observe, Clearing
  <2>2. /\ tick'.snap = tick.snap /\ tick'.disarmed = tick.disarmed \cup {Pid}
        /\ tick'.queue = tick.queue
        /\ tick'.pc = IF Pid \in cache.armed THEN "autoDisarmed" ELSE "insert"
    BY <1>3, <2>1 DEF TickInProgress
  <2>3. p \notin cache.armed
    BY <1>1, <2>1, <2>2 DEF Clearing, Pid, Sig, CacheSnapshot
  <2> QED BY <2>1, <2>2, <2>3 DEF Held
<1>13. CASE DisarmHuman
  <2>1. /\ tick' = [tick EXCEPT !.pc = "disarmed"]
        /\ cache' = [cache EXCEPT !.armed = @ \ {Pid}] /\ tick.pc # "idle"
        /\ UNCHANGED suppressing /\ ~Clearing(p)
    BY <1>13 DEF DisarmHuman, Observe, Clearing
  <2>2. /\ tick'.snap = tick.snap /\ tick'.disarmed = tick.disarmed
        /\ tick'.queue = tick.queue /\ tick'.pc = "disarmed"
    BY <1>3, <2>1 DEF TickInProgress
  <2>3. p \notin cache.armed
    BY <1>1, <2>1, <2>2 DEF Clearing, Pid, Sig, CacheSnapshot
  <2> QED BY <2>1, <2>2, <2>3 DEF Held
<1>14. CASE CounterReset
  <2>1. /\ suppressing' = suppressing \ {Pid} /\ UNCHANGED cache
        /\ tick.pc \in {"autoDisarmed", "armed"}
        /\ NextSignal(tick) \/ tick' = [tick EXCEPT !.pc = "insert"]
    BY <1>14 DEF CounterReset
  <2>2. Held(p)' => Held(p)
    BY <1>3, <2>1, NextSignalHeld DEF Held, TickInProgress
  <2>3. CASE Clearing(p)
    <3>1. p = Pid /\ Pid \in tick.disarmed
      BY <2>1, <2>3 DEF Clearing, TypeInv, PollInv
    <3> QED BY <2>1, <2>2, <3>1 DEF Held
  <2>4. CASE ~Clearing(p)
    BY <2>1, <2>2, <2>4
  <2> QED BY <2>3, <2>4
<1>9. CASE ResumeProjectByID
  <2>1. tick' = [tick EXCEPT !.pc = "mark"] /\ UNCHANGED cacheVars /\ tick.pc # "idle" /\ ~Clearing(p)
    BY <1>9 DEF ResumeProjectByID, Clearing
  <2> QED BY <1>3, <2>1 DEF Held, TickInProgress, cacheVars
<1>10. CASE MarkActive
  <2>1. cache' = [cache EXCEPT !.paused = @ \ {Pid}] /\ UNCHANGED suppressing /\ tick.pc # "idle"
        /\ ((\E where \in Poll : tick' = [tick EXCEPT !.pc = where]) \/ NextSignal(tick))
        /\ ~Clearing(p)
    BY <1>10 DEF MarkActive, Poll, Clearing
  <2>2. cache'.armed = cache.armed
    BY <1>1, <2>1 DEF CacheSnapshot
  <2>3. Held(p)' => Held(p)
    <3>1. CASE NextSignal(tick)
      BY <1>3, <2>1, <3>1, NextSignalHeld DEF Held
    <3>2. CASE \E where \in Poll : tick' = [tick EXCEPT !.pc = where]
      BY <1>3, <2>1, <3>2 DEF Held, TickInProgress
    <3> QED BY <2>1, <3>1, <3>2
  <2> QED BY <2>1, <2>2, <2>3
<1>11. CASE ArmResumed
  <2>1. cache' = [cache EXCEPT !.armed = @ \cup {Pid}] /\ UNCHANGED suppressing
        /\ tick.pc # "idle" /\ ~Clearing(p)
        /\ (NextSignal(tick) \/ tick' = [tick EXCEPT !.pc = "armed"])
    BY <1>11 DEF ArmResumed, Clearing
  <2>2. p \notin cache.armed
    BY <1>1, <2>1 DEF CacheSnapshot
  <2>3. Held(p)' => Held(p)
    BY <1>3, <2>1, NextSignalHeld DEF Held, TickInProgress
  <2> QED BY <2>1, <2>2, <2>3
<1>12. CASE InsertTick
  <2>1. tick.pc # "idle" /\ UNCHANGED cacheVars /\ ~Clearing(p)
    BY <1>12 DEF InsertTick, Clearing
  <2> DEFINE t == [tick EXCEPT !.ticked = @ \cup ({Pid} \ {NoProject})]
  <2>2. NextSignal(t) \/ NextSignal(tick)
    BY <1>12 DEF InsertTick
  <2>3. t \in TickInProgress /\ t.queue # <<>> /\ t.snap = tick.snap /\ t.disarmed = tick.disarmed
    BY <1>3, <2>1, SignalTypes DEF TickInProgress
  <2> HIDE DEF t
  <2> QED BY <1>3, <2>1, <2>2, <2>3, NextSignalHeld DEF Held, cacheVars
<1> QED BY <1>2, <1>4, <1>5, <1>6, <1>7, <1>8, <1>9, <1>10, <1>11, <1>12, <1>13, <1>14 DEF PollerStep, PollerMove, SignalStep

\* A poller step and the handlers.
LEMMA PollerKeepsHandlers ==
    ASSUME TypeInv, PollerStep
    PROVE  UNCHANGED <<projects, pc, got, calls>>
<1>1. UNCHANGED <<projects, rpcVars>>
  <2>1. CASE \E s \in Sightings : StartTick(s)
    BY <2>1 DEF StartTick, dbVars
  <2>2. CASE SignalStep
    BY <2>2, SignalStepKeeps
  <2>3. CASE ResumeProjectByID \/ MarkActive \/ ArmResumed \/ CounterReset \/ InsertTick \/ SignalFails
    BY <2>3 DEF ResumeProjectByID, MarkActive, ArmResumed, CounterReset, InsertTick, SignalFails, dbVars
  <2> QED BY <2>1, <2>2, <2>3 DEF PollerStep, PollerMove, SignalStep
<1> QED BY <1>1 DEF rpcVars

\* One RPC at a time; this or no ProjectResumeAll is what WarningMeansArmed and
\* OnlyPollerDisarms rest on.  With both, a project added between the ListProjects
\* and the ArmAllProjects of a resume loses its arm.
OneCaller == \A c, d \in Caller : c = d

\* A resume-all meets no handler that is half-way, or there is none.
ArmsAreWhole == OneCaller \/ "resumeAll" \notin CallKinds

\* Without a call of ProjectResumeAll nothing arms all projects.
NoResumeAll ==
    "resumeAll" \notin CallKinds =>
        \A c \in Caller : ~got[c].thenArm /\ pc[c] \notin {"list", "armAll", "armedAll"}

\* The ids that ProjectResumeAll is about to arm are all the projects.
ListIsWhole == \A c \in Caller : pc[c] = "armAll" => projects \subseteq got[c].ids

\* A project that is neither armed nor about to be armed, nor about to have its
\* counter reset, has no warning, and the tick in progress does not hold it armed.
GateIsLive ==
    \A p \in projects :
        p \notin cache.armed /\ ~Arming(p) /\ ~Clearing(p) => p \notin suppressing /\ ~Held(p)

\* A step of one handler, seen from the others.
LEMMA OtherHandlers ==
    ASSUME TypeInv, NEW c \in Caller, Client(c) \/ HandlerNext(c)
    PROVE  /\ \A d \in Caller : d # c => pc'[d] = pc[d] /\ got'[d] = got[d]
           /\ UNCHANGED pollVars
           /\ \A p : (Held(p)' <=> Held(p)) /\ (Clearing(p)' <=> Clearing(p))
<1>1. /\ pc \in [Caller -> Handler] /\ got \in [Caller -> Read]
  BY DEF TypeInv, StateTypes, Read
<1>2. CASE Client(c)
  <2>1. UNCHANGED pollVars
    BY <1>2 DEF Client, ClientCall, SetProjectPaused, ProjectResume, ProjectDelete, ProjectPauseAll,
       ProjectResumeAll, ProjectAdd, WatchChange, RuleAdd, RuleDelete, IgnoreSignature,
       TagSignature, Called
  <2>2. (\E where : pc' = [pc EXCEPT ![c] = where]) \/ pc' = pc
    BY <1>2 DEF Client, ClientCall, SetProjectPaused, ProjectResume, ProjectDelete, ProjectPauseAll,
       ProjectResumeAll, ProjectAdd, WatchChange, RuleAdd, RuleDelete, IgnoreSignature,
       TagSignature, Goto
  <2>3. (\E g : got' = [got EXCEPT ![c] = g]) \/ got' = got
    BY <1>2 DEF Client, ClientCall, SetProjectPaused, ProjectResume, ProjectDelete, ProjectPauseAll,
       ProjectResumeAll, ProjectAdd, WatchChange, RuleAdd, RuleDelete, IgnoreSignature,
       TagSignature
  <2> QED BY <1>1, <2>1, <2>2, <2>3 DEF Held, Clearing, Pid, Sig, pollVars
<1>3. CASE HandlerNext(c)
  <2>1. UNCHANGED pollVars
    BY <1>3 DEF HandlerNext, HandlerMove, TagStatement, ReadRules, ReadPaused, Install, ListProjects,
       ArmAllProjects, ResetSuppressed, ArmNew, ClearSuppressed, HandlerFails, HandlerStep
  <2>2. \E where : pc' = [pc EXCEPT ![c] = where]
    BY <1>3 DEF HandlerNext, HandlerMove, TagStatement, ReadRules, ReadPaused, Install, ListProjects,
       ArmAllProjects, ResetSuppressed, ArmNew, ClearSuppressed, HandlerFails, AfterArm, Done, Goto
  <2>3. (\E g : got' = [got EXCEPT ![c] = g]) \/ got' = got
    BY <1>3 DEF HandlerNext, HandlerMove, TagStatement, ReadRules, ReadPaused, Install, ListProjects,
       ArmAllProjects, ResetSuppressed, ArmNew, ClearSuppressed, HandlerFails, AfterArm, Done
  <2> QED BY <1>1, <2>1, <2>2, <2>3 DEF Held, Clearing, Pid, Sig, pollVars
<1> QED BY <1>2, <1>3

\* What a call does to the gate: it arms nothing itself, and a project it adds
\* is about to be armed.
LEMMA ClientMoves ==
    ASSUME TypeInv, NEW c \in Caller, Client(c)
    PROVE  /\ UNCHANGED <<cacheVars, history>> /\ pc[c] = "idle"
           /\ pc'[c] \in {"idle", "rules", "armNew", "tag"}
           /\ \/ projects' \subseteq projects
              \/ pc'[c] = "armNew" /\ projects' = projects \cup {got'[c].proj}
           /\ got'[c].thenArm => got[c].thenArm \/ "resumeAll" \in CallKinds
<1>1. pc \in [Caller -> Handler] /\ got \in [Caller -> Read] /\ got[c] \in Read
  BY DEF TypeInv, StateTypes, Read
<1>2. CASE ProjectResumeAll(c)
  BY <1>1, <1>2 DEF ProjectResumeAll, Called, Goto
<1>3. CASE ProjectAdd(c)
  <2> DEFINE g == [got[c] EXCEPT !.proj = NextId(projects)]
  <2>1. got' = [got EXCEPT ![c] = g] /\ pc' = [pc EXCEPT ![c] = "armNew"] /\ Called(c, "add")
        /\ projects' = projects \cup {NextId(projects)}
    BY <1>1, <1>3 DEF ProjectAdd, Goto
  <2>2. g.proj = NextId(projects) /\ g.thenArm = got[c].thenArm
    BY <1>1 DEF Read
  <2> HIDE DEF g
  <2> QED BY <1>1, <2>1, <2>2 DEF Called
<1>4. ASSUME NEW p \in Project, NEW o, NEW rule, TagSignature(c, p, o, rule)
      PROVE  /\ UNCHANGED <<cacheVars, history>> /\ pc[c] = "idle"
             /\ pc'[c] \in {"idle", "rules", "armNew", "tag"}
             /\ \/ projects' \subseteq projects
                \/ pc'[c] = "armNew" /\ projects' = projects \cup {got'[c].proj}
             /\ got'[c].thenArm => got[c].thenArm \/ "resumeAll" \in CallKinds
  <2> DEFINE g == [got[c] EXCEPT !.proj = p, !.obs = {o}, !.rule = rule]
  <2>1. got' = [got EXCEPT ![c] = g] /\ Called(c, "tag")
        /\ \/ pc' = [pc EXCEPT ![c] = "tag"] /\ projects' = projects
           \/ pc' = [pc EXCEPT ![c] = "armNew"] /\ projects' = projects \cup {p}
    BY <1>1, <1>4 DEF TagSignature, Goto
  <2>2. g.proj = p /\ g.thenArm = got[c].thenArm
    BY <1>1 DEF Read
  <2> HIDE DEF g
  <2> QED BY <1>1, <2>1, <2>2 DEF Called
<1>5. ASSUME NEW p, SetProjectPaused(c, p) \/ ProjectResume(c, p) \/ ProjectDelete(c, p)
      PROVE  /\ UNCHANGED <<cacheVars, history, got>> /\ pc[c] = "idle" /\ pc'[c] = "rules"
             /\ projects' \subseteq projects
  BY <1>1, <1>5 DEF SetProjectPaused, ProjectResume, ProjectDelete, Called, Goto
<1>6. CASE ProjectPauseAll(c) \/ WatchChange(c) \/ (\E i \in 1..Len(rules) : RuleDelete(c, i))
           \/ (\E o \in Obs : IgnoreSignature(c, o))
           \/ (\E p \in Project, m \in Matchers, i \in 1..(Len(rules) + 1) : RuleAdd(c, p, m, i))
  BY <1>1, <1>6 DEF ProjectPauseAll, WatchChange, RuleDelete, IgnoreSignature, RuleAdd, Called, Goto
<1> QED BY <1>2, <1>3, <1>4, <1>5, <1>6 DEF Client, ClientCall

\* What the steps of a handler do to the gate.
LEMMA HandlerMoves ==
    ASSUME TypeInv, NEW c \in Caller, HandlerNext(c)
    PROVE  /\ UNCHANGED projects
           /\ got'[c].thenArm => got[c].thenArm
           /\ \/ /\ pc'[c] \in {"idle", "rules", "paused", "install", "tag"}
                 /\ pc[c] \notin {"list", "armAll", "armNew"} \/ HandlerFails(c)
                 /\ cache'.armed = cache.armed /\ suppressing' \subseteq suppressing
              \/ /\ Install(c) /\ got[c].thenArm /\ pc'[c] = "list"
                 /\ cache'.armed = cache.armed /\ suppressing' = suppressing
              \/ ListProjects(c) \/ ArmAllProjects(c) \/ ArmNew(c)
<1>1. /\ pc \in [Caller -> Handler] /\ got \in [Caller -> Read] /\ got[c] \in Read
      /\ ~NothingRead.thenArm
  BY DEF TypeInv, StateTypes, Read, NothingRead
<1>2. CASE TagStatement(c)
  <2>1. UNCHANGED <<projects, cacheVars, history>> /\ pc[c] = "tag"
        /\ (Done(c) \/ (Goto(c, "rules") /\ got' = [got EXCEPT ![c] = NothingRead]))
    BY <1>2 DEF TagStatement
  <2> QED BY <1>1, <2>1 DEF Done, Goto, cacheVars, history
<1>3. CASE ReadRules(c)
  BY <1>1, <1>3 DEF ReadRules, HandlerStep, Goto, Read, dbVars, cacheVars
<1>4. CASE ReadPaused(c)
  BY <1>1, <1>4 DEF ReadPaused, HandlerStep, Goto, Read, dbVars, cacheVars
<1>5. CASE Install(c)
  <2>1. cache'.armed = cache.armed /\ pc[c] = "install" /\ UNCHANGED <<projects, suppressing, evidence>>
    BY <1>5 DEF Install, HandlerStep, dbVars
  <2>2. CASE got[c].thenArm
    BY <1>1, <1>5, <2>1, <2>2 DEF Install, Goto
  <2>3. CASE ~got[c].thenArm
    BY <1>1, <1>5, <2>1, <2>3 DEF Install, Done, Goto
  <2> QED BY <2>2, <2>3
<1>6. CASE ListProjects(c)
  <2> DEFINE g == [NothingRead EXCEPT !.ids = projects]
  <2>1. ~g.thenArm /\ got' = [got EXCEPT ![c] = g] /\ UNCHANGED projects
    BY <1>6 DEF ListProjects, NothingRead, HandlerStep, dbVars
  <2> HIDE DEF g
  <2> QED BY <1>1, <1>6, <2>1
<1>7. CASE ArmAllProjects(c)
  BY <1>1, <1>7 DEF ArmAllProjects, HandlerStep, Done, dbVars
<1>8. CASE ResetSuppressed(c)
  BY <1>1, <1>8 DEF ResetSuppressed, HandlerStep, Done, Goto, dbVars
<1>9. CASE ArmNew(c)
  BY <1>1, <1>9 DEF ArmNew, AfterArm, HandlerStep, Done, dbVars
<1>10. CASE ClearSuppressed(c)
  <2>1. pc[c] = "armedNew" /\ UNCHANGED <<projects, cache, evidence>> /\ suppressing' \subseteq suppressing
    BY <1>10 DEF ClearSuppressed, HandlerStep, dbVars
  <2>2. CASE Done(c)
    BY <1>1, <2>1, <2>2 DEF Done, Goto
  <2>3. CASE Goto(c, "tag") /\ UNCHANGED got
    BY <1>1, <2>1, <2>3 DEF Goto
  <2> QED BY <1>10, <2>2, <2>3 DEF ClearSuppressed, AfterArm
<1>11. CASE HandlerFails(c)
  BY <1>1, <1>11 DEF HandlerFails, Done, Goto, dbVars, cacheVars, history
<1> QED BY <1>2, <1>3, <1>4, <1>5, <1>6, <1>7, <1>8, <1>9, <1>10, <1>11 DEF HandlerNext, HandlerMove

\* Together they are inductive.
GateInv == NoResumeAll /\ ListIsWhole /\ GateIsLive

\* Without ProjectResumeAll nobody arms all projects.
LEMMA NoResumeAllKept ==
    ASSUME TypeInv, NoResumeAll, Next \/ UNCHANGED vars
    PROVE  NoResumeAll'
<1>1. CASE PollerStep
  BY <1>1, PollerKeepsHandlers DEF NoResumeAll
<1>2. ASSUME NEW c \in Caller, Client(c) PROVE NoResumeAll'
  BY <1>2, ClientMoves, OtherHandlers DEF NoResumeAll
<1>3. ASSUME NEW c \in Caller, HandlerNext(c) PROVE NoResumeAll'
  <2>1. CASE ListProjects(c) \/ ArmAllProjects(c)
    BY <2>1 DEF NoResumeAll, ListProjects, ArmAllProjects, HandlerStep
  <2>2. CASE ArmNew(c)
    <3>1. pc \in [Caller -> Handler]
      BY DEF TypeInv, StateTypes
    <3>2. pc'[c] \notin {"list", "armAll", "armedAll"}
      BY <2>2, <3>1 DEF ArmNew, AfterArm, Done, Goto
    <3> QED BY <1>3, <3>2, HandlerMoves, OtherHandlers DEF NoResumeAll
  <2> QED BY <1>3, <2>1, <2>2, HandlerMoves, OtherHandlers DEF NoResumeAll
<1>4. CASE EmptyTick \/ UNCHANGED vars
  BY <1>4 DEF EmptyTick, vars, rpcVars, NoResumeAll
<1> QED BY <1>1, <1>2, <1>3, <1>4 DEF Next

\* ProjectResumeAll arms what it has listed, and nothing is added meanwhile.
LEMMA ListIsWholeKept ==
    ASSUME ArmsAreWhole, TypeInv, NoResumeAll, ListIsWhole, Next \/ UNCHANGED vars
    PROVE  ListIsWhole'
<1>1. CASE PollerStep
  BY <1>1, PollerKeepsHandlers DEF ListIsWhole
<1>2. ASSUME NEW c \in Caller, Client(c) PROVE ListIsWhole'
  <2>1. pc'[c] # "armAll" /\ \A d \in Caller : d # c => pc'[d] = pc[d]
    BY <1>2, ClientMoves, OtherHandlers
  <2> QED BY <2>1 DEF ListIsWhole, NoResumeAll, ArmsAreWhole, OneCaller
<1>3. ASSUME NEW c \in Caller, HandlerNext(c) PROVE ListIsWhole'
  <2>1. CASE ListProjects(c)
    <3>1. got' = [got EXCEPT ![c] = [NothingRead EXCEPT !.ids = projects]]
      BY <2>1 DEF ListProjects
    <3>2. got'[c].ids = projects
      BY <3>1 DEF NothingRead, TypeInv, StateTypes
    <3> QED BY <1>3, <3>2, HandlerMoves, OtherHandlers DEF ListIsWhole
  <2>2. pc'[c] = "armAll" => ListProjects(c)
    <3>1. pc \in [Caller -> Handler]
      BY DEF TypeInv, StateTypes
    <3>2. CASE ArmNew(c) \/ ArmAllProjects(c)
      BY <3>1, <3>2 DEF ArmNew, ArmAllProjects, AfterArm, Done, Goto
    <3> QED BY <1>3, <3>2, HandlerMoves
  <2> QED BY <1>3, <2>1, <2>2, HandlerMoves, OtherHandlers DEF ListIsWhole
<1>4. CASE EmptyTick \/ UNCHANGED vars
  BY <1>4 DEF EmptyTick, vars, dbVars, rpcVars, ListIsWhole
<1> QED BY <1>1, <1>2, <1>3, <1>4 DEF Next

\* The gate stays live.
LEMMA GateIsLiveKept ==
    ASSUME TypeInv, ListIsWhole, GateIsLive, Next \/ UNCHANGED vars
    PROVE  GateIsLive'
<1>1. CASE PollerStep
  <2> SUFFICES ASSUME NEW p \in projects, p \notin cache'.armed, ~Arming(p), ~Clearing(p)'
               PROVE  p \notin suppressing' /\ ~Held(p)'
    BY <1>1, PollerKeepsHandlers DEF GateIsLive, Arming
  <2> QED BY <1>1, PollerGate DEF GateIsLive
<1>2. ASSUME NEW c \in Caller, Client(c) PROVE GateIsLive'
  <2>1. \A p : Arming(p) => Arming(p)'
    BY <1>2, ClientMoves, OtherHandlers DEF Arming
  <2>2. ASSUME NEW p \in projects', p \notin projects PROVE Arming(p)'
    BY <1>2, <2>2, ClientMoves DEF Arming
  <2>3. UNCHANGED cacheVars /\ \A p : (Held(p)' <=> Held(p)) /\ (Clearing(p)' <=> Clearing(p))
    BY <1>2, ClientMoves, OtherHandlers
  <2> QED BY <2>1, <2>2, <2>3 DEF GateIsLive, cacheVars
<1>3. ASSUME NEW c \in Caller, HandlerNext(c) PROVE GateIsLive'
  <2>1. UNCHANGED projects /\ (\A p : (Held(p)' <=> Held(p)) /\ (Clearing(p)' <=> Clearing(p)))
        /\ \A d \in Caller : d # c => pc'[d] = pc[d] /\ got'[d] = got[d]
    BY <1>3, HandlerMoves, OtherHandlers
  <2>2. cache \in CacheSnapshot /\ pc \in [Caller -> Handler]
    BY DEF TypeInv, StateTypes
  <2>3. CASE ArmNew(c)
    <3>1. \A p : Arming(p) => Arming(p)' \/ p \in cache'.armed
      <4>1. got[c].proj \in cache'.armed
        BY <2>2, <2>3 DEF ArmNew, CacheSnapshot
      <4> QED BY <2>1, <4>1 DEF Arming
    <3>2. cache.armed \subseteq cache'.armed /\ suppressing' = suppressing
      BY <2>2, <2>3 DEF ArmNew, CacheSnapshot
    <3> QED BY <2>1, <3>1, <3>2 DEF GateIsLive
  <2>4. CASE ArmAllProjects(c)
    <3>1. projects \subseteq cache'.armed
      BY <2>2, <2>4 DEF ArmAllProjects, CacheSnapshot, ListIsWhole, HandlerStep
    <3> QED BY <2>1, <3>1 DEF GateIsLive
  <2>5. ASSUME cache'.armed = cache.armed, suppressing' \subseteq suppressing, pc[c] # "armNew"
        PROVE  GateIsLive'
    <3>1. \A p : Arming(p) => Arming(p)'
      BY <2>1, <2>5 DEF Arming
    <3> QED BY <2>1, <2>5, <3>1 DEF GateIsLive
  <2>6. CASE ListProjects(c)
    BY <2>5, <2>6 DEF ListProjects, HandlerStep, cacheVars
  <2>7. CASE HandlerFails(c)
    BY <2>5, <2>7 DEF HandlerFails, cacheVars
  <2>8. CASE Install(c)
    BY <2>2, <2>5, <2>8 DEF Install, HandlerStep, CacheSnapshot
  <2> QED BY <1>3, <2>3, <2>4, <2>5, <2>6, <2>7, <2>8, HandlerMoves
<1>4. CASE EmptyTick \/ UNCHANGED vars
  BY <1>4 DEF EmptyTick, vars, dbVars, cacheVars, pollVars, rpcVars, GateIsLive, Arming, Held,
     Clearing, Pid, Sig
<1> QED BY <1>1, <1>2, <1>3, <1>4 DEF Next

\* The invariant of the gate, for any signals, failures and number of projects.
LEMMA GateInvariant ==
    ASSUME ArmsAreWhole
    PROVE  Spec => [](TypeInv /\ GateInv)
<1>1. Init => TypeInv /\ GateInv
  <2> SUFFICES ASSUME Init PROVE GateInv
    BY InitTypes
  <2>1. /\ suppressing = {} /\ tick = IdleTick
        /\ \A c \in Caller : pc[c] = "idle" /\ got[c] = NothingRead
    BY DEF Init
  <2> QED BY <2>1, IdleTickType DEF GateInv, NoResumeAll, ListIsWhole, GateIsLive, Held, NothingRead
<1>2. TypeInv /\ GateInv /\ [Next]_vars => (TypeInv /\ GateInv)'
  <2> SUFFICES ASSUME TypeInv, GateInv, Next \/ UNCHANGED vars
               PROVE  TypeInv' /\ GateInv'
    OBVIOUS
  <2> QED BY TypesKept, NoResumeAllKept, ListIsWholeKept, GateIsLiveKept DEF GateInv
<1> QED BY <1>1, <1>2, PTL DEF Spec

\* A project with suppressed time is armed, about to be, or disarmed with the reset
\* to come, whatever the tick in progress was working from, when calls come one at a time or none of them arms all
\* projects.
THEOREM WarningsAreTrue ==
    ASSUME ArmsAreWhole
    PROVE  Spec => []WarningMeansArmed
<1>1. GateInv => WarningMeansArmed
  BY DEF GateInv, GateIsLive, WarningMeansArmed
<1> QED BY <1>1, GateInvariant, PTL

\* Under the same hypothesis only a signal takes an existing project's arm.
THEOREM ArmsAreKept ==
    ASSUME ArmsAreWhole
    PROVE  Spec => OnlyPollerDisarms
<1>1. ASSUME TypeInv, GateInv, [Next]_vars
      PROVE  [\A p \in projects : p \in cache.armed /\ p \notin cache'.armed => pc' = pc]_vars
  <2> SUFFICES ASSUME Next \/ UNCHANGED vars, NEW p \in projects, p \in cache.armed,
                      p \notin cache'.armed
               PROVE  pc' = pc
    BY <1>1
  <2>1. CASE PollerStep
    BY <1>1, <2>1, PollerKeepsHandlers
  <2>2. ASSUME NEW c \in Caller, Client(c) PROVE FALSE
    BY <1>1, <2>2, ClientMoves DEF cacheVars
  <2>3. ASSUME NEW c \in Caller, HandlerNext(c) PROVE FALSE
    <3>1. cache \in CacheSnapshot
      BY <1>1 DEF TypeInv, StateTypes
    <3>2. CASE ArmNew(c) \/ ListProjects(c)
      BY <3>1, <3>2 DEF ArmNew, ListProjects, CacheSnapshot, cacheVars
    <3>3. CASE ArmAllProjects(c)
      BY <1>1, <3>1, <3>3 DEF ArmAllProjects, CacheSnapshot, GateInv, ListIsWhole, HandlerStep
    <3> QED BY <1>1, <2>3, <3>2, <3>3, HandlerMoves
  <2>4. CASE EmptyTick \/ UNCHANGED vars
    BY <2>4 DEF EmptyTick, vars, rpcVars
  <2> QED BY <2>1, <2>2, <2>3, <2>4 DEF Next
<1> QED BY <1>1, GateInvariant, PTL DEF Spec, OnlyPollerDisarms

-----------------------------------------------------------------------------
(* The cache follows the database.                                         *)

\* No handler is between its statement and the end of its reload.
Reloaded == \A c \in Caller : pc[c] \notin {"rules", "paused", "install"}

\* What a reload that nothing has overtaken has read is what the database says,
\* and so is what the cache holds once no reload is to come, unless a reload that
\* was overtaken, a failure or a resume that crossed a pause has left it behind.
\* While the poller has resumed a project and not marked it, the two may differ in
\* that project's pause.
FollowInv ==
    /\ \A c \in Caller \ overtaken : /\ (Reading(c) => got[c].rules = rules)
                                      /\ (pc[c] = "install" => got[c].paused = paused)
    /\ Reloaded /\ ~behind =>
        /\ cache.rules = rules
        /\ tick.pc # "mark" => cache.paused = paused
        /\ tick.pc = "mark" => cache.paused \ {Pid} = paused \ {Pid}

\* A call that changes rules or pauses is followed by a reload.
LEMMA ClientReloads ==
    ASSUME TypeInv, NEW c \in Caller, Client(c)
    PROVE  /\ pc[c] = "idle" /\ UNCHANGED <<cache, behind>>
           /\ UNCHANGED <<rules, paused>> \/ pc'[c] = "rules"
           /\ pc'[c] \notin {"paused", "install"}
<1>1. pc \in [Caller -> Handler]
  BY DEF TypeInv, StateTypes
<1>2. pc[c] = "idle" /\ UNCHANGED <<cache, behind>> /\ pc'[c] \notin {"paused", "install"}
  BY ClientMoves DEF cacheVars, history
<1>3. UNCHANGED <<rules, paused>> \/ pc'[c] = "rules"
  <2>1. (\E p \in Project : SetProjectPaused(c, p) \/ ProjectResume(c, p) \/ ProjectDelete(c, p))
        => Goto(c, "rules")
    BY DEF SetProjectPaused, ProjectResume, ProjectDelete
  <2>2. ProjectPauseAll(c) \/ ProjectResumeAll(c) \/ WatchChange(c) => Goto(c, "rules")
    BY DEF ProjectPauseAll, ProjectResumeAll, WatchChange
  <2>3. /\ (\E p \in Project, m \in Matchers, i \in 1..(Len(rules) + 1) : RuleAdd(c, p, m, i))
           => Goto(c, "rules")
        /\ (\E i \in 1..Len(rules) : RuleDelete(c, i)) => Goto(c, "rules")
    BY DEF RuleAdd, RuleDelete
  <2>4. /\ ProjectAdd(c) => UNCHANGED <<rules, paused>>
        /\ (\E o \in Obs : IgnoreSignature(c, o)) => UNCHANGED <<rules, paused>>
        /\ (\E p \in Project, o \in Obs, rule \in {{}} \cup {{m} : m \in Matchers} :
              TagSignature(c, p, o, rule)) => UNCHANGED <<rules, paused>>
    BY DEF ProjectAdd, IgnoreSignature, TagSignature
  <2>5. Goto(c, "rules") => pc'[c] = "rules"
    BY <1>1 DEF Goto
  <2> QED BY <2>1, <2>2, <2>3, <2>4, <2>5 DEF Client, ClientCall
<1> QED BY <1>2, <1>3

\* The steps of a handler: a reload reads the rules, then the pauses, then installs
\* both, or fails before; every other step leaves them alone, or goes to a reload.
LEMMA HandlerReloads ==
    ASSUME TypeInv, NEW c \in Caller, HandlerNext(c)
    PROVE  /\ UNCHANGED paused
           /\ \/ /\ UNCHANGED <<rules, cache.rules, cache.paused>> /\ (behind => behind')
                 /\ pc[c] \notin {"rules", "paused", "install"}
                 /\ pc'[c] \notin {"rules", "paused", "install"}
              \/ pc'[c] = "rules" /\ UNCHANGED cache
              \/ /\ UNCHANGED <<rules, cache>> /\ pc[c] = "rules" /\ pc'[c] = "paused"
                 /\ got'[c].rules = rules
              \/ /\ UNCHANGED <<rules, cache>> /\ pc[c] = "paused" /\ pc'[c] = "install"
                 /\ got'[c].rules = got[c].rules /\ got'[c].paused = paused
              \/ /\ UNCHANGED rules /\ pc[c] = "install" /\ pc'[c] \notin {"rules", "paused", "install"}
                 /\ cache'.rules = got[c].rules /\ cache'.paused = got[c].paused
                 /\ behind' = (c \in overtaken)
              \/ /\ UNCHANGED <<rules, cache>> /\ pc[c] \in {"rules", "paused"} /\ pc'[c] = "idle"
                 /\ behind'
<1>1. /\ pc \in [Caller -> Handler] /\ got \in [Caller -> Read] /\ got[c] \in Read
      /\ cache \in CacheSnapshot
  BY DEF TypeInv, StateTypes, Read
<1>2. CASE TagStatement(c)
  <2>1. UNCHANGED <<paused, cache, behind>> /\ pc[c] = "tag"
        /\ ((UNCHANGED rules /\ Done(c)) \/ Goto(c, "rules"))
    BY <1>2 DEF TagStatement, cacheVars, history
  <2> QED BY <1>1, <2>1 DEF Done, Goto
<1>3. CASE ReadRules(c)
  BY <1>1, <1>3 DEF ReadRules, HandlerStep, Goto, Read, dbVars, cacheVars
<1>4. CASE ReadPaused(c)
  BY <1>1, <1>4 DEF ReadPaused, HandlerStep, Goto, Read, dbVars, cacheVars
<1>5. CASE Install(c)
  BY <1>1, <1>5 DEF Install, HandlerStep, Done, Goto, dbVars
<1>6. CASE ListProjects(c)
  BY <1>1, <1>6 DEF ListProjects, HandlerStep, Goto, dbVars, cacheVars
<1>7. CASE ArmAllProjects(c)
  BY <1>1, <1>7 DEF ArmAllProjects, HandlerStep, Done, Goto, dbVars, CacheSnapshot
<1>8. CASE ResetSuppressed(c)
  BY <1>1, <1>8 DEF ResetSuppressed, HandlerStep, Done, Goto, dbVars
<1>9. CASE ArmNew(c)
  BY <1>1, <1>9 DEF ArmNew, AfterArm, HandlerStep, Done, Goto, dbVars, CacheSnapshot
<1>10. CASE ClearSuppressed(c)
  BY <1>1, <1>10 DEF ClearSuppressed, AfterArm, HandlerStep, Done, Goto, dbVars
<1>11. CASE HandlerFails(c)
  <2>1. /\ UNCHANGED <<rules, paused, cache>> /\ pc'[c] = "idle"
        /\ pc[c] \in {"rules", "paused", "list", "tag"}
        /\ behind' = (behind \/ pc[c] \in {"rules", "paused"})
    BY <1>1, <1>11 DEF HandlerFails, Done, Goto, dbVars, cacheVars
  <2>2. CASE pc[c] \in {"rules", "paused"}
    BY <2>1, <2>2
  <2>3. CASE pc[c] \in {"list", "tag"}
    <3>1. behind => behind'
      BY <2>1
    <3> QED BY <2>1, <2>3, <3>1
  <2> QED BY <2>1, <2>2, <2>3
<1> QED BY <1>2, <1>3, <1>4, <1>5, <1>6, <1>7, <1>8, <1>9, <1>10, <1>11 DEF HandlerNext, HandlerMove

\* The poller changes no rule and no pause, unless it resumes a project, which it
\* does in two steps.
LEMMA PollerKeepsSettings ==
    ASSUME TypeInv, PollerStep
    PROVE  /\ UNCHANGED <<rules, cache.rules>>
           /\ \/ UNCHANGED <<paused, cache.paused, behind>> /\ tick.pc # "mark" /\ tick'.pc # "mark"
              \/ /\ tick.pc = "resume" /\ tick'.pc = "mark" /\ Pid' = Pid
                 /\ paused' = paused \ {Pid} /\ UNCHANGED <<cache, behind>>
              \/ /\ tick.pc = "mark" /\ tick'.pc # "mark" /\ UNCHANGED paused
                 /\ cache'.paused = cache.paused \ {Pid} /\ behind' = (behind \/ Pid \in paused)
<1>1. cache \in CacheSnapshot /\ tick \in TickInProgress /\ (tick.pc # "idle" => tick.queue # <<>>)
  BY DEF TypeInv, StateTypes, PollInv
<1>2. ASSUME NEW t \in TickInProgress, t.queue # <<>>, NextSignal(t) PROVE tick'.pc # "mark"
  BY <1>2, NextSignalType, IdleTickType
<1>3. CASE \E s \in Sightings : StartTick(s)
  BY <1>3 DEF StartTick, IdleTick, dbVars, cacheVars
<1>4. CASE SignalStep
  <2>1. UNCHANGED <<rules, paused, behind>> /\ tick.pc # "mark" /\ tick.pc # "idle"
    BY <1>4, SignalStepKeeps
  <2>2. cache'.rules = cache.rules /\ cache'.paused = cache.paused
    BY <1>1, <1>4 DEF SignalStep, SkipIgnored, DisarmHuman, DropPaused, BeginResume, GateAgain,
       GateSuppress, GateDisarm, SkipTicked, Pass, Decides, CacheSnapshot, cacheVars
  <2>3. tick'.pc # "mark"
    <3>1. CASE SkipIgnored \/ GateAgain \/ DropPaused \/ SkipTicked
      BY <1>1, <1>2, <2>1, <3>1, AfterHumanType DEF SkipIgnored, GateAgain, DropPaused, SkipTicked
    <3>2. CASE GateSuppress
      <4> DEFINE t == [tick EXCEPT !.counted = @ \cup {Pid}]
      <4>1. NextSignal(t) /\ Gated
        BY <3>2 DEF GateSuppress
      <4>2. t \in TickInProgress /\ t.queue # <<>>
        BY <1>1, <2>1, <4>1, SignalTypes DEF TickInProgress
      <4> HIDE DEF t
      <4> QED BY <1>2, <4>1, <4>2
    <3>3. CASE DisarmHuman \/ GateDisarm
      BY <1>1, <3>3 DEF DisarmHuman, GateDisarm, TickInProgress
    <3>4. CASE BeginResume \/ Pass
      BY <1>1, <2>1, <3>4, AfterHumanType DEF BeginResume, Pass, TickInProgress
    <3> QED BY <1>4, <3>1, <3>2, <3>3, <3>4 DEF SignalStep
  <2> QED BY <2>1, <2>2, <2>3
<1>5. CASE ResumeProjectByID
  BY <1>1, <1>5 DEF ResumeProjectByID, TickInProgress, cacheVars, history, Pid, Sig
<1>6. CASE MarkActive
  <2>1. /\ tick.pc = "mark" /\ UNCHANGED dbVars /\ behind' = (behind \/ Pid \in paused)
        /\ cache' = [cache EXCEPT !.paused = @ \ {Pid}]
    BY <1>6 DEF MarkActive
  <2>2. tick'.pc # "mark"
    <3>1. NextSignal(tick) \/ \E where \in {"arm", "insert"} : tick' = [tick EXCEPT !.pc = where]
      BY <1>6 DEF MarkActive
    <3> QED BY <1>1, <1>2, <2>1, <3>1 DEF TickInProgress
  <2> QED BY <1>1, <2>1, <2>2 DEF CacheSnapshot, dbVars
<1>7. CASE ArmResumed \/ CounterReset
  <2>1. UNCHANGED <<dbVars, behind>> /\ tick.pc \notin {"mark", "idle"}
        /\ cache'.rules = cache.rules /\ cache'.paused = cache.paused
    BY <1>1, <1>7 DEF ArmResumed, CounterReset, CacheSnapshot, history
  <2>2. NextSignal(tick) \/ \E where \in {"armed", "insert"} : tick' = [tick EXCEPT !.pc = where]
    BY <1>7 DEF ArmResumed, CounterReset
  <2> QED BY <1>1, <1>2, <2>1, <2>2 DEF TickInProgress, dbVars
<1>8. CASE InsertTick \/ SignalFails
  <2>1. UNCHANGED <<rules, paused, cache, behind>> /\ tick.pc \notin {"mark", "idle"}
    BY <1>8 DEF InsertTick, SignalFails, cacheVars, history
  <2> DEFINE t == [tick EXCEPT !.ticked = @ \cup ({Pid} \ {NoProject})]
  <2>2. NextSignal(t) \/ NextSignal(tick)
    BY <1>8 DEF InsertTick, SignalFails
  <2>3. t \in TickInProgress /\ t.queue # <<>>
    BY <1>1, <2>1, SignalTypes DEF TickInProgress
  <2> HIDE DEF t
  <2> QED BY <1>1, <1>2, <2>1, <2>2, <2>3
<1> QED BY <1>3, <1>4, <1>5, <1>6, <1>7, <1>8 DEF PollerStep, PollerMove, SignalStep

\* A step of anybody overtakes the reloads that are under way if it changes what
\* they read.
LEMMA NotOvertaken ==
    ASSUME Overtake, NEW c \in Caller \ overtaken', Reading(c)', pc'[c] = pc[c]
    PROVE  c \notin overtaken /\ UNCHANGED <<rules, paused>>
  BY DEF Overtake, Reading

\* The poller keeps the cache in step.
LEMMA PollerFollows ==
    ASSUME TypeInv, FollowInv, PollerStep
    PROVE  FollowInv'
<1>1. UNCHANGED <<pc, got, rules, cache.rules>> /\ Overtake
  BY PollerKeepsHandlers, PollerKeepsSettings DEF PollerStep
<1>2. ASSUME NEW c \in Caller \ overtaken'
      PROVE  (Reading(c)' => got'[c].rules = rules') /\ (pc'[c] = "install" => got'[c].paused = paused')
  <2>1. CASE Reading(c)'
    <3>1. c \in Caller \ overtaken /\ UNCHANGED <<rules, paused>> /\ Reading(c)
      BY <1>1, <2>1, NotOvertaken DEF Reading
    <3> QED BY <1>1, <3>1 DEF FollowInv
  <2>2. CASE ~Reading(c)'
    BY <2>2 DEF Reading
  <2> QED BY <2>1, <2>2
<1>3. ASSUME Reloaded', ~behind'
      PROVE  /\ cache'.rules = rules'
             /\ tick'.pc # "mark" => cache'.paused = paused'
             /\ tick'.pc = "mark" => cache'.paused \ {Pid}' = paused' \ {Pid}'
  <2>1. Reloaded
    BY <1>1, <1>3 DEF Reloaded
  <2>2. CASE UNCHANGED <<paused, cache.paused, behind>> /\ tick.pc # "mark" /\ tick'.pc # "mark"
    BY <1>1, <1>3, <2>1, <2>2 DEF FollowInv
  <2>3. CASE /\ tick.pc = "resume" /\ tick'.pc = "mark" /\ Pid' = Pid
             /\ paused' = paused \ {Pid} /\ UNCHANGED <<cache, behind>>
    BY <1>1, <1>3, <2>1, <2>3 DEF FollowInv
  <2>4. CASE /\ tick.pc = "mark" /\ tick'.pc # "mark" /\ UNCHANGED paused
             /\ cache'.paused = cache.paused \ {Pid} /\ behind' = (behind \/ Pid \in paused)
    BY <1>1, <1>3, <2>1, <2>4 DEF FollowInv
  <2> QED BY <2>2, <2>3, <2>4, PollerKeepsSettings
<1> QED BY <1>2, <1>3 DEF FollowInv

\* So do the calls and the steps of the handlers.
LEMMA ClientFollows ==
    ASSUME TypeInv, FollowInv, NEW c \in Caller, Client(c)
    PROVE  FollowInv'
<1>1. /\ pc[c] = "idle" /\ UNCHANGED <<cache, behind, tick>> /\ pc'[c] \notin {"paused", "install"}
      /\ \A d \in Caller : d # c => pc'[d] = pc[d] /\ got'[d] = got[d]
  BY ClientReloads, OtherHandlers DEF pollVars
<1>2. ASSUME NEW d \in Caller \ overtaken'
      PROVE  (Reading(d)' => got'[d].rules = rules') /\ (pc'[d] = "install" => got'[d].paused = paused')
  <2>1. CASE Reading(d)'
    <3>1. d # c /\ pc'[d] = pc[d] /\ got'[d] = got[d] /\ Reading(d)
      BY <1>1, <2>1 DEF Reading
    <3>2. d \in Caller \ overtaken /\ UNCHANGED <<rules, paused>>
      BY <2>1, <3>1, NotOvertaken DEF Client
    <3> QED BY <3>1, <3>2 DEF FollowInv
  <2>2. CASE ~Reading(d)'
    BY <2>2 DEF Reading
  <2> QED BY <2>1, <2>2
<1>3. ASSUME Reloaded' PROVE Reloaded /\ UNCHANGED <<rules, paused>>
  <2>1. pc'[c] # "rules"
    BY <1>3 DEF Reloaded
  <2> QED BY <1>1, <1>3, <2>1, ClientReloads DEF Reloaded
<1>4. Pid' = Pid
  BY <1>1 DEF Pid, Sig
<1> QED BY <1>1, <1>2, <1>3, <1>4 DEF FollowInv

LEMMA HandlerFollows ==
    ASSUME TypeInv, FollowInv, NEW c \in Caller, HandlerNext(c)
    PROVE  FollowInv'
<1>1. /\ UNCHANGED tick /\ UNCHANGED paused /\ Overtake
      /\ \A d \in Caller : d # c => pc'[d] = pc[d] /\ got'[d] = got[d]
  BY HandlerReloads, OtherHandlers DEF pollVars, HandlerNext
<1>2. ASSUME NEW d \in Caller \ overtaken'
      PROVE  (Reading(d)' => got'[d].rules = rules') /\ (pc'[d] = "install" => got'[d].paused = paused')
  <2>1. CASE Reading(d)' /\ d # c
    <3>1. pc'[d] = pc[d] /\ got'[d] = got[d] /\ Reading(d)
      BY <1>1, <2>1 DEF Reading
    <3>2. d \in Caller \ overtaken /\ UNCHANGED <<rules, paused>>
      BY <1>1, <2>1, <3>1, NotOvertaken
    <3> QED BY <3>1, <3>2 DEF FollowInv
  <2>2. CASE Reading(d)' /\ d = c /\ pc[c] = "rules"
    BY <2>2, HandlerReloads DEF Reading
  <2>3. CASE Reading(d)' /\ d = c /\ pc[c] # "rules"
    <3>1. /\ UNCHANGED <<rules, cache>> /\ pc[c] = "paused" /\ pc'[c] = "install"
          /\ got'[c].rules = got[c].rules /\ got'[c].paused = paused
      BY <2>3, HandlerReloads DEF Reading
    <3>2. c \notin overtaken
      BY <1>1, <2>3, <3>1 DEF Overtake
    <3> QED BY <1>1, <2>3, <3>1, <3>2 DEF FollowInv, Reading
  <2>4. CASE ~Reading(d)'
    BY <2>4 DEF Reading
  <2> QED BY <2>1, <2>2, <2>3, <2>4
<1>3. ASSUME Reloaded', ~behind'
      PROVE  /\ cache'.rules = rules'
             /\ tick'.pc # "mark" => cache'.paused = paused'
             /\ tick'.pc = "mark" => cache'.paused \ {Pid}' = paused' \ {Pid}'
  <2>1. pc'[c] \notin {"rules", "paused", "install"} /\ Pid' = Pid
    BY <1>1, <1>3 DEF Reloaded, Pid, Sig
  <2>2. CASE /\ UNCHANGED <<rules, cache.rules, cache.paused>> /\ (behind => behind')
             /\ pc[c] \notin {"rules", "paused", "install"}
    <3>1. Reloaded /\ ~behind
      BY <1>1, <1>3, <2>2 DEF Reloaded
    <3> QED BY <1>1, <2>1, <2>2, <3>1 DEF FollowInv
  <2>3. CASE /\ UNCHANGED rules /\ pc[c] = "install"
             /\ cache'.rules = got[c].rules /\ cache'.paused = got[c].paused
             /\ behind' = (c \in overtaken)
    <3>1. c \in Caller \ overtaken
      BY <1>3, <2>3
    <3> QED BY <1>1, <2>1, <2>3, <3>1 DEF FollowInv, Reading
  <2> QED BY <1>3, <2>1, <2>2, <2>3, HandlerReloads
<1> QED BY <1>2, <1>3 DEF FollowInv

\* A tick keeps the snapshot it began with.
LEMMA SnapshotKept ==
    ASSUME TypeInv, PollerStep, ~(\E s \in Sightings : StartTick(s))
    PROVE  UNCHANGED <<quiet, doubt>> /\ tick.pc # "idle" /\ (tick'.pc = "idle" \/ tick'.snap = tick.snap)
<1>1. tick \in TickInProgress /\ (tick.pc # "idle" => tick.queue # <<>>)
  BY DEF TypeInv, PollInv
<1>2. ASSUME NEW t \in TickInProgress, t.queue # <<>>, NextSignal(t), t.snap = tick.snap
      PROVE  tick'.pc = "idle" \/ tick'.snap = tick.snap
  BY <1>2, NextSignalType, IdleTickType
<1>3. UNCHANGED <<quiet, doubt>> /\ tick.pc # "idle"
  <2>1. CASE SignalStep
    BY <2>1, SignalStepKeeps
  <2>2. CASE ResumeProjectByID \/ MarkActive \/ ArmResumed \/ CounterReset \/ InsertTick \/ SignalFails
    BY <2>2 DEF ResumeProjectByID, MarkActive, ArmResumed, CounterReset, InsertTick, SignalFails, history
  <2> QED BY <2>1, <2>2 DEF PollerStep, PollerMove, SignalStep
<1>4. CASE SkipIgnored \/ GateAgain \/ SignalFails
  BY <1>1, <1>2, <1>3, <1>4 DEF SkipIgnored, GateAgain, SignalFails
<1>5. CASE DropPaused \/ SkipTicked
  BY <1>2, <1>3, <1>5, AfterHumanType DEF DropPaused, SkipTicked
<1>6. CASE BeginResume \/ Pass
  <2>1. \E where \in Poll : tick' = [AfterHuman EXCEPT !.pc = where]
    BY <1>6 DEF BeginResume, Pass, Poll
  <2> QED BY <1>3, <2>1, AfterHumanType DEF TickInProgress
<1>7. CASE GateSuppress
  <2> DEFINE t == [tick EXCEPT !.counted = @ \cup {Pid}]
  <2>1. NextSignal(t) /\ Gated
    BY <1>7 DEF GateSuppress
  <2>2. t \in TickInProgress /\ t.queue # <<>> /\ t.snap = tick.snap
    BY <1>1, <1>3, <2>1, SignalTypes DEF TickInProgress
  <2> HIDE DEF t
  <2> QED BY <1>2, <1>3, <2>1, <2>2
<1>8. CASE GateDisarm \/ DisarmHuman \/ ResumeProjectByID
  BY <1>1, <1>3, <1>8 DEF GateDisarm, DisarmHuman, ResumeProjectByID, TickInProgress
<1>11. CASE ArmResumed \/ CounterReset
  <2>1. (\E where \in Poll : tick' = [tick EXCEPT !.pc = where]) \/ NextSignal(tick)
    BY <1>11 DEF ArmResumed, CounterReset, Poll
  <2> QED BY <1>1, <1>2, <1>3, <2>1 DEF TickInProgress
<1>9. CASE MarkActive
  <2>1. (\E where \in Poll : tick' = [tick EXCEPT !.pc = where]) \/ NextSignal(tick)
    BY <1>9 DEF MarkActive, Poll
  <2> QED BY <1>1, <1>2, <1>3, <2>1 DEF TickInProgress
<1>10. CASE InsertTick
  <2> DEFINE t == [tick EXCEPT !.ticked = @ \cup ({Pid} \ {NoProject})]
  <2>1. NextSignal(t) \/ NextSignal(tick)
    BY <1>10 DEF InsertTick
  <2>2. t \in TickInProgress /\ t.queue # <<>> /\ t.snap = tick.snap
    BY <1>1, <1>3, SignalTypes DEF TickInProgress
  <2> HIDE DEF t
  <2> QED BY <1>1, <1>2, <1>3, <2>1, <2>2
<1> QED BY <1>4, <1>5, <1>6, <1>7, <1>8, <1>9, <1>10, <1>11 DEF PollerStep, PollerMove

\* A project that was paused and at rest when the tick began is paused in its
\* snapshot, unless the cache was behind.
QuietInv == tick.pc # "idle" /\ ~doubt => quiet \subseteq tick.snap.paused

LEMMA QuietKept ==
    ASSUME TypeInv, FollowInv, QuietInv, Next \/ UNCHANGED vars
    PROVE  QuietInv'
<1>1. CASE \E s \in Sightings : StartTick(s)
  <2>1. tick'.snap = cache /\ quiet' = (IF \A c \in Caller : pc[c] = "idle" THEN paused ELSE {})
        /\ doubt' = behind /\ tick.pc = "idle"
    BY <1>1 DEF StartTick, IdleTick
  <2> QED BY <2>1 DEF QuietInv, FollowInv, Reloaded
<1>2. CASE PollerStep /\ ~(\E s \in Sightings : StartTick(s))
  BY <1>2, SnapshotKept DEF QuietInv
<1>3. ASSUME NEW c \in Caller, Client(c) \/ HandlerNext(c) PROVE QuietInv'
  <2>1. UNCHANGED <<quiet, doubt>>
    <3>1. CASE Client(c)
      BY <3>1, ClientMoves DEF history
    <3>2. CASE HandlerNext(c)
      BY <3>2 DEF HandlerNext, HandlerMove, TagStatement, ReadRules, ReadPaused, Install, ListProjects,
         ArmAllProjects, ResetSuppressed, ArmNew, ClearSuppressed, HandlerFails, HandlerStep,
         history
    <3> QED BY <1>3, <3>1, <3>2
  <2> QED BY <1>3, <2>1, OtherHandlers DEF QuietInv, pollVars
<1>4. CASE EmptyTick \/ UNCHANGED vars
  BY <1>4 DEF EmptyTick, vars, pollVars, history, QuietInv
<1> QED BY <1>1, <1>2, <1>3, <1>4 DEF Next

\* The invariant of the cache, for any signals, calls, callers and failures.
LEMMA FollowInvariant == Spec => [](TypeInv /\ FollowInv /\ QuietInv)
<1>1. Init => TypeInv /\ FollowInv /\ QuietInv
  <2> SUFFICES ASSUME Init PROVE FollowInv /\ QuietInv
    BY InitTypes
  <2>1. /\ cache.paused = paused /\ cache.rules = rules
        /\ (\A c \in Caller : pc[c] = "idle") /\ tick = IdleTick
    BY DEF Init
  <2>2. tick.pc = "idle"
    BY <2>1 DEF IdleTick
  <2> QED BY <2>1, <2>2 DEF FollowInv, QuietInv, Reading
<1>2. TypeInv /\ FollowInv /\ QuietInv /\ [Next]_vars => (TypeInv /\ FollowInv /\ QuietInv)'
  <2> SUFFICES ASSUME TypeInv, FollowInv, QuietInv, Next \/ UNCHANGED vars
               PROVE  TypeInv' /\ FollowInv' /\ QuietInv'
    OBVIOUS
  <2>1. ASSUME EmptyTick \/ UNCHANGED vars PROVE FollowInv'
    BY <2>1 DEF EmptyTick, vars, dbVars, cacheVars, pollVars, rpcVars, history, FollowInv, Reading,
       Reloaded, Pid, Sig
  <2> QED BY <2>1, TypesKept, QuietKept, PollerFollows, ClientFollows, HandlerFollows DEF Next
<1> QED BY <1>1, <1>2, PTL DEF Spec

\* With any number of callers, any calls, failing statements and resumes by the
\* poller: when no reload is to come, ticks are decided by the rules and the pauses
\* of the database, unless a reload was overtaken, a reload failed or a resume
\* crossed a pause after the last reload that nothing overtook.
THEOREM CacheFollows == Spec => []CacheSettles
<1>1. FollowInv => CacheSettles
  BY DEF FollowInv, CacheSettles, Reloaded
<1> QED BY <1>1, FollowInvariant, PTL

\* Under the same exceptions, and with as many callers and failures, a project that
\* was paused, with no handler running, when a tick began gets nothing from it but
\* for a transcript, even if the tick or a call resumes it meanwhile.
THEOREM PausesAreQuiet == Spec => PausedIsQuiet
<1>1. ASSUME TypeInv, QuietInv
      PROVE  [tick.pc = "insert" /\ tick' # tick /\ Pid \in quiet /\ ~IsTranscript /\ ~doubt
                => UNCHANGED ticks]_vars
  BY <1>1 DEF TypeInv, PollInv, QuietInv, Paused
<1> QED BY <1>1, FollowInvariant, PTL DEF PausedIsQuiet
=============================================================================
