---------------------------- MODULE Attribution ----------------------------
(***************************************************************************)
(* How a poll tick becomes a project's time, while RPC handlers change     *)
(* what it is decided from: the SQLite database, the runtime cache, the    *)
(* poller (pipeline.go, RunTick after its signals are collected) and the   *)
(* handlers of rpc.go that write projects, rules, pauses and arms.         *)
(*                                                                         *)
(* The database has one connection, so every statement, and every          *)
(* transaction, is one step.  A cache mutator is one step (ArmCache shows  *)
(* that it may be), apart from the reset of the suppression counters,      *)
(* which follows the swap, in the poller as in the handlers.  Upserting an *)
(* observation, checking whether it is ignored and what the poller then    *)
(* does up to its next statement or swap are one step: no other goroutine  *)
(* reads or writes what they use in between.                               *)
(***************************************************************************)
EXTENDS Naturals, Sequences, FiniteSetsExt, SequencesExt

CONSTANTS
    MaxProject,     \* project ids are 1..MaxProject
    Obs,            \* observations: the distinct signal signatures
    Source,         \* the source of each observation
    Space,          \* the herdr space of each observation, or NoSpace
    NoSpace,
    Matchers,       \* what a rule can match, as sets of observations
    Sightings,      \* what one tick can see: [present, queue]
    InitDB,         \* databases the daemon can start from: [projects, paused, rules]
    Caller,         \* goroutines serving RPC calls
    CallKinds,      \* the calls the clients make
    MayFail,        \* TRUE: a statement can fail (a deadline, a locked file)
    AutoDisarm,     \* AutoDisarmAgentTicks, 0 = disabled
    MaxNow,         \* bound: the last second of the clock
    Endless,        \* TRUE: ticks go on in the last second (for liveness)
    MaxCalls        \* bound: RPC calls

Project == 1..MaxProject
NoProject == 0

SourceKinds == {"focus", "agent", "transcript"}
Rule == [proj : Project, obs : Matchers]
Tick == [ts : 1..MaxNow, obs : Obs, proj : Project \cup {NoProject}]
Sighting == [present : BOOLEAN, queue : Seq(Obs) \ {<<>>}]

ASSUME ConstantsAssumption ==
    /\ MaxProject \in Nat \ {0}
    /\ AutoDisarm \in Nat
    /\ MaxNow \in Nat \ {0} /\ MaxCalls \in Nat
    /\ MayFail \in BOOLEAN /\ Endless \in BOOLEAN
    /\ Source \in [Obs -> SourceKinds]
    /\ Matchers \subseteq SUBSET Obs
    /\ Sightings \subseteq Sighting
    /\ InitDB \subseteq [projects : SUBSET Project, paused : SUBSET Project, rules : Seq(Rule)]
    /\ \A db \in InitDB : db.paused \subseteq db.projects

VARIABLES
    \* the database
    projects,       \* rows of projects
    paused,         \* ... with paused = 1
    rules,          \* rules in (priority, id) order
    seen,           \* rows of observations
    ignored,        \* rows of ignored_observations
    ticks,          \* rows of ticks
    \* the cache
    cache,          \* the installed CacheSnapshot
    suppressing,    \* projects whose suppression counter is above zero
    \* the poller
    now,            \* the second of the last tick that saw something
    streak,         \* armedAgentStreak
    tick,           \* the tick in progress
    \* the handlers
    pc,             \* per caller: where it is in its handler
    got,            \* per caller: what it has read or has still to do
    calls,          \* RPC calls made so far
    \* history
    quiet,          \* projects paused, with no handler running, when the tick began
    doubt,          \* the cache was behind when the tick began
    overtaken,      \* callers whose reload read rules or pauses that have changed since
    behind,         \* the cache may be behind the database with no reload to come
    evidence        \* agent ticks counted towards a disarm since the project was last armed

dbVars == <<projects, paused, rules, seen, ignored, ticks>>
cacheVars == <<cache, suppressing>>
pollVars == <<now, streak, tick>>
rpcVars == <<pc, got, calls>>
history == <<quiet, doubt, behind, evidence>>
vars == <<dbVars, cacheVars, pollVars, rpcVars, history, overtaken>>

CacheSnapshot == [rules : Seq(Rule), paused : SUBSET Project, armed : SUBSET Project]

NothingRead == [rules |-> <<>>, paused |-> {}, ids |-> {}, proj |-> NoProject,
                obs |-> {}, rule |-> {}, thenArm |-> FALSE]
Poll == {"idle", "signal", "disarmed", "autoDisarmed", "resume", "mark", "arm", "armed", "insert"}
Handler == {"idle", "rules", "paused", "install", "list", "armAll", "armedAll",
            "armNew", "armedNew", "tag"}

-----------------------------------------------------------------------------
(* domain.MatchRules: the project of the first rule that matches.          *)
MatchRules(o, rs) ==
    IF \E i \in 1..Len(rs) : o \in rs[i].obs
    THEN rs[CHOOSE i \in 1..Len(rs) :
              o \in rs[i].obs /\ \A j \in 1..(i - 1) : o \notin rs[j].obs].proj
    ELSE NoProject

\* The rules that stay when p's go with it (ON DELETE CASCADE).
Without(rs, p) ==
    LET kept[i \in 0..Len(rs)] ==
            IF i = 0 THEN <<>>
            ELSE IF rs[i].proj = p THEN kept[i - 1]
            ELSE Append(kept[i - 1], rs[i])
    IN  kept[Len(rs)]

\* SQLite reuses the largest id once its row is deleted (no AUTOINCREMENT).
NextId(S) == IF S = {} THEN 1 ELSE Max(S) + 1

-----------------------------------------------------------------------------
(* The poller.  tick.queue holds the signals still to be processed.        *)
IdleTick == [pc |-> "idle", present |-> FALSE, queue |-> <<>>,
             snap |-> [rules |-> <<>>, paused |-> {}, armed |-> {}],
             disarmed |-> {}, counted |-> {}, ticked |-> {}]

Sig == Head(tick.queue)
Pid == MatchRules(Sig, tick.snap.rules)
IsAgent == Source[Sig] = "agent"
IsTranscript == Source[Sig] = "transcript"
\* A focus or transcript signal of a project disarms it.
Human == ~IsAgent /\ Pid # NoProject
Paused == Pid \in tick.snap.paused
Resumes == Paused /\ (IsTranscript \/ (IsAgent /\ tick.present))
Gated == IsAgent /\ Pid \in tick.snap.armed \ tick.disarmed /\ ~Paused

\* On to the next signal, with the tick's own sets as they now are.
NextSignal(t) ==
    tick' = IF Len(t.queue) = 1 THEN IdleTick
            ELSE [t EXCEPT !.queue = Tail(@), !.pc = "signal"]

StartTick(s) ==
    /\ tick.pc = "idle" /\ (now < MaxNow \/ Endless)
    /\ now' = IF now < MaxNow THEN now + 1 ELSE now
    /\ tick' = [IdleTick EXCEPT !.pc = "signal", !.present = s.present,
                                !.queue = s.queue, !.snap = cache]
    /\ quiet' = IF \A c \in Caller : pc[c] = "idle" THEN paused ELSE {}
    /\ doubt' = behind
    /\ UNCHANGED <<dbVars, cacheVars, streak, rpcVars, behind, evidence>>

\* A tick that saw nothing returns before it touches anything.
EmptyTick == tick.pc = "idle" /\ UNCHANGED vars

\* UpsertObservation and IsObservationIgnored.
Observe ==
    /\ tick.pc = "signal"
    /\ seen' = seen \cup {Sig}
    /\ UNCHANGED <<projects, paused, rules, ignored, ticks, now, rpcVars, quiet, doubt, behind>>

SkipIgnored ==
    /\ Observe /\ Sig \in ignored
    /\ NextSignal(tick)
    /\ UNCHANGED <<cacheVars, streak, evidence>>

\* DisarmProject for a focus or transcript signal: the swap.
DisarmHuman ==
    /\ Observe /\ Sig \notin ignored /\ Human /\ Pid \in cache.armed
    /\ cache' = [cache EXCEPT !.armed = @ \ {Pid}]
    /\ tick' = [tick EXCEPT !.pc = "disarmed"]
    /\ UNCHANGED <<suppressing, streak, evidence>>

\* Mutant: the warning survives the disarm.
DecidesKeepingWarning ==
    /\ \/ Observe /\ Sig \notin ignored /\ ~(Human /\ Pid \in cache.armed)
       \/ tick.pc = "disarmed" /\ UNCHANGED <<dbVars, now, rpcVars, quiet, doubt, behind>>
    /\ streak' = IF Human THEN [streak EXCEPT ![Pid] = 0] ELSE streak
    /\ evidence' = IF Human THEN [evidence EXCEPT ![Pid] = 0] ELSE evidence
    /\ UNCHANGED cacheVars

\* What leads to a decision: the signal is not ignored and disarms nothing, or
\* the swap is done and the suppression counter goes, then the streak.
Decides ==
    /\ \/ Observe /\ Sig \notin ignored /\ ~(Human /\ Pid \in cache.armed)
       \/ tick.pc = "disarmed" /\ UNCHANGED <<dbVars, now, rpcVars, quiet, doubt, behind>>
    /\ suppressing' = IF tick.pc = "disarmed" THEN suppressing \ {Pid} ELSE suppressing
    /\ streak' = IF Human THEN [streak EXCEPT ![Pid] = 0] ELSE streak
    /\ evidence' = IF Human THEN [evidence EXCEPT ![Pid] = 0] ELSE evidence
    /\ UNCHANGED cache

AfterHuman == IF Human THEN [tick EXCEPT !.disarmed = @ \cup {Pid}] ELSE tick

\* Focus, or an agent while the user is away, does not resume a project.
DropPaused ==
    /\ Decides /\ Paused /\ ~Resumes
    /\ NextSignal(AfterHuman)

BeginResume ==
    /\ Decides /\ Resumes
    /\ tick' = [AfterHuman EXCEPT !.pc = "resume"]

\* The arming gate was already taken for this project in this tick.
GateAgain ==
    /\ Observe /\ Sig \notin ignored /\ Gated /\ Pid \in tick.counted
    /\ NextSignal(tick)
    /\ UNCHANGED <<cacheVars, streak, evidence>>

CountsTowardsDisarm == tick.present /\ AutoDisarm > 0

\* Mutant: the streak is not counted.
GateSuppressForgets ==
    /\ Observe /\ Sig \notin ignored /\ Gated /\ Pid \notin tick.counted
    /\ ~(CountsTowardsDisarm /\ streak[Pid] + 1 >= AutoDisarm)
    /\ suppressing' = suppressing \cup {Pid}
    /\ NextSignal([tick EXCEPT !.counted = @ \cup {Pid}])
    /\ UNCHANGED <<cache, streak, evidence>>

GateSuppress ==
    /\ Observe /\ Sig \notin ignored /\ Gated /\ Pid \notin tick.counted
    /\ ~(CountsTowardsDisarm /\ streak[Pid] + 1 >= AutoDisarm)
    /\ streak' = IF CountsTowardsDisarm THEN [streak EXCEPT ![Pid] = @ + 1] ELSE streak
    /\ evidence' = IF CountsTowardsDisarm THEN [evidence EXCEPT ![Pid] = @ + 1] ELSE evidence
    /\ suppressing' = suppressing \cup {Pid}
    /\ NextSignal([tick EXCEPT !.counted = @ \cup {Pid}])
    /\ UNCHANGED cache

\* DisarmProject after a full streak: the swap, if there is anything to disarm.
GateDisarm ==
    /\ Observe /\ Sig \notin ignored /\ Gated /\ Pid \notin tick.counted
    /\ CountsTowardsDisarm /\ streak[Pid] + 1 >= AutoDisarm
    /\ cache' = [cache EXCEPT !.armed = @ \ {Pid}]
    /\ streak' = [streak EXCEPT ![Pid] = 0]
    /\ evidence' = [evidence EXCEPT ![Pid] = 0]
    /\ tick' = [tick EXCEPT !.pc = IF Pid \in cache.armed THEN "autoDisarmed" ELSE "insert",
                            !.counted = @ \cup {Pid}, !.disarmed = @ \cup {Pid}]
    /\ UNCHANGED suppressing

\* A transcript of a project that already has a tick for this second.
TickedAlready == IsTranscript /\ Pid \in tick.ticked

SkipTicked ==
    /\ Decides /\ ~Paused /\ TickedAlready
    /\ NextSignal(AfterHuman)

Pass ==
    /\ Decides /\ ~Paused /\ ~Gated /\ ~TickedAlready
    /\ tick' = [AfterHuman EXCEPT !.pc = "insert"]

\* ResumeProjectByID: an UPDATE, with no effect on a deleted project.
ResumeProjectByID ==
    /\ tick.pc = "resume"
    /\ paused' = paused \ {Pid}
    /\ tick' = [tick EXCEPT !.pc = "mark"]
    /\ UNCHANGED <<projects, rules, seen, ignored, ticks, cacheVars, now, streak,
                   rpcVars, history>>

\* MarkProjectActive; a transcript goes on to its tick, an agent to ArmProject.
MarkActive ==
    /\ tick.pc = "mark"
    /\ cache' = [cache EXCEPT !.paused = @ \ {Pid}]
    /\ behind' = (behind \/ Pid \in paused)
    /\ IF IsAgent THEN tick' = [tick EXCEPT !.pc = "arm"] /\ UNCHANGED <<streak, evidence>>
       ELSE /\ streak' = [streak EXCEPT ![Pid] = 0]
            /\ evidence' = [evidence EXCEPT ![Pid] = 0]
            /\ IF TickedAlready THEN NextSignal(tick)
               ELSE tick' = [tick EXCEPT !.pc = "insert"]
    /\ UNCHANGED <<dbVars, suppressing, now, rpcVars, quiet, doubt>>

\* ArmProject of a project an agent resumed: the swap, unless it is armed.
ArmResumed ==
    /\ tick.pc = "arm"
    /\ cache' = [cache EXCEPT !.armed = @ \cup {Pid}]
    /\ streak' = [streak EXCEPT ![Pid] = 0]
    /\ evidence' = [evidence EXCEPT ![Pid] = 0]
    /\ IF Pid \in cache.armed THEN NextSignal(tick) ELSE tick' = [tick EXCEPT !.pc = "armed"]
    /\ UNCHANGED <<dbVars, suppressing, now, rpcVars, quiet, doubt, behind>>

\* clearSuppressed, after the swap of an automatic disarm or arm.
CounterReset ==
    /\ tick.pc \in {"autoDisarmed", "armed"}
    /\ suppressing' = suppressing \ {Pid}
    /\ IF tick.pc = "armed" THEN NextSignal(tick) ELSE tick' = [tick EXCEPT !.pc = "insert"]
    /\ UNCHANGED <<dbVars, cache, now, streak, rpcVars, history>>

\* INSERT OR IGNORE: one row per second and observation, whose project must
\* exist; a violated foreign key is an error, logged, and the signal is lost.
InsertTick ==
    /\ tick.pc = "insert"
    /\ IF Pid \in projects \cup {NoProject}
       THEN /\ ticks' = IF \E t \in ticks : t.ts = now /\ t.obs = Sig THEN ticks
                        ELSE ticks \cup {[ts |-> now, obs |-> Sig, proj |-> Pid]}
            /\ NextSignal([tick EXCEPT !.ticked = @ \cup ({Pid} \ {NoProject})])
       ELSE UNCHANGED ticks /\ NextSignal(tick)
    /\ UNCHANGED <<projects, paused, rules, seen, ignored, cacheVars, now, streak,
                   rpcVars, history>>

\* A statement of the poller fails: it is logged and the signal is dropped.
SignalFails ==
    /\ MayFail
    /\ tick.pc \in {"signal", "resume", "insert"}
    /\ seen' \in {seen, IF tick.pc = "signal" THEN seen \cup {Sig} ELSE seen}
    /\ NextSignal(tick)
    /\ UNCHANGED <<projects, paused, rules, ignored, ticks, cacheVars, now, streak,
                   rpcVars, history>>

\* A reload between its first read and its install is overtaken by whatever
\* changes a rule or a pause (history, part of every step).
Reading(c) == pc[c] \in {"paused", "install"}
Overtake ==
    overtaken' = {c \in Caller : /\ Reading(c)'
                                 /\ \/ c \in overtaken
                                    \/ Reading(c) /\ <<rules, paused>>' # <<rules, paused>>}

PollerMove ==
    \/ \E s \in Sightings : StartTick(s)
    \/ SkipIgnored \/ DisarmHuman \/ DropPaused \/ BeginResume
    \/ GateAgain \/ GateSuppress \/ GateDisarm
    \/ SkipTicked \/ Pass
    \/ ResumeProjectByID \/ MarkActive \/ ArmResumed \/ CounterReset
    \/ InsertTick \/ SignalFails

PollerStep == PollerMove /\ Overtake

-----------------------------------------------------------------------------
(* The handlers.  Called is the first statement of a handler.              *)
Called(c, kind) ==
    /\ kind \in CallKinds
    /\ pc[c] = "idle" /\ calls < MaxCalls
    /\ calls' = calls + 1
    /\ UNCHANGED <<seen, cacheVars, pollVars, history>>

Goto(c, where) == pc' = [pc EXCEPT ![c] = where]

Done(c) == Goto(c, "idle") /\ got' = [got EXCEPT ![c] = NothingRead]

\* Mutant: no reload after the statement.
SetProjectPausedNoReload(c, p) ==
    /\ Called(c, "pause") /\ p \in projects
    /\ paused' = paused \cup {p}
    /\ UNCHANGED <<projects, rules, ignored, ticks, pc, got>>

SetProjectPaused(c, p) ==
    /\ Called(c, "pause") /\ p \in projects
    /\ paused' = paused \cup {p}
    /\ Goto(c, "rules")
    /\ UNCHANGED <<projects, rules, ignored, ticks, got>>

ProjectResume(c, p) ==
    /\ Called(c, "resume") /\ p \in projects
    /\ paused' = paused \ {p}
    /\ Goto(c, "rules")
    /\ UNCHANGED <<projects, rules, ignored, ticks, got>>

ProjectPauseAll(c) ==
    /\ Called(c, "pauseAll")
    /\ paused' = projects
    /\ Goto(c, "rules")
    /\ UNCHANGED <<projects, rules, ignored, ticks, got>>

ProjectResumeAll(c) ==
    /\ Called(c, "resumeAll")
    /\ paused' = {}
    /\ Goto(c, "rules")
    /\ got' = [got EXCEPT ![c].thenArm = TRUE]
    /\ UNCHANGED <<projects, rules, ignored, ticks>>

ProjectAdd(c) ==
    /\ Called(c, "add") /\ NextId(projects) \in Project
    /\ projects' = projects \cup {NextId(projects)}
    /\ got' = [got EXCEPT ![c].proj = NextId(projects)]
    /\ Goto(c, "armNew")
    /\ UNCHANGED <<paused, rules, ignored, ticks>>

\* Mutant: foreign keys are not enforced.
ProjectDeleteAlways(c, p) ==
    /\ Called(c, "delete") /\ p \in projects
    /\ projects' = projects \ {p}
    /\ paused' = paused \ {p}
    /\ rules' = Without(rules, p)
    /\ Goto(c, "rules")
    /\ UNCHANGED <<ignored, ticks, got>>

\* Ticks restrict the deletion, rules go with the project.
ProjectDelete(c, p) ==
    /\ Called(c, "delete") /\ p \in projects
    /\ \A t \in ticks : t.proj # p
    /\ projects' = projects \ {p}
    /\ paused' = paused \ {p}
    /\ rules' = Without(rules, p)
    /\ Goto(c, "rules")
    /\ UNCHANGED <<ignored, ticks, got>>

\* AddRule with a priority that places it before the i-th rule.
RuleAdd(c, p, m, i) ==
    /\ Called(c, "ruleAdd") /\ p \in projects
    /\ rules' = InsertAt(rules, i, [proj |-> p, obs |-> m])
    /\ Goto(c, "rules")
    /\ UNCHANGED <<projects, paused, ignored, ticks, got>>

\* Mutant: no reload after the statement.
RuleDeleteNoReload(c, i) ==
    /\ Called(c, "ruleDelete")
    /\ rules' = RemoveAt(rules, i)
    /\ UNCHANGED <<projects, paused, ignored, ticks, pc, got>>

RuleDelete(c, i) ==
    /\ Called(c, "ruleDelete")
    /\ rules' = RemoveAt(rules, i)
    /\ Goto(c, "rules")
    /\ UNCHANGED <<projects, paused, ignored, ticks, got>>

\* Mutant: any observation id is accepted.
IgnoreSignatureAny(c, o) ==
    /\ Called(c, "ignore")
    /\ ignored' = ignored \cup {o}
    /\ UNCHANGED <<projects, paused, rules, ticks, pc, got>>

IgnoreSignature(c, o) ==
    /\ Called(c, "ignore") /\ o \in seen
    /\ ignored' = ignored \cup {o}
    /\ UNCHANGED <<projects, paused, rules, ticks, pc, got>>

\* Handlers whose statement changes only the allowlist, and SIGHUP.
WatchChange(c) ==
    /\ Called(c, "watch")
    /\ Goto(c, "rules")
    /\ UNCHANGED <<projects, paused, rules, ignored, ticks, got>>

\* TagSignature.  The project is looked up or created; rule is {} or the set
\* holding what the new rule matches.
TagSignature(c, p, o, rule) ==
    /\ Called(c, "tag") /\ o \in seen
    /\ \/ /\ p \in projects
          /\ UNCHANGED projects
          /\ Goto(c, "tag")
       \/ /\ p = NextId(projects)
          /\ projects' = projects \cup {p}
          /\ Goto(c, "armNew")
    /\ got' = [got EXCEPT ![c].proj = p, ![c].obs = {o}, ![c].rule = rule]
    /\ UNCHANGED <<paused, rules, ignored, ticks>>

\* Mutant: the sweep also takes ticks that have a project.
SweptAll(o, rule) ==
    {t \in ticks : IF rule = {} THEN t.obs = o
                   ELSE /\ \E m \in rule : t.obs \in m
                        /\ Space[o] \in {NoSpace, Space[t.obs]}}

\* The ticks a tag may credit: unassigned ones, of the one observation or of
\* those the rule matches in the space of the observation.
Swept(o, rule) ==
    {t \in ticks : /\ t.proj = NoProject
                   /\ IF rule = {} THEN t.obs = o
                      ELSE /\ \E m \in rule : t.obs \in m
                           /\ Space[o] \in {NoSpace, Space[t.obs]}}

Retag(S, p) == (ticks \ S) \cup {[t EXCEPT !.proj = p] : t \in S}

\* RetagSingleObservation, or the transaction of AddRule and the retroactive
\* sweep; a project deleted meanwhile makes the statement fail.
TagStatement(c) ==
    /\ pc[c] = "tag"
    /\ \E o \in got[c].obs :
        IF got[c].proj \notin projects THEN UNCHANGED <<ticks, rules>> /\ Done(c)
        ELSE /\ ticks' = Retag(Swept(o, got[c].rule), got[c].proj)
             /\ IF got[c].rule = {} THEN UNCHANGED rules /\ Done(c)
                ELSE /\ \E m \in got[c].rule, i \in 1..(Len(rules) + 1) :
                          rules' = InsertAt(rules, i, [proj |-> got[c].proj, obs |-> m])
                     /\ Goto(c, "rules")
                     /\ got' = [got EXCEPT ![c] = NothingRead]
    /\ UNCHANGED <<projects, paused, seen, ignored, cacheVars, pollVars, calls, history>>

-----------------------------------------------------------------------------
(* ReloadCache: three queries, then StorePreservingRuntime.                *)
HandlerStep(c, from) ==
    /\ pc[c] = from
    /\ behind' = IF from = "install" THEN c \in overtaken ELSE behind
    /\ UNCHANGED <<dbVars, pollVars, calls, quiet, doubt>>

ReadRules(c) ==
    /\ HandlerStep(c, "rules")
    /\ got' = [got EXCEPT ![c].rules = rules]
    /\ Goto(c, "paused")
    /\ UNCHANGED <<cacheVars, evidence>>

ReadPaused(c) ==
    /\ HandlerStep(c, "paused")
    /\ got' = [got EXCEPT ![c].paused = paused]
    /\ Goto(c, "install")
    /\ UNCHANGED <<cacheVars, evidence>>

\* Mutant: Store instead of StorePreservingRuntime.
InstallStore(c) ==
    /\ HandlerStep(c, "install")
    /\ cache' = [rules |-> got[c].rules, paused |-> got[c].paused, armed |-> {}]
    /\ IF got[c].thenArm THEN Goto(c, "list") /\ UNCHANGED got ELSE Done(c)
    /\ UNCHANGED <<suppressing, evidence>>

Install(c) ==
    /\ HandlerStep(c, "install")
    /\ cache' = [rules |-> got[c].rules, paused |-> got[c].paused, armed |-> cache.armed]
    /\ IF got[c].thenArm THEN Goto(c, "list") /\ UNCHANGED got ELSE Done(c)
    /\ UNCHANGED <<suppressing, evidence>>

\* ProjectResumeAll, after its reload: ListProjects, ArmAllProjects.
ListProjects(c) ==
    /\ HandlerStep(c, "list")
    /\ got' = [got EXCEPT ![c] = [NothingRead EXCEPT !.ids = projects]]
    /\ Goto(c, "armAll")
    /\ UNCHANGED <<cacheVars, evidence>>

ArmAllProjects(c) ==
    /\ HandlerStep(c, "armAll")
    /\ IF got[c].ids = {} THEN UNCHANGED <<cache, evidence>> /\ Done(c)
       ELSE /\ cache' = [cache EXCEPT !.armed = got[c].ids]
            /\ evidence' = [p \in Project |-> IF p \in got[c].ids THEN 0 ELSE evidence[p]]
            /\ Goto(c, "armedAll") /\ UNCHANGED got
    /\ UNCHANGED suppressing

ResetSuppressed(c) ==
    /\ HandlerStep(c, "armedAll")
    /\ suppressing' = {}
    /\ Done(c)
    /\ UNCHANGED <<cache, evidence>>

\* ArmProject of a project just added, then on to the tag if there is one.
AfterArm(c) == IF got[c].obs = {} THEN Done(c) ELSE Goto(c, "tag") /\ UNCHANGED got

ArmNew(c) ==
    /\ HandlerStep(c, "armNew")
    /\ evidence' = [evidence EXCEPT ![got[c].proj] = 0]
    /\ IF got[c].proj \in cache.armed THEN UNCHANGED cache /\ AfterArm(c)
       ELSE /\ cache' = [cache EXCEPT !.armed = @ \cup {got[c].proj}]
            /\ Goto(c, "armedNew") /\ UNCHANGED got
    /\ UNCHANGED suppressing

ClearSuppressed(c) ==
    /\ HandlerStep(c, "armedNew")
    /\ suppressing' = suppressing \ {got[c].proj}
    /\ AfterArm(c)
    /\ UNCHANGED <<cache, evidence>>

\* A statement fails: the handler returns the error, what it did before stays.
HandlerFails(c) ==
    /\ MayFail
    /\ pc[c] \in {"rules", "paused", "list", "tag"}
    /\ Done(c)
    /\ behind' = (behind \/ pc[c] \in {"rules", "paused"})
    /\ UNCHANGED <<dbVars, cacheVars, pollVars, calls, quiet, doubt, evidence>>

HandlerMove(c) ==
    \/ TagStatement(c)
    \/ ReadRules(c) \/ ReadPaused(c) \/ Install(c)
    \/ ListProjects(c) \/ ArmAllProjects(c) \/ ResetSuppressed(c)
    \/ ArmNew(c) \/ ClearSuppressed(c)
    \/ HandlerFails(c)

HandlerNext(c) == HandlerMove(c) /\ Overtake

ClientCall(c) ==
    \/ \E p \in Project : SetProjectPaused(c, p) \/ ProjectResume(c, p) \/ ProjectDelete(c, p)
    \/ ProjectPauseAll(c) \/ ProjectResumeAll(c) \/ ProjectAdd(c) \/ WatchChange(c)
    \/ \E p \in Project, m \in Matchers, i \in 1..(Len(rules) + 1) : RuleAdd(c, p, m, i)
    \/ \E i \in 1..Len(rules) : RuleDelete(c, i)
    \/ \E o \in Obs : IgnoreSignature(c, o)
    \/ \E p \in Project, o \in Obs, rule \in {{}} \cup {{m} : m \in Matchers} :
          TagSignature(c, p, o, rule)

Client(c) == ClientCall(c) /\ Overtake

\* The daemon at boot: the initial ReloadCache has run, nothing is armed.
Init ==
    /\ \E db \in InitDB :
        /\ projects = db.projects /\ paused = db.paused /\ rules = db.rules
        /\ cache = [rules |-> db.rules, paused |-> db.paused, armed |-> {}]
    /\ seen = {} /\ ignored = {} /\ ticks = {}
    /\ suppressing = {}
    /\ now = 0 /\ streak = [p \in Project |-> 0] /\ tick = IdleTick
    /\ pc = [c \in Caller |-> "idle"] /\ got = [c \in Caller |-> NothingRead] /\ calls = 0
    /\ quiet = {} /\ doubt = FALSE /\ overtaken = {} /\ behind = FALSE
    /\ evidence = [p \in Project |-> 0]

Next == PollerStep \/ EmptyTick \/ \E c \in Caller : Client(c) \/ HandlerNext(c)

Spec == Init /\ [][Next]_vars

\* The poller's goroutine keeps ticking (poll.go), and a handler that has been
\* called runs to its end: neither waits for anything but the database.
FairSpec == Spec /\ WF_vars(PollerStep) /\ \A c \in Caller : WF_vars(HandlerNext(c))

-----------------------------------------------------------------------------
StateTypes ==
    /\ projects \subseteq Project /\ paused \subseteq projects
    /\ rules \in Seq(Rule)
    /\ seen \subseteq Obs /\ ignored \subseteq seen
    /\ ticks \subseteq Tick
    /\ cache \in CacheSnapshot
    /\ suppressing \subseteq Project
    /\ now \in 0..MaxNow
    /\ streak \in [Project -> Nat]
    /\ tick \in [pc : Poll, present : BOOLEAN, queue : Seq(Obs), snap : CacheSnapshot,
                 disarmed : SUBSET Project, counted : SUBSET Project, ticked : SUBSET Project]
    /\ pc \in [Caller -> Handler]
    /\ got \in [Caller -> [rules : Seq(Rule), paused : SUBSET Project, ids : SUBSET Project,
                           proj : Project \cup {NoProject}, obs : SUBSET Obs,
                           rule : SUBSET Matchers, thenArm : BOOLEAN]]
    /\ calls \in 0..MaxCalls
    /\ quiet \subseteq Project
    /\ evidence \in [Project -> Nat]

TypeOK ==
    /\ StateTypes
    /\ doubt \in BOOLEAN /\ behind \in BOOLEAN /\ overtaken \subseteq Caller

\* A tick row never refers to a project that is gone: a project that has time
\* cannot be deleted, and a tick decided before the deletion of its project is
\* refused when it is written after it (schema.sql, ticks.project_id).
NoOrphanTick == \A r \in ticks : r.proj \in projects \cup {NoProject}

\* Recorded time is kept: no handler removes a tick or moves one that already
\* has a project; tagging and retroactive rules only give a project to ticks
\* that have none (queries.sql, "project_id IS NULL").
TicksAreKept ==
    [][\A r \in ticks : IF r.proj = NoProject
                        THEN \E q \in ticks' : q.ts = r.ts /\ q.obs = r.obs
                        ELSE r \in ticks']_vars

\* An existing project leaves the arm set only through a signal the poller
\* saw, never through a reload or through arming others: new and resumed
\* projects stay gated until there is evidence of work (the arm gate's design
\* note, goals 2 and 4).
OnlyPollerDisarms ==
    [][\A p \in projects : p \in cache.armed /\ p \notin cache'.armed => pc' = pc]_vars

\* Some handler is about to arm p; the poller has disarmed p and is about to
\* reset its counter.
Arming(p) == \E c \in Caller : pc[c] = "armNew" /\ got[c].proj = p
Clearing(p) == tick.pc \in {"disarmed", "autoDisarmed"} /\ Pid = p

\* A nonzero count of suppressed ticks, which Status shows as "armed -- Xm
\* suppressed", belongs to a project that is armed (DisarmProject: "the
\* suppressed warning no longer applies"), whatever snapshot the tick that
\* counted it was working from; but for the moments between a disarm and its
\* reset, and between the creation of a project under a reused id and its arm.
WarningMeansArmed ==
    \A p \in suppressing \cap projects : p \in cache.armed \/ Arming(p) \/ Clearing(p)

\* Ticks are decided by the rules and the pauses of the database (RuleAdd: "the
\* rule takes effect immediately") when no reload is to come and none of three
\* things has happened since the last reload that nothing overtook: a reload
\* installed what it had read before a change, a reload failed, or the poller
\* marked active a project that had been paused again.
CacheSettles ==
    /\ \A c \in Caller : pc[c] \notin {"rules", "paused", "install"}
    /\ ~behind
    => cache.rules = rules /\ (tick.pc # "mark" => cache.paused = paused)

\* A tick that begins with a project paused and no handler running credits it
\* nothing from a window or an agent (ProjectPause: "the pipeline does not
\* credit it any ticks even when its rules match"; a transcript resumes it by
\* design) ...
PausedNotCredited ==
    [][tick.pc = "insert" /\ tick' # tick /\ Pid \in quiet /\ ~IsTranscript
         => UNCHANGED ticks]_vars

\* ... unless one of the three things above had happened when it began.
PausedIsQuiet ==
    [][tick.pc = "insert" /\ tick' # tick /\ Pid \in quiet /\ ~IsTranscript /\ ~doubt
         => UNCHANGED ticks]_vars

\* Agent activity disarms a project only after AutoDisarm ticks of it since
\* the project was last armed (PipelineConfig: "an armed project must
\* accumulate before it auto-disarms").
FullStreak == [][GateDisarm => evidence[Pid] + 1 >= AutoDisarm]_vars

\* A tag that creates a rule leaves no tick behind: at rest, no unassigned tick
\* is of an observation the rules give to a project (TagSignature: the
\* transaction is there lest a tick be inserted "that the retag would miss").
TagMissesNoTick ==
    (\A c \in Caller : pc[c] = "idle") /\ tick.pc = "idle" =>
        \A r \in ticks : r.proj = NoProject => MatchRules(r.obs, rules) = NoProject

\* Sustained agent activity with the user present always ends an arming:
\* arming never drops billable time for ever.
Unstuck == \A p \in Project : p \in cache.armed ~> p \notin cache.armed
=============================================================================
