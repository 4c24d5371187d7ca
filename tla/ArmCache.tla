------------------------------ MODULE ArmCache ------------------------------
(***************************************************************************)
(* The runtime cache of the daemon, internal/daemon/cache.go: an atomic    *)
(* pointer to an immutable snapshot, changed by loops that load the        *)
(* pointer, build a changed copy and compare-and-swap it in, and a map of  *)
(* suppression counters under a mutex.                                     *)
(*                                                                         *)
(* A pointer is compared by identity and every swap installs a fresh one,  *)
(* so a loaded pointer is installed exactly until the next swap: stale is  *)
(* the set of callers whose loaded pointer has been replaced since.  The   *)
(* allowlist, rules and patterns of a snapshot travel with its pause set   *)
(* (all come from the database and only markActive changes one of them),   *)
(* so paused stands for them here; Attribution tells them apart.           *)
(***************************************************************************)
EXTENDS Naturals

CONSTANTS
    Project,        \* project ids
    Caller,         \* goroutines that use the cache
    MaxSuppressed   \* bound on a suppression counter

ASSUME MaxSuppressedAssumption == MaxSuppressed \in Nat

VARIABLES
    snap,           \* the snapshot the pointer refers to
    suppressed,     \* Cache.suppressed
    pc,             \* per caller: where it is in its operation
    op,             \* per caller: the operation it is running
    cur,            \* per caller: the snapshot it loaded
    stale           \* callers whose loaded pointer is no longer installed

vars == <<snap, suppressed, pc, op, cur, stale>>

Snapshot == [armed : SUBSET Project, paused : SUBSET Project]
EmptySnapshot == [armed |-> {}, paused |-> {}]

Kinds == {"markActive", "arm", "disarm", "armAll", "store"}
Op == [kind : Kinds, ids : SUBSET Project]
NoOp == [kind |-> "none", ids |-> {}]

\* The calls the program makes: one project for the first three, the listed
\* projects for armAll, the pause set read from the database for store.
OneProject == {"markActive", "arm", "disarm"}
Calls == [kind : OneProject, ids : {{p} : p \in Project}]
         \cup [kind : Kinds \ OneProject, ids : SUBSET Project]

-----------------------------------------------------------------------------
\* The early returns of the mutators.
MarkProjectActiveReturns(o, s) == o.kind = "markActive" /\ o.ids \cap s.paused = {}
ArmProjectReturns(o, s)        == o.kind = "arm" /\ o.ids \subseteq s.armed
DisarmProjectReturns(o, s)     == o.kind = "disarm" /\ o.ids \cap s.armed = {}
ArmAllProjectsReturns(o)       == o.kind = "armAll" /\ o.ids = {}

ReturnsEarly(o, s) ==
    \/ MarkProjectActiveReturns(o, s)
    \/ ArmProjectReturns(o, s)
    \/ DisarmProjectReturns(o, s)
    \/ ArmAllProjectsReturns(o)

\* The copy a mutator builds from the snapshot it loaded.
MarkProjectActive(o, s)      == [s EXCEPT !.paused = @ \ o.ids]
ArmProject(o, s)             == [s EXCEPT !.armed = @ \cup o.ids]
DisarmProject(o, s)          == [s EXCEPT !.armed = @ \ o.ids]
ArmAllProjects(o, s)         == [s EXCEPT !.armed = o.ids]
\* Mutant: Store in place of StorePreservingRuntime.
StoreOnly(o, s) == [armed |-> {}, paused |-> o.ids]

StorePreservingRuntime(o, s) == [armed |-> s.armed, paused |-> o.ids]

Copy(o, s) ==
    CASE o.kind = "markActive" -> MarkProjectActive(o, s)
      [] o.kind = "arm"        -> ArmProject(o, s)
      [] o.kind = "disarm"     -> DisarmProject(o, s)
      [] o.kind = "armAll"     -> ArmAllProjects(o, s)
      [] o.kind = "store"      -> StorePreservingRuntime(o, s)

\* The counters a mutator deletes after its swap.
Cleared(o) ==
    CASE o.kind \in {"arm", "disarm"} -> o.ids
      [] o.kind = "armAll"            -> Project
      [] OTHER                        -> {}

-----------------------------------------------------------------------------
Init ==
    /\ snap = EmptySnapshot
    /\ suppressed = [p \in Project |-> 0]
    /\ pc = [c \in Caller |-> "idle"]
    /\ op = [c \in Caller |-> NoOp]
    /\ cur = [c \in Caller |-> EmptySnapshot]
    /\ stale = Caller

Call(c, o) ==
    /\ pc[c] = "idle"
    /\ pc' = [pc EXCEPT ![c] = "load"]
    /\ op' = [op EXCEPT ![c] = o]
    /\ UNCHANGED <<snap, suppressed, cur, stale>>

Return(c) ==
    /\ pc' = [pc EXCEPT ![c] = "idle"]
    /\ op' = [op EXCEPT ![c] = NoOp]

\* The top of a loop: load the pointer and either return or build a copy.
LoadAndReturn(c) ==
    /\ pc[c] = "load"
    /\ ReturnsEarly(op[c], snap)
    /\ Return(c)
    /\ UNCHANGED <<snap, suppressed, cur, stale>>

Load(c) ==
    /\ pc[c] = "load"
    /\ ~ReturnsEarly(op[c], snap)
    /\ pc' = [pc EXCEPT ![c] = "cas"]
    /\ cur' = [cur EXCEPT ![c] = snap]
    /\ stale' = stale \ {c}
    /\ UNCHANGED <<snap, suppressed, op>>

\* Mutant: the pointer is stored without comparing.
SwapBlind(c) ==
    /\ pc[c] = "cas"
    /\ snap' = Copy(op[c], cur[c])
    /\ stale' = Caller
    /\ pc' = [pc EXCEPT ![c] = "clear"]
    /\ cur' = [cur EXCEPT ![c] = EmptySnapshot]
    /\ UNCHANGED <<suppressed, op>>

\* CompareAndSwap finds the loaded pointer still installed.
Swap(c) ==
    /\ pc[c] = "cas"
    /\ c \notin stale
    /\ snap' = Copy(op[c], cur[c])
    /\ stale' = Caller
    /\ pc' = [pc EXCEPT ![c] = "clear"]
    /\ cur' = [cur EXCEPT ![c] = EmptySnapshot]
    /\ UNCHANGED <<suppressed, op>>

\* Mutant: the pointer is not loaded again before the next attempt.
SwapFailsKeeps(c) == pc[c] = "cas" /\ c \in stale /\ UNCHANGED vars

\* CompareAndSwap finds another pointer: once more round the loop.
SwapFails(c) ==
    /\ pc[c] = "cas"
    /\ c \in stale
    /\ pc' = [pc EXCEPT ![c] = "load"]
    /\ cur' = [cur EXCEPT ![c] = EmptySnapshot]
    /\ UNCHANGED <<snap, suppressed, op, stale>>

\* What a mutator does between its swap and its return.
ClearSuppressed(c) ==
    /\ pc[c] = "clear"
    /\ suppressed' = [p \in Project |->
                        IF p \in Cleared(op[c]) THEN 0 ELSE suppressed[p]]
    /\ Return(c)
    /\ UNCHANGED <<snap, cur, stale>>

\* AddSuppressed holds the mutex for its whole body and takes no snapshot.
AddSuppressed(p) ==
    /\ suppressed[p] < MaxSuppressed
    /\ suppressed' = [suppressed EXCEPT ![p] = @ + 1]
    /\ UNCHANGED <<snap, pc, op, cur, stale>>

Step(c) == LoadAndReturn(c) \/ Load(c) \/ Swap(c) \/ SwapFails(c) \/ ClearSuppressed(c)

Next ==
    \/ \E c \in Caller : (\E o \in Calls : Call(c, o)) \/ Step(c)
    \/ \E p \in Project : AddSuppressed(p)

Spec == Init /\ [][Next]_vars

\* A goroutine that is inside a mutator is scheduled: nothing there blocks.
FairSpec == Spec /\ \A c \in Caller : WF_vars(Step(c))

-----------------------------------------------------------------------------
TypeOK ==
    /\ snap \in Snapshot
    /\ suppressed \in [Project -> 0..MaxSuppressed]
    /\ pc \in [Caller -> {"idle", "load", "cas", "clear"}]
    /\ op \in [Caller -> Op \cup {NoOp}]
    /\ cur \in [Caller -> Snapshot]
    /\ stale \subseteq Caller

\* A caller that still holds the installed pointer holds the snapshot as it
\* is now: what makes a swap safe however many callers are in their loops
\* (cache.go: the pointer is loaded again at the top of every loop).
FreshIsCurrent ==
    \A c \in Caller : pc[c] = "cas" /\ c \notin stale => cur[c] = snap

\* An operation is known exactly while it runs.
OpWhileRunning == \A c \in Caller : pc[c] # "idle" <=> op[c] # NoOp

\* No caller swaps in a copy it would have returned without making.
SwapIsNeeded ==
    \A c \in Caller : pc[c] = "cas" => ~ReturnsEarly(op[c], cur[c])

IInv == TypeOK /\ FreshIsCurrent /\ OpWhileRunning /\ SwapIsNeeded

\* Refinement: every operation takes effect at one instant (see AtomicCache).
AbstractPhase ==
    [c \in Caller |-> CASE pc[c] = "idle"  -> "idle"
                        [] pc[c] = "clear" -> "resetting"
                        [] OTHER           -> "called"]

Atomic == INSTANCE AtomicCache
            WITH armed <- snap.armed, paused <- snap.paused, phase <- AbstractPhase

AtomicSpec == Atomic!Spec

\* A reload of the database-derived fields, whenever it was begun, neither
\* undoes an arm or a disarm nor brings one back (StorePreservingRuntime
\* clones the arm set inside its loop; the design note of the arm gate
\* expected "a disarm might be overwritten by a reload").
ReloadKeepsArms ==
    [][\A c \in Caller : pc[c] = "cas" /\ op[c].kind = "store" /\ pc'[c] = "clear"
         => snap'.armed = snap.armed]_vars

\* Lock freedom: a caller stays in its loop for ever only if others keep
\* succeeding with theirs.
LockFree ==
    \A c \in Caller :
        <>[](pc[c] \in {"load", "cas"}) => []<><<\E d \in Caller : Swap(d)>>_vars
=============================================================================
