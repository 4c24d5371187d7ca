--------------------------- MODULE ArmCacheProofs ---------------------------
(***************************************************************************)
(* ArmCache for every set of projects and of goroutines: its inductive     *)
(* invariant, and that its compare-and-swap loops implement AtomicCache.   *)
(***************************************************************************)
EXTENDS ArmCache, TLAPS

\* The operations a caller can be given are operations.
LEMMA CallsAreOps == Calls \subseteq Op
  BY DEF Calls, Op, Kinds, OneProject

\* A mutator turns a snapshot into a snapshot.
LEMMA CopyType ==
  ASSUME NEW o \in Op, NEW s \in Snapshot
  PROVE  Copy(o, s) \in Snapshot
  BY DEF Op, Kinds, Snapshot, Copy, MarkProjectActive, ArmProject, DisarmProject,
         ArmAllProjects, StorePreservingRuntime

\* NewCache starts with a cache that satisfies the invariant.
LEMMA InitInv == Init => IInv
  BY MaxSuppressedAssumption
     DEF Init, IInv, TypeOK, FreshIsCurrent, OpWhileRunning, SwapIsNeeded, Snapshot, EmptySnapshot

\* A caller that is not in a mutator is told apart from every operation.
LEMMA NoOpIsNoOp == NoOp \notin Op
  BY DEF NoOp, Op, Kinds

\* No mutator, at any of its loads and swaps, and no suppressed tick of the
\* poller breaks the invariant.
LEMMA NextInv == IInv /\ [Next]_vars => IInv'
  <1> SUFFICES ASSUME IInv, [Next]_vars PROVE IInv'
    OBVIOUS
  <1> USE DEF IInv, TypeOK, FreshIsCurrent, OpWhileRunning, SwapIsNeeded
  <1>1. ASSUME NEW c \in Caller, NEW o \in Calls, Call(c, o) PROVE IInv'
    <2>1. o \in Op /\ o # NoOp
      BY CallsAreOps, NoOpIsNoOp
    <2> QED BY <1>1, <2>1 DEF Call
  <1>2. ASSUME NEW c \in Caller, LoadAndReturn(c) PROVE IInv'
    BY <1>2 DEF LoadAndReturn, Return
  <1>3. ASSUME NEW c \in Caller, Load(c) PROVE IInv'
    BY <1>3 DEF Load
  <1>4. ASSUME NEW c \in Caller, Swap(c) PROVE IInv'
    <2>1. op[c] \in Op
      BY <1>4 DEF Swap
    <2>2. snap' \in Snapshot
      BY <1>4, <2>1, CopyType DEF Swap
    <2>3. EmptySnapshot \in Snapshot
      BY DEF EmptySnapshot, Snapshot
    <2> QED BY <1>4, <2>2, <2>3 DEF Swap
  <1>5. ASSUME NEW c \in Caller, SwapFails(c) PROVE IInv'
    BY <1>5 DEF SwapFails, EmptySnapshot, Snapshot
  <1>6. ASSUME NEW c \in Caller, ClearSuppressed(c) PROVE IInv'
    BY <1>6, MaxSuppressedAssumption DEF ClearSuppressed, Return
  <1>7. ASSUME NEW p \in Project, AddSuppressed(p) PROVE IInv'
    BY <1>7, MaxSuppressedAssumption DEF AddSuppressed
  <1>8. CASE UNCHANGED vars
    BY <1>8 DEF vars
  <1> QED
    BY <1>1, <1>2, <1>3, <1>4, <1>5, <1>6, <1>7, <1>8 DEF Next, Step

\* Every reachable state satisfies the inductive invariant.
THEOREM Invariance == Spec => []IInv
  <1> QED BY InitInv, NextInv, PTL DEF Spec

\* Type correctness.
THEOREM TypeCorrect == Spec => []TypeOK
  <1>1. IInv => TypeOK BY DEF IInv
  <1> QED BY <1>1, Invariance, PTL

\* A caller whose pointer is still installed holds the snapshot as it is now:
\* the reason a swap loses no update of another caller.
THEOREM Freshness == Spec => []FreshIsCurrent
  <1>1. IInv => FreshIsCurrent BY DEF IInv
  <1> QED BY <1>1, Invariance, PTL

-----------------------------------------------------------------------------
\* A reload installs the arm set of the snapshot it replaces, so that no arm
\* or disarm is ever lost to it.
THEOREM ReloadsKeepArms == Spec => ReloadKeepsArms
  <1> DEFINE Keeps == \A c \in Caller :
               pc[c] = "cas" /\ op[c].kind = "store" /\ pc'[c] = "clear"
                 => snap'.armed = snap.armed
  <1>1. IInv /\ [Next]_vars => [Keeps]_vars
    <2> SUFFICES ASSUME IInv, Next, NEW c \in Caller,
                        pc[c] = "cas", op[c].kind = "store", pc'[c] = "clear"
                 PROVE  snap'.armed = snap.armed
      OBVIOUS
    <2> USE DEF IInv, TypeOK, FreshIsCurrent
    <2>1. Swap(c)
      BY DEF Next, Step, Call, LoadAndReturn, Return, Load, Swap, SwapFails,
             ClearSuppressed, AddSuppressed
    <2>2. snap' = Copy(op[c], snap)
      BY <2>1 DEF Swap
    <2>3. Copy(op[c], snap) = StorePreservingRuntime(op[c], snap)
      BY DEF Copy
    <2> QED BY <2>2, <2>3 DEF StorePreservingRuntime
  <1>2. Spec => [][Keeps]_vars
    BY <1>1, Invariance, PTL DEF Spec
  <1> QED BY <1>2 DEF ReloadKeepsArms
-----------------------------------------------------------------------------
\* The refinement.  A call is a call; a load that returns early finds nothing
\* to do; a swap is the instant an operation takes effect; a load and a failed
\* swap are invisible.
LEMMA InitRefines == Init => Atomic!Init
  BY DEF Init, Atomic!Init, EmptySnapshot, AbstractPhase, NoOp, Atomic!NoOp

\* Both levels take the same operations.
LEMMA SameOps == Op = Atomic!Op /\ NoOp = Atomic!NoOp
  BY DEF Op, Kinds, Atomic!Op, NoOp, Atomic!NoOp

\* A mutator returns without a swap exactly when the atomic operation would
\* change nothing.
LEMMA SameEarlyReturns ==
  ASSUME NEW o
  PROVE  ReturnsEarly(o, snap) <=> Atomic!NothingToDo(o)
  BY DEF ReturnsEarly, Atomic!NothingToDo, MarkProjectActiveReturns,
         ArmProjectReturns, DisarmProjectReturns, ArmAllProjectsReturns

\* The copy a mutator builds, and the counters it clears afterwards, are what
\* the atomic operation does to the snapshot it was built from.
LEMMA SameEffect ==
  ASSUME NEW o \in Op, snap \in Snapshot
  PROVE  /\ Copy(o, snap).armed = Atomic!ArmedAfter(o)
         /\ Copy(o, snap).paused = Atomic!PausedAfter(o)
         /\ Cleared(o) = Atomic!ResetBy(o)
  <1>1. o.kind \in Kinds
    BY DEF Op
  <1>2. CASE o.kind = "markActive"
    BY <1>2 DEF Copy, MarkProjectActive, Snapshot, Cleared, Atomic!ArmedAfter,
                Atomic!PausedAfter, Atomic!ResetBy
  <1>3. CASE o.kind = "arm"
    BY <1>3 DEF Copy, ArmProject, Snapshot, Cleared, Atomic!ArmedAfter,
                Atomic!PausedAfter, Atomic!ResetBy
  <1>4. CASE o.kind = "disarm"
    BY <1>4 DEF Copy, DisarmProject, Snapshot, Cleared, Atomic!ArmedAfter,
                Atomic!PausedAfter, Atomic!ResetBy
  <1>5. CASE o.kind = "armAll"
    BY <1>5 DEF Copy, ArmAllProjects, Snapshot, Cleared, Atomic!ArmedAfter,
                Atomic!PausedAfter, Atomic!ResetBy
  <1>6. CASE o.kind = "store"
    BY <1>6 DEF Copy, StorePreservingRuntime, Snapshot, Cleared, Atomic!ArmedAfter,
                Atomic!PausedAfter, Atomic!ResetBy
  <1> QED BY <1>1, <1>2, <1>3, <1>4, <1>5, <1>6 DEF Kinds

\* Every step of the two-phase cache is one of the atomic cache, or none.
LEMMA NextRefines == IInv /\ IInv' /\ [Next]_vars => [Atomic!Next]_(Atomic!vars)
  <1> SUFFICES ASSUME IInv, IInv', [Next]_vars
               PROVE  Atomic!Next \/ UNCHANGED Atomic!vars
    OBVIOUS
  <1> USE DEF IInv, TypeOK
  <1>1. ASSUME NEW c \in Caller, NEW o \in Calls, Call(c, o)
        PROVE  Atomic!Next
    <2>1. o \in Atomic!Op
      BY CallsAreOps, SameOps
    <2>2. Atomic!Call(c, o)
      BY <1>1 DEF Call, Atomic!Call, AbstractPhase
    <2> QED BY <2>1, <2>2 DEF Atomic!Next
  <1>2. ASSUME NEW c \in Caller, LoadAndReturn(c)
        PROVE  Atomic!Next
    <2>1. Atomic!NothingToDo(op[c])
      BY <1>2, SameEarlyReturns DEF LoadAndReturn
    <2>2. Atomic!ReturnAtOnce(c)
      BY <1>2, <2>1, SameOps DEF LoadAndReturn, Return, Atomic!ReturnAtOnce, AbstractPhase
    <2> QED BY <2>2 DEF Atomic!Next
  <1>3. ASSUME NEW c \in Caller, Load(c)
        PROVE  UNCHANGED Atomic!vars
    BY <1>3 DEF Load, Atomic!vars, AbstractPhase
  <1>4. ASSUME NEW c \in Caller, SwapFails(c)
        PROVE  UNCHANGED Atomic!vars
    BY <1>4 DEF SwapFails, Atomic!vars, AbstractPhase
  <1>5. ASSUME NEW c \in Caller, ClearSuppressed(c)
        PROVE  Atomic!Next
    <2>1. op[c] \in Op
      BY <1>5 DEF ClearSuppressed, OpWhileRunning
    <2>2. Cleared(op[c]) = Atomic!ResetBy(op[c])
      BY <2>1, SameEffect
    <2>3. Atomic!ResetCounters(c)
      BY <1>5, <2>2, SameOps DEF ClearSuppressed, Return, Atomic!ResetCounters, AbstractPhase
    <2> QED BY <2>3 DEF Atomic!Next
  <1>6. ASSUME NEW p \in Project, AddSuppressed(p)
        PROVE  Atomic!Next
    <2>1. Atomic!Suppress(p)
      BY <1>6 DEF AddSuppressed, Atomic!Suppress, AbstractPhase
    <2> QED BY <2>1 DEF Atomic!Next
  <1>7. ASSUME NEW c \in Caller, Swap(c)
        PROVE  Atomic!Next
    <2>1. op[c] \in Op
      BY <1>7 DEF Swap, OpWhileRunning
    <2>2. snap' = Copy(op[c], snap)
      BY <1>7 DEF Swap, FreshIsCurrent
    <2>3. /\ snap'.armed = Atomic!ArmedAfter(op[c])
          /\ snap'.paused = Atomic!PausedAfter(op[c])
      BY <2>1, <2>2, SameEffect
    <2>4. AbstractPhase[c] = "called" /\ AbstractPhase' = [AbstractPhase EXCEPT ![c] = "resetting"]
      BY <1>7 DEF Swap, AbstractPhase
    <2>5. CASE ~ReturnsEarly(op[c], snap)
      <3>1. ~Atomic!NothingToDo(op[c])
        BY <2>5, SameEarlyReturns
      <3>2. Atomic!TakeEffect(c)
        BY <1>7, <2>3, <2>4, <3>1 DEF Swap, Atomic!TakeEffect
      <3> QED BY <3>2 DEF Atomic!Next
    <2>6. ~ReturnsEarly(op[c], snap)
      BY <1>7 DEF Swap, SwapIsNeeded, FreshIsCurrent
    <2> QED BY <2>5, <2>6
  <1>8. CASE UNCHANGED vars
    BY <1>8 DEF vars, Atomic!vars, AbstractPhase
  <1> QED
    BY <1>1, <1>2, <1>3, <1>4, <1>5, <1>6, <1>7, <1>8 DEF Next, Step

\* The compare-and-swap loops of cache.go are linearizable: every behaviour of
\* ArmCache is one of AtomicCache, for any number of goroutines.
THEOREM Refinement == Spec => AtomicSpec
  <1>1. Spec => Atomic!Init
    BY InitRefines DEF Spec
  <1>2. Spec => [][Atomic!Next]_(Atomic!vars)
    BY Invariance, NextRefines, PTL DEF Spec
  <1> QED BY <1>1, <1>2 DEF AtomicSpec, Atomic!Spec
=============================================================================
