---------------------------- MODULE AtomicCache ----------------------------
(***************************************************************************)
(* What internal/daemon/cache.go promises its callers: an arm set, a pause *)
(* set and suppression counters, changed by operations that each take      *)
(* effect at one instant between their call and their return, as if they   *)
(* ran one after the other.  ArmCache shows that the copy, compare and     *)
(* swap loops of the code implement this.                                  *)
(*                                                                         *)
(* The reset of the suppression counters is part of an operation but not   *)
(* of its instant: the code resets them under a mutex of their own, after  *)
(* the swap.                                                               *)
(***************************************************************************)
EXTENDS Naturals

CONSTANTS
    Project,        \* project ids
    Caller,         \* goroutines that use the cache: RPC handlers, the poller
    MaxSuppressed   \* bound on a suppression counter

VARIABLES
    armed,          \* projects whose agent ticks wait for a focus signal
    paused,         \* projects the daemon believes are paused
    suppressed,     \* agent ticks dropped per project since it was armed
    phase,          \* per caller: "idle", "called" (not yet in effect), "resetting"
    op              \* per caller: the operation it is running

vars == <<armed, paused, suppressed, phase, op>>

\* arm and disarm act on one project, markActive too; armAll installs ids as
\* the arm set; store installs ids as the pause set and keeps the arm set.
Op == [kind : {"markActive", "arm", "disarm", "armAll", "store"}, ids : SUBSET Project]
NoOp == [kind |-> "none", ids |-> {}]

\* An operation that finds nothing to do returns at once.
NothingToDo(o) ==
    \/ o.kind = "markActive" /\ o.ids \cap paused = {}
    \/ o.kind = "arm" /\ o.ids \subseteq armed
    \/ o.kind = "disarm" /\ o.ids \cap armed = {}
    \/ o.kind = "armAll" /\ o.ids = {}

ArmedAfter(o) ==
    CASE o.kind = "arm"    -> armed \cup o.ids
      [] o.kind = "disarm" -> armed \ o.ids
      [] o.kind = "armAll" -> o.ids
      [] OTHER             -> armed

PausedAfter(o) ==
    CASE o.kind = "markActive" -> paused \ o.ids
      [] o.kind = "store"      -> o.ids
      [] OTHER                 -> paused

\* The projects whose counters the operation starts again from zero.
ResetBy(o) ==
    CASE o.kind \in {"arm", "disarm"} -> o.ids
      [] o.kind = "armAll"            -> Project
      [] OTHER                        -> {}

Init ==
    /\ armed = {} /\ paused = {}
    /\ suppressed = [p \in Project |-> 0]
    /\ phase = [c \in Caller |-> "idle"]
    /\ op = [c \in Caller |-> NoOp]

Call(c, o) ==
    /\ phase[c] = "idle"
    /\ phase' = [phase EXCEPT ![c] = "called"]
    /\ op' = [op EXCEPT ![c] = o]
    /\ UNCHANGED <<armed, paused, suppressed>>

ReturnAtOnce(c) ==
    /\ phase[c] = "called" /\ NothingToDo(op[c])
    /\ phase' = [phase EXCEPT ![c] = "idle"]
    /\ op' = [op EXCEPT ![c] = NoOp]
    /\ UNCHANGED <<armed, paused, suppressed>>

TakeEffect(c) ==
    /\ phase[c] = "called" /\ ~NothingToDo(op[c])
    /\ armed' = ArmedAfter(op[c])
    /\ paused' = PausedAfter(op[c])
    /\ phase' = [phase EXCEPT ![c] = "resetting"]
    /\ UNCHANGED <<suppressed, op>>

ResetCounters(c) ==
    /\ phase[c] = "resetting"
    /\ suppressed' = [p \in Project |->
                        IF p \in ResetBy(op[c]) THEN 0 ELSE suppressed[p]]
    /\ phase' = [phase EXCEPT ![c] = "idle"]
    /\ op' = [op EXCEPT ![c] = NoOp]
    /\ UNCHANGED <<armed, paused>>

Suppress(p) ==
    /\ suppressed[p] < MaxSuppressed
    /\ suppressed' = [suppressed EXCEPT ![p] = @ + 1]
    /\ UNCHANGED <<armed, paused, phase, op>>

Next ==
    \/ \E c \in Caller : \/ \E o \in Op : Call(c, o)
                         \/ ReturnAtOnce(c)
                         \/ TakeEffect(c)
                         \/ ResetCounters(c)
    \/ \E p \in Project : Suppress(p)

Spec == Init /\ [][Next]_vars
=============================================================================
