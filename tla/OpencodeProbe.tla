---------------------------- MODULE OpencodeProbe ----------------------------
(* The collector of opencode's sessions, which has one database and no files   *)
(* to tail: a handle kept between ticks, and a back-off after a read that      *)
(* fails (collectOpencodeSignals). One action of the collector is one tick, and *)
(* one unit of time; times are kept as ages.                                   *)
EXTENDS Naturals

CONSTANTS
    MessageGrace,    \* TranscriptGraceSec
    RetryWait        \* opencodeRetryBackoffSec

ASSUME OpencodeAssumption == MessageGrace \in Nat /\ RetryWait \in Nat \ {0}

VARIABLES
    file,        \* the file at the path: is there one, can it be read, how long ago it
                 \* was touched and a tracked session's message was written to it
    handle,      \* "none", "current", or open on a file since replaced: "oldReads",
                 \* "oldBroken"
    wait,        \* until opencodeRetryAt
    emitted      \* the last tick sent a signal

opencodeVars == <<file, handle, wait, emitted>>

Longest == MessageGrace + 1
Grows(age) == IF age < Longest THEN age + 1 ELSE Longest
NoDb == [there |-> FALSE, reads |-> FALSE, touch |-> Longest, msg |-> Longest]
-----------------------------------------------------------------------------
(* opencode. A file that takes the path by a rename leaves the old one to the  *)
(* handle that has it open.                                                    *)

OpencodeWrites ==
    /\ file.there
    /\ \E tracked \in BOOLEAN :
          file' = [file EXCEPT !.touch = 0, !.msg = IF tracked THEN 0 ELSE @]
    /\ UNCHANGED <<handle, wait, emitted>>

\* A schema the collector does not know, a lock it cannot get, or no longer.
OpencodeBreaks ==
    /\ file.there
    /\ file' = [file EXCEPT !.reads = ~@]
    /\ UNCHANGED <<handle, wait, emitted>>

OpencodeReplaces ==
    /\ file' = [NoDb EXCEPT !.there = TRUE, !.reads = TRUE, !.touch = 0]
    /\ handle' = IF handle = "current" THEN (IF file.reads THEN "oldReads" ELSE "oldBroken")
                 ELSE handle
    /\ UNCHANGED <<wait, emitted>>
-----------------------------------------------------------------------------
(* One tick.                                                                   *)

AgesMove == file' = IF file.there THEN [file EXCEPT !.touch = Grows(@), !.msg = Grows(@)] ELSE file
Waited1 == IF wait = 0 THEN 0 ELSE wait - 1

BackingOff ==
    /\ Waited1 > 0
    /\ wait' = Waited1 /\ emitted' = FALSE
    /\ UNCHANGED handle

\* The free gate: neither the database nor its log was written within the grace.
Touched == file.touch <= MessageGrace
Untouched ==
    /\ Waited1 = 0 /\ ~Touched
    /\ wait' = 0 /\ emitted' = FALSE
    /\ UNCHANGED handle

\* opencodeHandle: opened by the first query that needs it.
Handle == IF handle = "none" THEN "current" ELSE handle
Readable == Handle = "oldReads" \/ (Handle = "current" /\ file.reads)

\* A replaced file answers with what it had, taken here to be nothing recent.
Queries ==
    /\ Waited1 = 0 /\ Touched /\ Readable
    /\ handle' = Handle
    /\ emitted' = (Handle = "current" /\ file.msg <= MessageGrace)
    /\ wait' = 0

\* Mutant: the handle is kept.
QueryFailsKeepsHandle ==
    /\ Waited1 = 0 /\ Touched /\ ~Readable
    /\ handle' = Handle
    /\ emitted' = FALSE /\ wait' = RetryWait

\* opencodeFailed: the handle is closed and dropped.
QueryFails ==
    /\ Waited1 = 0 /\ Touched /\ ~Readable
    /\ handle' = "none"
    /\ emitted' = FALSE /\ wait' = RetryWait

OpencodeTick == AgesMove /\ (BackingOff \/ Untouched \/ Queries \/ QueryFails)
-----------------------------------------------------------------------------
OpencodeInit ==
    /\ file = NoDb /\ handle = "none"
    /\ wait = 0 /\ emitted = FALSE

OpencodeNext == OpencodeWrites \/ OpencodeBreaks \/ OpencodeReplaces \/ OpencodeTick
\* The poller calls the collector at every interval.
OpencodeFairness == WF_opencodeVars(OpencodeTick)
OpencodeSpec == OpencodeInit /\ [][OpencodeNext]_opencodeVars /\ OpencodeFairness
-----------------------------------------------------------------------------
(* Properties.                                                                 *)

\* A database that stays readable and in place, with messages coming, is seen again
\* whatever failed before and whatever file it replaced, but for a file the handle
\* could still read ("recovers from opencode replacing the file").
ComesBack ==
    <>[](file.reads /\ handle # "oldReads") /\ []<><<OpencodeWrites /\ file'.msg = 0>>_opencodeVars
        => []<>emitted
=============================================================================
