--------------------------- MODULE TranscriptTail ---------------------------
(* One transcript file and the collector that follows it: Claude Code's       *)
(* (transcript.go), which consumes what it read to the end, or Codex's        *)
(* (codex.go), which consumes whole lines. An agent writes, truncates,        *)
(* replaces and removes the file at any time, also between the collector's    *)
(* stat and its read.                                                         *)
(*                                                                            *)
(* A line is two units long, so that a unit is a half-written line: its JSON  *)
(* does not parse, before or after the cut.                                   *)
EXTENDS Integers, Sequences, FiniteSets

CONSTANTS
    Dir,         \* working directories
    None,        \* no directory
    Home,        \* what decodeProjectDir makes of the file's own directory
    Tracked,     \* the directories that match a cwd pattern of the cache
    Content,     \* what lines say: records of a session directory and a command's
    Grace,       \* cfg.TranscriptGraceSec
    MaxLines,    \* bound on the lines of a file
    MaxNow       \* bound on the clock

ASSUME TailAssumption ==
    /\ None \notin Dir /\ Home \in Dir /\ Tracked \subseteq Dir
    /\ Content \subseteq [session : Dir \cup {None}, command : Dir \cup {None}]
    /\ Grace \in Nat \ {0} /\ MaxLines \in Nat /\ MaxNow \in Nat

VARIABLES
    format,      \* whose file it is: "claude" or "codex"
    clock,       \* seconds
    file,        \* NoFile, or its lines, whether the last is only half there, its mtime
    st,          \* the collector's entry for the path; the zero entry if it has none
    look,        \* NoLook, or the tick's time and the size its stat found
    out,         \* the directory of the signal of the last tick, None if it sent none
    follows      \* history: st.offset was taken from this file, not one it replaced

tailVars == <<format, clock, file, st, look, out, follows>>

NoFile == [lines |-> <<>>, half |-> FALSE, mtime |-> 0]
NoLook == [now |-> 0, size |-> 0]
Fresh == [offset |-> 0, lastActivity |-> 0, cwd |-> None, cmdCwd |-> None]

\* cut is a history field: a collector moved past the line when half of it was there.
Line(at, c) == [at |-> at, session |-> c.session, command |-> c.command, cut |-> FALSE]
Size(f) == 2 * Len(f.lines) - (IF f.half THEN 1 ELSE 0)
Exists == file # NoFile
-----------------------------------------------------------------------------
(* What a read finds.                                                         *)

\* The lines that lie entirely between two offsets: those that parse.
Whole(f, from, to) == {i \in DOMAIN f.lines : 2 * (i - 1) >= from /\ 2 * i <= to}
Newest(f, I) == CHOOSE t \in {f.lines[i].at : i \in I} : \A i \in I : f.lines[i].at <= t
LastDir(dirs, I) ==
    LET named == {i \in I : dirs[i] # None}
    IN  IF named = {} THEN None ELSE dirs[CHOOSE i \in named : \A j \in named : j <= i]
Or(dir, otherwise) == IF dir = None THEN otherwise ELSE dir

Learn(entry, f, I) ==
    [entry EXCEPT !.lastActivity = IF Newest(f, I) > @ THEN Newest(f, I) ELSE @]

\* parseTranscriptTail: the newest stamp, the last directory.
ClaudeLearns(entry, f, I) ==
    LET sessions == [i \in I |-> f.lines[i].session]
    IN  [Learn(entry, f, I) EXCEPT !.cwd = Or(LastDir(sessions, I), @)]

\* parseCodexTail: a command run at the root known by then does not count.
RootAt(entry, f, I, i) ==
    Or(LastDir([j \in I |-> f.lines[j].session], {j \in I : j <= i}), entry.cwd)
CodexLearns(entry, f, I) ==
    LET commands == [i \in I |-> IF f.lines[i].command = RootAt(entry, f, I, i)
                                 THEN None ELSE f.lines[i].command]
    IN  [ClaudeLearns(entry, f, I) EXCEPT !.cmdCwd = Or(LastDir(commands, I), @)]

\* An offset moved into a line of which only half is there cuts it.
Cut(f, offset) ==
    LET cutAt(i) == f.lines[i].cut \/ (2 * i - 1 = offset /\ 2 * i > Size(f))
    IN  [f EXCEPT !.lines = [i \in DOMAIN f.lines |-> [f.lines[i] EXCEPT !.cut = cutAt(i)]]]
-----------------------------------------------------------------------------
(* The agent.                                                                 *)

Second ==
    /\ clock < MaxNow
    /\ clock' = clock + 1
    /\ UNCHANGED <<format, file, st, look, out, follows>>

WriteLine(c, half) ==
    /\ ~file.half /\ Len(file.lines) < MaxLines
    /\ file' = [lines |-> Append(file.lines, Line(clock, c)), half |-> half, mtime |-> clock]
    /\ UNCHANGED <<format, clock, st, look, out, follows>>

FinishLine ==
    /\ Exists /\ file.half
    /\ file' = [file EXCEPT !.half = FALSE, !.mtime = clock]
    /\ UNCHANGED <<format, clock, st, look, out, follows>>

\* A file of another history takes the path: older than its modification.
ReplaceFile ==
    /\ Exists
    /\ \E n \in 0 .. MaxLines, c \in Content :
          file' = [lines |-> [i \in 1 .. n |-> Line(clock - 1, c)], half |-> FALSE, mtime |-> clock]
    /\ follows' = FALSE
    /\ UNCHANGED <<format, clock, st, look, out>>

RemoveFile ==
    /\ Exists
    /\ file' = NoFile /\ follows' = FALSE
    /\ UNCHANGED <<format, clock, st, look, out>>
-----------------------------------------------------------------------------
(* The collector.                                                             *)

Spoken(entry) ==
    IF format = "claude" THEN Or(entry.cwd, Home) ELSE Or(entry.cmdCwd, entry.cwd)

\* The grace gate, then the track gate: a directory of a pattern or, for Claude, a
\* session in a space that a project is bound to.
Emit(entry, now, inBoundSpace) ==
    out' = IF /\ now - entry.lastActivity < Grace
              /\ Spoken(entry) \in Tracked \/ (format = "claude" /\ inBoundSpace)
           THEN Spoken(entry) ELSE None

\* Mutant: the entry is kept.
PruneKeepsEntry ==
    /\ look = NoLook /\ ~Exists
    /\ st' = [st EXCEPT !.lastActivity = 0] /\ out' = None /\ follows' = TRUE
    /\ UNCHANGED <<format, clock, file, look>>

\* A file that is gone: its entry is pruned.
Prune ==
    /\ look = NoLook /\ ~Exists
    /\ st' = Fresh /\ out' = None /\ follows' = TRUE
    /\ UNCHANGED <<format, clock, file, look>>

\* The stat, and what needs no read: nothing new, or nothing recent, whose bytes
\* are then marked consumed.
Stat ==
    /\ look = NoLook /\ Exists
    /\ LET rewound == [st EXCEPT !.offset = IF Size(file) < @ THEN 0 ELSE @]
           stale == clock - file.mtime >= Grace
           entry == IF stale THEN [rewound EXCEPT !.offset = Size(file)] ELSE rewound
       IN  /\ st' = entry
           /\ follows' = (follows \/ rewound.offset = 0)
           /\ file' = IF stale THEN Cut(file, Size(file)) ELSE file
           /\ IF stale \/ Size(file) = rewound.offset
              THEN /\ \E b \in BOOLEAN : Emit(entry, clock, b)
                   /\ look' = NoLook
              ELSE /\ look' = [now |-> clock, size |-> Size(file)]
                   /\ UNCHANGED out
    /\ UNCHANGED <<format, clock>>

\* A file that vanishes between the listing and its stat is passed over.
StatFails ==
    /\ look = NoLook /\ Exists
    /\ out' = None
    /\ UNCHANGED <<format, clock, file, st, look, follows>>

\* Mutant: half a line is consumed.
ConsumedToEnd(offset, end) == look.size

\* Where the next read starts: Claude's at the size that the stat found, Codex's after
\* the last whole line.
Consumed(offset, end) ==
    IF format = "claude" THEN look.size
    ELSE IF 2 * (end \div 2) > offset THEN 2 * (end \div 2) ELSE offset

\* The read, to wherever the end of the file is by now.
Read ==
    /\ look # NoLook /\ Exists
    /\ LET end == Size(file)
           I == Whole(file, st.offset, end)
           learnt == IF I = {} THEN st
                     ELSE IF format = "claude" THEN ClaudeLearns(st, file, I)
                     ELSE CodexLearns(st, file, I)
           entry == [learnt EXCEPT !.offset = Consumed(@, end)]
       IN  /\ st' = entry
           /\ file' = Cut(file, entry.offset)
           /\ \E b \in BOOLEAN : Emit(entry, look.now, b)
    /\ look' = NoLook
    /\ UNCHANGED <<format, clock, follows>>

\* The file cannot be opened or read: the entry stays as it was.
ReadFails ==
    /\ look # NoLook
    /\ \E b \in BOOLEAN : Emit(st, look.now, b)
    /\ look' = NoLook
    /\ UNCHANGED <<format, clock, file, st, follows>>
-----------------------------------------------------------------------------
TailInit ==
    /\ format \in {"claude", "codex"}
    /\ clock = Grace
    /\ file = NoFile /\ st = Fresh /\ look = NoLook /\ out = None
    /\ follows = TRUE

Agent ==
    \/ \E c \in Content, half \in BOOLEAN : WriteLine(c, half)
    \/ FinishLine \/ ReplaceFile \/ RemoveFile
Collect == Prune \/ Stat \/ StatFails \/ Read \/ ReadFails
\* A restarted daemon knows nothing of the file.
Restart ==
    /\ st' = Fresh /\ look' = NoLook /\ out' = None /\ follows' = TRUE
    /\ UNCHANGED <<format, clock, file>>

TailNext == Second \/ Agent \/ Collect \/ Restart
TailSpec == TailInit /\ [][TailNext]_tailVars
-----------------------------------------------------------------------------
(* Properties.                                                                *)

\* After a collection that could read the file, the entry knows of every recent
\* turn in it, and its signal is sent if its directory is tracked, unless the line
\* was cut or the file is not the one it followed.
TurnsSeen ==
    [][follows' /\ look' = NoLook /\ (Read \/ Stat) =>
           \A i \in Whole(file', 0, Size(file')) :
               LET line == file'.lines[i]
               IN  ~line.cut /\ clock - line.at < Grace =>
                       /\ st'.lastActivity >= line.at
                       /\ Spoken(st') \in Tracked => out' = Spoken(st')]_tailVars

\* Codex's collector moves past half a line only once its turn is too old to count
\* (codex.go: "a half line skipped now would be lost for good").
HalfLinesWait ==
    [][format = "codex" /\ follows' =>
           \A i \in DOMAIN file'.lines :
               file'.lines[i].cut /\ ~file.lines[i].cut => clock - file.lines[i].at >= Grace]_tailVars
=============================================================================
