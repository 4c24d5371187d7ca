-------------------------- MODULE TranscriptProofs --------------------------
(***************************************************************************)
(* What transcripts give to projects, for any files, rows and              *)
(* interleavings: a tail loses no turn, an import doubles no row and       *)
(* leaves no gap, and a directory's rule means the same to the tick and to *)
(* the retroactive sweep. The three parts share no state.                  *)
(***************************************************************************)
EXTENDS TranscriptTail, TranscriptImport, RuleMatching, DataLemmas

-----------------------------------------------------------------------------
(* The tail of one transcript: what the collector has consumed it knows    *)
(* of, or a half line hid it, or it is too old to count.                   *)

\* Lines and files, whose stamps are no later than the last write.
Lines == [at : Nat, session : Dir \cup {None}, command : Dir \cup {None}, cut : BOOLEAN]
Files == {f \in [lines : Seq(Lines), half : BOOLEAN, mtime : Nat] :
             /\ f.half => Len(f.lines) > 0
             /\ \A i \in DOMAIN f.lines : f.lines[i].at <= f.mtime}

\* The types of the file, of what the collector knows and of its look.
TailTypes ==
    /\ clock \in Nat /\ clock >= Grace
    /\ file \in Files /\ file.mtime <= clock
    /\ DOMAIN st = {"offset", "lastActivity", "cwd", "cmdCwd"}
    /\ st.offset \in Nat /\ st.lastActivity \in Nat
    /\ look.now \in Nat /\ look.now <= clock /\ look.size \in Nat
    /\ follows \in BOOLEAN

\* Why the collector may be past a line: it was cut, its turn is known, or too old.
Accounted(f, entry, now, i) ==
    \/ f.lines[i].cut = TRUE
    \/ entry.lastActivity >= f.lines[i].at
    \/ now - f.lines[i].at >= Grace

\* What holds of an offset in the file it was taken from.
Consistent(f, entry, now) ==
    /\ entry.offset <= Size(f)
    /\ \A i \in DOMAIN f.lines :
          /\ 2 * i - 1 <= entry.offset => Accounted(f, entry, now, i)
          /\ 2 * i - 1 = entry.offset /\ 2 * i > Size(f) => f.lines[i].cut = TRUE

\* So it stays while the offset is of this file, and what a stat found is still there.
TailInv ==
    follows = TRUE => Consistent(file, st, clock) /\ (look # NoLook => look.size <= Size(file))

\* A file's size and its lines.
LEMMA FileSize ==
    ASSUME NEW f \in Files
    PROVE  /\ Size(f) \in Nat /\ DOMAIN f.lines = 1 .. Len(f.lines) /\ Len(f.lines) \in Nat
           /\ Size(f) <= 2 * Len(f.lines) /\ Size(f) >= 2 * Len(f.lines) - 1
           /\ Len(f.lines) = 0 => Size(f) = 0
           /\ \A i \in DOMAIN f.lines : i \in Nat /\ i >= 1 /\ 2 * i - 1 <= Size(f) /\ f.lines[i] \in Lines
                                        /\ f.lines[i].at \in Nat /\ f.lines[i].at <= f.mtime
<1>1. f.lines \in Seq(Lines) /\ f.half \in BOOLEAN /\ (f.half => Len(f.lines) > 0)
  BY DEF Files
<1>2. Len(f.lines) \in Nat /\ DOMAIN f.lines = 1 .. Len(f.lines)
  BY <1>1
<1>3. Size(f) = 2 * Len(f.lines) \/ (Size(f) = 2 * Len(f.lines) - 1 /\ Len(f.lines) > 0)
  <2>1. Size(f) = 2 * Len(f.lines) - (IF f.half THEN 1 ELSE 0)
    BY DEF Size
  <2>2. CASE f.half
    BY <1>1, <1>2, <2>1, <2>2
  <2>3. CASE ~f.half
    BY <1>2, <2>1, <2>3
  <2> QED BY <2>2, <2>3
<1>4. \A i \in DOMAIN f.lines : f.lines[i] \in Lines
  BY <1>1
<1>5. \A i \in DOMAIN f.lines : f.lines[i].at \in Nat /\ f.lines[i].at <= f.mtime
  BY <1>4 DEF Lines, Files
<1>6. \A i \in DOMAIN f.lines : i \in Nat /\ i >= 1 /\ 2 * i - 1 <= Size(f)
  <2> SUFFICES ASSUME NEW i \in 1 .. Len(f.lines) PROVE i \in Nat /\ i >= 1 /\ 2 * i - 1 <= Size(f)
    BY <1>2
  <2> HIDE DEF Size
  <2>1. i \in Nat /\ i >= 1 /\ i <= Len(f.lines)
    BY <1>2
  <2> QED BY <1>2, <1>3, <2>1
<1>7. /\ Size(f) \in Nat /\ Size(f) <= 2 * Len(f.lines) /\ Size(f) >= 2 * Len(f.lines) - 1
      /\ Len(f.lines) = 0 => Size(f) = 0
  BY <1>2, <1>3
<1> QED BY <1>2, <1>4, <1>5, <1>6, <1>7

\* A cut marks at most a line that is half there, and changes nothing else.
LEMMA CutFile ==
    ASSUME NEW f \in Files, NEW offset \in Nat
    PROVE  /\ Cut(f, offset) \in Files /\ Size(Cut(f, offset)) = Size(f)
           /\ Cut(f, offset).mtime = f.mtime
           /\ DOMAIN Cut(f, offset).lines = DOMAIN f.lines
           /\ \A i \in DOMAIN f.lines :
                 /\ Cut(f, offset).lines[i].at = f.lines[i].at
                 /\ Cut(f, offset).lines[i].cut = TRUE <=>
                       f.lines[i].cut = TRUE \/ (2 * i - 1 = offset /\ 2 * i > Size(f))
<1> DEFINE marked(i) == [f.lines[i] EXCEPT
                            !.cut = f.lines[i].cut \/ (2 * i - 1 = offset /\ 2 * i > Size(f))]
           cutLines == [i \in DOMAIN f.lines |-> marked(i)]
<1>1. f \in [lines : Seq(Lines), half : BOOLEAN, mtime : Nat]
  BY DEF Files
<1>2. Cut(f, offset) = [f EXCEPT !.lines = cutLines]
  BY <1>1 DEF Cut
<1>3. \A i \in DOMAIN f.lines :
        /\ marked(i) \in Lines /\ marked(i).at = f.lines[i].at
        /\ marked(i).cut = TRUE <=> f.lines[i].cut = TRUE \/ (2 * i - 1 = offset /\ 2 * i > Size(f))
  <2> SUFFICES ASSUME NEW i \in DOMAIN f.lines
               PROVE  /\ marked(i) \in Lines /\ marked(i).at = f.lines[i].at
                      /\ marked(i).cut = TRUE <=>
                           f.lines[i].cut = TRUE \/ (2 * i - 1 = offset /\ 2 * i > Size(f))
    OBVIOUS
  <2>1. f.lines[i] \in Lines
    BY FileSize
  <2> DEFINE new == f.lines[i].cut \/ (2 * i - 1 = offset /\ 2 * i > Size(f))
  <2>2. new \in BOOLEAN
    OBVIOUS
  <2>3. f.lines[i].cut \in BOOLEAN
    BY <2>1 DEF Lines
  <2>4. new = TRUE <=> f.lines[i].cut = TRUE \/ (2 * i - 1 = offset /\ 2 * i > Size(f))
    BY <2>3
  <2> HIDE DEF new
  <2>5. [f.lines[i] EXCEPT !.cut = new] \in Lines
    BY <2>1, <2>2 DEF Lines
  <2>6. [f.lines[i] EXCEPT !.cut = new].cut = new /\ [f.lines[i] EXCEPT !.cut = new].at = f.lines[i].at
    BY <2>1 DEF Lines
  <2> QED BY <2>4, <2>5, <2>6 DEF new
<1> HIDE DEF marked
<1>4. cutLines \in Seq(Lines) /\ Len(cutLines) = Len(f.lines) /\ DOMAIN cutLines = DOMAIN f.lines
  BY <1>1, <1>3, FileSize
<1>5. \A i \in DOMAIN f.lines : cutLines[i] = marked(i)
  OBVIOUS
<1> HIDE DEF cutLines
<1>6. /\ Cut(f, offset) \in [lines : Seq(Lines), half : BOOLEAN, mtime : Nat]
      /\ Cut(f, offset).lines = cutLines /\ Cut(f, offset).half = f.half
      /\ Cut(f, offset).mtime = f.mtime
  BY <1>1, <1>2, <1>4
<1>7. Cut(f, offset) \in Files
  BY <1>3, <1>4, <1>5, <1>6 DEF Files
<1>8. Size(Cut(f, offset)) = Size(f)
  BY <1>4, <1>6 DEF Size
<1> QED BY <1>3, <1>4, <1>5, <1>6, <1>7, <1>8
\* The same, of a step that cuts.
LEMMA CutStep ==
    ASSUME file \in Files, NEW offset \in Nat, file' = Cut(file, offset)
    PROVE  /\ Size(file') = Size(file) /\ DOMAIN file'.lines = DOMAIN file.lines
           /\ \A i \in DOMAIN file.lines :
                 /\ file'.lines[i].at = file.lines[i].at
                 /\ file'.lines[i].cut = TRUE <=>
                       file.lines[i].cut = TRUE \/ (2 * i - 1 = offset /\ 2 * i > Size(file))
<1>1. PICK f, g : f = file /\ g = file'
  OBVIOUS
<1>2. f \in Files /\ g = Cut(f, offset)
  BY <1>1
<1>3. /\ Size(g) = Size(f) /\ DOMAIN g.lines = DOMAIN f.lines
      /\ \A i \in DOMAIN f.lines :
            /\ g.lines[i].at = f.lines[i].at
            /\ g.lines[i].cut = TRUE <=>
                  f.lines[i].cut = TRUE \/ (2 * i - 1 = offset /\ 2 * i > Size(f))
  BY <1>2, CutFile
<1> QED BY <1>1, <1>3

-----------------------------------------------------------------------------
\* An entry of the collector.
Entries(e) ==
    /\ DOMAIN e = {"offset", "lastActivity", "cwd", "cmdCwd"}
    /\ e.offset \in Nat /\ e.lastActivity \in Nat

\* The newest stamp of some lines is one of them.
LEMMA NewestStamp ==
    ASSUME NEW f \in Files, NEW I \in SUBSET DOMAIN f.lines, I # {}
    PROVE  Newest(f, I) \in Nat /\ \A i \in I : f.lines[i].at <= Newest(f, I)
<1> DEFINE at == [i \in I |-> f.lines[i].at]
           S == {at[i] : i \in I}
<1>1. IsFiniteSet(1 .. Len(f.lines))
  <2>1. 1 \in Int /\ Len(f.lines) \in Int
    BY FileSize
  <2> QED BY <2>1, FS_Interval
<1>2. I \subseteq 1 .. Len(f.lines)
  BY FileSize
<1>3. IsFiniteSet(I)
  BY <1>1, <1>2, FS_Subset
<1>4. \A i \in I : at[i] = f.lines[i].at /\ at[i] \in Nat
  BY FileSize
<1>5. S = {f.lines[i].at : i \in I}
  OBVIOUS
<1> HIDE DEF at
<1>6. IsFiniteSet(S)
  BY <1>3, ImageIsFinite
<1>7. S \in SUBSET Int /\ S # {}
  BY <1>4
<1> HIDE DEF S
<1>8. PICK m : m \in S /\ \A y \in S : y <= m
  BY <1>6, <1>7, MaxOfFinite
<1>9. m \in {f.lines[i].at : i \in I} /\ \A i \in I : f.lines[i].at <= m
  BY <1>5, <1>8
<1>10. Newest(f, I) \in {f.lines[i].at : i \in I} /\ \A i \in I : f.lines[i].at <= Newest(f, I)
  BY <1>9 DEF Newest
<1>11. \A x \in {f.lines[i].at : i \in I} : x \in Nat
  BY <1>4
<1> QED BY <1>10, <1>11

\* What lines make of an entry: no less activity, and that of each of them.
Learnt(e, entry, f, I) ==
    /\ Entries(e) /\ e.offset = entry.offset /\ e.lastActivity >= entry.lastActivity
    /\ \A i \in I : f.lines[i].at <= e.lastActivity

\* That is what both parsers do.
LEMMA LearnsStamps ==
    ASSUME NEW f \in Files, NEW I \in SUBSET DOMAIN f.lines, I # {},
           NEW entry, Entries(entry)
    PROVE  Learnt(ClaudeLearns(entry, f, I), entry, f, I) /\ Learnt(CodexLearns(entry, f, I), entry, f, I)
<1>1. Learnt(Learn(entry, f, I), entry, f, I)
  <2> DEFINE n == Newest(f, I)
             e == Learn(entry, f, I)
  <2>1. n \in Nat /\ \A i \in I : f.lines[i].at <= n
    BY NewestStamp
  <2>2. e = [entry EXCEPT !.lastActivity = IF n > entry.lastActivity THEN n ELSE entry.lastActivity]
    BY DEF Learn
  <2>3. \A i \in I : f.lines[i].at \in Nat
    BY FileSize
  <2> HIDE DEF n, e
  <2>4. /\ DOMAIN e = DOMAIN entry /\ e.offset = entry.offset
        /\ e.lastActivity = IF n > entry.lastActivity THEN n ELSE entry.lastActivity
    BY <2>2 DEF Entries
  <2>5. e.lastActivity \in Nat /\ e.lastActivity >= entry.lastActivity /\ e.lastActivity >= n
    BY <2>1, <2>4 DEF Entries
  <2> QED BY <2>1, <2>3, <2>4, <2>5 DEF Learnt, Entries, e
<1>2. ASSUME NEW e, Learnt(e, entry, f, I), NEW d
      PROVE  Learnt([e EXCEPT !.cwd = d], entry, f, I) /\ Learnt([e EXCEPT !.cmdCwd = d], entry, f, I)
  BY <1>2 DEF Learnt, Entries
<1>3. Learnt(ClaudeLearns(entry, f, I), entry, f, I)
  <2> DEFINE e == Learn(entry, f, I)
  <2>1. PICK d : ClaudeLearns(entry, f, I) = [e EXCEPT !.cwd = d]
    BY DEF ClaudeLearns
  <2>2. Learnt(e, entry, f, I)
    BY <1>1
  <2> HIDE DEF e
  <2>3. Learnt([e EXCEPT !.cwd = d], entry, f, I)
    BY <1>2, <2>2
  <2> QED BY <2>1, <2>3
<1>4. Learnt(CodexLearns(entry, f, I), entry, f, I)
  <2> DEFINE e == ClaudeLearns(entry, f, I)
  <2>1. PICK d : CodexLearns(entry, f, I) = [e EXCEPT !.cmdCwd = d]
    BY DEF CodexLearns
  <2>2. Learnt(e, entry, f, I)
    BY <1>3
  <2> HIDE DEF e
  <2>3. Learnt([e EXCEPT !.cmdCwd = d], entry, f, I)
    BY <1>2, <2>2
  <2> QED BY <2>1, <2>3
<1> QED BY <1>3, <1>4

\* What a read makes of the entry and the file.
LEMMA ReadMakes ==
    ASSUME TailTypes, Read
    PROVE  /\ Entries(st') /\ st'.lastActivity >= st.lastActivity
           /\ \A i \in Whole(file, st.offset, Size(file)) : file.lines[i].at <= st'.lastActivity
           /\ st'.offset = Consumed(st.offset, Size(file))
           /\ file' = Cut(file, st'.offset)
           /\ \E b \in BOOLEAN : Emit(st', look.now, b)
           /\ look # NoLook /\ look' = NoLook /\ UNCHANGED <<format, clock, follows>>
<1> DEFINE end == Size(file)
           I == Whole(file, st.offset, end)
           learnt == IF I = {} THEN st
                     ELSE IF format = "claude" THEN ClaudeLearns(st, file, I)
                     ELSE CodexLearns(st, file, I)
           entry == [learnt EXCEPT !.offset = Consumed(learnt.offset, end)]
<1>1. /\ st' = entry /\ file' = Cut(file, entry.offset)
      /\ \E b \in BOOLEAN : Emit(entry, look.now, b)
      /\ look # NoLook /\ look' = NoLook /\ UNCHANGED <<format, clock, follows>>
  BY DEF Read
<1>2. I \in SUBSET DOMAIN file.lines /\ Entries(st) /\ file \in Files /\ end \in Nat
  BY FileSize DEF Whole, TailTypes, Entries
<1> HIDE DEF I
<1>3. Learnt(learnt, st, file, I)
  <2>1. CASE I = {}
    <3>1. learnt = st
      BY <2>1
    <3> HIDE DEF learnt
    <3>2. st.lastActivity >= st.lastActivity
      BY <1>2 DEF Entries
    <3> QED BY <1>2, <2>1, <3>1, <3>2 DEF Learnt
  <2>2. CASE I # {}
    <3>1. Learnt(ClaudeLearns(st, file, I), st, file, I) /\ Learnt(CodexLearns(st, file, I), st, file, I)
      BY <1>2, <2>2, LearnsStamps
    <3>2. learnt = ClaudeLearns(st, file, I) \/ learnt = CodexLearns(st, file, I)
      BY <2>2
    <3> QED BY <3>1, <3>2
  <2> QED BY <2>1, <2>2
<1> HIDE DEF learnt, end
<1>4. Consumed(learnt.offset, end) \in Nat
  BY <1>2, <1>3 DEF Consumed, TailTypes, Learnt, Entries
<1>5. /\ DOMAIN entry = DOMAIN learnt /\ entry.offset = Consumed(learnt.offset, end)
      /\ entry.lastActivity = learnt.lastActivity
  BY <1>3 DEF Learnt, Entries
<1> HIDE DEF entry
<1> QED BY <1>1, <1>3, <1>4, <1>5 DEF Learnt, Entries, I, end

\* A file whose last write is too old: its bytes are consumed unread.
Stale == clock - file.mtime >= Grace
\* A file that has shrunk is read from its beginning.
Rewound == IF Size(file) < st.offset THEN 0 ELSE st.offset

\* What a stat makes of the entry and the file.
LEMMA StatMakes ==
    ASSUME TailTypes, Stat
    PROVE  /\ Entries(st') /\ st'.lastActivity = st.lastActivity /\ UNCHANGED <<format, clock>>
           /\ follows' = (follows \/ Rewound = 0)
           /\ \/ /\ Stale /\ st'.offset = Size(file) /\ file' = Cut(file, Size(file))
                 /\ look' = NoLook
              \/ /\ ~Stale /\ st'.offset = Rewound /\ file' = file
                 /\ \/ /\ Rewound = Size(file) /\ look' = NoLook
                       /\ \E b \in BOOLEAN : Emit(st', clock, b)
                    \/ /\ Rewound # Size(file) /\ look' = [now |-> clock, size |-> Size(file)]
                       /\ look' # NoLook
<1> DEFINE rewound == [st EXCEPT !.offset = IF Size(file) < st.offset THEN 0 ELSE st.offset]
           stale == clock - file.mtime >= Grace
           entry == IF stale THEN [rewound EXCEPT !.offset = Size(file)] ELSE rewound
<1>1. /\ st' = entry
      /\ follows' = (follows \/ rewound.offset = 0)
      /\ file' = IF stale THEN Cut(file, Size(file)) ELSE file
      /\ IF stale \/ Size(file) = rewound.offset
         THEN /\ \E b \in BOOLEAN : Emit(entry, clock, b)
              /\ look' = NoLook
         ELSE /\ look' = [now |-> clock, size |-> Size(file)]
              /\ UNCHANGED out
      /\ UNCHANGED <<format, clock>>
  BY DEF Stat
<1>2. Entries(st) /\ Size(file) \in Nat
  BY FileSize DEF TailTypes, Entries
<1>3. Entries(rewound) /\ rewound.offset = Rewound /\ rewound.lastActivity = st.lastActivity
  BY <1>2 DEF Entries, Rewound
<1> HIDE DEF rewound
<1>4. Entries(entry) /\ entry.lastActivity = st.lastActivity
      /\ entry.offset = IF stale THEN Size(file) ELSE Rewound
  BY <1>2, <1>3 DEF Entries
<1>5. stale <=> Stale
  BY DEF Stale
<1>6. [now |-> clock, size |-> Size(file)] # NoLook
  BY TailAssumption DEF TailTypes, NoLook
<1> HIDE DEF stale, entry
<1>7. CASE Stale
  BY <1>1, <1>3, <1>4, <1>5, <1>7
<1>8. CASE ~Stale
  BY <1>1, <1>3, <1>4, <1>5, <1>6, <1>8
<1> QED BY <1>7, <1>8

-----------------------------------------------------------------------------
\* The types at every step.
LEMMA TailTypesKept ==
    ASSUME TailTypes, TailNext \/ UNCHANGED tailVars
    PROVE  TailTypes'
<1>0. Grace \in Nat /\ Grace >= 1 /\ clock - 1 \in Nat /\ file \in Files
      /\ clock \in Nat /\ file.mtime \in Nat /\ look.now \in Nat /\ clock >= Grace
  BY TailAssumption DEF TailTypes, Files
<1>1. CASE Second
  <2>1. clock' = clock + 1 /\ UNCHANGED <<file, st, look, follows>>
    BY <1>1 DEF Second
  <2>2. clock' \in Nat /\ clock' >= Grace /\ file.mtime <= clock' /\ look.now <= clock'
    BY <1>0, <2>1 DEF TailTypes
  <2> QED BY <2>1, <2>2 DEF TailTypes
<1>2. CASE UNCHANGED tailVars
  BY <1>2 DEF tailVars, TailTypes
<1>3. ASSUME file' \in Files, file'.mtime <= clock, follows' \in BOOLEAN,
             UNCHANGED <<clock, st, look>>
      PROVE  TailTypes'
  BY <1>3 DEF TailTypes
<1>4. ASSUME NEW c \in Content, NEW half \in BOOLEAN, WriteLine(c, half) PROVE TailTypes'
  <2> DEFINE new == Line(clock, c)
             lines == Append(file.lines, new)
  <2>1. file' = [lines |-> lines, half |-> half, mtime |-> clock]
        /\ UNCHANGED <<clock, st, look, follows>>
    BY <1>4 DEF WriteLine
  <2>2. new \in Lines /\ new.at = clock
    BY TailAssumption DEF Line, Lines, TailTypes
  <2>3. file.lines \in Seq(Lines) /\ Len(file.lines) \in Nat /\ DOMAIN file.lines = 1 .. Len(file.lines)
    BY <1>0, FileSize DEF Files
  <2>4. \A i \in DOMAIN file.lines : file.lines[i].at \in Nat /\ file.lines[i].at <= clock
    BY <1>0, FileSize DEF TailTypes, Files
  <2> HIDE DEF new
  <2>5. lines \in Seq(Lines) /\ Len(lines) = Len(file.lines) + 1
    BY <2>2, <2>3
  <2>6. \A i \in DOMAIN lines : lines[i].at <= clock
    <3> SUFFICES ASSUME NEW i \in DOMAIN lines PROVE lines[i].at <= clock
      OBVIOUS
    <3>1. CASE i = Len(file.lines) + 1
      BY <2>2, <2>3, <3>1 DEF TailTypes
    <3>2. CASE i \in DOMAIN file.lines
      BY <2>3, <2>4, <3>2
    <3> QED BY <2>3, <2>5, <3>1, <3>2
  <2> HIDE DEF lines
  <2>7. Len(lines) > 0
    BY <2>3, <2>5
  <2>8. file' \in Files /\ file'.mtime <= clock
    BY <2>1, <2>5, <2>6, <2>7 DEF Files, TailTypes
  <2> QED BY <1>3, <2>1, <2>8 DEF TailTypes
<1>5. CASE FinishLine
  <2>1. file' = [file EXCEPT !.half = FALSE, !.mtime = clock] /\ UNCHANGED <<clock, st, look, follows>>
    BY <1>5 DEF FinishLine
  <2>2. \A i \in DOMAIN file.lines : file.lines[i].at <= clock
    <3> SUFFICES ASSUME NEW i \in DOMAIN file.lines PROVE file.lines[i].at <= clock
      OBVIOUS
    <3>1. file.lines[i].at \in Nat /\ file.lines[i].at <= file.mtime
      BY <1>0, FileSize
    <3> QED BY <3>1 DEF TailTypes, Files
  <2>3. /\ file'.lines = file.lines /\ file'.mtime = clock /\ ~file'.half
        /\ file' \in [lines : Seq(Lines), half : BOOLEAN, mtime : Nat]
    BY <1>0, <2>1 DEF Files
  <2>4. file' \in Files /\ file'.mtime <= clock
    BY <1>0, <2>2, <2>3 DEF Files
  <2> QED BY <1>3, <2>1, <2>4 DEF TailTypes
<1>6. CASE ReplaceFile
  <2>1. PICK n \in 0 .. MaxLines, c \in Content :
          file' = [lines |-> [i \in 1 .. n |-> Line(clock - 1, c)], half |-> FALSE, mtime |-> clock]
    BY <1>6 DEF ReplaceFile
  <2> DEFINE old == Line(clock - 1, c)
             lines == [i \in 1 .. n |-> old]
  <2>2. old \in Lines /\ old.at = clock - 1
    BY <1>0, TailAssumption DEF Line, Lines
  <2>3. n \in Nat
    BY TailAssumption
  <2> HIDE DEF old
  <2>4. lines \in Seq(Lines)
    BY <2>2, <2>3
  <2>5. \A i \in DOMAIN lines : lines[i].at <= clock
    <3>1. \A i \in DOMAIN lines : lines[i] = old
      OBVIOUS
    <3>2. old.at <= clock
      BY <1>0, <2>2
    <3> HIDE DEF lines
    <3> QED BY <3>1, <3>2
  <2>6. file' = [lines |-> lines, half |-> FALSE, mtime |-> clock]
    BY <2>1 DEF old
  <2> HIDE DEF lines
  <2>7. file' \in Files /\ file'.mtime <= clock
    BY <2>4, <2>5, <2>6 DEF Files, TailTypes
  <2> QED BY <1>3, <1>6, <2>7 DEF ReplaceFile
<1>7. CASE RemoveFile
  <2>1. NoFile \in Files /\ NoFile.mtime = 0 /\ 0 <= clock
    BY <1>0 DEF NoFile, Files
  <2> QED BY <1>3, <1>7, <2>1 DEF RemoveFile
<1>8. CASE Prune \/ Restart
  <2>1. st' = Fresh /\ (look' = look \/ look' = NoLook) /\ UNCHANGED <<clock, file>> /\ follows' = TRUE
    BY <1>8 DEF Prune, Restart
  <2> QED BY <2>1 DEF TailTypes, Fresh, NoLook
<1>9. CASE StatFails \/ ReadFails
  <2>1. (look' = look \/ look' = NoLook) /\ UNCHANGED <<clock, file, st, follows>>
    BY <1>9 DEF StatFails, ReadFails
  <2> QED BY <2>1 DEF TailTypes, NoLook
<1>10. CASE Stat
  <2>1. /\ Entries(st') /\ UNCHANGED clock /\ follows' = (follows \/ Rewound = 0)
        /\ file' = file \/ file' = Cut(file, Size(file))
        /\ look' = look \/ look' = NoLook \/ look' = [now |-> clock, size |-> Size(file)]
    BY <1>10, StatMakes
  <2>2. Cut(file, Size(file)) \in Files /\ Cut(file, Size(file)).mtime = file.mtime /\ Size(file) \in Nat
    BY <1>0, FileSize, CutFile
  <2>3. file' \in Files /\ file'.mtime <= clock
    BY <1>0, <2>1, <2>2 DEF TailTypes
  <2>4. look'.now \in Nat /\ look'.now <= clock /\ look'.size \in Nat
    BY <2>1, <2>2 DEF TailTypes, NoLook
  <2> QED BY <2>1, <2>3, <2>4 DEF TailTypes, Entries
<1>11. CASE Read
  <2>1. Entries(st') /\ file' = Cut(file, st'.offset) /\ look' = NoLook /\ UNCHANGED <<clock, follows>>
    BY <1>11, ReadMakes
  <2>2. file' \in Files /\ file'.mtime = file.mtime
    BY <1>0, <2>1, CutFile DEF Entries
  <2> QED BY <2>1, <2>2 DEF TailTypes, Entries, NoLook
<1> QED BY <1>1, <1>2, <1>4, <1>5, <1>6, <1>7, <1>8, <1>9, <1>10, <1>11 DEF TailNext, Agent, Collect

\* An offset at the start of a file has nothing behind it.
LEMMA NothingBehind ==
    ASSUME NEW f \in Files, NEW entry, entry.offset = 0, NEW now
    PROVE  Consistent(f, entry, now)
<1>1. 0 <= Size(f) /\ \A i \in DOMAIN f.lines : ~(2 * i - 1 <= 0) /\ 2 * i - 1 # 0
  BY FileSize
<1> QED BY <1>1 DEF Consistent

\* A file that only grows, an entry that only learns and time keep an offset consistent.
LEMMA StaysConsistent ==
    ASSUME NEW f \in Files, NEW g \in Files, NEW e, NEW d, Entries(e), Entries(d),
           NEW now \in Nat, NEW later \in Nat, now <= later,
           Consistent(f, e, now), d.offset = e.offset, d.lastActivity >= e.lastActivity,
           Size(g) >= Size(f),
           \A i \in DOMAIN f.lines : /\ i \in DOMAIN g.lines /\ g.lines[i].at = f.lines[i].at
                                     /\ f.lines[i].cut = TRUE => g.lines[i].cut = TRUE,
           \A i \in DOMAIN g.lines : i \in DOMAIN f.lines \/ 2 * i - 1 > Size(f)
    PROVE  Consistent(g, d, later)
<1>0. Size(f) \in Nat /\ Size(g) \in Nat /\ Grace \in Nat
  BY FileSize, TailAssumption
<1>1. d.offset <= Size(g)
  BY <1>0 DEF Consistent, Entries
<1>2. ASSUME NEW i \in DOMAIN g.lines, 2 * i - 1 <= d.offset
      PROVE  /\ Accounted(g, d, later, i)
             /\ 2 * i - 1 = d.offset /\ 2 * i > Size(g) => g.lines[i].cut = TRUE
  <2>1. i \in Nat
    BY FileSize
  <2>2. i \in DOMAIN f.lines
    BY <1>0, <1>2, <2>1 DEF Consistent, Entries
  <2>3. Accounted(f, e, now, i) /\ (2 * i - 1 = e.offset /\ 2 * i > Size(f) => f.lines[i].cut = TRUE)
    BY <1>2, <2>2 DEF Consistent
  <2>4. f.lines[i].at \in Nat /\ g.lines[i].at = f.lines[i].at
    BY <2>2, FileSize
  <2>5. Accounted(g, d, later, i)
    BY <1>0, <2>2, <2>3, <2>4 DEF Accounted, Entries
  <2>6. 2 * i > Size(g) => 2 * i > Size(f)
    BY <1>0, <2>1
  <2> QED BY <2>2, <2>3, <2>5, <2>6
<1>3. \A i \in DOMAIN g.lines : 2 * i - 1 = d.offset => 2 * i - 1 <= d.offset
  BY FileSize DEF Entries
<1> QED BY <1>1, <1>2, <1>3 DEF Consistent

\* The line that is appended begins where the file ended.
LEMMA GrownFile ==
    ASSUME TailTypes, NEW c, NEW half, WriteLine(c, half), TailTypes'
    PROVE  /\ Size(file') >= Size(file)
           /\ \A i \in DOMAIN file.lines : i \in DOMAIN file'.lines /\ file'.lines[i] = file.lines[i]
           /\ \A i \in DOMAIN file'.lines : \/ i \in DOMAIN file.lines
                                            \/ 2 * i - 1 > Size(file) /\ file'.lines[i].cut = FALSE
<1>1. file'.lines = Append(file.lines, Line(clock, c)) /\ ~file.half
  BY DEF WriteLine
<1>2. /\ file.lines \in Seq(Lines) /\ file \in Files /\ file' \in Files
      /\ DOMAIN file.lines = 1 .. Len(file.lines) /\ Len(file.lines) \in Nat
  BY FileSize DEF TailTypes, Files
<1>3. /\ DOMAIN file'.lines = 1 .. Len(file.lines) + 1 /\ Len(file'.lines) = Len(file.lines) + 1
      /\ \A i \in DOMAIN file.lines : file'.lines[i] = file.lines[i]
      /\ file'.lines[Len(file.lines) + 1] = Line(clock, c)
  BY <1>1, <1>2
<1>4. Size(file) = 2 * Len(file.lines)
  BY <1>1, <1>2 DEF Size
<1>5. Size(file') >= 2 * Len(file'.lines) - 1 /\ Size(file') \in Nat
  BY <1>2, FileSize
<1>6. Line(clock, c).cut = FALSE
  BY DEF Line
<1>7. Size(file') >= Size(file)
  BY <1>2, <1>3, <1>4, <1>5
<1>8. \A i \in DOMAIN file'.lines : i \in DOMAIN file.lines \/ i = Len(file.lines) + 1
  BY <1>2, <1>3
<1>9. 2 * (Len(file.lines) + 1) - 1 > Size(file)
  BY <1>2, <1>4
<1>10. \A i \in DOMAIN file.lines : i \in DOMAIN file'.lines
  BY <1>2, <1>3
<1> QED BY <1>3, <1>6, <1>7, <1>8, <1>9, <1>10

\* The second half of a line.
LEMMA FinishedFile ==
    ASSUME TailTypes, FinishLine, TailTypes'
    PROVE  Size(file') >= Size(file) /\ file'.lines = file.lines
<1>1. file' = [file EXCEPT !.half = FALSE, !.mtime = clock] /\ file \in Files /\ file' \in Files
  BY DEF FinishLine, TailTypes
<1>2. file'.lines = file.lines /\ ~file'.half
  BY <1>1 DEF Files
<1>3. Size(file') = 2 * Len(file.lines)
  BY <1>1, <1>2, FileSize DEF Size
<1> QED BY <1>1, <1>2, <1>3, FileSize

\* What a read consumes it has learnt, or cut.
LEMMA ReadStaysConsistent ==
    ASSUME TailTypes, Read, Consistent(file, st, clock), look.size <= Size(file)
    PROVE  Consistent(file', st', clock)
<1>1. /\ Entries(st') /\ Entries(st) /\ st'.lastActivity >= st.lastActivity
      /\ \A i \in Whole(file, st.offset, Size(file)) : file.lines[i].at <= st'.lastActivity
      /\ st'.offset = Consumed(st.offset, Size(file))
      /\ file' = Cut(file, st'.offset)
  BY ReadMakes DEF TailTypes, Entries
<1>2. file \in Files /\ Size(file) \in Nat /\ clock \in Nat /\ Grace \in Nat /\ st.offset <= Size(file)
  BY FileSize, TailAssumption DEF TailTypes, Consistent
<1>3. st'.offset <= Size(file)
  BY <1>1, <1>2 DEF Consumed, Entries
<1>4. /\ Size(file') = Size(file) /\ DOMAIN file'.lines = DOMAIN file.lines
      /\ \A i \in DOMAIN file.lines :
            /\ file'.lines[i].at = file.lines[i].at
            /\ file'.lines[i].cut = TRUE <=>
                  file.lines[i].cut = TRUE \/ (2 * i - 1 = st'.offset /\ 2 * i > Size(file))
  BY <1>1, <1>2, CutFile DEF Entries
<1>5. ASSUME NEW i \in DOMAIN file.lines, 2 * i - 1 <= st'.offset
      PROVE  Accounted(file', st', clock, i)
  <2>1. i \in Nat /\ file.lines[i].at \in Nat
    BY <1>2, FileSize
  <2>2. CASE 2 * i - 1 <= st.offset
    <3>1. Accounted(file, st, clock, i)
      BY <2>2 DEF Consistent
    <3> QED BY <1>1, <1>4, <2>1, <3>1 DEF Accounted, Entries
  <2>3. CASE 2 * (i - 1) >= st.offset /\ 2 * i <= Size(file)
    <3>1. file.lines[i].at <= st'.lastActivity
      BY <1>1, <2>3 DEF Whole
    <3> QED BY <1>1, <1>4, <2>1, <3>1 DEF Accounted, Entries
  <2>4. CASE 2 * i > Size(file)
    <3>1. 2 * i - 1 = st'.offset
      BY <1>1, <1>2, <1>3, <1>5, <2>1, <2>4 DEF Entries
    <3> QED BY <1>4, <2>4, <3>1 DEF Accounted
  <2>5. 2 * i - 1 <= st.offset \/ 2 * (i - 1) >= st.offset
    BY <1>1, <2>1 DEF Entries
  <2>6. 2 * i <= Size(file) \/ 2 * i > Size(file)
    BY <1>2, <2>1
  <2> QED BY <2>2, <2>3, <2>4, <2>5, <2>6
<1> QED BY <1>3, <1>4, <1>5 DEF Consistent

\* A file that is too old to be read is consumed whole: so is every turn in it.
LEMMA StaleIsOld ==
    ASSUME TailTypes, Stale
    PROVE  \A i \in DOMAIN file.lines : clock - file.lines[i].at >= Grace
<1> SUFFICES ASSUME NEW i \in DOMAIN file.lines PROVE clock - file.lines[i].at >= Grace
  OBVIOUS
<1>1. file \in Files /\ clock \in Nat /\ file.mtime \in Nat /\ Grace \in Nat
  BY TailAssumption DEF TailTypes, Files
<1>2. file.lines[i].at \in Nat /\ file.lines[i].at <= file.mtime
  BY <1>1, FileSize
<1> QED BY <1>1, <1>2 DEF Stale

\* A stat.
LEMMA StatStaysConsistent ==
    ASSUME TailTypes, TailInv, Stat, follows' = TRUE
    PROVE  Consistent(file', st', clock) /\ (look' # NoLook => look'.size <= Size(file'))
<1>0. file \in Files /\ Size(file) \in Nat /\ clock \in Nat /\ st.offset \in Nat
  BY FileSize DEF TailTypes
<1>1. /\ Entries(st') /\ st'.lastActivity = st.lastActivity /\ follows' = (follows \/ Rewound = 0)
      /\ \/ Stale /\ st'.offset = Size(file) /\ file' = Cut(file, Size(file)) /\ look' = NoLook
         \/ /\ ~Stale /\ st'.offset = Rewound /\ file' = file
            /\ look' = NoLook \/ look' = [now |-> clock, size |-> Size(file)]
  BY StatMakes
<1>2. CASE Stale /\ st'.offset = Size(file) /\ file' = Cut(file, Size(file)) /\ look' = NoLook
  <2>1. /\ Size(file') = Size(file) /\ DOMAIN file'.lines = DOMAIN file.lines
        /\ \A i \in DOMAIN file.lines :
              /\ file'.lines[i].at = file.lines[i].at
              /\ 2 * i - 1 = Size(file) /\ 2 * i > Size(file) => file'.lines[i].cut = TRUE
    <3>1. PICK o \in Nat : o = Size(file)
      BY <1>0
    <3>2. file' = Cut(file, o)
      BY <1>2, <3>1
    <3> QED BY <1>0, <3>1, <3>2, CutStep
  <2>2. \A i \in DOMAIN file'.lines : clock - file'.lines[i].at >= Grace
    BY <1>2, <2>1, StaleIsOld
  <2>3. st'.offset <= Size(file')
    BY <1>0, <1>2, <2>1
  <2> QED BY <1>2, <2>1, <2>2, <2>3 DEF Consistent, Accounted
<1>3. CASE /\ st'.offset = Rewound /\ file' = file
           /\ look' = NoLook \/ look' = [now |-> clock, size |-> Size(file)]
  <2>1. look' # NoLook => look'.size <= Size(file')
    BY <1>0, <1>3
  <2>2. CASE Rewound = 0
    BY <1>0, <1>3, <2>1, <2>2, NothingBehind
  <2>3. CASE Rewound # 0
    <3>1. follows = TRUE
      BY <1>1, <2>3 DEF TailTypes
    <3>2. Consistent(file, st, clock) /\ st.offset <= Size(file)
      BY <3>1 DEF TailInv, Consistent
    <3>3. st'.offset = st.offset
      BY <1>0, <1>3, <3>2 DEF Rewound
    <3>4. Consistent(file, st', clock)
      BY <1>1, <3>2, <3>3 DEF Consistent, Accounted
    <3> QED BY <1>3, <2>1, <3>4
  <2> QED BY <2>2, <2>3
<1> QED BY <1>1, <1>2, <1>3

\* Every step.
LEMMA TailInvKept ==
    ASSUME TailTypes, TailInv, TailNext \/ UNCHANGED tailVars, TailTypes'
    PROVE  TailInv'
<1> SUFFICES ASSUME follows' = TRUE
             PROVE  Consistent(file', st', clock') /\ (look' # NoLook => look'.size <= Size(file'))
  BY DEF TailInv
<1>0. /\ file \in Files /\ file' \in Files /\ Size(file) \in Nat /\ Size(file') \in Nat
      /\ clock \in Nat /\ clock' \in Nat /\ Entries(st) /\ Entries(st') /\ look.size \in Nat
  BY FileSize DEF TailTypes, Entries
<1>1. ASSUME follows = TRUE, st' = st, look' = look \/ look' = NoLook, clock <= clock',
             Size(file') >= Size(file),
             \A i \in DOMAIN file.lines : /\ i \in DOMAIN file'.lines
                                          /\ file'.lines[i] = file.lines[i],
             \A i \in DOMAIN file'.lines : i \in DOMAIN file.lines \/ 2 * i - 1 > Size(file)
      PROVE  Consistent(file', st', clock') /\ (look' # NoLook => look'.size <= Size(file'))
  <2>1. Consistent(file, st, clock) /\ (look # NoLook => look.size <= Size(file))
    BY <1>1 DEF TailInv
  <2>2. st'.lastActivity >= st.lastActivity /\ st'.offset = st.offset
    BY <1>0, <1>1 DEF Entries
  <2>3. \A i \in DOMAIN file.lines :
          /\ i \in DOMAIN file'.lines /\ file'.lines[i].at = file.lines[i].at
          /\ file.lines[i].cut = TRUE => file'.lines[i].cut = TRUE
    BY <1>1
  <2>4. PICK f, g, e, d, now, later :
          f = file /\ g = file' /\ e = st /\ d = st' /\ now = clock /\ later = clock'
    OBVIOUS
  <2>5. Consistent(g, d, later)
    BY <1>0, <1>1, <2>1, <2>2, <2>3, <2>4, StaysConsistent
  <2>6. look' # NoLook => look'.size <= Size(file')
    BY <1>0, <1>1, <2>1
  <2> QED BY <2>4, <2>5, <2>6
<1>2. CASE Second \/ UNCHANGED tailVars \/ StatFails \/ ReadFails
  <2>1. /\ UNCHANGED <<file, st, follows>> /\ (look' = look \/ look' = NoLook)
        /\ clock' = clock \/ clock' = clock + 1
    BY <1>2 DEF Second, tailVars, StatFails, ReadFails
  <2>2. clock <= clock' /\ Size(file') >= Size(file)
    BY <1>0, <2>1
  <2> QED BY <1>1, <2>1, <2>2
<1>3. ASSUME NEW c \in Content, NEW half \in BOOLEAN, WriteLine(c, half)
      PROVE  Consistent(file', st', clock') /\ (look' # NoLook => look'.size <= Size(file'))
  <2>1. UNCHANGED <<clock, st, look, follows>> /\ clock <= clock'
    BY <1>0, <1>3 DEF WriteLine
  <2> QED BY <1>1, <1>3, <2>1, GrownFile
<1>4. CASE FinishLine
  <2>1. UNCHANGED <<clock, st, look, follows>> /\ clock <= clock'
    BY <1>0, <1>4 DEF FinishLine
  <2> QED BY <1>1, <1>4, <2>1, FinishedFile
<1>5. CASE ReplaceFile \/ RemoveFile
  BY <1>5 DEF ReplaceFile, RemoveFile
<1>6. CASE Prune \/ Restart
  <2>1. st' = Fresh /\ look' = NoLook
    BY <1>6 DEF Prune, Restart
  <2>2. PICK f, d, now : f = file' /\ d = st' /\ now = clock'
    OBVIOUS
  <2>3. d.offset = 0
    BY <2>1, <2>2 DEF Fresh
  <2>4. Consistent(f, d, now)
    BY <1>0, <2>2, <2>3, NothingBehind
  <2> QED BY <2>1, <2>2, <2>4
<1>7. CASE Stat
  <2>1. clock' = clock
    BY <1>7 DEF Stat
  <2> QED BY <1>7, <2>1, StatStaysConsistent
<1>8. CASE Read
  <2>1. follows = TRUE /\ look # NoLook /\ look' = NoLook /\ clock' = clock
    BY <1>8, ReadMakes
  <2>2. Consistent(file, st, clock) /\ look.size <= Size(file)
    BY <2>1 DEF TailInv
  <2> QED BY <1>8, <2>1, <2>2, ReadStaysConsistent
<1> QED BY <1>2, <1>3, <1>4, <1>5, <1>6, <1>7, <1>8 DEF TailNext, Agent, Collect

\* Initially there is nothing to know.
LEMMA TailStarts == TailInit => TailTypes /\ TailInv
<1> SUFFICES ASSUME TailInit PROVE TailTypes /\ TailInv
  OBVIOUS
<1>1. /\ clock = Grace /\ file = NoFile /\ st = Fresh /\ look = NoLook /\ follows = TRUE
      /\ Grace \in Nat
  BY TailAssumption DEF TailInit
<1>2. NoFile \in Files /\ NoFile.mtime = 0
  BY DEF NoFile, Files
<1>3. Fresh.offset = 0
  BY DEF Fresh
<1>4. TailTypes
  BY <1>1, <1>2 DEF TailTypes, Fresh, NoLook
<1>5. Consistent(file, st, clock)
  BY <1>1, <1>2, <1>3, NothingBehind
<1> QED BY <1>1, <1>4, <1>5 DEF TailInv

\* The inductive invariant.
LEMMA TailAlways == TailSpec => [](TailTypes /\ TailInv)
<1>1. TailTypes /\ TailInv /\ [TailNext]_tailVars => (TailTypes /\ TailInv)'
  BY TailTypesKept, TailInvKept
<1> QED BY <1>1, TailStarts, PTL DEF TailSpec

\* Collecting a file that it follows, the daemon knows of every recent turn in it that
\* no half line hid, and reports it if the directory is tracked (transcript.go,
\* codex.go), whatever the agent writes between the stat and the read.
THEOREM TurnsAreSeen == TailSpec => TurnsSeen
<1>1. ASSUME TailTypes, TailInv, TailTypes', follows' = TRUE, look' = NoLook, Read \/ Stat,
             NEW i \in Whole(file', 0, Size(file')),
             ~file'.lines[i].cut, clock - file'.lines[i].at < Grace
      PROVE  /\ st'.lastActivity >= file'.lines[i].at
             /\ Spoken(st') \in Tracked => out' = Spoken(st')
  <2>0. /\ i \in DOMAIN file'.lines /\ 2 * i <= Size(file')
        /\ file \in Files /\ file' \in Files /\ clock \in Nat /\ Size(file) \in Nat
        /\ Entries(st) /\ Entries(st') /\ Grace \in Nat
        /\ look.now \in Nat /\ look.now <= clock
    BY <1>1, FileSize, TailAssumption DEF Whole, TailTypes, Entries
  <2>1. i \in Nat /\ file'.lines[i].at \in Nat
    BY <2>0, FileSize
  <2>2. ASSUME Read
        PROVE  /\ st'.lastActivity >= file'.lines[i].at
               /\ \E now \in Nat, b \in BOOLEAN : now <= clock /\ Emit(st', now, b)
    <3>1. /\ st'.lastActivity >= st.lastActivity
          /\ \A j \in Whole(file, st.offset, Size(file)) : file.lines[j].at <= st'.lastActivity
          /\ file' = Cut(file, st'.offset) /\ follows' = follows
      BY <1>1, <2>2, ReadMakes
    <3>2. \E now \in Nat, b \in BOOLEAN : now <= clock /\ Emit(st', now, b)
      BY <1>1, <2>0, <2>2, ReadMakes
    <3>3. /\ Size(file') = Size(file) /\ i \in DOMAIN file.lines
          /\ file'.lines[i].at = file.lines[i].at /\ file.lines[i].cut # TRUE
      <4>1. st'.offset \in Nat
        BY <2>0 DEF Entries
      <4> QED BY <1>1, <2>0, <3>1, <4>1, CutFile
    <3>4. CASE 2 * i - 1 <= st.offset
      <4>1. Accounted(file, st, clock, i)
        BY <1>1, <3>1, <3>3, <3>4 DEF TailInv, Consistent
      <4>2. ~(clock - file.lines[i].at >= Grace)
        <5>1. clock - file'.lines[i].at < Grace
          BY <1>1
        <5> QED BY <2>0, <2>1, <3>3, <5>1
      <4>3. st.lastActivity >= file.lines[i].at
        BY <3>3, <4>1, <4>2 DEF Accounted
      <4> QED BY <2>0, <2>1, <3>1, <3>2, <3>3, <4>3 DEF Entries
    <3>5. CASE 2 * (i - 1) >= st.offset
      BY <2>0, <3>1, <3>2, <3>3, <3>5 DEF Whole
    <3>6. 2 * i - 1 <= st.offset \/ 2 * (i - 1) >= st.offset
      BY <2>0, <2>1 DEF Entries
    <3> QED BY <3>4, <3>5, <3>6
  <2>3. ASSUME Stat
        PROVE  /\ st'.lastActivity >= file'.lines[i].at
               /\ \E now \in Nat, b \in BOOLEAN : now <= clock /\ Emit(st', now, b)
    <3>1. /\ st'.lastActivity = st.lastActivity /\ follows' = (follows \/ Rewound = 0)
          /\ \/ Stale /\ file' = Cut(file, Size(file))
             \/ /\ Rewound = Size(file) /\ file' = file
                /\ \E b \in BOOLEAN : Emit(st', clock, b)
      BY <1>1, <2>3, StatMakes
    <3>2. CASE Stale /\ file' = Cut(file, Size(file))
      <4>1. i \in DOMAIN file.lines /\ file'.lines[i].at = file.lines[i].at
        <5>1. PICK o \in Nat : o = Size(file)
          BY <2>0
        <5>2. file' = Cut(file, o)
          BY <3>2, <5>1
        <5> QED BY <2>0, <5>2, CutStep
      <4>2. clock - file.lines[i].at >= Grace
        BY <1>1, <3>2, <4>1, StaleIsOld
      <4> QED BY <1>1, <2>0, <2>1, <4>1, <4>2
    <3>3. CASE /\ Rewound = Size(file) /\ file' = file
               /\ \E b \in BOOLEAN : Emit(st', clock, b)
      <4>1. Rewound # 0
        BY <2>0, <2>1, <3>3, FileSize
      <4>2. follows = TRUE
        BY <1>1, <3>1, <4>1 DEF TailTypes
      <4>3. Consistent(file, st, clock) /\ st.offset <= Size(file)
        BY <1>1, <4>2 DEF TailInv, Consistent
      <4>4. st.offset = Size(file)
        BY <2>0, <3>3, <4>3 DEF Rewound, Entries
      <4>5. Accounted(file, st, clock, i)
        BY <2>0, <2>1, <3>3, <4>3, <4>4 DEF Consistent
      <4>6. st.lastActivity >= file.lines[i].at
        BY <1>1, <2>0, <2>1, <3>3, <4>5 DEF Accounted
      <4>7. clock <= clock
        BY <2>0
      <4> QED BY <2>0, <3>1, <3>3, <4>6, <4>7
    <3> QED BY <3>1, <3>2, <3>3
  <2>4. PICK now \in Nat, b \in BOOLEAN : now <= clock /\ Emit(st', now, b)
    BY <1>1, <2>2, <2>3
  <2>5. st'.lastActivity >= file'.lines[i].at
    BY <1>1, <2>2, <2>3
  <2>6. now - st'.lastActivity < Grace
    BY <1>1, <2>0, <2>1, <2>4, <2>5 DEF Entries
  <2> QED BY <2>4, <2>5, <2>6 DEF Emit
<1>2. TailTypes /\ TailInv /\ TailTypes' /\ [TailNext]_tailVars =>
        [follows' /\ look' = NoLook /\ (Read \/ Stat) =>
           \A i \in Whole(file', 0, Size(file')) :
               LET line == file'.lines[i]
               IN  ~line.cut /\ clock - line.at < Grace =>
                       /\ st'.lastActivity >= line.at
                       /\ Spoken(st') \in Tracked => out' = Spoken(st')]_tailVars
  BY <1>1 DEF TailTypes
<1> QED BY <1>2, TailAlways, PTL DEF TailSpec, TurnsSeen

\* The Codex collector passes half a line only when its turn is too old to count
\* (parseCodexTail), or when another file has taken the path.
THEOREM HalfLinesAreKept == TailSpec => HalfLinesWait
<1>1. ASSUME TailTypes, TailInv, TailTypes', TailNext, format = "codex", follows' = TRUE,
             NEW i \in DOMAIN file'.lines, file'.lines[i].cut, ~file.lines[i].cut
      PROVE  clock - file.lines[i].at >= Grace
  <2>0. /\ file \in Files /\ file' \in Files /\ Size(file) \in Nat /\ Entries(st) /\ Entries(st')
    BY FileSize, <1>1 DEF TailTypes, Entries
  <2>1. file'.lines[i].cut = TRUE /\ i \in Nat
    <3>1. file'.lines[i] \in Lines /\ i \in Nat
      BY <2>0, FileSize
    <3> QED BY <1>1, <3>1 DEF Lines
  <2>2. CASE file'.lines = file.lines
    BY <1>1, <2>2
  <2>3. ASSUME NEW c, NEW half, WriteLine(c, half) PROVE FALSE
    <3>1. i \in DOMAIN file.lines /\ file'.lines[i] = file.lines[i]
      BY <1>1, <2>1, <2>3, GrownFile
    <3> QED BY <1>1, <3>1
  <2>4. CASE FinishLine
    BY <1>1, <2>2, <2>4, FinishedFile
  <2>5. CASE Stat
    <3>1. (Stale /\ file' = Cut(file, Size(file))) \/ file' = file
      BY <1>1, <2>5, StatMakes
    <3>2. CASE Stale /\ file' = Cut(file, Size(file))
      <4>1. i \in DOMAIN file.lines
        BY <2>0, <3>2, CutFile
      <4> QED BY <1>1, <3>2, <4>1, StaleIsOld
    <3> QED BY <2>2, <3>1, <3>2
  <2>6. CASE Read
    <3>1. /\ file' = Cut(file, st'.offset) /\ st'.offset = Consumed(st.offset, Size(file))
          /\ follows' = follows /\ st'.offset \in Nat /\ st.offset \in Nat
      BY <1>1, <2>0, <2>6, ReadMakes DEF Entries
    <3>2. i \in DOMAIN file.lines /\ 2 * i - 1 = st'.offset /\ 2 * i > Size(file)
      <4>1. PICK o \in Nat : o = st'.offset
        BY <3>1
      <4>2. file' = Cut(file, o)
        BY <3>1, <4>1
      <4>3. file.lines[i].cut # TRUE
        BY <1>1
      <4>4. i \in DOMAIN file.lines
        BY <2>0, <4>2, CutStep, <1>1
      <4>5. 2 * i - 1 = o /\ 2 * i > Size(file)
        BY <2>0, <2>1, <4>2, <4>3, <4>4, CutStep
      <4> QED BY <4>1, <4>4, <4>5
    <3>3. st'.offset = 2 * (Size(file) \div 2) \/ st'.offset = st.offset
      BY <1>1, <3>1 DEF Consumed
    <3>4. st'.offset # 2 * (Size(file) \div 2)
      <4> DEFINE k == Size(file) \div 2
      <4>1. k \in Nat
        BY <2>0
      <4> HIDE DEF k
      <4>2. 2 * i - 1 # 2 * k
        BY <2>1, <4>1
      <4> QED BY <3>2, <4>2 DEF k
    <3>5. Consistent(file, st, clock)
      BY <1>1, <3>1 DEF TailInv
    <3>6. file.lines[i].cut = TRUE
      BY <3>2, <3>3, <3>4, <3>5 DEF Consistent
    <3> QED BY <1>1, <3>6
  <2>7. CASE ReplaceFile \/ RemoveFile
    BY <1>1, <2>7 DEF ReplaceFile, RemoveFile
  <2>8. CASE Second \/ Prune \/ Restart \/ StatFails \/ ReadFails
    <3>1. file' = file
      BY <2>8 DEF Second, Prune, Restart, StatFails, ReadFails
    <3> QED BY <2>2, <3>1
  <2> QED BY <1>1, <2>3, <2>4, <2>5, <2>6, <2>7, <2>8 DEF TailNext, Agent, Collect
<1>2. TailTypes /\ TailInv /\ TailTypes' /\ [TailNext]_tailVars =>
        [format = "codex" /\ follows' =>
           \A i \in DOMAIN file'.lines :
               file'.lines[i].cut /\ ~file.lines[i].cut => clock - file.lines[i].at >= Grace]_tailVars
  BY <1>1 DEF TailTypes
<1> QED BY <1>2, TailAlways, PTL DEF TailSpec, HalfLinesWait

-----------------------------------------------------------------------------
(* The import of whole transcripts: one statement at a time, beside the    *)
(* poller and other imports, it doubles no row and leaves no gap.           *)

\* What the assumptions say of the interval and its window.
LEMMA IntervalIsNat == Interval \in Nat /\ Interval > 0 /\ Window \in Nat /\ Window < Interval
  BY ImportAssumption DEF Window

\* Every stamp has a candidate of its block's grid less than an interval before it.
LEMMA GridIsNear ==
    ASSUME NEW stamps \in SUBSET Nat, IsFiniteSet(stamps), NEW s \in stamps
    PROVE  \E ts \in Candidates(stamps) : ts \in Nat /\ ts \in s - Window .. s
<1> DEFINE B == {b \in Starts(stamps, GraceSec) : b <= s}
           b == Max(B)
           E == {e \in stamps : \A x \in Starts(stamps, GraceSec) : x <= b \/ x > e}
           end == BlockEnd(stamps, GraceSec, b)
<1>1. B # {}
  <2>1. PICK m \in stamps : \A t \in stamps : m <= t
    BY LeastNat
  <2>2. m \in Starts(stamps, GraceSec)
    BY <2>1 DEF Starts
  <2> QED BY <2>1, <2>2
<1>2. b \in B /\ \A x \in B : x <= b
  <2>1. B \in SUBSET stamps
    BY DEF Starts
  <2> HIDE DEF B
  <2>2. IsFiniteSet(B)
    BY <2>1, FS_Subset
  <2>3. B \in SUBSET Int
    BY <2>1
  <2> QED BY <1>1, <2>2, <2>3, MaxOfFinite
<1>3. b \in Nat /\ b <= s /\ b \in Starts(stamps, GraceSec)
  BY <1>2 DEF Starts
<1>4. \A x \in Starts(stamps, GraceSec) : x <= b \/ x > s
  <2> SUFFICES ASSUME NEW x \in Starts(stamps, GraceSec), x <= s PROVE x <= b
    BY DEF Starts
  <2> QED BY <1>2
<1> HIDE DEF b
<1>5. end \in Nat /\ s <= end
  <2>1. s \in E /\ E \in SUBSET stamps
    BY <1>4
  <2>3. end = Max(E)
    BY DEF BlockEnd
  <2> HIDE DEF E, end
  <2>2. IsFiniteSet(E)
    BY <2>1, FS_Subset
  <2>5. E \in SUBSET Int /\ E # {}
    BY <2>1
  <2>4. Max(E) \in E /\ s <= Max(E)
    BY <2>1, <2>2, <2>5, MaxOfFinite
  <2> QED BY <2>1, <2>3, <2>4
<1> HIDE DEF end
<1> DEFINE q == (s - b) \div Interval
           ts == b + q * Interval
<1>6. q \in Nat /\ q * Interval <= s - b /\ s - b < q * Interval + Interval
  BY <1>3, IntervalIsNat
<1>7. (q * Interval) % Interval = 0
  <2> HIDE DEF q
  <2> QED BY <1>6, IntervalIsNat
<1>8. q * Interval \in Nat
  BY <1>6, IntervalIsNat
<1>9. ts \in b .. end /\ (ts - b) % Interval = 0 /\ ts \in s - Window .. s /\ ts \in Nat
  <2> DEFINE k == q * Interval
  <2>1. k \in Nat /\ k <= s - b /\ s - b < k + Interval /\ k % Interval = 0
    BY <1>6, <1>7, <1>8
  <2> HIDE DEF k, q
  <2>2. ts - b = k
    BY <1>3, <2>1 DEF k
  <2>3. Window = Interval - 1 /\ Interval \in Nat /\ s \in Nat
    BY IntervalIsNat DEF Window
  <2> QED BY <1>3, <1>5, <2>1, <2>2, <2>3 DEF k
<1>10. ts \in Grid(b, end)
  BY <1>9 DEF Grid
<1> QED BY <1>3, <1>9, <1>10 DEF Candidates, end

-----------------------------------------------------------------------------
\* The rows and the calls: what is recorded has its second, an observation outside
\* a space the project of its directory, and a call candidates that are seconds.
ImportTypes ==
    /\ time \in Nat
    /\ \A t \in ticks : t.ts \in Nat
    /\ \A t \in ticks, s \in Range(Transcripts) : t.obs = <<s, FALSE>> => t.proj = MatchOf[s]
    /\ call = [c \in Importer |-> call[c]]
    /\ \A c \in Importer :
          /\ DOMAIN call[c] = DOMAIN NotCalled
          /\ call[c].file \in Nat /\ call[c].todo \in SUBSET Nat
          /\ call[c].todo # {} => call[c].file - 1 \in DOMAIN Transcripts
          /\ call[c].insert \in BOOLEAN /\ (call[c].insert = TRUE => call[c].todo # {})

\* The row for the next candidate.
LEMMA CandidateType ==
    ASSUME ImportTypes, NEW c \in Importer, call[c].todo # {}
    PROVE  /\ NextTs(c) \in call[c].todo /\ NextTs(c) \in Nat
           /\ Candidate(c).ts = NextTs(c) /\ Candidate(c).by = c
           /\ Candidate(c).proj = MatchOf[Transcripts[call[c].file - 1]]
           /\ Candidate(c).obs = <<Transcripts[call[c].file - 1], FALSE>>
           /\ Candidate(c).blind = call[c].blind
           /\ Transcripts[call[c].file - 1] \in Range(Transcripts)
<1>1. call[c].todo \in SUBSET Nat /\ call[c].file - 1 \in DOMAIN Transcripts
  BY DEF ImportTypes
<1>2. \E x \in call[c].todo : \A y \in call[c].todo : x <= y
  BY <1>1, LeastNat
<1>3. NextTs(c) \in call[c].todo
  BY <1>2 DEF NextTs, Min
<1> QED BY <1>1, <1>3 DEF Candidate, Range

\* What an insertion leaves: the rows, and the new one unless its second has one.
LEMMA InsertedRows ==
    ASSUME NEW row
    PROVE  /\ ticks \subseteq Inserted(row) /\ Inserted(row) \subseteq ticks \cup {row}
           /\ \E t \in Inserted(row) : t.ts = row.ts /\ t.obs = row.obs
  BY DEF Inserted

\* A client's next candidate is done with, and nobody else's.
LEMMA DoneCalls ==
    ASSUME ImportTypes, NEW c \in Importer
    PROVE  /\ Done(c) = [d \in Importer |-> Done(c)[d]]
           /\ \A d \in Importer : d # c => Done(c)[d] = call[d]
           /\ Done(c)[c] = [call[c] EXCEPT !.todo = call[c].todo \ {NextTs(c)}, !.insert = FALSE,
                                       !.blind = FALSE]
  BY DEF ImportTypes, Done

\* The fields of a call.
LEMMA CallFields ==
    DOMAIN NotCalled = {"file", "from", "to", "todo", "insert", "blind", "began", "before", "read", "plan"}
  BY DEF NotCalled

\* The steps of a client's call, by what they make of it.
Begun(r, c) == call'[c] = [NotCalled EXCEPT !.file = 1, !.from = r.from, !.to = r.to,
                                           !.began = time, !.before = ticks]
\* The candidates of the file at hand.
GridOf(c) ==
    LET session == Transcripts[call[c].file]
        inRange == {s \in StampsOf[session] : s <= time /\ s >= call[c].from /\ s <= call[c].to}
    IN  IF MatchOf[session] = NoMatch THEN {} ELSE Candidates(inRange)
\* What its reading adds to the plan.
PlanOf(c) == {[ts |-> ts, proj |-> MatchOf[Transcripts[call[c].file]]] : ts \in GridOf(c)}
\* The call once it is read.
FileRead(c) ==
    call'[c] = [call[c] EXCEPT !.file = call[c].file + 1, !.todo = GridOf(c),
                               !.read = call[c].read \cup {Transcripts[call[c].file]},
                               !.plan = call[c].plan \cup PlanOf(c)]
\* A file passed over, and a candidate done with.
Skipped(c) == call'[c] = [call[c] EXCEPT !.file = call[c].file + 1]
Passed(c) == call'[c] = [call[c] EXCEPT !.todo = call[c].todo \ {NextTs(c)}, !.insert = FALSE,
                                      !.blind = FALSE]
\* A candidate whose check failed.
Unchecked(c) == call'[c] = [call[c] EXCEPT !.insert = TRUE, !.blind = TRUE]

\* Any of them.
ClientStep(c) ==
    \/ Import(c) \/ ReadFile(c) \/ SkipFile(c) \/ CheckTick(c)
    \/ CheckFails(c) \/ ImportTick(c) \/ ImportFails(c) \/ Imported(c)

\* What each step makes of its call and the rows, under which condition.
LEMMA CallSteps ==
    ASSUME ImportTypes, NEW c \in Importer, ClientStep(c)
    PROVE  /\ call' = [d \in Importer |-> call'[d]] /\ time' = time
           /\ \A d \in Importer : d # c => call'[d] = call[d]
           /\ \/ (\E r \in Ranges : Begun(r, c)) /\ call[c].file = 0 /\ ticks' = ticks
              \/ FileRead(c) /\ Reading(c) /\ call[c].file <= Len(Transcripts) /\ ticks' = ticks
              \/ Skipped(c) /\ Reading(c) /\ ticks' = ticks
              \/ /\ Passed(c) /\ ticks' = ticks /\ Taken(c) /\ call[c].todo # {}
              \/ /\ call'[c] = [call[c] EXCEPT !.insert = TRUE] /\ ticks' = ticks
                 /\ ~Taken(c) /\ call[c].todo # {}
              \/ Unchecked(c) /\ ticks' = ticks /\ call[c].todo # {}
              \/ /\ Passed(c) /\ ticks' = Inserted(Candidate(c)) /\ call[c].insert = TRUE
                 /\ call[c].todo # {}
              \/ call'[c] = NotCalled /\ ticks' = ticks
<1>0. call = [d \in Importer |-> call[d]] /\ DOMAIN call[c] = DOMAIN NotCalled
      /\ call[c].insert \in BOOLEAN
  BY DEF ImportTypes
<1>1. CASE Import(c)
  <2>1. PICK r \in Ranges :
          call' = [call EXCEPT ![c] = [NotCalled EXCEPT !.file = 1, !.from = r.from,
                                          !.to = r.to, !.began = time, !.before = ticks]]
    BY <1>1 DEF Import
  <2>2. Begun(r, c)
    BY <1>0, <2>1 DEF Begun
  <2> QED BY <1>0, <1>1, <2>1, <2>2 DEF Import
<1>2. CASE ReadFile(c)
  <2>1. call' = [call EXCEPT ![c].file = @ + 1, ![c].todo = GridOf(c),
                             ![c].read = @ \cup {Transcripts[call[c].file]},
                             ![c].plan = @ \cup PlanOf(c)]
    BY <1>2 DEF ReadFile, GridOf, PlanOf
  <2>2. FileRead(c)
    BY <1>0, <2>1 DEF FileRead
  <2> QED BY <1>0, <1>2, <2>1, <2>2 DEF ReadFile
<1>3. CASE SkipFile(c)
  BY <1>0, <1>3 DEF SkipFile, Skipped
<1>4. CASE CheckTick(c)
  BY <1>0, <1>4, DoneCalls DEF CheckTick, Passed
<1>5. CASE ImportTick(c)
  BY <1>0, <1>5, DoneCalls DEF ImportTick, Passed, ImportTypes
<1>6. CASE ImportFails(c) \/ Imported(c)
  BY <1>0, <1>6 DEF ImportFails, Imported
<1>7. CASE CheckFails(c)
  BY <1>0, <1>7 DEF CheckFails, Unchecked
<1> QED BY <1>1, <1>2, <1>3, <1>4, <1>5, <1>6, <1>7 DEF ClientStep

\* Candidates are seconds of the transcript's range.
LEMMA GridTypes ==
    ASSUME ImportTypes, NEW c \in Importer, call[c].file \in DOMAIN Transcripts
    PROVE  GridOf(c) \in SUBSET Nat
<1> DEFINE session == Transcripts[call[c].file]
           inRange == {s \in StampsOf[session] : s <= time /\ s >= call[c].from /\ s <= call[c].to}
<1>1. inRange \in SUBSET Nat /\ IsFiniteSet(inRange)
  <2>1. inRange \in SUBSET Nat
    BY ImportAssumption
  <2>2. inRange \subseteq 0 .. time /\ time \in Nat
    BY <2>1 DEF ImportTypes
  <2> HIDE DEF inRange
  <2>3. IsFiniteSet(0 .. time)
    BY <2>2, FS_Interval
  <2>4. IsFiniteSet(inRange)
    BY <2>2, <2>3, FS_Subset
  <2> QED BY <2>1, <2>4
<1> HIDE DEF inRange
<1>2. \A ts \in Candidates(inRange) : ts \in Nat
  <2>1. ASSUME NEW s \in Starts(inRange, GraceSec), NEW ts \in Grid(s, BlockEnd(inRange, GraceSec, s))
        PROVE  ts \in Nat
    <3> DEFINE E == {e \in inRange : \A b \in Starts(inRange, GraceSec) : b <= s \/ b > e}
    <3>1. E \in SUBSET inRange /\ s \in inRange
      BY DEF Starts
    <3>2. s \in E
      <4>1. s \in Nat /\ \A b \in Starts(inRange, GraceSec) : b \in Nat /\ b \in inRange
        BY <1>1, <3>1 DEF Starts
      <4>2. \A b \in Starts(inRange, GraceSec) : b <= s \/ b > s
        BY <4>1
      <4> QED BY <3>1, <4>2
    <3>3. BlockEnd(inRange, GraceSec, s) = Max(E)
      BY DEF BlockEnd
    <3> HIDE DEF E
    <3>4. IsFiniteSet(E)
      BY <1>1, <3>1, FS_Subset
    <3>5. E \in SUBSET Int /\ E # {}
      <4>1. \A e \in E : e \in Nat
        BY <1>1, <3>1
      <4>2. E \in SUBSET Int
        BY <4>1
      <4> QED BY <3>2, <4>2
    <3>6. Max(E) \in Nat
      BY <1>1, <3>1, <3>4, <3>5, MaxOfFinite
    <3> QED BY <1>1, <3>1, <3>3, <3>6 DEF Grid
  <2> QED BY <2>1 DEF Candidates
<1>3. GridOf(c) = IF MatchOf[session] = NoMatch THEN {} ELSE Candidates(inRange)
  BY DEF GridOf, inRange
<1> QED BY <1>2, <1>3

\* The types at every step.
LEMMA ImportTypesKept ==
    ASSUME ImportTypes, ImportNext \/ UNCHANGED importVars
    PROVE  ImportTypes'
<1>1. CASE PassTime
  <2>1. time' \in Nat /\ UNCHANGED <<ticks, call>>
    BY <1>1 DEF PassTime, ImportTypes
  <2> QED BY <2>1 DEF ImportTypes
<1>2. CASE UNCHANGED importVars
  BY <1>2 DEF importVars, ImportTypes
<1>3. ASSUME NEW session \in ToSet(Transcripts), NEW inSpace \in BOOLEAN, LiveTick(session, inSpace)
      PROVE  ImportTypes'
  <2> DEFINE row == [ts |-> time, obs |-> <<session, inSpace>>, by |-> "live",
                     proj |-> IF inSpace THEN SpaceProject ELSE MatchOf[session],
                     blind |-> FALSE]
  <2>1. ticks' = Inserted(row) /\ UNCHANGED <<time, call>>
    BY <1>3 DEF LiveTick
  <2>2. row.ts \in Nat /\ \A s : row.obs = <<s, FALSE>> => row.proj = MatchOf[s]
    BY DEF ImportTypes
  <2> HIDE DEF row
  <2>3. \A t \in ticks' : t \in ticks \/ t = row
    BY <2>1, InsertedRows
  <2> QED BY <2>1, <2>2, <2>3 DEF ImportTypes
<1>4. ASSUME NEW c \in Importer, ClientStep(c) PROVE ImportTypes'
  <2>0. /\ DOMAIN call[c] = DOMAIN NotCalled
        /\ call[c].file \in Nat /\ call[c].todo \in SUBSET Nat
        /\ call[c].todo # {} => call[c].file - 1 \in DOMAIN Transcripts
        /\ call[c].insert \in BOOLEAN /\ (call[c].insert = TRUE => call[c].todo # {})
    BY DEF ImportTypes
  <2>1. /\ call' = [d \in Importer |-> call'[d]] /\ time' = time
        /\ \A d \in Importer : d # c => call'[d] = call[d]
    BY <1>4, CallSteps
  <2>2. (\A t \in ticks' : t.ts \in Nat)
        /\ \A t \in ticks', s \in Range(Transcripts) : t.obs = <<s, FALSE>> => t.proj = MatchOf[s]
    <3>1. CASE ticks' = ticks
      BY <3>1 DEF ImportTypes
    <3>2. CASE ticks' = Inserted(Candidate(c)) /\ call[c].todo # {}
      <4>1. \A t \in ticks' : t \in ticks \/ t = Candidate(c)
        BY <3>2, InsertedRows
      <4> DEFINE session == Transcripts[call[c].file - 1]
                 row == Candidate(c)
      <4>2. row.ts \in Nat /\ row.obs = <<session, FALSE>> /\ row.proj = MatchOf[session]
        BY <3>2, CandidateType
      <4> HIDE DEF session, row
      <4>3. \A s : row.obs = <<s, FALSE>> => row.proj = MatchOf[s]
        BY <4>2
      <4> QED BY <4>1, <4>2, <4>3 DEF ImportTypes, row
    <3> QED BY <1>4, <3>1, <3>2, CallSteps
  <2> DEFINE Typed(r) ==
        /\ DOMAIN r = DOMAIN NotCalled
        /\ r.file \in Nat /\ r.todo \in SUBSET Nat
        /\ r.todo # {} => r.file - 1 \in DOMAIN Transcripts
        /\ r.insert \in BOOLEAN /\ (r.insert = TRUE => r.todo # {})
  <2>3. Typed(call'[c])
    <3>1. CASE \E r \in Ranges : Begun(r, c)
      BY <3>1, CallFields DEF Begun, NotCalled
    <3>2. CASE FileRead(c) /\ Reading(c) /\ call[c].file <= Len(Transcripts)
      <4>1. call[c].file \in DOMAIN Transcripts
        BY <2>0, <3>2, ImportAssumption DEF Reading
      <4>2. GridOf(c) \in SUBSET Nat
        BY <4>1, GridTypes
      <4> QED BY <2>0, <3>2, <4>1, <4>2, CallFields DEF FileRead, Reading
    <3>3. CASE Skipped(c) /\ Reading(c)
      BY <2>0, <3>3, CallFields DEF Skipped, Reading
    <3>4. CASE Passed(c)
      BY <2>0, <3>4, CallFields DEF Passed
    <3>5. CASE call'[c] = [call[c] EXCEPT !.insert = TRUE] /\ call[c].todo # {}
      BY <2>0, <3>5, CallFields
    <3>6. CASE call'[c] = NotCalled
      BY <3>6 DEF NotCalled
    <3>7. CASE Unchecked(c) /\ call[c].todo # {}
      BY <2>0, <3>7, CallFields DEF Unchecked
    <3> QED BY <1>4, <3>1, <3>2, <3>3, <3>4, <3>5, <3>6, <3>7, CallSteps
  <2> QED BY <2>1, <2>2, <2>3 DEF ImportTypes
<1> QED BY <1>1, <1>2, <1>3, <1>4 DEF ImportNext, ClientStep

-----------------------------------------------------------------------------
\* The rows an import answers for: those it found, and its own it has checked.
Own(c, t) == t \in call[c].before \/ (t.by = c /\ ~t.blind)

\* Between its check and its insertion no row of an import's own comes near: others
\* may write there, and are not what it promises about.
TwiceInv ==
    /\ \A c \in Importer :
         /\ call[c].before \subseteq ticks
         /\ call[c].insert = TRUE /\ ~call[c].blind =>
              \A u \in ticks : Own(c, u) /\ u.proj = Candidate(c).proj => ~Near(u, NextTs(c))
    /\ NothingTwice

\* Near is mutual.
LEMMA NearBoth ==
    ASSUME NEW t, NEW u, t.ts \in Nat, u.ts \in Nat, Near(t, u.ts)
    PROVE  Near(u, t.ts)
  BY IntervalIsNat DEF Near

\* A row that somebody else writes.
LEMMA OthersRow ==
    ASSUME ImportTypes, TwiceInv, NEW row, ticks' = Inserted(row), row.ts \in Nat,
           NEW c \in Importer, row.by # c, UNCHANGED call[c]
    PROVE  /\ call'[c].before \subseteq ticks'
           /\ call'[c].insert = TRUE /\ ~call'[c].blind =>
                \A u \in ticks' : Own(c, u)' /\ u.proj = Candidate(c)'.proj => ~Near(u, NextTs(c)')
           /\ \A t, u \in ticks' :
                /\ t.by = c /\ ~t.blind /\ t \notin call'[c].before /\ call'[c].file # 0
                /\ Own(c, u)' /\ u # t /\ u.proj = t.proj
                => ~Near(u, t.ts)
<1>1. ticks \subseteq ticks' /\ \A t \in ticks' : t \in ticks \/ t = row
  BY InsertedRows
<1>2. Candidate(c)' = Candidate(c) /\ NextTs(c)' = NextTs(c)
  BY DEF Candidate, NextTs
<1>3. call[c].before \subseteq ticks
  BY DEF TwiceInv
<1>4. \A u \in ticks' : Own(c, u)' => u \in ticks /\ Own(c, u)
  BY <1>1, <1>3 DEF Own
<1>5. \A t \in ticks' : t.by = c => t \in ticks
  BY <1>1
<1>6. call'[c] = call[c]
  OBVIOUS
<1>7. \A t, u \in ticks :
        /\ t.by = c /\ ~t.blind /\ t \notin call[c].before /\ call[c].file # 0
        /\ Own(c, u) /\ u # t /\ u.proj = t.proj
        => ~Near(u, t.ts)
  BY DEF TwiceInv, NothingTwice, Doubled, Own
<1>8. call'[c].insert = TRUE /\ ~call'[c].blind =>
        \A u \in ticks' : Own(c, u)' /\ u.proj = Candidate(c)'.proj => ~Near(u, NextTs(c)')
  BY <1>2, <1>4, <1>6 DEF TwiceInv
<1>9. \A t, u \in ticks' :
        /\ t.by = c /\ ~t.blind /\ t \notin call'[c].before /\ call'[c].file # 0
        /\ Own(c, u)' /\ u # t /\ u.proj = t.proj
        => ~Near(u, t.ts)
  BY <1>4, <1>5, <1>6, <1>7
<1> QED BY <1>1, <1>3, <1>6, <1>8, <1>9

\* What NothingTwice and its strengthening say of one client.
TwiceFor(c) ==
    /\ call[c].before \subseteq ticks
    /\ call[c].insert = TRUE /\ ~call[c].blind =>
         \A u \in ticks : Own(c, u) /\ u.proj = Candidate(c).proj => ~Near(u, NextTs(c))
    /\ \A t, u \in ticks :
         /\ t.by = c /\ ~t.blind /\ t \notin call[c].before /\ call[c].file # 0
         /\ Own(c, u) /\ u # t /\ u.proj = t.proj
         => ~Near(u, t.ts)

\* The invariant is that of every client.
LEMMA TwiceForAll == TwiceInv <=> \A c \in Importer : TwiceFor(c)
  BY DEF TwiceInv, NothingTwice, Doubled, TwiceFor, Own

\* A client's own step.
LEMMA OwnStepTwice ==
    ASSUME ImportTypes, TwiceInv, NEW c \in Importer, ClientStep(c)
    PROVE  TwiceFor(c)'
<1>0. /\ DOMAIN call[c] = DOMAIN NotCalled /\ TwiceFor(c)
  BY TwiceForAll DEF ImportTypes
<1>1. CASE (\E r \in Ranges : Begun(r, c)) /\ ticks' = ticks
  <2>1. call'[c].before = ticks' /\ call'[c].insert = FALSE
    BY <1>1, CallFields DEF Begun, NotCalled
  <2> QED BY <2>1 DEF TwiceFor
<1>2. CASE call'[c] = NotCalled /\ ticks' = ticks
  <2>1. call'[c].before = {} /\ call'[c].insert = FALSE /\ call'[c].file = 0
    BY <1>2 DEF NotCalled
  <2> QED BY <2>1 DEF TwiceFor
<1>3. ASSUME FileRead(c) \/ Skipped(c) \/ Passed(c), ticks' = ticks,
             Reading(c) \/ Passed(c)
      PROVE  TwiceFor(c)'
  <2>1. /\ call'[c].before = call[c].before
        /\ call'[c].file # 0 => call[c].file # 0
        /\ call'[c].insert = FALSE
    BY <1>0, <1>3, CallFields DEF FileRead, Skipped, Passed, Reading, ImportTypes
  <2>2. \A u : Own(c, u)' <=> Own(c, u)
    BY <2>1 DEF Own
  <2> QED BY <1>0, <1>3, <2>1, <2>2 DEF TwiceFor
<1>4. CASE call'[c] = [call[c] EXCEPT !.insert = TRUE] /\ ticks' = ticks /\ ~Taken(c) /\ call[c].todo # {}
  <2>1. /\ call'[c].before = call[c].before /\ call'[c].file = call[c].file
        /\ call'[c].todo = call[c].todo /\ call'[c].blind = call[c].blind
    BY <1>0, <1>4, CallFields
  <2>2. \A u : Own(c, u)' <=> Own(c, u)
    BY <2>1 DEF Own
  <2>3. NextTs(c)' = NextTs(c) /\ Candidate(c)' = Candidate(c)
    BY <2>1 DEF NextTs, Candidate
  <2>4. \A u \in ticks : u.proj = Candidate(c).proj => ~Near(u, NextTs(c))
    BY <1>4, CandidateType DEF Taken
  <2> QED BY <1>0, <1>4, <2>1, <2>2, <2>3, <2>4 DEF TwiceFor
<1>5. CASE Passed(c) /\ ticks' = Inserted(Candidate(c)) /\ call[c].insert = TRUE /\ call[c].todo # {}
  <2> DEFINE row == Candidate(c)
  <2>1. /\ call'[c].before = call[c].before /\ call'[c].file = call[c].file
        /\ call'[c].insert = FALSE
    BY <1>0, <1>5, CallFields DEF Passed
  <2>2. ticks \subseteq ticks' /\ \A t \in ticks' : t \in ticks \/ t = row
    BY <1>5, InsertedRows
  <2>3. row.ts \in Nat /\ row.ts = NextTs(c) /\ row.blind = call[c].blind
    BY <1>5, CandidateType
  <2>4. ~row.blind => \A u \in ticks : Own(c, u) /\ u.proj = row.proj => ~Near(u, row.ts)
    BY <1>0, <1>5, <2>3 DEF TwiceFor
  <2>5. \A u : Own(c, u)' <=> Own(c, u)
    BY <2>1 DEF Own
  <2> HIDE DEF row
  <2>6. ASSUME NEW t \in ticks', NEW u \in ticks', t.by = c, ~t.blind, t \notin call'[c].before,
               call'[c].file # 0, Own(c, u)', u # t, u.proj = t.proj, Near(u, t.ts)
        PROVE  FALSE
    <3>0. t.ts \in Nat /\ u.ts \in Nat /\ Own(c, u) /\ Own(c, t)
          /\ (u \in call[c].before => u \in ticks)
      BY <1>0, <2>2, <2>3, <2>5, <2>6 DEF ImportTypes, Own, TwiceFor
    <3>1. CASE t = row
      BY <2>2, <2>4, <2>6, <3>0, <3>1
    <3>2. CASE u = row /\ u \notin ticks /\ t \in ticks
      <4>1. Near(t, row.ts)
        BY <2>6, <3>0, <3>2, NearBoth
      <4>2. ~row.blind
        BY <3>0, <3>2 DEF Own
      <4> QED BY <2>4, <2>6, <3>0, <3>2, <4>1, <4>2
    <3>3. CASE t \in ticks /\ u \in ticks
      BY <1>0, <2>1, <2>6, <3>0, <3>3 DEF TwiceFor
    <3> QED BY <2>2, <3>1, <3>2, <3>3
  <2> QED BY <1>0, <2>1, <2>2, <2>6 DEF TwiceFor
<1>6. CASE Unchecked(c) /\ ticks' = ticks
  <2>1. /\ call'[c].before = call[c].before /\ call'[c].file = call[c].file
        /\ call'[c].blind = TRUE
    BY <1>0, <1>6, CallFields DEF Unchecked
  <2>2. \A u : Own(c, u)' <=> Own(c, u)
    BY <2>1 DEF Own
  <2> QED BY <1>0, <1>6, <2>1, <2>2 DEF TwiceFor
<1> QED BY <1>1, <1>2, <1>3, <1>4, <1>5, <1>6, CallSteps

\* Every step.
LEMMA TwiceKept ==
    ASSUME ImportTypes, TwiceInv, ImportNext \/ UNCHANGED importVars
    PROVE  TwiceInv'
<1>1. ASSUME UNCHANGED <<ticks, call>> PROVE TwiceInv'
  <2>1. \A c \in Importer : Candidate(c)' = Candidate(c) /\ NextTs(c)' = NextTs(c)
    BY <1>1 DEF Candidate, NextTs
  <2>2. \A c \in Importer : \A u : Own(c, u)' <=> Own(c, u)
    BY <1>1 DEF Own
  <2> QED BY <1>1, <2>1, <2>2 DEF TwiceInv, NothingTwice, Doubled
<1>2. ASSUME NEW session \in ToSet(Transcripts), NEW inSpace \in BOOLEAN, LiveTick(session, inSpace)
      PROVE  \A c \in Importer : TwiceFor(c)'
  <2> DEFINE row == [ts |-> time, obs |-> <<session, inSpace>>, by |-> "live",
                     proj |-> IF inSpace THEN SpaceProject ELSE MatchOf[session],
                     blind |-> FALSE]
  <2>1. ticks' = Inserted(row) /\ UNCHANGED call
    BY <1>2 DEF LiveTick
  <2>2. row.ts \in Nat /\ \A c \in Importer : row.by # c
    BY ImportAssumption DEF ImportTypes
  <2> HIDE DEF row
  <2> QED BY <2>1, <2>2, OthersRow DEF TwiceFor
<1>3. ASSUME NEW c \in Importer, ClientStep(c), NEW d \in Importer PROVE TwiceFor(d)'
  <2>1. CASE d = c
    BY <1>3, <2>1, OwnStepTwice
  <2>2. CASE d # c /\ ticks' = ticks
    <3>1. call'[d] = call[d]
      BY <1>3, <2>2, CallSteps
    <3>2. Candidate(d)' = Candidate(d) /\ NextTs(d)' = NextTs(d) /\ \A u : Own(d, u)' <=> Own(d, u)
      BY <3>1 DEF Candidate, NextTs, Own
    <3>3. TwiceFor(d)
      BY TwiceForAll
    <3> QED BY <2>2, <3>1, <3>2, <3>3 DEF TwiceFor
  <2>3. CASE d # c /\ ticks' = Inserted(Candidate(c)) /\ call[c].todo # {}
    <3>1. call'[d] = call[d]
      BY <1>3, <2>3, CallSteps
    <3>2. PICK row : row = Candidate(c)
      OBVIOUS
    <3>3. row.ts \in Nat /\ row.by # d
      BY <2>3, <3>2, CandidateType
    <3> QED BY <2>3, <3>1, <3>2, <3>3, OthersRow DEF TwiceFor
  <2> QED BY <1>3, <2>1, <2>2, <2>3, CallSteps
<1>4. TwiceInv' <=> \A c \in Importer : TwiceFor(c)'
  BY DEF TwiceInv, NothingTwice, Doubled, TwiceFor, Own
<1> QED BY <1>1, <1>2, <1>3, <1>4 DEF ImportNext, ClientStep, PassTime, importVars

-----------------------------------------------------------------------------
\* A row of the candidate's project stands near it.
Filled(p) == \E t \in ticks : t.proj = p.proj /\ Near(t, p.ts)

\* Every candidate so far has a row near it or is still to do, and every turn that was
\* there when the call began, in a file it has read, has a candidate just before it.
WholeFor(c) ==
    call[c].file # 0 =>
        /\ call[c].began \in Nat /\ call[c].from \in Nat /\ call[c].to \in Nat
        /\ call[c].began <= time /\ call[c].read \subseteq Range(Transcripts)
        /\ \A p \in call[c].plan :
              /\ p.ts \in Nat
              /\ Filled(p) \/ /\ p.ts \in call[c].todo
                              /\ p.proj = MatchOf[Transcripts[call[c].file - 1]]
        /\ \A f \in call[c].read : \A s \in StampsOf[f] :
              /\ MatchOf[f] # NoMatch
              /\ s \in call[c].from .. call[c].to /\ s <= call[c].began
              => \E p \in call[c].plan : p.proj = MatchOf[f] /\ p.ts \in s - Window .. s
WholeInv == \A c \in Importer : WholeFor(c)

\* What ImportIsWhole says of one client.
EndsWhole(c) ==
    /\ \A f \in call[c].read : \A s \in StampsOf[f] :
          /\ MatchOf[f] # NoMatch
          /\ s \in call[c].from .. call[c].to /\ s <= call[c].began
          => \E t \in ticks : t.proj = MatchOf[f] /\ t.ts \in s - 2 * Window .. s + 2 * Window
    /\ \A p \in call[c].plan : \E t \in ticks : t.proj = p.proj /\ Near(t, p.ts)

\* Rows are never taken away, and neither time nor new rows change what a call has.
LEMMA OthersWhole ==
    ASSUME ImportTypes, NEW c \in Importer, WholeFor(c), call'[c] = call[c],
           ticks \subseteq ticks', time' \in Nat, time <= time'
    PROVE  WholeFor(c)'
<1>1. time \in Nat
  BY DEF ImportTypes
<1>2. \A p : Filled(p) => Filled(p)'
  BY DEF Filled
<1>3. CASE call[c].file = 0
  BY <1>3 DEF WholeFor
<1>4. CASE call[c].file # 0
  <2>1. call'[c].began <= time'
    BY <1>1, <1>4 DEF WholeFor
  <2>2. \A p \in call'[c].plan :
              /\ p.ts \in Nat
              /\ Filled(p)' \/ /\ p.ts \in call'[c].todo
                               /\ p.proj = MatchOf[Transcripts[call'[c].file - 1]]
    BY <1>2, <1>4 DEF WholeFor
  <2> QED BY <1>4, <2>1, <2>2 DEF WholeFor
<1> QED BY <1>3, <1>4

\* Every turn of the file being read has a candidate just before it.
LEMMA PlanCovers ==
    ASSUME ImportTypes, NEW c \in Importer, call[c].file \in DOMAIN Transcripts,
           MatchOf[Transcripts[call[c].file]] # NoMatch,
           NEW s \in StampsOf[Transcripts[call[c].file]], s <= time,
           s >= call[c].from, s <= call[c].to
    PROVE  \E p \in PlanOf(c) : /\ p.proj = MatchOf[Transcripts[call[c].file]]
                                /\ p.ts \in s - Window .. s
<1> DEFINE session == Transcripts[call[c].file]
           inRange == {x \in StampsOf[session] : x <= time /\ x >= call[c].from /\ x <= call[c].to}
<1>1. inRange \in SUBSET Nat
  BY ImportAssumption
<1>2. inRange \subseteq 0 .. time /\ time \in Nat
  BY <1>1 DEF ImportTypes
<1>3. s \in inRange /\ GridOf(c) = Candidates(inRange)
  BY DEF GridOf
<1> HIDE DEF inRange
<1>4. IsFiniteSet(0 .. time)
  <2>1. 0 \in Int /\ time \in Int
    BY <1>2
  <2> QED BY <2>1, FS_Interval
<1>4a. IsFiniteSet(inRange)
  BY <1>2, <1>4, FS_Subset
<1>5. PICK ts \in GridOf(c) : ts \in Nat /\ ts \in s - Window .. s
  BY <1>1, <1>3, <1>4a, GridIsNear
<1>6. [ts |-> ts, proj |-> MatchOf[session]] \in PlanOf(c)
  BY DEF PlanOf
<1> QED BY <1>5, <1>6

\* A client's step takes no row away.
LEMMA RowsStay ==
    ASSUME ImportTypes, NEW c \in Importer, ClientStep(c)
    PROVE  ticks \subseteq ticks'
<1>1. ticks' = ticks \/ ticks' = Inserted(Candidate(c))
  BY CallSteps
<1>2. ticks \subseteq Inserted(Candidate(c))
  BY DEF Inserted
<1> QED BY <1>1, <1>2

\* A client's own step.
LEMMA OwnStepWhole ==
    ASSUME ImportTypes, NEW c \in Importer, WholeFor(c), ClientStep(c)
    PROVE  WholeFor(c)'
<1>0. /\ DOMAIN call[c] = DOMAIN NotCalled /\ time' = time /\ time \in Nat
      /\ call[c].file \in Nat
  BY CallSteps DEF ImportTypes
<1>00. ticks \subseteq ticks'
  BY RowsStay
<1>000. \A p : Filled(p) => Filled(p)'
  BY <1>00 DEF Filled
<1>1. ASSUME NEW r \in Ranges, Begun(r, c) PROVE WholeFor(c)'
  <2>1. /\ call'[c].began = time /\ call'[c].from = r.from /\ call'[c].to = r.to
        /\ call'[c].read = {} /\ call'[c].plan = {}
    BY <1>1, CallFields DEF Begun, NotCalled
  <2>2. r.from \in Nat /\ r.to \in Nat
    BY ImportAssumption
  <2> QED BY <1>0, <2>1, <2>2 DEF WholeFor
<1>2. CASE call'[c] = NotCalled
  BY <1>2 DEF WholeFor, NotCalled
<1>3. CASE FileRead(c) /\ Reading(c) /\ call[c].file <= Len(Transcripts)
  <2> DEFINE f == Transcripts[call[c].file]
  <2>1. /\ call'[c].file = call[c].file + 1 /\ call'[c].todo = GridOf(c)
        /\ call'[c].read = call[c].read \cup {f} /\ call'[c].plan = call[c].plan \cup PlanOf(c)
        /\ call'[c].began = call[c].began /\ call'[c].from = call[c].from
        /\ call'[c].to = call[c].to
    BY <1>0, <1>3, CallFields DEF FileRead
  <2>2. call[c].file # 0 /\ call[c].todo = {} /\ call[c].file \in DOMAIN Transcripts
    BY <1>0, <1>3, ImportAssumption DEF Reading
  <2>3. f \in Range(Transcripts) /\ call'[c].file - 1 = call[c].file
    BY <1>0, <2>1, <2>2 DEF Range
  <2>4. GridOf(c) \in SUBSET Nat
    BY <2>2, GridTypes
  <2>5. \A p \in PlanOf(c) : p.ts \in Nat /\ p.ts \in GridOf(c) /\ p.proj = MatchOf[f]
    BY <2>4 DEF PlanOf
  <2>6. \A p \in call'[c].plan :
              /\ p.ts \in Nat
              /\ Filled(p)' \/ /\ p.ts \in call'[c].todo
                               /\ p.proj = MatchOf[Transcripts[call'[c].file - 1]]
    BY <1>000, <2>1, <2>2, <2>3, <2>5 DEF WholeFor
  <2>7. ASSUME NEW g \in call'[c].read, NEW s \in StampsOf[g], MatchOf[g] # NoMatch,
               s \in call[c].from .. call[c].to, s <= call[c].began
        PROVE  \E p \in call'[c].plan : p.proj = MatchOf[g] /\ p.ts \in s - Window .. s
    <3>1. CASE g \in call[c].read
      BY <2>1, <2>2, <2>7, <3>1 DEF WholeFor
    <3>2. CASE g = f
      <4>1. s \in Int /\ s <= time /\ s >= call[c].from /\ s <= call[c].to
        BY <1>0, <2>2, <2>7 DEF WholeFor
      <4>2. \E p \in PlanOf(c) : p.proj = MatchOf[f] /\ p.ts \in s - Window .. s
        BY <2>2, <2>7, <3>2, <4>1, PlanCovers
      <4> QED BY <2>1, <3>2, <4>2
    <3> QED BY <2>1, <3>1, <3>2
  <2>8. /\ call'[c].began \in Nat /\ call'[c].from \in Nat /\ call'[c].to \in Nat
        /\ call'[c].began <= time' /\ call'[c].read \subseteq Range(Transcripts)
    BY <1>0, <2>1, <2>2, <2>3 DEF WholeFor
  <2> QED BY <2>1, <2>6, <2>7, <2>8 DEF WholeFor
<1>4. ASSUME call'[c].plan = call[c].plan, call'[c].read = call[c].read,
             call'[c].began = call[c].began, call'[c].from = call[c].from,
             call'[c].to = call[c].to, call'[c].file # 0 => call[c].file # 0,
             \A p \in call[c].plan : Filled(p)' \/
                /\ p.ts \in call'[c].todo
                /\ p.proj = MatchOf[Transcripts[call'[c].file - 1]]
      PROVE  WholeFor(c)'
  BY <1>0, <1>4 DEF WholeFor
<1>5. CASE Skipped(c) /\ Reading(c)
  <2>1. /\ call'[c].plan = call[c].plan /\ call'[c].read = call[c].read
        /\ call'[c].began = call[c].began /\ call'[c].from = call[c].from
        /\ call'[c].to = call[c].to
    BY <1>0, <1>5, CallFields DEF Skipped
  <2>2. call[c].file # 0 /\ call[c].todo = {}
    BY <1>5 DEF Reading
  <2> QED BY <1>000, <1>4, <2>1, <2>2 DEF WholeFor
<1>6. CASE call'[c] = [call[c] EXCEPT !.insert = TRUE] \/ Unchecked(c)
  <2>1. /\ call'[c].plan = call[c].plan /\ call'[c].read = call[c].read
        /\ call'[c].began = call[c].began /\ call'[c].from = call[c].from
        /\ call'[c].to = call[c].to /\ call'[c].todo = call[c].todo
        /\ call'[c].file = call[c].file
    BY <1>0, <1>6, CallFields DEF Unchecked
  <2>2. CASE call[c].file = 0
    BY <2>1, <2>2 DEF WholeFor
  <2>3. CASE call[c].file # 0
    BY <1>000, <1>4, <2>1, <2>3 DEF WholeFor
  <2> QED BY <2>2, <2>3
<1>7. CASE /\ Passed(c) /\ call[c].todo # {}
           /\ Taken(c) \/ ticks' = Inserted(Candidate(c))
  <2> DEFINE ts == NextTs(c)
             m == MatchOf[Transcripts[call[c].file - 1]]
  <2>1. /\ call'[c].plan = call[c].plan /\ call'[c].read = call[c].read
        /\ call'[c].began = call[c].began /\ call'[c].from = call[c].from
        /\ call'[c].to = call[c].to /\ call'[c].todo = call[c].todo \ {ts}
        /\ call'[c].file = call[c].file
    BY <1>0, <1>7, CallFields DEF Passed
  <2>2. \E t \in ticks' : t.proj = m /\ Near(t, ts)
    <3>1. /\ ts \in Nat /\ Candidate(c).ts = ts /\ Candidate(c).proj = m
          /\ Candidate(c).obs = <<Transcripts[call[c].file - 1], FALSE>>
          /\ Transcripts[call[c].file - 1] \in Range(Transcripts)
      BY <1>7, CandidateType
    <3> HIDE DEF ts, m
    <3>2. CASE Taken(c)
      BY <1>00, <3>1, <3>2 DEF Taken
    <3>3. CASE ticks' = Inserted(Candidate(c))
      <4>1. PICK t \in ticks' : t.ts = Candidate(c).ts /\ t.obs = Candidate(c).obs
        BY <3>3, InsertedRows
      <4>2. t.proj = m
        <5>1. t \in ticks \/ t = Candidate(c)
          BY <3>3, InsertedRows
        <5>2. CASE t \in ticks
          BY <3>1, <4>1, <5>2 DEF ImportTypes, m
        <5> QED BY <3>1, <5>1, <5>2
      <4>3. Near(t, ts)
        BY <3>1, <4>1, IntervalIsNat DEF Near
      <4> QED BY <4>2, <4>3
    <3> QED BY <1>7, <3>2, <3>3
  <2>3. CASE call[c].file = 0
    BY <2>1, <2>3 DEF WholeFor
  <2>4. CASE call[c].file # 0
    <3>1. ASSUME NEW p \in call[c].plan
          PROVE  Filled(p)' \/ /\ p.ts \in call'[c].todo
                               /\ p.proj = MatchOf[Transcripts[call'[c].file - 1]]
      <4>1. Filled(p) \/ (p.ts \in call[c].todo /\ p.proj = m)
        BY <2>4 DEF WholeFor
      <4>2. CASE Filled(p)
        BY <1>000, <4>2
      <4>3. CASE p.ts = ts /\ p.proj = m
        BY <2>2, <4>3 DEF Filled
      <4>4. CASE p.ts \in call[c].todo /\ p.proj = m /\ p.ts # ts
        BY <2>1, <4>4
      <4> QED BY <4>1, <4>2, <4>3, <4>4
    <3> QED BY <1>4, <2>1, <2>4, <3>1
  <2> QED BY <2>3, <2>4
<1> QED BY <1>1, <1>2, <1>3, <1>5, <1>6, <1>7, CallSteps

\* Every step.
LEMMA WholeKept ==
    ASSUME ImportTypes, WholeInv, ImportNext \/ UNCHANGED importVars
    PROVE  WholeInv'
<1>0. time \in Nat
  BY DEF ImportTypes
<1>1. ASSUME UNCHANGED call, ticks \subseteq ticks', time' \in Nat, time <= time' PROVE WholeInv'
  BY <1>1, OthersWhole DEF WholeInv
<1>2. CASE PassTime \/ UNCHANGED importVars
  BY <1>0, <1>1, <1>2 DEF PassTime, importVars
<1>3. ASSUME NEW session, NEW inSpace, LiveTick(session, inSpace) PROVE WholeInv'
  <2>1. ticks \subseteq ticks' /\ UNCHANGED <<time, call>>
    BY <1>3, InsertedRows DEF LiveTick
  <2> QED BY <1>0, <1>1, <2>1
<1>4. ASSUME NEW c \in Importer, ClientStep(c) PROVE WholeInv'
  <2>1. time' = time /\ (\A d \in Importer : d # c => call'[d] = call[d]) /\ ticks \subseteq ticks'
    BY <1>4, CallSteps, RowsStay
  <2>2. ASSUME NEW d \in Importer PROVE WholeFor(d)'
    BY <1>0, <1>4, <2>1, OwnStepWhole, OthersWhole DEF WholeInv
  <2> QED BY <2>2 DEF WholeInv
<1> QED BY <1>2, <1>3, <1>4 DEF ImportNext, ClientStep

\* Initially nobody has called.
LEMMA ImportInitTypes == ImportInit => ImportTypes /\ TwiceInv /\ WholeInv
<1> SUFFICES ASSUME ImportInit PROVE ImportTypes /\ TwiceInv /\ WholeInv
  OBVIOUS
<1>1. time = 0 /\ ticks = {} /\ call = [c \in Importer |-> NotCalled]
  BY DEF ImportInit
<1>2. \A c \in Importer : call[c] = NotCalled
  BY <1>1
<1>3. NotCalled.file = 0 /\ NotCalled.todo = {} /\ NotCalled.insert = FALSE /\ NotCalled.before = {}
  BY DEF NotCalled
<1>4. time \in Nat /\ call = [c \in Importer |-> call[c]]
  BY <1>1
<1>5. ASSUME NEW c \in Importer
      PROVE  /\ DOMAIN call[c] = DOMAIN NotCalled
             /\ call[c].file \in Nat /\ call[c].todo \in SUBSET Nat
             /\ call[c].todo # {} => call[c].file - 1 \in DOMAIN Transcripts
             /\ call[c].insert \in BOOLEAN /\ (call[c].insert = TRUE => call[c].todo # {})
  <2>1. call[c] = NotCalled
    BY <1>2
  <2>2. call[c].file = 0 /\ call[c].todo = {} /\ call[c].insert = FALSE
    BY <1>3, <2>1
  <2>3. DOMAIN call[c] = DOMAIN NotCalled
    BY <2>1 DEF NotCalled
  <2>4. call[c].file \in Nat /\ call[c].todo \in SUBSET Nat
    BY <2>2
  <2>5. call[c].insert \in BOOLEAN /\ (call[c].insert = TRUE => call[c].todo # {})
    BY <2>2
  <2> QED BY <2>2, <2>3, <2>4, <2>5, Zenon
<1>6. ImportTypes
  BY <1>1, <1>4, <1>5 DEF ImportTypes
<1>7. TwiceInv /\ WholeInv
  BY <1>1, <1>2, <1>3 DEF TwiceInv, NothingTwice, Doubled, WholeInv, WholeFor
<1> QED BY <1>6, <1>7

\* An import gives its project no second that a row there before the call, or one of
\* its own, already stands for (importTranscripts), however the statements of any
\* number of imports and of the poller interleave, unless the second or its double is
\* one it inserted after an existence check that failed.
THEOREM NeverTwice == ImportSpec => []NothingTwice
<1>1. ImportTypes /\ TwiceInv /\ [ImportNext]_importVars => (ImportTypes /\ TwiceInv)'
  BY ImportTypesKept, TwiceKept
<1>2. TwiceInv => NothingTwice
  BY DEF TwiceInv
<1> QED BY <1>1, <1>2, ImportInitTypes, PTL DEF ImportSpec

\* An import that ends well leaves no turn it was asked for, in a file it could read,
\* without a row of its project within two windows (importTranscripts), whatever the
\* poller and the other imports insert while it runs.
THEOREM ImportFillsGaps == ImportSpec => ImportIsWhole
<1>1. ImportTypes /\ WholeInv /\ [ImportNext]_importVars => (ImportTypes /\ WholeInv)'
  BY ImportTypesKept, WholeKept
<1>2. ASSUME ImportTypes, WholeInv, NEW c \in Importer, Imported(c)
      PROVE  EndsWhole(c)
  <2>1. call[c].file # 0 /\ call[c].todo = {}
    BY <1>2 DEF Imported, Reading
  <2>2. WholeFor(c)
    BY <1>2 DEF WholeInv
  <2>3. \A p \in call[c].plan : Filled(p) /\ p.ts \in Nat
    BY <2>1, <2>2 DEF WholeFor
  <2>4. ASSUME NEW f \in call[c].read, NEW s \in StampsOf[f], MatchOf[f] # NoMatch,
               s \in call[c].from .. call[c].to, s <= call[c].began
        PROVE  \E t \in ticks : t.proj = MatchOf[f] /\ t.ts \in s - 2 * Window .. s + 2 * Window
    <3>1. PICK p \in call[c].plan : p.proj = MatchOf[f] /\ p.ts \in s - Window .. s
      BY <2>1, <2>2, <2>4 DEF WholeFor
    <3>2. PICK t \in ticks : t.proj = p.proj /\ Near(t, p.ts)
      BY <2>3 DEF Filled
    <3>3. t.ts \in Nat /\ p.ts \in Nat /\ s \in Int /\ Window \in Nat
      BY <1>2, <2>3, <2>1, <2>2, <2>4, IntervalIsNat DEF ImportTypes, WholeFor
    <3>4. t.ts \in s - 2 * Window .. s + 2 * Window
      BY <3>1, <3>2, <3>3 DEF Near
    <3> QED BY <3>1, <3>2, <3>4
  <2> QED BY <2>3, <2>4 DEF EndsWhole, Filled
<1>3. ImportTypes /\ WholeInv => \A c \in Importer : Imported(c) => EndsWhole(c)
  BY <1>2
<1>4. ImportTypes /\ WholeInv /\ [ImportNext]_importVars =>
        [\A c \in Importer : Imported(c) =>
           /\ \A f \in call[c].read : \A s \in StampsOf[f] :
                  /\ MatchOf[f] # NoMatch
                  /\ s \in call[c].from .. call[c].to /\ s <= call[c].began
                  => \E t \in ticks : /\ t.proj = MatchOf[f]
                                     /\ t.ts \in s - 2 * Window .. s + 2 * Window
           /\ \A p \in call[c].plan : \E t \in ticks : t.proj = p.proj /\ Near(t, p.ts)]_importVars
  BY <1>3 DEF EndsWhole
<1> QED BY <1>1, <1>4, ImportInitTypes, PTL DEF ImportSpec, ImportIsWhole

-----------------------------------------------------------------------------
(* A rule's directory clause: both matchers mean the directories that the  *)
(* pattern's characters before its star begin.                             *)

\* The ends that the first tokens have are a function, one token at a time.
LEMMA EndsAre ==
    ASSUME NEW ts, Len(ts) \in Nat, NEW s
    PROVE  /\ Ends(ts, s)[0] = {0}
           /\ \A i \in 1 .. Len(ts) : Ends(ts, s)[i] = Extend(ts[i], s, Ends(ts, s)[i - 1])
<1> DEFINE n == Len(ts)
           F(g, i) == IF i = 0 THEN {0} ELSE Extend(ts[i], s, g[i - 1])
           Solves(g, b) == \A i \in 0 .. b : g[i] = F(g, i)
           T == {b \in Nat : \E g : Solves(g, b)}
<1> HIDE DEF n
<1>1. n \in Nat
  BY DEF n
<1>2. 0 \in T
  <2> DEFINE g == [i \in 0 .. 0 |-> {0}]
  <2>1. Solves(g, 0)
    BY DEF F
  <2> QED BY <2>1
<1>3. ASSUME NEW b \in 1 .. n, b - 1 \in T PROVE b \in T
  <2>1. PICK g : Solves(g, b - 1)
    BY <1>3
  <2> DEFINE h == [i \in 0 .. b |-> F(g, i)]
  <2>2. b \in Nat /\ b >= 1
    BY <1>1
  <2>3. ASSUME NEW i \in 0 .. b PROVE h[i] = F(h, i)
    <3>1. CASE i = 0
      BY <2>2, <3>1
    <3>2. CASE i # 0
      <4>1. i - 1 \in 0 .. b - 1 /\ i - 1 \in 0 .. b
        BY <2>2, <3>2
      <4>2. h[i - 1] = F(g, i - 1) /\ g[i - 1] = F(g, i - 1)
        BY <2>1, <4>1
      <4>3. h[i] = F(g, i)
        OBVIOUS
      <4> HIDE DEF h
      <4>4. F(g, i) = F(h, i)
        BY <3>2, <4>2
      <4> QED BY <4>3, <4>4
    <3> QED BY <3>1, <3>2
  <2> HIDE DEF h, F
  <2>4. Solves(h, b)
    BY <2>3
  <2> QED BY <2>2, <2>4
<1> HIDE DEF T
<1>4. n \in T
  BY <1>1, <1>2, <1>3, InductionUpTo
<1>5. PICK g : Solves(g, n)
  BY <1>4 DEF T
<1> DEFINE IsEnds(e) == e = [i \in 0 .. n |-> F(e, i)]
           h == [i \in 0 .. n |-> g[i]]
<1>6. ASSUME NEW i \in 0 .. n PROVE F(h, i) = F(g, i)
  <2>1. CASE i = 0
    BY <2>1
  <2>2. CASE i # 0
    <3>1. i - 1 \in 0 .. n
      BY <1>1, <2>2
    <3>2. h[i - 1] = g[i - 1]
      BY <3>1
    <3> HIDE DEF h
    <3> QED BY <2>2, <3>2
  <2> QED BY <2>1, <2>2
<1>7. IsEnds(h)
  <2>1. \A i \in 0 .. n : g[i] = F(h, i)
    BY <1>5, <1>6
  <2>2. [i \in 0 .. n |-> g[i]] = [i \in 0 .. n |-> F(h, i)]
    BY <2>1
  <2> QED BY <2>2
<1> HIDE DEF h
<1>8. Ends(ts, s) = (CHOOSE e : IsEnds(e))
  BY DEF Ends, n
<1>9. IsEnds(Ends(ts, s))
  BY <1>7, <1>8
<1> DEFINE e == Ends(ts, s)
<1> HIDE DEF e
<1>10. \A i \in 0 .. n : e[i] = F(e, i)
  <2>1. e = [i \in 0 .. n |-> F(e, i)]
    BY <1>9 DEF e
  <2> HIDE DEF F
  <2> QED BY <2>1
<1>11. 0 \in 0 .. n /\ \A i \in 1 .. n : i \in 0 .. n /\ i # 0
  BY <1>1
<1>12. e[0] = {0}
  BY <1>10, <1>11
<1>13. \A i \in 1 .. n : e[i] = Extend(ts[i], s, e[i - 1])
  BY <1>10, <1>11
<1> QED BY <1>12, <1>13 DEF e, n

\* So is what the reader has made of the first characters.
LEMMA ReaderIs ==
    ASSUME NEW p, Len(p) \in Nat, NEW lang
    PROVE  /\ Reader(lang, p)[0] = Nothing
           /\ \A i \in 1 .. Len(p) :
                 Reader(lang, p)[i] = ReadChar(lang, Reader(lang, p)[i - 1], p[i])
<1> DEFINE n == Len(p)
           F(g, i) == IF i = 0 THEN Nothing ELSE ReadChar(lang, g[i - 1], p[i])
           Solves(g, b) == \A i \in 0 .. b : g[i] = F(g, i)
           T == {b \in Nat : \E g : Solves(g, b)}
<1> HIDE DEF n
<1>1. n \in Nat
  BY DEF n
<1>2. 0 \in T
  <2> DEFINE g == [i \in 0 .. 0 |-> Nothing]
  <2>1. Solves(g, 0)
    BY DEF F
  <2> QED BY <2>1
<1>3. ASSUME NEW b \in 1 .. n, b - 1 \in T PROVE b \in T
  <2>1. PICK g : Solves(g, b - 1)
    BY <1>3
  <2> DEFINE h == [i \in 0 .. b |-> F(g, i)]
  <2>2. b \in Nat /\ b >= 1
    BY <1>1
  <2>3. ASSUME NEW i \in 0 .. b PROVE h[i] = F(h, i)
    <3>1. CASE i = 0
      BY <2>2, <3>1
    <3>2. CASE i # 0
      <4>1. i - 1 \in 0 .. b - 1 /\ i - 1 \in 0 .. b
        BY <2>2, <3>2
      <4>2. h[i - 1] = F(g, i - 1) /\ g[i - 1] = F(g, i - 1)
        BY <2>1, <4>1
      <4>3. h[i] = F(g, i)
        OBVIOUS
      <4> HIDE DEF h
      <4>4. F(g, i) = F(h, i)
        BY <3>2, <4>2
      <4> QED BY <4>3, <4>4
    <3> QED BY <3>1, <3>2
  <2> HIDE DEF h, F
  <2>4. Solves(h, b)
    BY <2>3
  <2> QED BY <2>2, <2>4
<1> HIDE DEF T
<1>4. n \in T
  BY <1>1, <1>2, <1>3, InductionUpTo
<1>5. PICK g : Solves(g, n)
  BY <1>4 DEF T
<1> DEFINE IsReader(e) == e = [i \in 0 .. n |-> F(e, i)]
           h == [i \in 0 .. n |-> g[i]]
<1>6. ASSUME NEW i \in 0 .. n PROVE F(h, i) = F(g, i)
  <2>1. CASE i = 0
    BY <2>1
  <2>2. CASE i # 0
    <3>1. i - 1 \in 0 .. n
      BY <1>1, <2>2
    <3>2. h[i - 1] = g[i - 1]
      BY <3>1
    <3> HIDE DEF h
    <3> QED BY <2>2, <3>2
  <2> QED BY <2>1, <2>2
<1>7. IsReader(h)
  <2>1. \A i \in 0 .. n : g[i] = F(h, i)
    BY <1>5, <1>6
  <2>2. [i \in 0 .. n |-> g[i]] = [i \in 0 .. n |-> F(h, i)]
    BY <2>1
  <2> QED BY <2>2
<1> HIDE DEF h
<1>8. Reader(lang, p) = (CHOOSE e : IsReader(e))
  BY DEF Reader, n
<1>9. IsReader(Reader(lang, p))
  BY <1>7, <1>8
<1> DEFINE e == Reader(lang, p)
<1> HIDE DEF e
<1>10. \A i \in 0 .. n : e[i] = F(e, i)
  <2>1. e = [i \in 0 .. n |-> F(e, i)]
    BY <1>9 DEF e
  <2> HIDE DEF F
  <2> QED BY <2>1
<1>11. 0 \in 0 .. n /\ \A i \in 1 .. n : i \in 0 .. n /\ i # 0
  BY <1>1
<1>12. e[0] = Nothing
  BY <1>10, <1>11
<1>13. \A i \in 1 .. n : e[i] = ReadChar(lang, e[i - 1], p[i])
  BY <1>10, <1>11
<1> QED BY <1>12, <1>13 DEF e, n

\* What a character outside brackets that is no '?' and no backslash is read as.
TokenOf(lang, ch) == IF ch = "*" THEN Star(lang) ELSE One({ch})

\* A plain pattern is read into as many tokens.
LEMMA PlainRead ==
    ASSUME NEW C, NEW p \in Seq(C), Plain(p), NEW lang
    PROVE  \E ts : /\ Len(ts) = Len(p) /\ \A k \in 1 .. Len(p) : ts[k] = TokenOf(lang, p[k])
                   /\ \A s : Glob(lang, p, s) <=> Len(s) \in Ends(ts, s)[Len(p)]
<1> DEFINE r == Reader(lang, p)
           Toks == {TokenOf(lang, p[k]) : k \in 1 .. Len(p)}
           T == {i \in 0 .. Len(p) :
                   /\ r[i].mode = "between" /\ r[i].tokens \in Seq(Toks) /\ Len(r[i].tokens) = i
                   /\ \A k \in 1 .. i : r[i].tokens[k] = TokenOf(lang, p[k])}
<1>1. Len(p) \in Nat /\ DOMAIN p = 1 .. Len(p)
  OBVIOUS
<1>2. r[0] = Nothing /\ \A i \in 1 .. Len(p) : r[i] = ReadChar(lang, r[i - 1], p[i])
  BY <1>1, ReaderIs
<1> HIDE DEF r
<1>3. 0 \in T
  <2>1. r[0].mode = "between" /\ r[0].tokens = <<>>
    BY <1>2 DEF Nothing
  <2> HIDE DEF Toks
  <2>2. r[0].tokens \in Seq(Toks) /\ Len(r[0].tokens) = 0 /\ 0 \in 0 .. Len(p)
    BY <1>1, <2>1
  <2>3. \A k \in 1 .. 0 : r[0].tokens[k] = TokenOf(lang, p[k])
    OBVIOUS
  <2> QED BY <2>1, <2>2, <2>3
<1>4. ASSUME NEW i \in 1 .. Len(p), i - 1 \in T PROVE i \in T
  <2>1. p[i] \notin {"?", "[", "\\"} /\ i - 1 \in Nat /\ i \in 0 .. Len(p)
    BY <1>1 DEF Plain
  <2>2. r[i] = ReadBetween(lang, r[i - 1], p[i])
    BY <1>2, <1>4 DEF ReadChar
  <2>3. r[i] = With(r[i - 1], TokenOf(lang, p[i]))
    BY <2>1, <2>2 DEF ReadBetween, TokenOf, Escapes
  <2>4. r[i].mode = "between" /\ r[i].tokens = Append(r[i - 1].tokens, TokenOf(lang, p[i]))
    BY <2>3 DEF With, Nothing
  <2>5. TokenOf(lang, p[i]) \in Toks
    OBVIOUS
  <2> HIDE DEF Toks
  <2>6. PICK ts \in Seq(Toks) : ts = r[i - 1].tokens /\ Len(ts) = i - 1
                               /\ \A k \in 1 .. i - 1 : ts[k] = TokenOf(lang, p[k])
    BY <1>4
  <2>7. PICK tok \in Toks : tok = TokenOf(lang, p[i])
    BY <2>5
  <2>8. /\ Append(ts, tok) \in Seq(Toks) /\ Len(Append(ts, tok)) = i
        /\ \A k \in 1 .. i - 1 : Append(ts, tok)[k] = ts[k]
        /\ Append(ts, tok)[i] = tok
    BY <2>1, <2>6
  <2>9. \A k \in 1 .. i : Append(ts, tok)[k] = TokenOf(lang, p[k])
    BY <2>1, <2>6, <2>7, <2>8
  <2> QED BY <2>1, <2>4, <2>6, <2>7, <2>8, <2>9
<1> HIDE DEF T
<1>5. Len(p) \in T
  <2>1. \A i \in 0 .. Len(p) : i \in T
    BY <1>1, <1>3, <1>4, InductionUpTo
  <2> QED BY <1>1, <2>1
<1> DEFINE ts == r[Len(p)].tokens
<1>6. r[Len(p)].mode = "between" /\ Len(ts) = Len(p) /\ \A k \in 1 .. Len(p) : ts[k] = TokenOf(lang, p[k])
  BY <1>5 DEF T
<1>7. \A s : Glob(lang, p, s) <=> Len(s) \in Ends(ts, s)[Len(p)]
  BY <1>6 DEF Glob, r
<1> QED BY <1>6, <1>7

\* The first i characters, as they are.
Spells(p, s, i) == i <= Len(s) /\ \A k \in 1 .. i : p[k] = s[k]

\* The tokens of single characters stand for these.
LEMMA LiteralEnds ==
    ASSUME NEW ts, Len(ts) \in Nat, NEW p, NEW s, Len(s) \in Nat,
           NEW n \in 0 .. Len(ts), \A k \in 1 .. n : ts[k] = One({p[k]})
    PROVE  \A j : j \in Ends(ts, s)[n] <=> j = n /\ Spells(p, s, n)
<1> DEFINE e == Ends(ts, s)
           T == {i \in 0 .. n : \A j : j \in e[i] <=> j = i /\ Spells(p, s, i)}
<1>0. e[0] = {0} /\ \A i \in 1 .. Len(ts) : e[i] = Extend(ts[i], s, e[i - 1])
  BY EndsAre
<1> HIDE DEF e
<1>1. 0 \in T
  BY <1>0 DEF Spells
<1>2. ASSUME NEW i \in 1 .. n, i - 1 \in T PROVE i \in T
  <2>1. /\ i \in Nat /\ i \in 1 .. Len(ts) /\ i - 1 \in Nat /\ ts[i] = One({p[i]})
        /\ 1 .. i = (1 .. i - 1) \cup {i}
    OBVIOUS
  <2>2. e[i] = {j \in 1 .. Len(s) : p[i] = s[j] /\ j - 1 \in e[i - 1]}
    <3>1. e[i] = Extend(One({p[i]}), s, e[i - 1])
      BY <1>0, <2>1
    <3>2. One({p[i]}).many = FALSE /\ One({p[i]}).of = {p[i]}
      BY DEF One
    <3> QED BY <3>1, <3>2 DEF Extend
  <2>3. \A j : j \in e[i - 1] <=> j = i - 1 /\ Spells(p, s, i - 1)
    BY <1>2
  <2>4. \A j : j \in e[i] <=> j \in 1 .. Len(s) /\ p[i] = s[j] /\ j - 1 = i - 1 /\ Spells(p, s, i - 1)
    BY <2>2, <2>3
  <2>5. Spells(p, s, i) <=> i <= Len(s) /\ p[i] = s[i] /\ Spells(p, s, i - 1)
    BY <2>1 DEF Spells
  <2>6. \A j : j \in e[i] <=> j = i /\ Spells(p, s, i)
    <3>1. ASSUME NEW j, j \in e[i] PROVE j = i /\ Spells(p, s, i)
      <4>1. j \in 1 .. Len(s) /\ p[i] = s[j] /\ j - 1 = i - 1 /\ Spells(p, s, i - 1)
        BY <2>4, <3>1
      <4>2. j = i
        BY <2>1, <4>1
      <4> QED BY <2>5, <4>1, <4>2
    <3>2. ASSUME Spells(p, s, i) PROVE i \in e[i]
      <4>1. i \in 1 .. Len(s)
        BY <2>1, <2>5, <3>2
      <4> QED BY <2>4, <2>5, <3>2, <4>1
    <3> QED BY <3>1, <3>2
  <2> QED BY <2>6
<1> HIDE DEF T
<1>3. n \in T
  <2>1. n \in Nat /\ n \in 0 .. n
    OBVIOUS
  <2>2. \A i \in 0 .. n : i \in T
    BY <1>1, <1>2, <2>1, InductionUpTo
  <2> QED BY <2>1, <2>2
<1> QED BY <1>3 DEF T, e

\* A star at the end stands for anything, or for anything but a '/'.
LEMMA StarAtEnd ==
    ASSUME NEW ts, Len(ts) \in Nat, NEW p, NEW s, Len(s) \in Nat, NEW lang,
           NEW n \in Nat, Len(ts) = n + 1, \A k \in 1 .. n : ts[k] = One({p[k]}), ts[n + 1] = Star(lang)
    PROVE  Len(s) \in Ends(ts, s)[n + 1] <=>
             Spells(p, s, n) /\ \A l \in n + 1 .. Len(s) : s[l] \in AnyChar(lang)
<1> DEFINE e == Ends(ts, s)
<1>1. \A j : j \in e[n] <=> j = n /\ Spells(p, s, n)
  <2>1. n \in 0 .. Len(ts)
    OBVIOUS
  <2> QED BY <2>1, LiteralEnds
<1>2. e[n + 1] = Extend(Star(lang), s, e[n])
  <2>1. n + 1 \in 1 .. Len(ts) /\ (n + 1) - 1 = n
    OBVIOUS
  <2> HIDE DEF e
  <2>2. e[n + 1] = Extend(Star(lang), s, e[(n + 1) - 1])
    BY <2>1, EndsAre DEF e
  <2> QED BY <2>1, <2>2
<1> HIDE DEF e
<1>3. Len(s) \in e[n + 1] <=>
        \E k \in e[n] : k <= Len(s) /\ \A l \in k + 1 .. Len(s) : s[l] \in AnyChar(lang)
  BY <1>2 DEF Extend, Star
<1>4. Spells(p, s, n) => n <= Len(s)
  BY DEF Spells
<1> QED BY <1>1, <1>3, <1>4 DEF e

\* Whatever follows single characters, they have to be there.
LEMMA StarBeforeMore ==
    ASSUME NEW ts, Len(ts) \in Nat, NEW p, NEW s, Len(s) \in Nat,
           NEW n \in 0 .. Len(ts), \A k \in 1 .. n : ts[k] = One({p[k]}), Len(s) \in Ends(ts, s)[Len(ts)]
    PROVE  Spells(p, s, n)
<1> DEFINE e == Ends(ts, s)
           T == {i \in 0 .. Len(ts) - n : e[n + i] # {} => Spells(p, s, n)}
<1>0. \A i \in 1 .. Len(ts) : e[i] = Extend(ts[i], s, e[i - 1])
  BY EndsAre
<1>1. \A j : j \in e[n] <=> j = n /\ Spells(p, s, n)
  BY LiteralEnds
<1> HIDE DEF e
<1>2. 0 \in T
  BY <1>1
<1>3. ASSUME NEW i \in 1 .. Len(ts) - n, i - 1 \in T PROVE i \in T
  <2>1. n + i \in 1 .. Len(ts) /\ (n + i) - 1 = n + (i - 1) /\ i \in 0 .. Len(ts) - n
    OBVIOUS
  <2>2. e[n + i] = Extend(ts[n + i], s, e[n + (i - 1)])
    BY <1>0, <2>1
  <2>3. e[n + i] # {} => e[n + (i - 1)] # {}
    BY <2>2 DEF Extend
  <2> QED BY <1>3, <2>1, <2>3
<1> HIDE DEF T
<1>4. Len(ts) - n \in Nat /\ n + (Len(ts) - n) = Len(ts)
  OBVIOUS
<1>5. Len(ts) - n \in T
  <2>1. PICK b \in Nat : b = Len(ts) - n
    BY <1>4
  <2>2. \A i \in 1 .. b : i - 1 \in T => i \in T
    BY <1>3, <2>1
  <2>3. \A i \in 0 .. b : i \in T
    BY <1>2, <2>2, InductionUpTo
  <2>4. b \in 0 .. b
    OBVIOUS
  <2> QED BY <2>1, <2>3, <2>4
<1>6. e[Len(ts)] # {}
  BY DEF e
<1> QED BY <1>4, <1>5, <1>6 DEF T

-----------------------------------------------------------------------------
\* A trimmed pattern begins the pattern.
LEMMA TrimmedType ==
    ASSUME NEW C, NEW p \in Seq(C)
    PROVE  /\ Trimmed(p) \in Seq(C)
           /\ \A i \in DOMAIN Trimmed(p) : i \in DOMAIN p /\ Trimmed(p)[i] = p[i]
<1> DEFINE ends == {i \in 0 .. Len(p) : \A j \in i + 1 .. Len(p) : p[j] = "/"}
<1>1. Len(p) \in Nat
  OBVIOUS
<1>2. Len(p) \in ends /\ ends \in SUBSET Nat
  BY <1>1
<1> DEFINE k == CHOOSE i \in ends : \A j \in ends : i <= j
<1>3. k \in ends
  <2> HIDE DEF ends
  <2>1. \E i \in ends : \A j \in ends : i <= j
    BY <1>2, LeastNat
  <2> QED BY <2>1
<1>4. Trimmed(p) = SubSeq(p, 1, k)
  BY DEF Trimmed
<1>5. k \in 0 .. Len(p)
  BY <1>3
<1> HIDE DEF k
<1> QED BY <1>1, <1>4, <1>5

\* Directories: a sequence that is empty or absolute.
Path(c) == c \in Seq(Char) /\ (c = <<>> \/ c[1] = "/")

\* A directory above another begins it; and of those that a pattern spells, one has
\* no further segment.
LEMMA AncestorsArePrefixes ==
    ASSUME NEW c, Path(c), NEW a \in Ancestors(c), c # <<>>
    PROVE  Len(a) \in Nat /\ Len(a) <= Len(c) /\ \A k \in 1 .. Len(a) : a[k] = c[k]
<1>1. c \in Seq(Char) /\ Len(c) \in Nat /\ (c = <<>> \/ c[1] = "/")
  BY DEF Path
<1>2. CASE a = c
  BY <1>1, <1>2
<1>3. ASSUME NEW i \in DOMAIN c, a = IF i = 1 THEN <<"/">> ELSE SubSeq(c, 1, i - 1)
      PROVE  Len(a) \in Nat /\ Len(a) <= Len(c) /\ \A k \in 1 .. Len(a) : a[k] = c[k]
  <2>1. i \in 1 .. Len(c)
    BY <1>1
  <2>2. CASE i = 1
    <3>1. a = <<"/">> /\ c # <<>>
      BY <1>1, <1>3, <2>1, <2>2
    <3>2. Len(a) = 1 /\ a[1] = "/" /\ c[1] = "/"
      BY <1>1, <3>1
    <3> QED BY <2>1, <3>2
  <2>3. CASE i # 1
    BY <1>1, <1>3, <2>1, <2>3
  <2> QED BY <2>2, <2>3
<1> QED BY <1>2, <1>3 DEF Ancestors

\* A pattern that spells the beginning of a directory spells one of it and its
\* ancestors to within their last segment.
LEMMA AncestorSpelt ==
    ASSUME NEW c, Path(c), NEW p, NEW n \in Nat, n >= 1, Spells(p, c, n)
    PROVE  \E a \in Ancestors(c) : Spells(p, a, n) /\ \A l \in n + 1 .. Len(a) : a[l] # "/"
<1> DEFINE slashes == {l \in n + 1 .. Len(c) : c[l] = "/"}
<1>0. c \in Seq(Char) /\ Len(c) \in Nat
  BY DEF Path
<1>1. CASE slashes = {}
  <2>1. c \in Ancestors(c) /\ \A l \in n + 1 .. Len(c) : c[l] # "/"
    BY <1>1 DEF Ancestors
  <2> QED BY <2>1
<1>2. CASE slashes # {}
  <2>1. slashes \in SUBSET Nat
    BY <1>0
  <2>2. PICK i \in slashes : \A l \in slashes : i <= l
    BY <1>2, <2>1, LeastNat
  <2>3. i \in Nat /\ i >= n + 1 /\ i <= Len(c) /\ c[i] = "/" /\ i # 1 /\ i \in DOMAIN c
    BY <1>0, <2>2
  <2>4. SubSeq(c, 1, i - 1) \in Ancestors(c)
    BY <2>3 DEF Ancestors
  <2>5. Len(SubSeq(c, 1, i - 1)) = i - 1 /\ \A k \in 1 .. i - 1 : SubSeq(c, 1, i - 1)[k] = c[k]
    BY <1>0, <2>3
  <2>6. \A l \in n + 1 .. i - 1 : c[l] # "/"
    BY <1>0, <2>2, <2>3
  <2>7. PICK a \in Ancestors(c) : Len(a) = i - 1 /\ \A k \in 1 .. i - 1 : a[k] = c[k]
    BY <2>4, <2>5
  <2>8. Spells(p, a, n)
    BY <2>3, <2>7 DEF Spells
  <2>9. \A l \in n + 1 .. Len(a) : a[l] # "/"
    BY <2>3, <2>6, <2>7
  <2> QED BY <2>7, <2>8, <2>9
<1> QED BY <1>1, <1>2

\* A pattern that ValidateCwdPattern accepts means the same directories in both
\* languages, however long it and they are, if it is plain or has no star.
LEMMA MatchersAgreeOn ==
    ASSUME NEW C, NEW p \in Seq(C), ValidateCwdPattern(p), HasStar(Trimmed(p)) => Plain(p),
           NEW c, Path(c)
    PROVE  MatchesCwd(p, c) <=> SweptCwd(p, c)
<1>1. PICK t : t = Trimmed(p)
  OBVIOUS
<1>2. /\ t # <<>> /\ (\E i \in DOMAIN t : t[i] = "/")
      /\ \A i \in DOMAIN t : t[i] = "*" => i = Len(t)
  BY <1>1 DEF ValidateCwdPattern
<1>3. t \in Seq(C) /\ Len(t) \in Nat /\ Len(t) >= 1 /\ DOMAIN t = 1 .. Len(t)
  <2>1. t \in Seq(C)
    BY <1>1, TrimmedType
  <2> QED BY <1>2, <2>1
<1>4. c \in Seq(Char) /\ Len(c) \in Nat
  BY DEF Path
<1>5. CASE ~HasStar(t)
  <2>1. MatchesCwd(p, c) <=> c = t \/ IsPrefix(t \o <<"/">>, c)
    BY <1>1, <1>2, <1>5 DEF MatchesCwd
  <2>2. SweptCwd(p, c) <=> c = t \/ (Len(c) > Len(t) /\ SubSeq(c, 1, Len(t) + 1) = t \o <<"/">>)
    BY <1>1, <1>2, <1>5 DEF SweptCwd
  <2> DEFINE u == t \o <<"/">>
  <2>3. Len(u) = Len(t) + 1 /\ u \in Seq(C \cup {"/"})
    BY <1>3
  <2> HIDE DEF u
  <2>4. SubSeq(u, 1, Len(u)) = u
    BY <2>3
  <2>5. IsPrefix(u, c) <=> Len(c) > Len(t) /\ SubSeq(c, 1, Len(t) + 1) = u
    BY <1>3, <1>4, <2>3, <2>4 DEF IsPrefix
  <2> QED BY <2>1, <2>2, <2>5 DEF u
<1>6. CASE HasStar(t)
  <2> DEFINE n == Len(t) - 1
             more == t \o <<"/", "*">>
  <2>0. Plain(t)
    BY <1>1, <1>6, TrimmedType DEF Plain
  <2>1. /\ n \in Nat /\ Len(t) = n + 1 /\ t[n + 1] = "*" /\ n \in 0 .. Len(t)
        /\ \A k \in 1 .. n : t[k] # "*"
    BY <1>2, <1>3, <1>6 DEF HasStar
  <2>2. \E i \in 1 .. n : t[i] = "/"
    BY <1>2, <1>3, <2>1
  <2>2a. n >= 1
    BY <2>1, <2>2
  <2> HIDE DEF n
  <2>3. MatchesCwd(p, c) <=> \E a \in Ancestors(c) : Glob("go", t, a)
    BY <1>1, <1>2, <1>6 DEF MatchesCwd
  <2>4. SweptCwd(p, c) <=> Glob("sql", t, c) \/ Glob("sql", more, c)
    BY <1>1, <1>2, <1>6 DEF SweptCwd
  <2>5. ASSUME NEW lang, NEW s, Len(s) \in Nat
        PROVE  Glob(lang, t, s) <=> Spells(t, s, n) /\ \A l \in n + 1 .. Len(s) : s[l] \in AnyChar(lang)
    <3>1. PICK ts : /\ Len(ts) = Len(t) /\ \A k \in 1 .. Len(t) : ts[k] = TokenOf(lang, t[k])
                    /\ Glob(lang, t, s) <=> Len(s) \in Ends(ts, s)[Len(t)]
      BY <1>3, <2>0, PlainRead
    <3>2. ts[n + 1] = Star(lang) /\ \A k \in 1 .. n : ts[k] = One({t[k]})
      <4>1. n + 1 \in 1 .. Len(t) /\ \A k \in 1 .. n : k \in 1 .. Len(t)
        BY <2>1
      <4>2. ts[n + 1] = TokenOf(lang, t[n + 1]) /\ \A k \in 1 .. n : ts[k] = TokenOf(lang, t[k])
        BY <3>1, <4>1
      <4> QED BY <2>1, <4>2 DEF TokenOf
    <3>3. Len(ts) \in Nat /\ Len(ts) = n + 1 /\ Len(t) = n + 1
      BY <2>1, <3>1
    <3>4. Len(s) \in Ends(ts, s)[n + 1] <=>
             Spells(t, s, n) /\ \A l \in n + 1 .. Len(s) : s[l] \in AnyChar(lang)
      BY <2>1, <2>5, <3>2, <3>3, StarAtEnd
    <3> QED BY <3>1, <3>3, <3>4
  <2>6. Glob("sql", t, c) <=> Spells(t, c, n)
    <3>1. \A l \in n + 1 .. Len(c) : c[l] \in AnyChar("sql")
      BY <1>4, <2>1 DEF AnyChar
    <3> QED BY <1>4, <2>5, <3>1
  <2>7. Glob("sql", more, c) => Spells(t, c, n)
    <3>1. /\ Len(more) = Len(t) + 2 /\ Len(more) \in Nat /\ \A k \in 1 .. Len(t) : more[k] = t[k]
          /\ more \in Seq(C \cup {"/", "*"}) /\ DOMAIN more = 1 .. Len(t) + 2
          /\ more[Len(t) + 1] = "/" /\ more[Len(t) + 2] = "*"
      BY <1>3
    <3> HIDE DEF more
    <3>2. Plain(more)
      <4>1. ASSUME NEW i \in DOMAIN more PROVE more[i] \notin {"?", "[", "\\"}
        <5>1. i \in 1 .. Len(t) \/ i = Len(t) + 1 \/ i = Len(t) + 2
          BY <1>3, <3>1
        <5> QED BY <1>3, <2>0, <3>1, <5>1 DEF Plain
      <4> QED BY <4>1 DEF Plain
    <3>3. PICK ts : /\ Len(ts) = Len(more) /\ \A k \in 1 .. Len(more) : ts[k] = TokenOf("sql", more[k])
                    /\ Glob("sql", more, c) <=> Len(c) \in Ends(ts, c)[Len(more)]
      BY <3>1, <3>2, PlainRead
    <3>4. n \in 0 .. Len(ts) /\ \A k \in 1 .. n : ts[k] = One({t[k]})
      BY <2>1, <3>1, <3>3 DEF TokenOf
    <3> QED BY <1>4, <3>1, <3>3, <3>4, StarBeforeMore
  <2>8. CASE c = <<>>
    <3>1. ~Spells(t, c, n)
      BY <2>1, <2>2a, <2>8 DEF Spells
    <3>2. ASSUME NEW a \in Ancestors(c), Glob("go", t, a) PROVE FALSE
      <4>1. a = c \/ a = <<".">>
        BY <2>8, <3>2 DEF Ancestors
      <4>2. Spells(t, a, n)
        <5>1. Len(a) \in Nat
          BY <1>4, <4>1
        <5> QED BY <2>5, <3>2, <5>1
      <4>3. CASE a = <<".">>
        BY <2>1, <2>2, <4>2, <4>3 DEF Spells
      <4> QED BY <3>1, <4>1, <4>2, <4>3
    <3> QED BY <2>3, <2>4, <2>6, <2>7, <3>1, <3>2
  <2>9. CASE c # <<>>
    <3>1. \A a \in Ancestors(c) :
             Glob("go", t, a) <=> Spells(t, a, n) /\ \A l \in n + 1 .. Len(a) : a[l] # "/"
      <4> SUFFICES ASSUME NEW a \in Ancestors(c)
                   PROVE  Glob("go", t, a) <=> Spells(t, a, n) /\ \A l \in n + 1 .. Len(a) : a[l] # "/"
        OBVIOUS
      <4>1. Len(a) \in Nat /\ Len(a) <= Len(c) /\ \A k \in 1 .. Len(a) : a[k] = c[k]
        BY <2>9, AncestorsArePrefixes
      <4>2. \A l \in n + 1 .. Len(a) : a[l] \in Char
        BY <1>4, <2>1, <4>1
      <4>3. \A l \in n + 1 .. Len(a) : a[l] \in AnyChar("go") <=> a[l] # "/"
        BY <4>2 DEF AnyChar
      <4> QED BY <2>5, <4>1, <4>3
    <3>2. ASSUME NEW a \in Ancestors(c), Spells(t, a, n) PROVE Spells(t, c, n)
      BY <1>4, <2>1, <2>9, <3>2, AncestorsArePrefixes DEF Spells
    <3>3. Spells(t, c, n) => \E a \in Ancestors(c) : Spells(t, a, n) /\ \A l \in n + 1 .. Len(a) : a[l] # "/"
      BY <2>1, <2>2a, AncestorSpelt
    <3> QED BY <2>3, <2>4, <2>6, <2>7, <3>1, <3>2, <3>3
  <2> QED BY <2>8, <2>9
<1> QED BY <1>5, <1>6

\* The rule and the directory of a behaviour.
RuleTypes == pattern \in Seq(Char) /\ Path(cwd)

\* A pattern that is accepted, and has no star or no character special to one of the
\* languages, attributes a directory in a tick exactly if it does in the retroactive
\* sweep (ValidateCwdPattern), for any length of either.
THEOREM PlainMatchersAlwaysAgree == RuleSpec => []PlainMatchersAgree
<1>1. ASSUME NEW C, NEW b \in Nat, NEW x \in SeqOf(C, b) PROVE x \in Seq(C)
  BY <1>1 DEF SeqOf
<1>2. \A c \in Cwds : Path(c)
  <2> SUFFICES ASSUME NEW c \in Cwds PROVE Path(c)
    OBVIOUS
  <2>1. c \in SeqOf(Char, MaxCwd) /\ (c = <<>> \/ c = <<"/">> \/ c[1] = "/")
    BY DEF Cwds
  <2>2. c \in Seq(Char)
    BY <1>1, <2>1, MatchingAssumption
  <2> QED BY <2>1, <2>2 DEF Path
<1>3. RuleInit => RuleTypes
  <2> SUFFICES ASSUME RuleInit PROVE RuleTypes
    OBVIOUS
  <2>1. pattern \in SeqOf(Char, MaxPattern) /\ cwd = <<>>
    BY DEF RuleInit, Patterns
  <2>2. pattern \in Seq(Char)
    BY <1>1, <2>1, MatchingAssumption
  <2>3. Path(<<>>)
    BY DEF Path
  <2> QED BY <2>1, <2>2, <2>3 DEF RuleTypes
<1>4. RuleTypes /\ [RuleNext]_ruleVars => RuleTypes'
  BY <1>2 DEF RuleTypes, RuleNext, ruleVars, Path
<1>5. RuleTypes => PlainMatchersAgree
  <2> SUFFICES ASSUME RuleTypes, ValidateCwdPattern(pattern),
                      HasStar(Trimmed(pattern)) => Plain(pattern)
               PROVE  MatchesCwd(pattern, cwd) = SweptCwd(pattern, cwd)
    BY DEF PlainMatchersAgree
  <2>1. MatchesCwd(pattern, cwd) <=> SweptCwd(pattern, cwd)
    BY MatchersAgreeOn DEF RuleTypes
  <2>2. MatchesCwd(pattern, cwd) \in BOOLEAN /\ SweptCwd(pattern, cwd) \in BOOLEAN
    BY DEF MatchesCwd, SweptCwd
  <2> QED BY <2>1, <2>2
<1> QED BY <1>3, <1>4, <1>5, PTL DEF RuleSpec
=============================================================================
