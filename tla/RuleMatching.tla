---------------------------- MODULE RuleMatching ----------------------------
(* A rule's directory clause, by the two that must agree on it: the tick's      *)
(* matcher in Go (domain/match.go, path.Match) and the retroactive sweep's in   *)
(* SQL (ApplyRuleRetroactivelyCounted, GLOB).  Patterns and directories are     *)
(* sequences of characters, since the two differ in what a character may stand  *)
(* for.  Ranges and negation in brackets, which both write '-' and '^', are not *)
(* modelled: there these two are members like any other.                        *)
EXTENDS Naturals, Sequences, SequencesExt

CONSTANTS
    Char,         \* the characters of patterns and directories
    MaxPattern,   \* bound on the length of a pattern
    MaxCwd        \* bound on the length of a directory

ASSUME MatchingAssumption == MaxPattern \in Nat /\ MaxCwd \in Nat

VARIABLES
    pattern,      \* what a rule says
    cwd           \* a signal's directory

ruleVars == <<pattern, cwd>>

Patterns == SeqOf(Char, MaxPattern)
\* A clean absolute path, as lsof and the agents report it, or none.
Cwds == {c \in SeqOf(Char, MaxCwd) :
            c = <<>> \/ c = <<"/">> \/
            (/\ c[1] = "/" /\ c[Len(c)] # "/"
             /\ \A i \in 1 .. Len(c) - 1 : <<c[i], c[i + 1]>> # <<"/", "/">>)}
-----------------------------------------------------------------------------
(* Globs, in "go" and in "sql".  A token stands for one of some characters, or  *)
(* for any number of them; '*' and '?' stop at '/' in Go only.                  *)
One(S) == [many |-> FALSE, of |-> S]
AnyChar(lang) == IF lang = "go" THEN Char \ {"/"} ELSE Char
Star(lang) == [many |-> TRUE, of |-> AnyChar(lang)]

\* A pattern is read a character at a time; mode is where the reader is: between
\* tokens, after a backslash, right after '[', in brackets, after a backslash there.
Nothing == [mode |-> "between", members |-> {}, tokens |-> <<>>]
With(r, token) == [Nothing EXCEPT !.tokens = Append(r.tokens, token)]
Member(r, ch) == [r EXCEPT !.mode = "brackets", !.members = @ \cup {ch}]
\* Only Go has escapes.
Escapes(lang, ch) == lang = "go" /\ ch = "\\"

ReadBetween(lang, r, ch) ==
    CASE ch = "*" -> With(r, Star(lang))
      [] ch = "?" -> With(r, One(AnyChar(lang)))
      [] ch = "[" -> [r EXCEPT !.mode = "open"]
      [] Escapes(lang, ch) -> [r EXCEPT !.mode = "escape"]
      [] OTHER -> With(r, One({ch}))

\* A ']' right after the '[' is a member in SQL, and a bad pattern in Go.
ReadInBrackets(lang, r, ch) ==
    CASE ch = "]" /\ r.mode = "brackets" -> With(r, One(r.members))
      [] ch = "]" /\ r.mode = "open" /\ lang = "go" -> [r EXCEPT !.mode = "bad"]
      [] Escapes(lang, ch) -> [r EXCEPT !.mode = "escapedMember"]
      [] OTHER -> Member(r, ch)

ReadChar(lang, r, ch) ==
    CASE r.mode = "between" -> ReadBetween(lang, r, ch)
      [] r.mode = "escape" -> With(r, One({ch}))
      [] r.mode \in {"open", "brackets"} -> ReadInBrackets(lang, r, ch)
      [] r.mode = "escapedMember" -> Member(r, ch)
      [] r.mode = "bad" -> r

Reader(lang, p) ==
    LET r[i \in 0 .. Len(p)] == IF i = 0 THEN Nothing ELSE ReadChar(lang, r[i - 1], p[i])
    IN  r

\* Where in s the tokens up to a next one can end, from where those before it can.
Extend(token, s, ends) ==
    IF token.many
    THEN {j \in 0 .. Len(s) : \E k \in ends : k <= j /\ \A l \in k + 1 .. j : s[l] \in token.of}
    ELSE {j \in 1 .. Len(s) : s[j] \in token.of /\ j - 1 \in ends}
Ends(tokens, s) ==
    LET ends[i \in 0 .. Len(tokens)] ==
            IF i = 0 THEN {0} ELSE Extend(tokens[i], s, ends[i - 1])
    IN  ends

\* A pattern that is not read to its end matches nothing.
Glob(lang, p, s) ==
    LET r == Reader(lang, p)[Len(p)]
    IN  r.mode = "between" /\ Len(s) \in Ends(r.tokens, s)[Len(r.tokens)]
-----------------------------------------------------------------------------
\* strings.TrimRight(pattern, "/"), rtrim(?, '/').
Trimmed(p) ==
    LET ends == {i \in 0 .. Len(p) : \A j \in i + 1 .. Len(p) : p[j] = "/"}
    IN  SubSeq(p, 1, CHOOSE i \in ends : \A j \in ends : i <= j)
HasStar(p) == \E i \in DOMAIN p : p[i] = "*"

\* A directory and its ancestors, by path.Dir.
Ancestors(c) ==
    {c} \cup {IF i = 1 THEN <<"/">> ELSE SubSeq(c, 1, i - 1) : i \in {j \in DOMAIN c : c[j] = "/"}}
        \cup {<<".">> : x \in {d \in {c} : d = <<>>}}

MatchesCwd(p, c) ==
    LET t == Trimmed(p)
    IN  /\ t # <<>>
        /\ IF HasStar(t) THEN \E a \in Ancestors(c) : Glob("go", t, a)
           ELSE c = t \/ IsPrefix(t \o <<"/">>, c)

SweptCwd(p, c) ==
    LET t == Trimmed(p)
    IN  /\ t # <<>>
        /\ IF HasStar(t) THEN Glob("sql", t, c) \/ Glob("sql", t \o <<"/", "*">>, c)
           ELSE c = t \/ (Len(c) > Len(t) /\ SubSeq(c, 1, Len(t) + 1) = t \o <<"/">>)

\* Mutant: a star anywhere in the last segment.
ValidStarInLastSegment(p) ==
    LET t == Trimmed(p)
    IN  /\ t # <<>> /\ \E i \in DOMAIN t : t[i] = "/"
        /\ \A i \in DOMAIN t : t[i] = "*" => \A j \in i .. Len(t) : t[j] # "/"

ValidateCwdPattern(p) ==
    LET t == Trimmed(p)
    IN  /\ t # <<>> /\ \E i \in DOMAIN t : t[i] = "/"
        /\ \A i \in DOMAIN t : t[i] = "*" => i = Len(t)
-----------------------------------------------------------------------------
RuleInit == pattern \in Patterns /\ cwd = <<>>
\* A rule is judged on one directory.
RuleNext == cwd = <<>> /\ cwd' \in Cwds /\ UNCHANGED pattern
RuleSpec == RuleInit /\ [][RuleNext]_ruleVars

\* A pattern that is accepted attributes a directory in a tick exactly if it does in
\* the retroactive sweep (ValidateCwdPattern: "two matchers that must agree on every
\* rule") ...
MatchersAgree == ValidateCwdPattern(pattern) => MatchesCwd(pattern, cwd) = SweptCwd(pattern, cwd)

\* ... if it has no star, or no other character that stands for more than itself in
\* one of the two languages.
Plain(p) == \A i \in DOMAIN p : p[i] \notin {"?", "[", "\\"}
PlainMatchersAgree ==
    ValidateCwdPattern(pattern) /\ (HasStar(Trimmed(pattern)) => Plain(pattern))
        => MatchesCwd(pattern, cwd) = SweptCwd(pattern, cwd)
=============================================================================
