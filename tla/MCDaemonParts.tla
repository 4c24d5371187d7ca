---------------------------- MODULE MCDaemonParts ----------------------------
(* Instances of the collectors, of the daemon's boot and of rule matching.     *)
(* They share no state, so each behaviour moves one of them, chosen at the     *)
(* start; the others stay in an initial state.                                 *)
EXTENDS TranscriptTail, TranscriptImport, AgentActivity, HerdrSessions, TitleProbe,
        Lifecycle, RuleMatching

CONSTANTS root, repo, p1, p2, i1, s1, s2, w1, w2, d1, d2

VARIABLE part

MCDir == {root, repo}
MCTracked == {repo}
MCContent == {[session |-> root, command |-> None], [session |-> None, command |-> repo]}

MCTranscripts == <<"a", "b">>
MCStamps == [f \in {"a", "b"} |-> IF f = "a" THEN {0, 3, 4} ELSE {1, 4}]
MCMatch == [f \in {"a", "b"} |-> p1]
MCRanges == {[from |-> 0, to |-> 4], [from |-> 1, to |-> 3]}

MCProcess ==
    {[name |-> "claude", cwd |-> "A", space |-> NoSpace],
     [name |-> "claude", cwd |-> "B", space |-> "w1"],
     [name |-> "node", cwd |-> "B", space |-> "w2"]}
MCSnapshots ==
    {[binaries |-> {}, cwds |-> {"A"}, spaces |-> {"w1"}],
     [binaries |-> {"node"}, cwds |-> {}, spaces |-> {}]}

MCChar == {"a", "/", "*", "?", "[", "]", "\\"}

MCHome == [s \in {s1, s2} |-> IF s = s1 THEN w1 ELSE w2]

Parts == {"tail", "import", "activity", "herdr", "probe", "life", "rule"}

Init ==
    /\ part \in Parts
    /\ TailInit /\ ImportInit /\ ActivityInit /\ HerdrInit /\ ProbeInit
    /\ part # "tail" => format = "claude"
    /\ part # "activity" => /\ proc = [name |-> "claude", cwd |-> "A", space |-> NoSpace]
                            /\ snapshot.binaries = {}
    /\ IF part = "life" THEN LifeInit ELSE LifeInit /\ tables = Current /\ rows = {}
    /\ IF part = "rule" THEN RuleInit ELSE pattern = <<>> /\ cwd = <<>>

Next ==
    \/ /\ part = "tail" /\ TailNext
       /\ UNCHANGED <<part, importVars, activityVars, herdrVars, probeVars, lifeVars, ruleVars>>
    \/ /\ part = "import" /\ ImportNext
       /\ UNCHANGED <<part, tailVars, activityVars, herdrVars, probeVars, lifeVars, ruleVars>>
    \/ /\ part = "activity" /\ ActivityNext
       /\ UNCHANGED <<part, tailVars, importVars, herdrVars, probeVars, lifeVars, ruleVars>>
    \/ /\ part = "herdr" /\ HerdrNext
       /\ UNCHANGED <<part, tailVars, importVars, activityVars, probeVars, lifeVars, ruleVars>>
    \/ /\ part = "probe" /\ ProbeTick
       /\ UNCHANGED <<part, tailVars, importVars, activityVars, herdrVars, lifeVars, ruleVars>>
    \/ /\ part = "life" /\ LifeNext
       /\ UNCHANGED <<part, tailVars, importVars, activityVars, herdrVars, probeVars, ruleVars>>
    \/ /\ part = "rule" /\ RuleNext
       /\ UNCHANGED <<part, tailVars, importVars, activityVars, herdrVars, probeVars, lifeVars>>

Spec ==
    Init /\ [][Next]_<<part, tailVars, importVars, activityVars, herdrVars, probeVars,
                       lifeVars, ruleVars>>
=============================================================================
