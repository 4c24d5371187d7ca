---------------------------- MODULE MCAttribution ----------------------------
(* Attribution for TLC: one focus, one agent and one transcript observation. *)
EXTENDS Attribution, TLC

CONSTANTS f, a, t

MCObs == {f, a, t}
MCSource == [o \in MCObs |-> IF o = f THEN "focus" ELSE IF o = a THEN "agent" ELSE "transcript"]
MCSpace == [o \in MCObs |-> NoSpace]
MCMatchers == {{f}, {a, t}}

AgentMatchers == {{a, t}}

\* Signals come in the order focus, agent, transcript; focus needs presence.
AllSightings ==
    [present : {FALSE}, queue : {<<a, t>>}]
    \cup [present : {TRUE}, queue : {<<f, a>>}]

Boot(ps) == [projects |-> ps, paused |-> {}, rules |-> <<[proj |-> 1, obs |-> {a, t}]>>]
OneProject == {Boot({1})}

\* Agents, windows and transcripts one or two at a time: they resume a paused
\* project, or leave it paused.
SettleSightings == [present : {TRUE}, queue : {<<a>>, <<t>>, <<f, a>>}]

\* One window at a time.
FocusSightings == [present : {TRUE}, queue : {<<f>>}]

\* The user is there and the agent is always busy.
BusySightings == [present : {TRUE}, queue : {<<a>>, <<a, a>>}]

FocusRule == <<[proj |-> 1, obs |-> {f}]>>
AgentRule == <<[proj |-> 1, obs |-> {a, t}]>>
BothRules == FocusRule \o AgentRule

Ruled == {[projects |-> {1}, paused |-> {}, rules |-> BothRules]}
Empty == {[projects |-> {}, paused |-> {}, rules |-> <<>>]}
Unruled == {[projects |-> {1}, paused |-> {}, rules |-> <<>>]}

\* The clients do the same things: no property or state names one of them.
CallerSymmetry == Permutations(Caller)
=============================================================================
