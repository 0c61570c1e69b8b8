----------------------------- MODULE MCAgentLoop -----------------------------
(***************************************************************************)
(* Instances of AgentLoop for TLC.                                         *)
(***************************************************************************)
EXTENDS AgentLoop

CONSTANTS e2, e3, e4

\* Two files that fit in one request, one that does not fit beside another,
\* and one that does not parse.
MCContents == {<<e2>>, <<e2, e3>>, <<e4>>}

==============================================================================
