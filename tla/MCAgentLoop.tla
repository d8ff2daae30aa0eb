----------------------------- MODULE MCAgentLoop -----------------------------
(* Small instances of AgentLoop: two agents, responses of up to three calls. *)
EXTENDS AgentLoop

Plain == {<<>>, <<"tool">>, <<"tool", "tool">>}
Mixed == {<<>>, <<"a", "a">>, <<"tool", "a", "b">>}
=============================================================================
