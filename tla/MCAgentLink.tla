---------------------------- MODULE MCAgentLink ----------------------------
(* An instance of AgentLink for TLC. *)
EXTENDS AgentLink

\* One sector of each kind, in either order, so that neighbours never look alike.
MCFlashes == {<<"data", "empty">>, <<"empty", "data">>}
=============================================================================
