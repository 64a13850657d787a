-------------------------- MODULE MCAgentMonitor --------------------------
(* A service probed over HTTP and one that is not, a rule for one of them.  *)
EXTENDS AgentMonitor

MCServices == <<"gateway", "transmite">>
MCHttp == {"gateway"}
MCRules == {<<"down", "transmite">>}
=============================================================================
