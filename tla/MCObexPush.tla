---------------------------- MODULE MCObexPush ----------------------------
(* ObexPush on a small instance: one session, every value of the policy.   *)
EXTENDS ObexPush

CONSTANT s1
MCSessions == {s1}
MCPolicies == AcceptValues
=============================================================================
