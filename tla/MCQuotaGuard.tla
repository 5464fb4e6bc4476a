---------------------------- MODULE MCQuotaGuard ----------------------------
(* Instances of QuotaGuard for TLC. *)
EXTENDS QuotaGuard

CONSTANTS q1, q2, q3, alice, home, anon

\* Requests of one account from one address; a request that is degraded is
\* anonymous in every respect.
MCCaller == [r \in ToolCalls |-> alice]
MCAddr   == [r \in ToolCalls |-> home]
=============================================================================
