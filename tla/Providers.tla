----------------------------- MODULE Providers -----------------------------
(***************************************************************************)
(* The two halves of the provider layer, one behaviour at a time: the      *)
(* configuration decides which attempts a request has, of which            *)
(* ProviderFailover takes every set.                                       *)
(***************************************************************************)
EXTENDS ProviderFailover, ProviderConfig

VARIABLE part

PartsInit == FailoverInit /\ ConfigInit /\ part \in {"failover", "config"}

PartsNext ==
    /\ UNCHANGED part
    /\ \/ part = "failover" /\ FailoverNext /\ UNCHANGED configVars
       \/ part = "config" /\ ConfigNext /\ UNCHANGED failoverVars

PartsSpec ==
    /\ PartsInit /\ [][PartsNext]_<<part, failoverVars, configVars>>
    /\ FailoverFairness

\* The variables of both halves are of their types.
ProvidersTypeOK == FailoverTypeOK /\ ConfigTypeOK
=============================================================================
