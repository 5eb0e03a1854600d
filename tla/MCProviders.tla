---------------------------- MODULE MCProviders ----------------------------
(* An instance of Providers for TLC. *)
EXTENDS Providers, TLC

CONSTANTS c1, c2, x1, x2, q1, q2, openai, anthropic, m1, m2

TheChain == <<openai, anthropic>>
=============================================================================
