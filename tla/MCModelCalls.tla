----------------------------- MODULE MCModelCalls -----------------------------
(***************************************************************************)
(* ModelCalls for calls of up to two requests.                             *)
(***************************************************************************)
EXTENDS ModelCalls

BothTroubles == {"overloaded", "fatal"}
=============================================================================
