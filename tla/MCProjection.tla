---------------------------- MODULE MCProjection ----------------------------
(* Every document of up to MaxLen runes; the bound is in the configuration.   *)
EXTENDS Projection
=============================================================================
