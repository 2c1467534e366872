------------------------------ MODULE MCRateLimit ------------------------------
(***************************************************************************)
(* RateLimit for TLC: a minute of eight units, limits that divide it, one      *)
(* that does not, one that is too large for any interval, and none.         *)
(***************************************************************************)
EXTENDS RateLimit

=============================================================================
