---------------------------- MODULE MCIssueClaims ----------------------------
(* Small instances of IssueClaims.                                         *)
EXTENDS IssueClaims
=============================================================================
