----------------------------- MODULE MCCollect ------------------------------
(***************************************************************************)
(* Small instances of Collect.  With a ring of three entries four fifths   *)
(* of it, rounded down, are two.                                           *)
(***************************************************************************)
EXTENDS Collect
=============================================================================
