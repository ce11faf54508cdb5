--------------------------- MODULE MCTaskRegistry ---------------------------
(***************************************************************************)
(* A small instance of TaskRegistry.                                       *)
(***************************************************************************)
EXTENDS TaskRegistry
CONSTANTS b1, b2, b3

ThreeBlocks == {b1, b2, b3}
=============================================================================
