---------------------------- MODULE MCPositions ----------------------------
(* Small instances of Positions: two strategies on one symbol.             *)
EXTENDS Positions
=============================================================================
