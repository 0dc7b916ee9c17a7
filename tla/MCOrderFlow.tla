---------------------------- MODULE MCOrderFlow ----------------------------
(* Small instances of OrderFlow: a handful of orders of both sides.        *)
EXTENDS OrderFlow
=============================================================================
