--------------------------- MODULE MCWebSocketFeed ---------------------------
(* Three socket objects: one in use and the closing handshakes of the two  *)
(* before it, which is what it takes for a late close to close a socket    *)
(* whose own late close then closes the next.                              *)
EXTENDS WebSocketFeed

CONSTANTS s1, s2, s3
MCSockets == {s1, s2, s3}
MCLimits == {0, 2}
=============================================================================
