--------------------------- MODULE MCPersistence ---------------------------
(* Small instance of Persistence: more events than the queue and a batch    *)
(* hold together, and one SQLITE_BUSY retry.                                *)
EXTENDS Persistence
=============================================================================
