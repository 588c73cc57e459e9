--------------------------- MODULE MCIngestQueue ---------------------------
(* Small instances of the ingest queue.  Documents are interchangeable, but   *)
(* the liveness properties do not allow a symmetry reduction.                 *)
EXTENDS IngestQueue
=============================================================================
