----------------------------- MODULE MCJobQueue -----------------------------
(* Small instances of JobQueue.                                            *)
EXTENDS JobQueue
=============================================================================
