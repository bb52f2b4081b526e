----------------------------- MODULE MCJobQueue -----------------------------
(* Small instances of JobQueue: two workers, two jobs that share an artifact. *)
EXTENDS JobQueue
=============================================================================
