----------------------------- MODULE MCJobQueue -----------------------------
(* The client's instance of JobQueue, with a thread that closes the queue. *)
EXTENDS JobQueue, TLC

CONSTANTS fw, main, io, io2, end

=============================================================================
