------------------------------- MODULE JobFifo -------------------------------
(***************************************************************************)
(* What the client's threads count on of the job queue: a sequence that    *)
(* some extend and others shorten, each in one step, and whose elements    *)
(* are all taken.                                                          *)
(***************************************************************************)
EXTENDS Naturals, Sequences

CONSTANTS Consumer, Job,
          Nothing,  \* a consumer that has been given no job yet
          Over      \* a consumer that was told there will be no more jobs

VARIABLES jobs,    \* Seq(Job)
          given,   \* [Consumer -> Job \cup {Nothing, Over}], the last answer of get
          closed   \* the queue was completed

fifoVars == <<jobs, given, closed>>

FifoInit == jobs = <<>> /\ given = [c \in Consumer |-> Nothing] /\ closed = FALSE

Add(j) == jobs' = Append(jobs, j) /\ UNCHANGED <<given, closed>>

Give(c) == /\ jobs # <<>> /\ given[c] # Over
           /\ given' = [given EXCEPT ![c] = Head(jobs)]
           /\ jobs' = Tail(jobs)
           /\ UNCHANGED closed

\* Only an empty queue ends.
Dismiss(c) == /\ closed /\ jobs = <<>>
              /\ given' = [given EXCEPT ![c] = Over]
              /\ UNCHANGED <<jobs, closed>>

Close == closed' = TRUE /\ UNCHANGED <<jobs, given>>

FifoNext == \/ \E j \in Job : Add(j)
            \/ \E c \in Consumer : Give(c) \/ Dismiss(c)
            \/ Close

FifoSpec == FifoInit /\ [][FifoNext]_fifoVars

\* A job that is there is given to someone, as long as there is someone.
FifoLive == WF_fifoVars(\E c \in Consumer : Give(c))

=============================================================================
