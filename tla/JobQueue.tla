------------------------------ MODULE JobQueue ------------------------------
(***************************************************************************)
(* Jobs<Request> (shared/job.h): a deque behind a mutex and a condition    *)
(* variable.  The watcher and the main thread put, the io thread gets, and *)
(* complete() closes the queue; it changes the flag without the mutex.     *)
(***************************************************************************)
EXTENDS Naturals, Sequences

CONSTANTS Producer,  \* threads that put
          Consumer,  \* threads that get
          Closer,    \* threads that call complete
          Job,
          Room,      \* bound: jobs in the deque; the code has none
          Nothing, Over, None

Thread == Producer \cup Consumer

VARIABLES m,          \* who holds the mutex
          coda,       \* the deque
          completed,  \* the flag
          pc,         \* [Producer \cup Consumer \cup Closer -> where the thread stands]
          data        \* [Consumer -> what its last get returned]

vars == <<m, coda, completed, pc, data>>

ASSUME QueueAssumption ==
  /\ Producer \cap Consumer = {} /\ Producer \cap Closer = {} /\ Consumer \cap Closer = {}
  /\ None \notin Thread
  /\ Nothing \notin Job /\ Over \notin Job /\ Nothing # Over
  /\ Room \in Nat

Goto(t, l) == pc' = [pc EXCEPT ![t] = l]

\* cv.notify_all: every waiting consumer is to look again.
Woken(p) == [t \in DOMAIN p |-> IF p[t] = "waiting" THEN "woken" ELSE p[t]]

-----------------------------------------------------------------------------
(* put *)

Enter(p) == /\ pc[p] = "out" /\ Len(coda) < Room
            /\ Goto(p, "enter")
            /\ UNCHANGED <<m, coda, completed, data>>

Push(p) == /\ pc[p] = "enter" /\ m = None
           /\ m' = p
           /\ \E j \in Job : coda' = Append(coda, j)
           /\ Goto(p, "pushed")
           /\ UNCHANGED <<completed, data>>

\* Mutant of NotifyPut: nobody is told.
NotifyPutNobody(p) == /\ pc[p] = "pushed"
                      /\ Goto(p, "leave")
                      /\ UNCHANGED <<m, coda, completed, data>>

NotifyPut(p) == /\ pc[p] = "pushed"
                /\ pc' = [Woken(pc) EXCEPT ![p] = "leave"]
                /\ UNCHANGED <<m, coda, completed, data>>

Leave(p) == /\ pc[p] = "leave"
            /\ m' = None
            /\ Goto(p, "out")
            /\ UNCHANGED <<coda, completed, data>>

-----------------------------------------------------------------------------
(* get *)

Lock(c) == /\ pc[c] \in {"out", "woken"} /\ m = None
           /\ m' = c
           /\ Goto(c, "test")
           /\ UNCHANGED <<coda, completed, data>>

\* The predicate of cv.wait.
Test(c) == /\ pc[c] = "test"
           /\ Goto(c, IF coda # <<>> \/ completed THEN "take" ELSE "block")
           /\ UNCHANGED <<m, coda, completed, data>>

\* The mutex is released and the thread blocked in one step.
Block(c) == /\ pc[c] = "block"
            /\ m' = None
            /\ Goto(c, "waiting")
            /\ UNCHANGED <<coda, completed, data>>

\* Mutant of Wake: the predicate is not tested again.
WakeUntested(c) == /\ pc[c] = "waiting" /\ m = None
                   /\ m' = c
                   /\ Goto(c, "take")
                   /\ UNCHANGED <<coda, completed, data>>

\* A condition variable may wake a thread that nobody notified.
Wake(c) == /\ pc[c] = "waiting"
           /\ Goto(c, "woken")
           /\ UNCHANGED <<m, coda, completed, data>>

\* Mutant of Finish: the consumer is not told.
FinishEmptyHanded(c) == /\ pc[c] = "take" /\ completed /\ coda = <<>>
                        /\ m' = None
                        /\ data' = [data EXCEPT ![c] = None]
                        /\ Goto(c, "over")
                        /\ UNCHANGED <<coda, completed>>

Finish(c) == /\ pc[c] = "take" /\ completed /\ coda = <<>>
             /\ m' = None
             /\ data' = [data EXCEPT ![c] = Over]
             /\ Goto(c, "over")
             /\ UNCHANGED <<coda, completed>>

\* Mutant of Pop: the newest job first.
PopBack(c) == /\ pc[c] = "take" /\ coda # <<>>
              /\ m' = None
              /\ data' = [data EXCEPT ![c] = coda[Len(coda)]]
              /\ coda' = SubSeq(coda, 1, Len(coda) - 1)
              /\ Goto(c, "out")
              /\ UNCHANGED completed

Pop(c) == /\ pc[c] = "take" /\ coda # <<>>
          /\ m' = None
          /\ data' = [data EXCEPT ![c] = Head(coda)]
          /\ coda' = Tail(coda)
          /\ Goto(c, "out")
          /\ UNCHANGED completed

-----------------------------------------------------------------------------
(* complete, which takes no mutex *)

Complete(x) == /\ pc[x] = "out"
               /\ completed' = TRUE
               /\ Goto(x, "stored")
               /\ UNCHANGED <<m, coda, data>>

NotifyEnd(x) == /\ pc[x] = "stored"
                /\ pc' = [Woken(pc) EXCEPT ![x] = "over"]
                /\ UNCHANGED <<m, coda, completed, data>>

-----------------------------------------------------------------------------
Init == /\ m = None /\ coda = <<>> /\ completed = FALSE
        /\ pc = [t \in Thread \cup Closer |-> "out"]
        /\ data = [c \in Consumer |-> Nothing]

Putting(p) == Enter(p) \/ Push(p) \/ NotifyPut(p) \/ Leave(p)
Getting(c) == Lock(c) \/ Test(c) \/ Block(c) \/ Finish(c) \/ Pop(c)

Next == \/ \E p \in Producer : Putting(p)
        \/ \E c \in Consumer : Getting(c) \/ Wake(c)
        \/ \E x \in Closer : Complete(x) \/ NotifyEnd(x)

Spec == Init /\ [][Next]_vars

\* Every thread that can run does, and one that waits for the mutex gets it some
\* time; nothing is assumed of spurious wake-ups or of callers of put and complete.
FairSpec == /\ Spec
            /\ \A p \in Producer : SF_vars(Push(p)) /\ WF_vars(NotifyPut(p) \/ Leave(p))
            /\ \A c \in Consumer : SF_vars(Lock(c)) /\ WF_vars(Test(c) \/ Block(c) \/ Finish(c) \/ Pop(c))
            /\ \A x \in Closer : WF_vars(NotifyEnd(x))

-----------------------------------------------------------------------------
(* Properties *)

\* Types of the variables.
TypeOK ==
  /\ m \in Thread \cup {None}
  /\ coda \in Seq(Job)
  /\ completed \in BOOLEAN
  /\ pc \in [Thread \cup Closer -> {"out", "enter", "pushed", "leave", "test", "block", "take",
                                    "waiting", "woken", "stored", "over"}]
  /\ data \in [Consumer -> Job \cup {Nothing, Over}]

\* front() and pop_front() of an empty deque are undefined (job.h:52-53): whoever
\* is about to take a job holds the mutex and finds one, or the end.
Holding(t) == pc[t] \in {"pushed", "leave", "test", "block", "take"}
FindsAJob == /\ \A t \in Thread : Holding(t) => m = t
             /\ \A c \in Consumer : pc[c] = "take" => coda # <<>> \/ completed

\* No wake-up of a put is lost (job.h:38-39, :47): while a job is queued, a thread
\* that sleeps for one is about to be told.
NoneSleepsOnWork ==
  \A c \in Consumer : pc[c] \in {"block", "waiting"} /\ coda # <<>> =>
    \E p \in Producer : pc[p] = "pushed"

\* The queue implements JobFifo (job.h:34-56): no job is lost, doubled or
\* overtaken, and only an empty queue ends.
Fifo == INSTANCE JobFifo WITH jobs <- coda, given <- data, closed <- completed
FifoRefined == Fifo!FifoSpec

\* Every job that was put is taken in the end (job.h:38-39, :47), whoever waits for
\* the mutex and whenever complete is called, unless no consumer is left.
EveryJobTaken == Fifo!FifoLive

=============================================================================
