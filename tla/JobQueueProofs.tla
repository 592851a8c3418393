--------------------------- MODULE JobQueueProofs ---------------------------
(***************************************************************************)
(* JobQueue implements JobFifo, and no consumer sleeps on a job, for every *)
(* number of threads and of jobs.  Before a put's notify_all, and between  *)
(* the test of get's predicate and the wait, the mutex is held: the two    *)
(* cannot meet.                                                            *)
(***************************************************************************)
EXTENDS JobQueue, TLAPS

\* A consumer that was told of the end does not come back.
StaysOver == \A c \in Consumer : data[c] = Over => pc[c] = "over"

\* The inductive invariant.
QueueInv == TypeOK /\ FindsAJob /\ NoneSleepsOnWork /\ StaysOver

\* A condition variable wakes those who wait and nobody else.
LEMMA WokenWho ==
  ASSUME TypeOK, NEW t \in Thread \cup Closer
  PROVE  /\ Woken(pc) \in [Thread \cup Closer -> {"out", "enter", "pushed", "leave", "test",
                             "block", "take", "waiting", "woken", "stored", "over"}]
         /\ Woken(pc)[t] = IF pc[t] = "waiting" THEN "woken" ELSE pc[t]
  BY DEF TypeOK, Woken

LEMMA InitInv == Init => QueueInv
<1> SUFFICES ASSUME Init PROVE QueueInv
  OBVIOUS
<1> USE QueueAssumption DEF Init
<1>1. TypeOK
  <2>1. coda \in Seq(Job)
    OBVIOUS
  <2>2. pc \in [Thread \cup Closer -> {"out"}] /\ data \in [Consumer -> {Nothing}]
    OBVIOUS
  <2> QED BY <2>1, <2>2 DEF TypeOK
<1>2. FindsAJob /\ NoneSleepsOnWork
  BY DEF FindsAJob, Holding, NoneSleepsOnWork, Thread
<1>3. StaysOver
  BY DEF StaysOver
<1> QED BY <1>1, <1>2, <1>3 DEF QueueInv

\* Every operation keeps the invariant, one conjunct at a time.
LEMMA NextInv == QueueInv /\ [Next]_vars => QueueInv'
<1> SUFFICES ASSUME QueueInv, [Next]_vars PROVE QueueInv'
  OBVIOUS
<1> USE QueueAssumption DEF QueueInv
<1>1. ASSUME NEW p \in Producer, Enter(p) PROVE QueueInv'
  BY <1>1 DEF Enter, Goto, TypeOK, FindsAJob, Holding, NoneSleepsOnWork, StaysOver, Thread
<1>2. ASSUME NEW p \in Producer, Push(p) PROVE QueueInv'
  <2>1. TypeOK'
    BY <1>2 DEF Push, Goto, TypeOK, Thread
  <2>2. FindsAJob'
    BY <1>2 DEF Push, Goto, TypeOK, FindsAJob, Holding, Thread
  <2>3. NoneSleepsOnWork'
    BY <1>2 DEF Push, Goto, TypeOK, NoneSleepsOnWork, Thread
  <2>4. StaysOver'
    BY <1>2 DEF Push, Goto, TypeOK, StaysOver, Thread
  <2> QED BY <2>1, <2>2, <2>3, <2>4
<1>3. ASSUME NEW p \in Producer, NotifyPut(p) PROVE QueueInv'
  <2>1. TypeOK'
    BY <1>3, WokenWho DEF NotifyPut, TypeOK, Thread
  <2>2. \A t \in Thread \cup Closer :
          pc'[t] = IF t = p THEN "leave" ELSE IF pc[t] = "waiting" THEN "woken" ELSE pc[t]
    BY <1>3, WokenWho DEF NotifyPut, Thread
  <2>3. FindsAJob'
    BY <1>3, <2>2 DEF NotifyPut, FindsAJob, Holding, Thread
  <2>4. NoneSleepsOnWork'
    \* a consumer about to block would hold the mutex that p holds
    BY <1>3, <2>2 DEF NotifyPut, FindsAJob, Holding, NoneSleepsOnWork, Thread
  <2>5. StaysOver'
    BY <1>3, <2>2 DEF NotifyPut, StaysOver, Thread
  <2> QED BY <2>1, <2>3, <2>4, <2>5
<1>4. ASSUME NEW p \in Producer, Leave(p) PROVE QueueInv'
  BY <1>4 DEF Leave, Goto, TypeOK, FindsAJob, Holding, NoneSleepsOnWork, StaysOver, Thread
<1>5. ASSUME NEW c \in Consumer, Lock(c) PROVE QueueInv'
  BY <1>5 DEF Lock, Goto, TypeOK, FindsAJob, Holding, NoneSleepsOnWork, StaysOver, Thread
<1>6. ASSUME NEW c \in Consumer, Test(c) PROVE QueueInv'
  BY <1>6 DEF Test, Goto, TypeOK, FindsAJob, Holding, NoneSleepsOnWork, StaysOver, Thread
<1>7. ASSUME NEW c \in Consumer, Block(c) PROVE QueueInv'
  BY <1>7 DEF Block, Goto, TypeOK, FindsAJob, Holding, NoneSleepsOnWork, StaysOver, Thread
<1>8. ASSUME NEW c \in Consumer, Wake(c) PROVE QueueInv'
  BY <1>8 DEF Wake, Goto, TypeOK, FindsAJob, Holding, NoneSleepsOnWork, StaysOver, Thread
<1>9. ASSUME NEW c \in Consumer, Finish(c) PROVE QueueInv'
  BY <1>9 DEF Finish, Goto, TypeOK, FindsAJob, Holding, NoneSleepsOnWork, StaysOver, Thread
<1>10. ASSUME NEW c \in Consumer, Pop(c) PROVE QueueInv'
  <2>1. Head(coda) \in Job /\ Tail(coda) \in Seq(Job)
    BY <1>10 DEF Pop, TypeOK
  <2>2. TypeOK'
    BY <1>10, <2>1 DEF Pop, Goto, TypeOK, Thread
  <2>3. FindsAJob'
    BY <1>10 DEF Pop, Goto, TypeOK, FindsAJob, Holding, Thread
  <2>4. NoneSleepsOnWork'
    \* no put is between its push and its notify: c has the mutex
    BY <1>10 DEF Pop, Goto, TypeOK, FindsAJob, Holding, NoneSleepsOnWork, Thread
  <2>5. StaysOver'
    BY <1>10, <2>1 DEF Pop, Goto, TypeOK, StaysOver, Thread
  <2> QED BY <2>2, <2>3, <2>4, <2>5
<1>11. ASSUME NEW x \in Closer, Complete(x) PROVE QueueInv'
  BY <1>11 DEF Complete, Goto, TypeOK, FindsAJob, Holding, NoneSleepsOnWork, StaysOver, Thread
<1>12. ASSUME NEW x \in Closer, NotifyEnd(x) PROVE QueueInv'
  <2>1. TypeOK'
    BY <1>12, WokenWho DEF NotifyEnd, TypeOK, Thread
  <2>2. \A t \in Thread \cup Closer :
          pc'[t] = IF t = x THEN "over" ELSE IF pc[t] = "waiting" THEN "woken" ELSE pc[t]
    BY <1>12, WokenWho DEF NotifyEnd, Thread
  <2>3. FindsAJob' /\ NoneSleepsOnWork' /\ StaysOver'
    BY <1>12, <2>2 DEF NotifyEnd, FindsAJob, Holding, NoneSleepsOnWork, StaysOver, Thread
  <2> QED BY <2>1, <2>3
<1>13. CASE UNCHANGED vars
  BY <1>13 DEF vars, TypeOK, FindsAJob, Holding, NoneSleepsOnWork, StaysOver
<1> QED
  BY <1>1, <1>2, <1>3, <1>4, <1>5, <1>6, <1>7, <1>8, <1>9, <1>10, <1>11, <1>12, <1>13
     DEF Next, Putting, Getting

\* The mutex excludes, and no wake-up of a put is lost (job.h:34-56), whoever calls
\* put, get and complete in whatever order.
THEOREM QueueInvariance == Spec => [](FindsAJob /\ NoneSleepsOnWork)
<1>1. Spec => []QueueInv
  BY InitInv, NextInv, PTL DEF Spec
<1>2. QueueInv => FindsAJob /\ NoneSleepsOnWork
  BY DEF QueueInv
<1> QED BY <1>1, <1>2, PTL

\* The types of the queue's variables, whoever is woken when.
THEOREM QueueTypeCorrect == Spec => []TypeOK
<1>1. Spec => []QueueInv
  BY InitInv, NextInv, PTL DEF Spec
<1>2. QueueInv => TypeOK
  BY DEF QueueInv
<1> QED BY <1>1, <1>2, PTL

\* Whoever is about to take a job holds the mutex and finds one, or the end
\* (job.h:44-56): front and pop_front are never called of an empty deque.
THEOREM TakerFinds == Spec => []FindsAJob
<1>1. FindsAJob /\ NoneSleepsOnWork => FindsAJob
  OBVIOUS
<1> QED BY <1>1, QueueInvariance, PTL

\* A step of the queue is one of the sequence's, or none of its business.
LEMMA StepRefines == QueueInv /\ [Next]_vars => [Fifo!FifoNext]_(Fifo!fifoVars)
<1> SUFFICES ASSUME QueueInv, [Next]_vars PROVE [Fifo!FifoNext]_(Fifo!fifoVars)
  OBVIOUS
<1> USE DEF Fifo!fifoVars
<1>1. ASSUME NEW p \in Producer, Push(p) PROVE Fifo!FifoNext
  <2>1. PICK j \in Job : coda' = Append(coda, j)
    BY <1>1 DEF Push
  <2>2. Fifo!Add(j)
    BY <1>1, <2>1 DEF Push, Fifo!Add
  <2> QED BY <2>2 DEF Fifo!FifoNext
<1>2. ASSUME NEW c \in Consumer, Finish(c) PROVE Fifo!FifoNext
  <2>1. Fifo!Dismiss(c)
    BY <1>2 DEF Finish, Fifo!Dismiss
  <2> QED BY <2>1 DEF Fifo!FifoNext
<1>3. ASSUME NEW c \in Consumer, Pop(c) PROVE Fifo!FifoNext
  <2>1. data[c] # Over
    BY <1>3 DEF Pop, QueueInv, StaysOver
  <2>2. Fifo!Give(c)
    BY <1>3, <2>1 DEF Pop, Fifo!Give
  <2> QED BY <2>2 DEF Fifo!FifoNext
<1>4. ASSUME NEW x \in Closer, Complete(x) PROVE Fifo!FifoNext
  <2>1. Fifo!Close
    BY <1>4 DEF Complete, Fifo!Close
  <2> QED BY <2>1 DEF Fifo!FifoNext
<1>5. ASSUME NEW p \in Producer, Enter(p) \/ NotifyPut(p) \/ Leave(p)
      PROVE UNCHANGED <<coda, data, completed>>
  BY <1>5 DEF Enter, NotifyPut, Leave
<1>6. ASSUME NEW c \in Consumer, Lock(c) \/ Test(c) \/ Block(c) \/ Wake(c)
      PROVE UNCHANGED <<coda, data, completed>>
  BY <1>6 DEF Lock, Test, Block, Wake
<1>7. ASSUME NEW x \in Closer, NotifyEnd(x) PROVE UNCHANGED <<coda, data, completed>>
  BY <1>7 DEF NotifyEnd
<1>8. CASE UNCHANGED vars
  BY <1>8 DEF vars
<1> QED
  BY <1>1, <1>2, <1>3, <1>4, <1>5, <1>6, <1>7, <1>8 DEF Next, Putting, Getting

\* The queue is a FIFO sequence to its users (job.h:34-56): every job is given once,
\* in the order of the puts, and a consumer is dismissed only when all are.
THEOREM QueueIsFifo == Spec => FifoRefined
<1>1. Init => Fifo!FifoInit
  BY DEF Init, Fifo!FifoInit
<1>2. Spec => []QueueInv
  BY InitInv, NextInv, PTL DEF Spec
<1> QED
  BY <1>1, <1>2, StepRefines, PTL DEF Spec, FifoRefined, Fifo!FifoSpec

=============================================================================
