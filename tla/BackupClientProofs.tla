-------------------------- MODULE BackupClientProofs --------------------------
(***************************************************************************)
(* OneJob holds for every number of paths, contents, edits and faults.     *)
(* ClientInv is inductive: what the throttle relies on (Fits) is kept by   *)
(* each request that goes in the queue, is taken or is over.               *)
(* StaysErased and RestIsBackedUp hold of a patient user until the first   *)
(* fault: ErasedInv follows one erased file (Forgotten) through every      *)
(* step, and RestInv every file (Through), from one change to the next.    *)
(***************************************************************************)
EXTENDS BackupClientInv, TLAPS

-----------------------------------------------------------------------------
(* The throttle *)

\* What is asked of the pending keys p, the stuck ones s and the queue q while i is in hand
\* and the loop of main stands at m.
Fits(p, q, i, m, s) ==
  LET inhand(k) == i.pc # "idle" /\ OpKey(i.req) = k
      queued(k) == \E n \in 1..Len(q) : OpKey(q[n]) = k
  IN /\ p \subseteq Spelling \X (Path \cup {None})
     /\ q \in Seq(Request) /\ \A n \in 1..Len(q) : Sensible(q[n])
     /\ \A n, l \in 1..Len(q) : OpKey(q[n]) = OpKey(q[l]) => n = l
     /\ \A n \in 1..Len(q) : ~inhand(OpKey(q[n]))
     /\ \A k \in FileKey : k \in p <=> queued(k) \/ inhand(k) \/ k \in s
     /\ s \subseteq FileKey /\ \A k \in s : ~queued(k) /\ ~inhand(k)
     /\ queued(SnapshotKey) \/ inhand(SnapshotKey) => m = "set" \/ SnapshotKey \in p

\* None is no path, no content, no node and no file.
LEMMA NoneIsNone == /\ None \notin Path /\ None \notin Content /\ Empty \in Content
                    /\ None \notin Node /\ None \notin Dated
                    /\ None \notin [data : Content, time : 0..MaxTime]
BY ClientAssumption DEF ClientAssumption

LEMMA FitsNow ==
  ASSUME ClientInv
  PROVE  Fits(pending, queue, io, main, stuck)
BY DEF ClientInv, TypeOK, Requests, Throttled, Queued, InHand, Fits, FileKey

LEMMA FitsThen ==
  ASSUME Fits(pending', queue', io', main', stuck'), Sensible(io'.req)
  PROVE  /\ pending' \subseteq Spelling \X (Path \cup {None}) /\ queue' \in Seq(Request)
         /\ Requests' /\ Throttled' /\ stuck' \subseteq Spelling \X Path
BY DEF Requests, Throttled, Queued, InHand, Fits, Sensible, FileKey

\* The keys of requests.
LEMMA Keys ==
  ASSUME NEW r \in Request, Sensible(r)
  PROVE  /\ r.method # "SNAPSHOT" => OpKey(r) \in FileKey /\ r.file \in Path /\ r.hash \in Content
         /\ r.method = "SNAPSHOT" => OpKey(r) = SnapshotKey /\ r = SnapshotReq
         /\ SnapshotKey \notin FileKey
         /\ OpKey(r) \in Spelling \X (Path \cup {None})
<1>1. SnapshotKey \notin FileKey /\ SnapshotReq.method = "SNAPSHOT"
  BY NoneIsNone DEF SnapshotKey, FileKey, OpKey, SnapshotReq
<1>2. OpKey(r) \in Spelling \X (Path \cup {None})
  BY DEF Request, OpKey
<1>. QED BY <1>1, <1>2 DEF Sensible, Request, FileKey, OpKey, SnapshotKey

\* A request whose key is free goes in the queue.
LEMMA FitsAppend ==
  ASSUME NEW p, NEW q, NEW i, NEW m, NEW s, Fits(p, q, i, m, s),
         NEW r \in Request, Sensible(r), r.method # "SNAPSHOT", OpKey(r) \notin p
  PROVE  Fits(p \cup {OpKey(r)}, Append(q, r), i, m, s)
<1> DEFINE x == Append(q, r)
           k == OpKey(r)
<1>1. k \in FileKey /\ SnapshotKey \notin FileKey /\ k \in Spelling \X (Path \cup {None})
  BY Keys
<1>2. /\ q \in Seq(Request) /\ x \in Seq(Request) /\ Len(x) = Len(q) + 1 /\ Len(q) \in Nat
      /\ x[Len(q) + 1] = r /\ \A n \in 1..Len(q) : x[n] = q[n]
  BY DEF Fits
<1>3. /\ \A n \in 1..Len(q) : OpKey(q[n]) # k
      /\ ~(i.pc # "idle" /\ OpKey(i.req) = k)
  BY <1>1 DEF Fits
<1>. HIDE DEF x, k
<1>4. \A n \in 1..Len(x) : Sensible(x[n])
  BY <1>2 DEF Fits
<1>5. \A n, l \in 1..Len(x) : OpKey(x[n]) = OpKey(x[l]) => n = l
  BY <1>2, <1>3 DEF Fits, k
<1>6. \A n \in 1..Len(x) : ~(i.pc # "idle" /\ OpKey(i.req) = OpKey(x[n]))
  BY <1>2, <1>3 DEF Fits, k
<1>7. \A j : (\E n \in 1..Len(x) : OpKey(x[n]) = j) <=> j = k \/ \E n \in 1..Len(q) : OpKey(q[n]) = j
  BY <1>2 DEF k
<1>8. k \notin p
  BY DEF k
<1>9. /\ s \subseteq FileKey
      /\ \A j \in s : /\ j \in p /\ ~(\E n \in 1..Len(x) : OpKey(x[n]) = j)
                    /\ ~(i.pc # "idle" /\ OpKey(i.req) = j)
  BY <1>7, <1>8 DEF Fits
<1> DEFINE Old(j) == \E n \in 1..Len(q) : OpKey(q[n]) = j
           New(j) == \E n \in 1..Len(x) : OpKey(x[n]) = j
           In(j) == i.pc # "idle" /\ OpKey(i.req) = j
<1>10. /\ \A j : New(j) <=> j = k \/ Old(j)
       /\ \A j \in s : ~New(j) /\ ~In(j)
  BY <1>7, <1>9
<1>11. /\ \A j \in FileKey : j \in p <=> Old(j) \/ In(j) \/ j \in s
       /\ Old(SnapshotKey) \/ In(SnapshotKey) => m = "set" \/ SnapshotKey \in p
       /\ p \subseteq Spelling \X (Path \cup {None})
  BY Zenon DEF Fits
<1>. HIDE DEF Old, New, In
<1>12. /\ \A j \in FileKey : j \in p \cup {k} <=> New(j) \/ In(j) \/ j \in s
       /\ New(SnapshotKey) \/ In(SnapshotKey) => m = "set" \/ SnapshotKey \in p \cup {k}
       /\ p \cup {k} \subseteq Spelling \X (Path \cup {None})
  BY <1>1, <1>10, <1>11
<1>13. Fits(p \cup {k}, x, i, m, s)
  BY <1>2, <1>4, <1>5, <1>6, <1>9, <1>10, <1>12, Zenon DEF Fits, New, In
<1>. QED BY <1>13 DEF x, k

\* A request of the watcher, and two of them.
LEMMA SubmitFits ==
  ASSUME ClientInv, NEW r \in Request, Sensible(r), r.method # "SNAPSHOT", Submit(r)
  PROVE  Fits(pending', queue', io, main, stuck)
<1>1. CASE OpKey(r) \in pending
  BY <1>1, FitsNow DEF Submit
<1>2. CASE OpKey(r) \notin pending
  <2>1. Fits(pending \cup {OpKey(r)}, Append(queue, r), io, main, stuck)
    BY <1>2, FitsNow, FitsAppend
  <2>. QED BY <1>2, <2>1 DEF Submit
<1>. QED BY <1>1, <1>2

LEMMA SubmitBothFits ==
  ASSUME ClientInv, NEW r1 \in Request, Sensible(r1), r1.method # "SNAPSHOT",
         NEW r2 \in Request, Sensible(r2), r2.method # "SNAPSHOT", SubmitBoth(r1, r2)
  PROVE  Fits(pending', queue', io, main, stuck)
<1> DEFINE p == pending \cup {OpKey(r1)}
           q == queue \o (IF OpKey(r1) \in pending THEN <<>> ELSE <<r1>>)
<1>1. queue \in Seq(Request)
  BY DEF ClientInv, TypeOK
<1>2. q = IF OpKey(r1) \in pending THEN queue ELSE Append(queue, r1)
  BY <1>1
<1>3. Fits(p, q, io, main, stuck)
  <2>1. CASE OpKey(r1) \in pending
    <3>1. p = pending
      BY <2>1
    <3>. QED BY <1>2, <2>1, <3>1, FitsNow
  <2>2. CASE OpKey(r1) \notin pending
    <3>1. Fits(pending \cup {OpKey(r1)}, Append(queue, r1), io, main, stuck)
      BY <2>2, FitsNow, FitsAppend
    <3>. QED BY <1>2, <2>2, <3>1
  <2>. QED BY <2>1, <2>2
<1>4. /\ pending' = p \cup {OpKey(r2)}
      /\ queue' = q \o (IF OpKey(r2) \in p THEN <<>> ELSE <<r2>>)
  BY DEF SubmitBoth
<1>5. q \in Seq(Request)
  BY <1>3 DEF Fits
<1>. HIDE DEF p, q
<1>6. queue' = IF OpKey(r2) \in p THEN q ELSE Append(q, r2)
  BY <1>4, <1>5
<1>7. CASE OpKey(r2) \in p
  <2>1. pending' = p
    BY <1>4, <1>7
  <2>. QED BY <1>3, <1>6, <1>7, <2>1
<1>8. CASE OpKey(r2) \notin p
  <2>1. Fits(p \cup {OpKey(r2)}, Append(q, r2), io, main, stuck)
    BY <1>3, <1>8, FitsAppend
  <2>. QED BY <1>4, <1>6, <1>8, <2>1
<1>. QED BY <1>7, <1>8

\* A request is taken from the queue.
LEMMA TakeFits ==
  ASSUME NEW p, NEW q, NEW i, NEW m, NEW s, Fits(p, q, i, m, s), i.pc = "idle", q # <<>>,
         NEW j, j.pc # "idle", j.req = Head(q)
  PROVE  Fits(p, Tail(q), j, m, s) /\ Sensible(Head(q)) /\ Head(q) \in Request
<1> DEFINE x == Tail(q)
<1>1. /\ q \in Seq(Request) /\ x \in Seq(Request) /\ Len(x) = Len(q) - 1 /\ Len(q) \in Nat \ {0}
      /\ Head(q) = q[1] /\ Head(q) \in Request /\ \A n \in 1..Len(x) : x[n] = q[n + 1]
  BY DEF Fits
<1>. HIDE DEF x
<1>2. \A n \in 1..Len(x) : Sensible(x[n])
  BY <1>1 DEF Fits
<1>3. \A n, l \in 1..Len(x) : OpKey(x[n]) = OpKey(x[l]) => n = l
  <2>. SUFFICES ASSUME NEW n \in 1..Len(x), NEW l \in 1..Len(x), OpKey(x[n]) = OpKey(x[l])
                PROVE  n = l
    OBVIOUS
  <2>1. n + 1 \in 1..Len(q) /\ l + 1 \in 1..Len(q) /\ OpKey(q[n + 1]) = OpKey(q[l + 1])
    BY <1>1
  <2>2. n + 1 = l + 1
    BY <2>1 DEF Fits
  <2>. QED BY <2>2
<1>4. \A n \in 1..Len(x) : OpKey(x[n]) # OpKey(q[1])
  <2>. SUFFICES ASSUME NEW n \in 1..Len(x), OpKey(x[n]) = OpKey(q[1]) PROVE FALSE
    OBVIOUS
  <2>1. n + 1 \in 1..Len(q) /\ 1 \in 1..Len(q) /\ OpKey(q[n + 1]) = OpKey(q[1])
    BY <1>1
  <2>2. n + 1 = 1
    BY <2>1 DEF Fits
  <2>. QED BY <2>2
<1>5. \A k : (\E n \in 1..Len(q) : OpKey(q[n]) = k)
               <=> OpKey(q[1]) = k \/ \E n \in 1..Len(x) : OpKey(x[n]) = k
  <2>. SUFFICES ASSUME NEW k
                PROVE  (\E n \in 1..Len(q) : OpKey(q[n]) = k)
                         <=> OpKey(q[1]) = k \/ \E n \in 1..Len(x) : OpKey(x[n]) = k
    OBVIOUS
  <2>1. ASSUME NEW n \in 1..Len(q), OpKey(q[n]) = k, OpKey(q[1]) # k
        PROVE  \E l \in 1..Len(x) : OpKey(x[l]) = k
    <3>1. n - 1 \in 1..Len(x) /\ x[n - 1] = q[n]
      BY <1>1, <2>1
    <3>. QED BY <2>1, <3>1
  <2>2. ASSUME NEW n \in 1..Len(x), OpKey(x[n]) = k PROVE \E l \in 1..Len(q) : OpKey(q[l]) = k
    <3>1. n + 1 \in 1..Len(q) /\ x[n] = q[n + 1]
      BY <1>1
    <3>. QED BY <2>2, <3>1
  <2>3. 1 \in 1..Len(q)
    BY <1>1
  <2>. QED BY <2>1, <2>2, <2>3
<1>6. Fits(p, x, j, m, s)
  BY <1>1, <1>2, <1>3, <1>4, <1>5 DEF Fits
<1>7. 1 \in 1..Len(q)
  BY <1>1
<1>. QED BY <1>1, <1>6, <1>7 DEF Fits, x

\* A request is over.
LEMMA OverFits ==
  ASSUME ClientInv, io.pc # "idle", Over
  PROVE  Fits(pending', queue', io', main, stuck')
<1>1. /\ Fits(pending, queue, io, main, stuck) /\ io'.pc = "idle" /\ UNCHANGED <<queue, stuck>>
      /\ pending' = pending \ {OpKey(io.req)}
      /\ io.req \in Request /\ Sensible(io.req)
  BY FitsNow DEF Over, Idle, ClientInv, TypeOK, Requests
<1>2. OpKey(io.req) # SnapshotKey => OpKey(io.req) \in FileKey
  BY <1>1, Keys
<1>3. \A n \in 1..Len(queue) : OpKey(queue[n]) # OpKey(io.req)
  BY <1>1 DEF Fits
<1>. QED BY <1>1, <1>2, <1>3 DEF Fits

\* A request is over, and its key stays.
LEMMA StuckFits ==
  ASSUME ClientInv, io.pc # "idle", io.req.method # "SNAPSHOT", io' = Idle,
         stuck' = stuck \cup {OpKey(io.req)}, UNCHANGED <<pending, queue>>
  PROVE  Fits(pending', queue', io', main, stuck')
<1>1. /\ Fits(pending, queue, io, main, stuck) /\ io'.pc = "idle" /\ UNCHANGED <<pending, queue>>
      /\ io.req \in Request /\ Sensible(io.req)
  BY FitsNow DEF Idle, ClientInv, TypeOK, Requests
<1>2. OpKey(io.req) \in FileKey /\ SnapshotKey \notin FileKey
  BY <1>1, Keys
<1>3. \A n \in 1..Len(queue) : OpKey(queue[n]) # OpKey(io.req)
  BY <1>1 DEF Fits
<1>. QED BY <1>1, <1>2, <1>3 DEF Fits

-----------------------------------------------------------------------------
(* The user, the connection and the process *)

\* A client that does nothing has nothing queued.
LEMMA RestFacts ==
  /\ SnapshotReq \in Request /\ Sensible(SnapshotReq)
  /\ Idle \in [pc : IoPC, req : Request,
               ans : {"none", "OK", "ERROR", "ALREADY_EXISTS", "MISMATCH", "NOT_FOUND"}]
  /\ Idle.pc = "idle" /\ Idle.req = SnapshotReq
  /\ Asleep \in [pc : ScanPC, todo : SUBSET Path, copy : [Path -> {None} \cup Node],
                 deleted : SUBSET Path, file : Path \cup {None}, time : 0..MaxTime,
                 wasPending : BOOLEAN]
  /\ Asleep.pc = "sleep"
<1>1. SnapshotReq \in Request
  BY DEF SnapshotReq, Request, Spelling
<1>2. Asleep \in [pc : ScanPC, todo : SUBSET Path, copy : [Path -> {None} \cup Node],
                  deleted : SUBSET Path, file : Path \cup {None}, time : 0..MaxTime,
                  wasPending : BOOLEAN]
  BY ClientAssumption DEF Asleep, ScanPC, ClientAssumption
<1>3. Idle \in [pc : IoPC, req : Request,
                ans : {"none", "OK", "ERROR", "ALREADY_EXISTS", "MISMATCH", "NOT_FOUND"}]
  BY <1>1 DEF Idle, IoPC
<1>. QED BY <1>1, <1>2, <1>3 DEF Asleep, Idle, Sensible

\* What the scan relies on, and what is in hand.
LEMMA Undone ==
  ASSUME ClientInv, index' \in [Path -> {None} \cup Dated],
         scan' = Asleep, io' = Idle, main' = "check",
         known' = [f \in Path |-> None], pending' = {}, queue' = <<>>, stuck' = {},
         connected' \in BOOLEAN, link' \in BOOLEAN, jammed' = FALSE, astray' = FALSE,
         alive' \in BOOLEAN, behind' \subseteq Path, faults' \in 0..MaxFaults,
         UNCHANGED <<user, clock, file, entry>>
  PROVE  ClientInv'
<1>1. Fits(pending', queue', io', main', stuck')
  BY RestFacts DEF Fits
<1>2. Requests' /\ Throttled'
  BY <1>1, FitsThen, RestFacts
<1>3. TypeOK'
  <2>1. known' \in [Path -> {None} \cup Node] /\ queue' \in Seq(Request) /\ main' \in {"check", "set", "sleep"}
    OBVIOUS
  <2>2. UNCHANGED <<disk, gone, edits, clock, file, entry>>
    BY DEF user
  <2>. QED BY <2>1, <2>2, RestFacts DEF ClientInv, TypeOK
<1>4. Scanned' /\ Carried'
  BY RestFacts DEF Scanned, Carried
<1>. QED BY <1>2, <1>3, <1>4 DEF ClientInv

\* The sessions left behind are at work at paths, and the faults are counted.
LEMMA LeftFacts ==
  ASSUME ClientInv
  PROVE  Left \subseteq Path
<1>1. io.req.file \in Path \cup {None} /\ behind \subseteq Path
  BY DEF ClientInv, TypeOK, Request
<1>. QED BY <1>1 DEF Left

LEMMA FaultFacts ==
  ASSUME ClientInv, Fault
  PROVE  faults' \in 0..MaxFaults
BY ClientAssumption DEF ClientAssumption, ClientInv, TypeOK, Fault

LEMMA ProcessStep ==
  ASSUME ClientInv, Start \/ (Stopped /\ (Fault \/ UNCHANGED faults))
  PROVE  ClientInv'
<1>1. disk \in [Path -> {None} \cup [data : Content, time : 0..MaxTime]]
  BY DEF ClientInv, TypeOK
<1>2. Indexed \in [Path -> {None} \cup Dated]
  BY <1>1 DEF Indexed, Dated, Spelling
<1>3. faults \in 0..MaxFaults /\ behind \subseteq Path
  BY DEF ClientInv, TypeOK
<1>4. CASE Start
  BY <1>2, <1>3, <1>4, Undone DEF Start
<1>5. CASE Stopped /\ (Fault \/ UNCHANGED faults)
  <2>1. faults' \in 0..MaxFaults /\ behind' \subseteq Path
    BY <1>3, <1>5, FaultFacts, LeftFacts DEF Stopped
  <2>2. index' \in [Path -> {None} \cup Dated]
    BY <1>5 DEF Stopped
  <2>. QED BY <1>5, <2>1, <2>2, Undone DEF Stopped
<1>. QED BY <1>4, <1>5

\* Steps that neither the threads nor the server see.
LEMMA UserStep ==
  ASSUME ClientInv, (\E f \in Path : Erase(f) \/ \E c \in Content : Write(f, c)) \/ Tick \/ Drop
  PROVE  ClientInv'
<1>1. /\ MaxTime \in Nat /\ MaxEdits \in Nat /\ MaxFaults \in Nat
      /\ UNCHANGED <<index, scan, known, pending, queue, stuck, main, io, connected, jammed, astray, alive,
                     file, entry, behind>>
  BY ClientAssumption DEF ClientAssumption, Erase, Write, MayEdit, Tick, Drop, watcher, shared,
                          worker, server, user
<1>2. TypeOK'
  <2>1. CASE \E f \in Path : Erase(f) \/ \E c \in Content : Write(f, c)
    <3>1. edits' \in 0..MaxEdits /\ UNCHANGED <<clock, faults, link>>
      BY <1>1, <2>1 DEF Erase, Write, MayEdit, ClientInv, TypeOK, server
    <3>2. gone' \subseteq Path
      BY <2>1 DEF Erase, Write, ClientInv, TypeOK
    <3>3. disk' \in [Path -> {None} \cup [data : Content, time : 0..MaxTime]]
      <4>1. /\ disk \in [Path -> {None} \cup [data : Content, time : 0..MaxTime]]
            /\ \A c \in Content : [data |-> c, time |-> clock] \in [data : Content, time : 0..MaxTime]
        BY DEF ClientInv, TypeOK
      <4>2. CASE \E f \in Path : Erase(f)
        BY <4>1, <4>2 DEF Erase
      <4>3. CASE \E f \in Path, c \in Content : Write(f, c)
        <5>1. PICK f \in Path, c \in Content : disk' = [disk EXCEPT ![f] = [data |-> c, time |-> clock]]
          BY <4>3 DEF Write
        <5>. QED BY <4>1, <5>1
      <4>. QED BY <2>1, <4>2, <4>3
    <3>. QED BY <1>1, <3>1, <3>2, <3>3 DEF ClientInv, TypeOK
  <2>2. CASE Tick
    BY <1>1, <2>2 DEF Tick, user, server, ClientInv, TypeOK
  <2>3. CASE Drop
    <3>1. UNCHANGED <<disk, gone, edits, clock>> /\ link' = FALSE
      BY <2>3 DEF Drop, user
    <3>2. faults' \in 0..MaxFaults
      BY <2>3, FaultFacts DEF Drop
    <3>. QED BY <1>1, <3>1, <3>2 DEF ClientInv, TypeOK
  <2>. QED BY <2>1, <2>2, <2>3
<1>3. Requests' /\ Throttled'
  BY <1>1 DEF ClientInv, Requests, Throttled, Queued, InHand
<1>4. Scanned' /\ Carried'
  BY <1>1 DEF ClientInv, Scanned, Carried, Overlapped
<1>. QED BY <1>2, <1>3, <1>4 DEF ClientInv

LEMMA EndedStep ==
  ASSUME ClientInv, NEW f \in Path, Ended(f)
  PROVE  ClientInv'
<1>1. /\ UNCHANGED <<disk, gone, edits, clock, faults, link, alive, index, scan, known, pending, queue,
                      stuck, main, io, connected, jammed, astray>>
      /\ behind' \subseteq Path /\ io.pc \in {"idle", "start"}
      /\ \E c, d \in {None} \cup Content : /\ file' = [file EXCEPT ![f] = c]
                                         /\ entry' = [entry EXCEPT ![f] = d]
  BY DEF Ended, user, watcher, shared, worker, ClientInv, TypeOK
<1>2. TypeOK'
  BY <1>1 DEF ClientInv, TypeOK
<1>3. Requests' /\ Throttled'
  BY <1>1 DEF ClientInv, Requests, Throttled, Queued, InHand
<1>4. Scanned' /\ Carried'
  BY <1>1 DEF ClientInv, Scanned, Carried
<1>. QED BY <1>2, <1>3, <1>4 DEF ClientInv

-----------------------------------------------------------------------------
(* The snapshot loop *)

\* The request for the list goes in the queue before its key is set.
LEMMA FitsSnapshot ==
  ASSUME NEW p, NEW q, NEW i, NEW s, Fits(p, q, i, "check", s), SnapshotKey \notin p
  PROVE  Fits(p, Append(q, SnapshotReq), i, "set", s)
<1> DEFINE x == Append(q, SnapshotReq)
<1>1. /\ SnapshotReq \in Request /\ Sensible(SnapshotReq) /\ SnapshotKey \notin FileKey
      /\ OpKey(SnapshotReq) = SnapshotKey
  BY RestFacts, Keys DEF SnapshotKey
<1>2. /\ q \in Seq(Request) /\ x \in Seq(Request) /\ Len(x) = Len(q) + 1 /\ Len(q) \in Nat
      /\ x[Len(q) + 1] = SnapshotReq /\ \A n \in 1..Len(q) : x[n] = q[n]
  BY <1>1 DEF Fits
<1>3. /\ \A n \in 1..Len(q) : OpKey(q[n]) # SnapshotKey
      /\ ~(i.pc # "idle" /\ OpKey(i.req) = SnapshotKey)
  BY DEF Fits
<1>. HIDE DEF x
<1>4. \A n \in 1..Len(x) : Sensible(x[n])
  BY <1>1, <1>2 DEF Fits
<1>5. \A n, l \in 1..Len(x) : OpKey(x[n]) = OpKey(x[l]) => n = l
  BY <1>1, <1>2, <1>3 DEF Fits
<1>6. \A n \in 1..Len(x) : ~(i.pc # "idle" /\ OpKey(i.req) = OpKey(x[n]))
  BY <1>1, <1>2, <1>3 DEF Fits
<1>7. \A j : (\E n \in 1..Len(x) : OpKey(x[n]) = j)
                <=> j = SnapshotKey \/ \E n \in 1..Len(q) : OpKey(q[n]) = j
  BY <1>1, <1>2
<1>8. Fits(p, x, i, "set", s)
  BY <1>1, <1>2, <1>4, <1>5, <1>6, <1>7 DEF Fits
<1>. QED BY <1>8 DEF x

LEMMA RefreshStep ==
  ASSUME ClientInv, Refresh
  PROVE  ClientInv'
<1>1. UNCHANGED <<disk, gone, edits, clock, faults, file, entry, link, behind, alive, index, scan, known,
                  stuck, io, connected, jammed, astray>>
  BY DEF Refresh, SnapshotPut, SnapshotSet, SnapshotWake, Looping, user, server, watcher, worker
<1>2. /\ Fits(pending, queue, io, main, stuck) /\ SnapshotReq \in Request /\ Sensible(SnapshotReq)
      /\ SnapshotKey \notin FileKey /\ SnapshotKey \in Spelling \X (Path \cup {None})
      /\ queue \in Seq(Request)
  BY FitsNow, RestFacts, Keys DEF SnapshotKey, Fits
<1>3. Fits(pending', queue', io', main', stuck') /\ main' \in {"check", "set", "sleep"}
  <2>1. CASE SnapshotPut
    <3>1. /\ queue' = Append(queue, SnapshotReq) /\ pending' = pending /\ main' = "set"
          /\ main = "check" /\ SnapshotKey \notin pending
      BY <2>1 DEF SnapshotPut, Looping, SnapshotKey
    <3>2. Fits(pending, Append(queue, SnapshotReq), io, "set", stuck)
      BY <1>2, <3>1, FitsSnapshot
    <3>. QED BY <1>1, <3>1, <3>2
  <2>2. CASE SnapshotSet
    <3>1. queue' = queue /\ pending' = pending \cup {SnapshotKey} /\ main' = "sleep"
      BY <2>2 DEF SnapshotSet, Looping, SnapshotKey
    <3>. QED BY <1>1, <1>2, <3>1 DEF Fits
  <2>3. CASE SnapshotWake
    <3>1. queue' = queue /\ pending' = pending /\ main' = "check" /\ main = "sleep"
      BY <2>3 DEF SnapshotWake, Looping
    <3>. QED BY <1>1, <1>2, <3>1 DEF Fits
  <2>. QED BY <2>1, <2>2, <2>3 DEF Refresh
<1>4. /\ pending' \subseteq Spelling \X (Path \cup {None}) /\ queue' \in Seq(Request)
      /\ Requests' /\ Throttled' /\ stuck' \subseteq Spelling \X Path
  BY <1>1, <1>3, FitsThen DEF ClientInv, Requests
<1>5. TypeOK'
  BY <1>1, <1>3, <1>4 DEF ClientInv, TypeOK
<1>6. Scanned' /\ Carried'
  BY <1>1 DEF ClientInv, Scanned, Carried, Overlapped
<1>. QED BY <1>4, <1>5, <1>6 DEF ClientInv

-----------------------------------------------------------------------------
(* The watcher *)

ScanRecord == [pc : ScanPC, todo : SUBSET Path, copy : [Path -> {None} \cup Node],
               deleted : SUBSET Path, file : Path \cup {None}, time : 0..MaxTime,
               wasPending : BOOLEAN]

\* What a step of the watcher has to keep.
LEMMA WatchKeeps ==
  ASSUME ClientInv, NEW l, Watching(l), Fits(pending', queue', io, main, stuck),
         index' \in [Path -> {None} \cup Dated], scan' \in ScanRecord, Scanned'
  PROVE  ClientInv'
<1>1. UNCHANGED <<disk, gone, edits, clock, faults, file, entry, link, behind, alive, known, stuck, main,
                  io, connected, jammed, astray>>
  BY DEF Watching, user, server, worker
<1>2. Fits(pending', queue', io', main', stuck') /\ Sensible(io'.req)
  BY <1>1 DEF ClientInv, Requests
<1>3. /\ pending' \subseteq Spelling \X (Path \cup {None}) /\ queue' \in Seq(Request)
      /\ Requests' /\ Throttled' /\ stuck' \subseteq Spelling \X Path
  BY <1>2, FitsThen
<1>4. TypeOK'
  BY <1>1, <1>3 DEF ClientInv, TypeOK, ScanRecord
<1>5. Carried'
  BY <1>1 DEF ClientInv, Carried, Overlapped
<1>. QED BY <1>3, <1>4, <1>5 DEF ClientInv

LEMMA WatchFacts ==
  ASSUME ClientInv
  PROVE  /\ scan \in ScanRecord /\ index \in [Path -> {None} \cup Dated]
         /\ disk \in [Path -> {None} \cup [data : Content, time : 0..MaxTime]]
         /\ known \in [Path -> {None} \cup Node] /\ Fits(pending, queue, io, main, stuck)
BY FitsNow DEF ClientInv, TypeOK, ScanRecord

\* The requests of the watcher.
LEMMA ReqFacts ==
  ASSUME NEW m \in {"PUT", "GET", "DELETE"}, NEW f \in Path, NEW n, n.key \in Spelling, n.hash \in Content
  PROVE  Req(m, f, n) \in Request /\ Sensible(Req(m, f, n)) /\ Req(m, f, n).method # "SNAPSHOT"
BY DEF Req, Request, Sensible

\* The scan goes on to its next part.
LEMMA NextPartStep ==
  ASSUME ClientInv, BeginScan \/ EndErased \/ EndFiles \/ EndScan
  PROVE  ClientInv'
<1>1. /\ scan \in ScanRecord /\ index \in [Path -> {None} \cup Dated] /\ known \in [Path -> {None} \cup Node]
      /\ Asleep \in ScanRecord /\ Asleep.pc = "sleep"
      /\ \E l : Watching(l)
      /\ UNCHANGED <<index, pending, queue>>
  BY WatchFacts, RestFacts DEF ScanRecord, BeginScan, EndErased, EndFiles, EndScan
<1>2. scan' \in ScanRecord /\ Scanned'
  <2>1. CASE BeginScan
    <3> DEFINE t == {f \in Path : index[f] # None}
    <3>1. scan' = [Asleep EXCEPT !.pc = "erased", !.copy = known, !.todo = t] /\ t \in SUBSET Path
      BY <2>1 DEF BeginScan
    <3>. HIDE DEF t
    <3>2. scan' \in ScanRecord /\ scan'.pc = "erased" /\ scan'.todo = t
      BY <1>1, <3>1 DEF ScanRecord, ScanPC
    <3>. QED BY <1>1, <3>2 DEF Scanned, t
  <2>2. CASE EndErased
    <3>1. scan' \in ScanRecord /\ scan'.pc = "files"
      BY <1>1, <2>2 DEF EndErased, ScanRecord, ScanPC
    <3>. QED BY <3>1 DEF Scanned
  <2>3. CASE EndFiles
    <3> DEFINE t == {f \in Path : scan.copy[f] # None}
    <3>1. scan' = [scan EXCEPT !.pc = "missing", !.todo = t] /\ t \in SUBSET Path
      BY <2>3 DEF EndFiles
    <3>. HIDE DEF t
    <3>2. scan' \in ScanRecord /\ scan'.pc = "missing" /\ scan'.todo = t /\ scan'.copy = scan.copy
      BY <1>1, <3>1 DEF ScanRecord, ScanPC
    <3>. QED BY <3>2 DEF Scanned, t
  <2>4. CASE EndScan
    BY <1>1, <2>4 DEF EndScan, Scanned
  <2>. QED BY <2>1, <2>2, <2>3, <2>4
<1>3. Fits(pending', queue', io, main, stuck)
  BY <1>1, WatchFacts
<1>. QED BY <1>1, <1>2, <1>3, WatchKeeps

LEMMA CheckErasedStep ==
  ASSUME ClientInv, NEW f \in Path, CheckErased(f)
  PROVE  ClientInv'
<1>1. /\ scan \in ScanRecord /\ index \in [Path -> {None} \cup Dated]
      /\ scan.pc = "erased" /\ f \in scan.todo /\ index[f] # None /\ Watching("erased")
      /\ \A g \in scan.todo : index[g] # None
  BY WatchFacts DEF CheckErased, Watching, ClientInv, Scanned
<1>2. CASE disk[f] = None
  <2>1. /\ Submit(Req("DELETE", f, index[f])) /\ index' = [index EXCEPT ![f] = None]
        /\ scan' = [scan EXCEPT !.todo = @ \ {f}, !.deleted = @ \cup {f}]
    BY <1>2 DEF CheckErased
  <2>2. index[f].key \in Spelling /\ index[f].hash \in Content
    BY <1>1 DEF Dated
  <2>3. Fits(pending', queue', io, main, stuck)
    BY <2>1, <2>2, ReqFacts, SubmitFits
  <2>4. scan' \in ScanRecord /\ scan'.pc = "erased" /\ scan'.todo = scan.todo \ {f}
    BY <1>1, <2>1 DEF ScanRecord
  <2>5. index' \in [Path -> {None} \cup Dated] /\ \A g \in Path \ {f} : index'[g] = index[g]
    BY <1>1, <2>1
  <2>6. Scanned'
    BY <1>1, <2>4, <2>5 DEF Scanned, ScanRecord
  <2>. QED BY <1>1, <2>3, <2>4, <2>5, <2>6, WatchKeeps
<1>3. CASE disk[f] # None
  <2>1. scan' = [scan EXCEPT !.todo = @ \ {f}] /\ UNCHANGED <<index, pending, queue>>
    BY <1>3 DEF CheckErased
  <2>2. scan' \in ScanRecord /\ scan'.pc = "erased" /\ scan'.todo = scan.todo \ {f}
    BY <1>1, <2>1 DEF ScanRecord
  <2>3. Scanned' /\ Fits(pending', queue', io, main, stuck)
    BY <1>1, <2>1, <2>2, WatchFacts DEF Scanned
  <2>. QED BY <1>1, <2>1, <2>2, <2>3, WatchKeeps
<1>. QED BY <1>2, <1>3

\* The scan takes a file up, and lays it down.
LEMMA ScanMoves ==
  ASSUME scan \in ScanRecord, NEW p \in ScanPC, NEW g \in Path \cup {None}, NEW t \in 0..MaxTime,
         NEW b \in BOOLEAN, NEW f
  PROVE  /\ [scan EXCEPT !.pc = p, !.todo = @ \ {f}, !.file = g, !.time = t, !.wasPending = b] \in ScanRecord
         /\ [scan EXCEPT !.pc = p, !.file = g, !.time = t, !.wasPending = b] \in ScanRecord
BY DEF ScanRecord

LEMMA ScanExamined ==
  ASSUME scan \in ScanRecord
  PROVE  Examined \in ScanRecord /\ Examined.pc = "files"
<1>1. /\ "files" \in ScanPC /\ None \in Path \cup {None} /\ 0 \in 0..MaxTime /\ FALSE \in BOOLEAN
      /\ scan \in ScanRecord
  BY ClientAssumption DEF ClientAssumption, ScanPC
<1>2. [scan EXCEPT !.pc = "files", !.file = None, !.time = 0, !.wasPending = FALSE] \in ScanRecord
  BY <1>1, ScanMoves
<1>3. Examined.pc = "files"
  BY DEF Examined, ScanRecord
<1>. QED BY <1>2, <1>3 DEF Examined

LEMMA VisitStep ==
  ASSUME ClientInv, NEW f \in Path, Visit(f)
  PROVE  ClientInv'
<1>1. /\ scan \in ScanRecord /\ index \in [Path -> {None} \cup Dated]
      /\ disk \in [Path -> {None} \cup [data : Content, time : 0..MaxTime]]
      /\ Watching("files") /\ UNCHANGED <<pending, queue>> /\ scan.pc = "files"
      /\ scan.copy[f] \in {None} \cup Node
  BY WatchFacts DEF Visit, Watching, ScanRecord
<1>2. Fits(pending', queue', io, main, stuck)
  BY <1>1, WatchFacts
<1>3. scan' \in ScanRecord /\ Scanned'
  <2>1. CASE disk[f] = None
    <3>1. scan' \in ScanRecord /\ scan'.pc = "files"
      BY <1>1, <2>1 DEF Visit, ScanRecord
    <3>. QED BY <3>1 DEF Scanned
  <2>2. CASE disk[f] # None
    <3> DEFINE b == <<"rel", f>> \in pending
               t == disk[f].time
    <3>1. scan' = [scan EXCEPT !.pc = "examine", !.todo = @ \ {f}, !.file = f, !.time = t, !.wasPending = b]
      BY <2>2 DEF Visit
    <3>2. b \in BOOLEAN /\ t \in 0..MaxTime /\ "examine" \in ScanPC /\ f \in Path \cup {None}
      BY <1>1, <2>2 DEF ScanPC
    <3>. HIDE DEF b, t
    <3>3. scan' \in ScanRecord
      BY <1>1, <3>1, <3>2, ScanMoves
    <3>4. scan'.pc = "examine" /\ scan'.file = f
      BY <1>1, <3>1 DEF ScanRecord
    <3>. QED BY <3>3, <3>4 DEF Scanned
  <2>. QED BY <2>1, <2>2
<1>4. index' \in [Path -> {None} \cup Dated]
  <2>1. CASE index' = index
    BY <1>1, <2>1
  <2>2. CASE /\ disk[f] # None /\ scan.copy[f] # None
             /\ index' = [index EXCEPT ![f] = [key |-> scan.copy[f].key, hash |-> scan.copy[f].hash,
                                               time |-> disk[f].time]]
    <3>1. [key |-> scan.copy[f].key, hash |-> scan.copy[f].hash, time |-> disk[f].time] \in Dated
      BY <1>1, <2>2 DEF Dated, Node
    <3>. QED BY <1>1, <2>2, <3>1
  <2>. QED BY <2>1, <2>2 DEF Visit
<1>. QED BY <1>1, <1>2, <1>3, <1>4, WatchKeeps

LEMMA CreatedStep ==
  ASSUME ClientInv, Created
  PROVE  ClientInv'
<1> DEFINE f == scan.file
           n == [key |-> "rel", hash |-> disk[f].data, time |-> scan.time]
<1>1. /\ scan \in ScanRecord /\ index \in [Path -> {None} \cup Dated]
      /\ disk \in [Path -> {None} \cup [data : Content, time : 0..MaxTime]]
      /\ Watching("examine") /\ f \in Path /\ disk[f] # None
      /\ index' = [index EXCEPT ![f] = n] /\ Submit(Req("PUT", f, n)) /\ scan' = Examined
  BY WatchFacts DEF Created, Watching, ClientInv, Scanned
<1>2. n \in Dated /\ n.key \in Spelling /\ n.hash \in Content
  BY <1>1 DEF Dated, Spelling, ScanRecord
<1>. HIDE DEF n
<1>3. Fits(pending', queue', io, main, stuck)
  BY <1>1, <1>2, ReqFacts, SubmitFits
<1>4. scan' \in ScanRecord /\ Scanned'
  <2>1. scan' \in ScanRecord /\ scan'.pc = "files"
    BY <1>1, ScanExamined
  <2>. QED BY <2>1 DEF Scanned
<1>5. index' \in [Path -> {None} \cup Dated]
  BY <1>1, <1>2
<1>. QED BY <1>1, <1>3, <1>4, <1>5, WatchKeeps

LEMMA ComparedStep ==
  ASSUME ClientInv, Compared
  PROVE  ClientInv'
<1> DEFINE f == scan.file
           now == IF disk[f] = None THEN Empty ELSE disk[f].data
           modified == Redated(f) /\ index[f].hash # now
           fresh == [index[f] EXCEPT !.hash = now, !.time = scan.time]
           whole == Req("PUT", f, [key |-> "rel", hash |-> now])
           change == Req("PUT", f, fresh)
<1>1. /\ scan \in ScanRecord /\ index \in [Path -> {None} \cup Dated]
      /\ disk \in [Path -> {None} \cup [data : Content, time : 0..MaxTime]]
      /\ Watching("examine") /\ f \in Path /\ index[f] # None
      /\ index' = (IF modified THEN [index EXCEPT ![f] = fresh] ELSE index) /\ scan' = Examined
  BY WatchFacts DEF Compared, Watching, ClientInv, Scanned
<1>2. now \in Content
  BY <1>1, NoneIsNone
<1>3. fresh \in Dated /\ fresh.key \in Spelling /\ fresh.hash \in Content
  <2>1. index[f] \in Dated /\ scan.time \in 0..MaxTime
    BY <1>1 DEF ScanRecord
  <2>. HIDE DEF now
  <2>2. fresh \in Dated
    BY <1>2, <2>1 DEF Dated
  <2>. QED BY <2>2 DEF Dated
<1>4. /\ whole \in Request /\ Sensible(whole) /\ whole.method # "SNAPSHOT"
      /\ change \in Request /\ Sensible(change) /\ change.method # "SNAPSHOT"
  <2> DEFINE n == [key |-> "rel", hash |-> now]
  <2>1. n.key \in Spelling /\ n.hash \in Content
    BY <1>2 DEF Spelling
  <2>. HIDE DEF n, fresh, now
  <2>2. Req("PUT", f, n) \in Request /\ Sensible(Req("PUT", f, n)) /\ Req("PUT", f, n).method # "SNAPSHOT"
    BY <1>1, <2>1, ReqFacts
  <2>. QED BY <1>1, <1>3, <2>2, ReqFacts DEF n
<1>5. \/ SubmitBoth(whole, change) \/ Submit(whole) \/ Submit(change) \/ UNCHANGED <<pending, queue>>
  BY DEF Compared
<1>. HIDE DEF whole, change, fresh, modified
<1>6. Fits(pending', queue', io, main, stuck)
  BY <1>4, <1>5, SubmitBothFits, SubmitFits, WatchFacts
<1>7. scan' \in ScanRecord /\ Scanned'
  <2>1. scan' \in ScanRecord /\ scan'.pc = "files"
    BY <1>1, ScanExamined
  <2>. QED BY <2>1 DEF Scanned
<1>8. index' \in [Path -> {None} \cup Dated]
  BY <1>1, <1>3
<1>. QED BY <1>1, <1>6, <1>7, <1>8, WatchKeeps

LEMMA CheckMissingStep ==
  ASSUME ClientInv, NEW f \in Path, CheckMissing(f)
  PROVE  ClientInv'
<1>1. /\ scan \in ScanRecord /\ index \in [Path -> {None} \cup Dated]
      /\ scan.pc = "missing" /\ f \in scan.todo /\ Watching("missing")
      /\ \A g \in scan.todo : scan.copy[g] # None
      /\ scan' = [scan EXCEPT !.todo = @ \ {f}] /\ index' = index
      /\ Submit(Req("GET", f, scan.copy[f])) \/ UNCHANGED <<pending, queue>>
  BY WatchFacts DEF CheckMissing, Watching, ClientInv, Scanned
<1>2. scan.copy[f].key \in Spelling /\ scan.copy[f].hash \in Content
  BY <1>1 DEF ScanRecord, Node
<1>3. Fits(pending', queue', io, main, stuck)
  BY <1>1, <1>2, ReqFacts, SubmitFits, WatchFacts
<1>4. /\ scan' \in ScanRecord /\ scan'.pc = "missing" /\ scan'.todo = scan.todo \ {f}
      /\ scan'.copy = scan.copy
  BY <1>1 DEF ScanRecord
<1>5. Scanned'
  BY <1>1, <1>4 DEF Scanned
<1>. QED BY <1>1, <1>3, <1>4, <1>5, WatchKeeps

LEMMA WatchStep ==
  ASSUME ClientInv, Watch
  PROVE  ClientInv'
BY NextPartStep, CheckErasedStep, VisitStep, CreatedStep, ComparedStep, CheckMissingStep, ProcessStep
   DEF Watch, ScanThrows


-----------------------------------------------------------------------------
(* The io thread, and the server *)

Answer == {"none", "OK", "ERROR", "ALREADY_EXISTS", "MISMATCH", "NOT_FOUND"}
IoRecord == [pc : IoPC, req : Request, ans : Answer]
Folder == [Path -> {None} \cup [data : Content, time : 0..MaxTime]]
Held == [Path -> {None} \cup Content]

\* What the io thread never touches.
Elsewhere == UNCHANGED <<index, scan, main, clock, edits, gone, alive>>

LEMMA WorkFacts ==
  ASSUME ClientInv
  PROVE  /\ io \in IoRecord /\ disk \in Folder /\ file \in Held /\ entry \in Held
         /\ known \in [Path -> {None} \cup Node] /\ clock \in 0..MaxTime /\ faults \in 0..MaxFaults
         /\ link \in BOOLEAN /\ connected \in BOOLEAN /\ jammed \in BOOLEAN
         /\ behind \subseteq Path /\ astray \in BOOLEAN
         /\ io.req \in Request /\ Sensible(io.req) /\ Carried
BY DEF ClientInv, TypeOK, IoRecord, Answer, Folder, Held, Requests

\* The request in hand is about a file, unless it is the one for the list.
LEMMA InHandFacts ==
  ASSUME ClientInv, io.req.method # "SNAPSHOT"
  PROVE  /\ io.req.file \in Path /\ io.req.hash \in Content /\ io.req.key \in Spelling
         /\ ThisNode \in Node
BY WorkFacts DEF Sensible, SnapshotReq, Request, ThisNode, Node

\* What a step of the io thread has to keep.
LEMMA WorkKeeps ==
  ASSUME ClientInv, Elsewhere, Fits(pending', queue', io', main, stuck'), Sensible(io'.req),
         faults' \in 0..MaxFaults, disk' \in Folder, file' \in Held, entry' \in Held,
         known' \in [Path -> {None} \cup Node],
         link' \in BOOLEAN, connected' \in BOOLEAN, jammed' \in BOOLEAN,
         behind' \subseteq Path, astray' \in BOOLEAN,
         io' \in IoRecord, Carried'
  PROVE  ClientInv'
<1>1. Fits(pending', queue', io', main', stuck')
  BY DEF Elsewhere
<1>2. /\ pending' \subseteq Spelling \X (Path \cup {None}) /\ queue' \in Seq(Request)
      /\ Requests' /\ Throttled' /\ stuck' \subseteq Spelling \X Path
  BY <1>1, FitsThen
<1>3. TypeOK'
  BY <1>2 DEF ClientInv, TypeOK, IoRecord, Answer, Folder, Held, Elsewhere
<1>4. Scanned'
  BY DEF ClientInv, Scanned, Elsewhere
<1>. QED BY <1>2, <1>3, <1>4 DEF ClientInv

\* A step that ends the request, and leaves the server as it is.
LEMMA OverKeeps ==
  ASSUME ClientInv, Elsewhere, io.pc # "idle", Over, faults' \in 0..MaxFaults,
         UNCHANGED <<file, entry>>,
         disk' \in Folder, known' \in [Path -> {None} \cup Node],
         link' \in BOOLEAN, connected' \in BOOLEAN, jammed' \in BOOLEAN,
         behind' \subseteq Path, astray' \in BOOLEAN
  PROVE  ClientInv'
<1>1. Fits(pending', queue', io', main, stuck')
  BY OverFits DEF Elsewhere
<1>2. io' = Idle /\ io' \in IoRecord /\ Sensible(io'.req) /\ io'.pc = "idle"
  BY RestFacts DEF Over, IoRecord, Answer
<1>3. Carried'
  BY <1>2, WorkFacts DEF Carried
<1>4. file' \in Held /\ entry' \in Held
  BY WorkFacts
<1>. QED BY <1>1, <1>2, <1>3, <1>4, WorkKeeps

\* A step after which the request is still in hand.
LEMMA HandKeeps ==
  ASSUME ClientInv, Elsewhere, io.pc # "idle", io' \in IoRecord, io'.pc # "idle", io'.req = io.req,
         UNCHANGED <<known, pending, queue, stuck>>,
         faults' \in 0..MaxFaults, disk' \in Folder, file' \in Held, entry' \in Held,
         link' \in BOOLEAN, connected' \in BOOLEAN, jammed' \in BOOLEAN,
         behind' \subseteq Path, astray' \in BOOLEAN, Carried'
  PROVE  ClientInv'
<1>1. Fits(pending', queue', io', main, stuck')
  BY FitsNow DEF Fits
<1>2. Sensible(io'.req) /\ known' \in [Path -> {None} \cup Node]
  BY WorkFacts
<1>. QED BY <1>1, <1>2, WorkKeeps

\* The io thread goes on with the request.
LEMMA IoMoves ==
  ASSUME io \in IoRecord, NEW p \in IoPC, io' = [io EXCEPT !.pc = p]
  PROVE  io' \in IoRecord /\ io'.pc = p /\ io'.req = io.req
BY DEF IoRecord

LEMMA EndsFacts ==
  ASSUME io \in IoRecord, NEW a \in Answer, Ends(a)
  PROVE  io' \in IoRecord /\ io'.pc = "answer" /\ io'.req = io.req /\ io'.ans = a
BY DEF IoRecord, Ends, IoPC

LEMMA TakeStep ==
  ASSUME ClientInv, Take
  PROVE  ClientInv'
<1>1. /\ Elsewhere /\ io.pc = "idle" /\ queue # <<>> /\ queue' = Tail(queue)
      /\ io' = [Idle EXCEPT !.pc = "start", !.req = Head(queue)]
      /\ UNCHANGED <<faults, disk, file, entry, known, pending, stuck, link, behind, connected, jammed, astray>>
  BY DEF Take, Working, Elsewhere, watcher, server
<1>2. io'.pc = "start" /\ io'.req = Head(queue) /\ io'.ans = "none"
  BY <1>1 DEF Idle
<1>3. Fits(pending', queue', io', main, stuck') /\ Sensible(io'.req) /\ io'.req \in Request
  <2>1. Fits(pending, queue, io, main, stuck) /\ io'.pc # "idle"
    BY <1>2, FitsNow
  <2>2. Fits(pending, Tail(queue), io', main, stuck) /\ Sensible(Head(queue)) /\ Head(queue) \in Request
    BY <1>1, <1>2, <2>1, TakeFits
  <2>. QED BY <1>1, <1>2, <2>2
<1>4. io' \in IoRecord
  <2>1. io' = [pc |-> "start", req |-> Head(queue), ans |-> "none"] /\ Head(queue) \in Request
    BY <1>1, <1>2, <1>3 DEF Idle
  <2>. QED BY <2>1 DEF IoRecord, IoPC, Answer
<1>5. Carried'
  BY <1>1, <1>2, WorkFacts DEF Carried
<1>. QED BY <1>1, <1>3, <1>4, <1>5, WorkFacts, WorkKeeps

\* The connection is found broken, or missing, or given up with the file.
LEMMA GivenUpStep ==
  ASSUME ClientInv, Reconnect \/ Broken \/ SendJammed \/ SendUnopened
  PROVE  ClientInv'
<1>1. /\ Elsewhere /\ io.pc # "idle" /\ Over /\ UNCHANGED <<disk, file, entry, known, jammed>>
      /\ Fault \/ UNCHANGED faults
      /\ connected' \in BOOLEAN /\ link' \in BOOLEAN
      /\ UNCHANGED <<behind, astray>> \/ (behind' = Left /\ astray' = FALSE)
  <2>1. CASE Reconnect
    BY <2>1 DEF Reconnect, Working, Elsewhere, watcher
  <2>2. CASE Broken
    BY <2>2 DEF Broken, Working, Disconnected, Elsewhere, watcher
  <2>3. CASE SendJammed
    BY <2>3 DEF SendJammed, Unopened, Working, Disconnected, Elsewhere, watcher
  <2>4. CASE SendUnopened
    BY <2>4 DEF SendUnopened, Unopened, Failing, Disconnected, Elsewhere, watcher
  <2>. QED BY <2>1, <2>2, <2>3, <2>4
<1>2. behind' \subseteq Path /\ astray' \in BOOLEAN /\ faults' \in 0..MaxFaults
  BY <1>1, WorkFacts, LeftFacts, FaultFacts
<1>. QED BY <1>1, <1>2, WorkFacts, OverKeeps

\* The session answers a PUT, or removes what it has and creates the file.
LEMMA AskPutStep ==
  ASSUME ClientInv, AskPut
  PROVE  ClientInv'
<1> DEFINE f == io.req.file
           h == io.req.hash
           e == IF h = Empty THEN Empty ELSE IF file[f] = None THEN entry[f] ELSE None
<1>1. /\ Elsewhere /\ io.pc = "start" /\ io.req.method = "PUT"
      /\ UNCHANGED <<faults, disk, link, behind, known, pending, queue, stuck, connected, jammed, astray>>
  BY DEF AskPut, Asking, Working, Elsewhere, watcher, shared
<1>2. f \in Path /\ h \in Content /\ file \in Held /\ entry \in Held /\ io \in IoRecord
  BY <1>1, WorkFacts, InHandFacts
<1>3. io' \in IoRecord /\ io'.pc \in {"answer", "send"} /\ io'.req = io.req /\ Carried'
  <2>1. CASE file[f] = h
    <3>1. Ends("ALREADY_EXISTS") /\ "ALREADY_EXISTS" \in Answer
      BY <2>1 DEF AskPut, Answer
    <3>2. io' \in IoRecord /\ io'.pc = "answer" /\ io'.req = io.req /\ io'.ans = "ALREADY_EXISTS"
      BY <1>2, <3>1, EndsFacts
    <3>. QED BY <1>1, <3>2 DEF Carried
  <2>2. CASE file[f] # h
    <3>1. io' = [io EXCEPT !.pc = "send"] /\ "send" \in IoPC
      BY <2>2 DEF AskPut, IoPC
    <3>2. io' \in IoRecord /\ io'.pc = "send" /\ io'.req = io.req
      BY <1>2, <3>1, IoMoves
    <3>. QED BY <1>1, <3>2 DEF Carried
  <2>. QED BY <2>1, <2>2
<1>4. file' \in Held /\ entry' \in Held
  <2>1. CASE UNCHANGED <<file, entry>>
    BY <1>2, <2>1
  <2>2. CASE file' = [file EXCEPT ![f] = Empty] /\ entry' = [entry EXCEPT ![f] = e]
    <3>1. e \in {None} \cup Content
      BY <1>2, NoneIsNone DEF Held
    <3>. HIDE DEF e
    <3>. QED BY <1>2, <2>2, <3>1, NoneIsNone DEF Held
  <2>. QED BY <2>1, <2>2 DEF AskPut
<1>. QED BY <1>1, <1>3, <1>4, WorkFacts, HandKeeps

LEMMA AskDeleteStep ==
  ASSUME ClientInv, AskDelete
  PROVE  ClientInv'
<1> DEFINE f == io.req.file
           a == IF file[f] = None THEN "ERROR" ELSE "OK"
<1>1. /\ Elsewhere /\ io.pc = "start" /\ io.req.method = "DELETE"
      /\ UNCHANGED <<faults, disk, link, behind, known, pending, queue, stuck, connected, jammed, astray>>
      /\ file' = [file EXCEPT ![f] = None] /\ entry' = [entry EXCEPT ![f] = None]
      /\ Ends(a)
  BY DEF AskDelete, Asking, Working, Elsewhere, watcher, shared
<1>2. f \in Path /\ file \in Held /\ entry \in Held /\ io \in IoRecord
  BY <1>1, WorkFacts, InHandFacts
<1>3. a \in Answer
  BY DEF Answer
<1>. HIDE DEF a
<1>4. io' \in IoRecord /\ io'.pc = "answer" /\ io'.req = io.req
  BY <1>1, <1>2, <1>3, EndsFacts
<1>5. Carried'
  BY <1>1, <1>4 DEF Carried
<1>6. file' \in Held /\ entry' \in Held
  BY <1>1, <1>2 DEF Held
<1>. QED BY <1>1, <1>4, <1>5, <1>6, WorkFacts, HandKeeps

LEMMA AskGetStep ==
  ASSUME ClientInv, AskGet
  PROVE  ClientInv'
<1> DEFINE f == io.req.file
           a == IF entry[f] = None \/ file[f] = None THEN "NOT_FOUND" ELSE "OK"
           e == IF file[f] = None THEN None ELSE entry[f]
<1>1. /\ Elsewhere /\ io.pc = "start" /\ io.req.method = "GET"
      /\ UNCHANGED <<faults, disk, link, behind, known, pending, queue, stuck, connected, jammed, astray>>
      /\ file' = file /\ entry' = [entry EXCEPT ![f] = e]
      /\ Ends(a)
  BY DEF AskGet, Asking, Working, Elsewhere, watcher, shared
<1>2. f \in Path /\ file \in Held /\ entry \in Held /\ io \in IoRecord
  BY <1>1, WorkFacts, InHandFacts
<1>3. a \in Answer /\ (a = "OK" => file[f] # None)
  BY DEF Answer
<1>4. e \in {None} \cup Content
  BY <1>2 DEF Held
<1>. HIDE DEF a, e
<1>5. io' \in IoRecord /\ io'.pc = "answer" /\ io'.req = io.req /\ io'.ans = a
  BY <1>1, <1>2, <1>3, EndsFacts
<1>6. Carried'
  BY <1>1, <1>3, <1>5 DEF Carried
<1>7. file' \in Held /\ entry' \in Held
  BY <1>1, <1>2, <1>4 DEF Held
<1>. QED BY <1>1, <1>5, <1>6, <1>7, WorkFacts, HandKeeps

LEMMA AskSnapshotStep ==
  ASSUME ClientInv, AskSnapshot
  PROVE  ClientInv'
<1>1. /\ Elsewhere /\ io.pc = "start" /\ io.req.method = "SNAPSHOT"
      /\ UNCHANGED <<faults, disk, file, entry, link, behind, known, pending, queue, stuck, connected,
                      jammed, astray>>
      /\ Ends("OK") /\ "OK" \in Answer
  BY DEF AskSnapshot, Asking, Working, Elsewhere, watcher, shared, Answer
<1>2. io' \in IoRecord /\ io'.pc = "answer" /\ io'.req = io.req
  BY <1>1, WorkFacts, EndsFacts
<1>3. Carried'
  BY <1>1, <1>2, WorkFacts DEF Carried
<1>. QED BY <1>1, <1>2, <1>3, WorkFacts, HandKeeps

\* The session cannot open the file.
LEMMA AskRefusedStep ==
  ASSUME ClientInv, AskRefused
  PROVE  ClientInv'
<1> DEFINE f == io.req.file
<1>1. /\ Elsewhere /\ io.pc = "start"
      /\ UNCHANGED <<disk, behind, known, pending, queue, stuck, connected, jammed, astray>>
      /\ Fault /\ link' \in BOOLEAN
      /\ Ends("ERROR") /\ "ERROR" \in Answer
  BY WorkFacts DEF AskRefused, Failing, Elsewhere, watcher, shared, Answer
<1>2. file \in Held /\ entry \in Held /\ io \in IoRecord
  BY WorkFacts
<1>3. io' \in IoRecord /\ io'.pc = "answer" /\ io'.req = io.req /\ io'.ans = "ERROR"
  BY <1>1, <1>2, EndsFacts
<1>4. Carried'
  BY <1>3 DEF Carried
<1>5. file' \in Held /\ entry' \in Held
  BY <1>2 DEF AskRefused, Held
<1>6. faults' \in 0..MaxFaults
  BY <1>1, FaultFacts
<1>. QED BY <1>1, <1>3, <1>4, <1>5, <1>6, WorkFacts, HandKeeps

\* Beside another session any answer may come, and it may be any.
LEMMA AskOverlappedStep ==
  ASSUME ClientInv, AskOverlapped
  PROVE  ClientInv'
<1>1. /\ Elsewhere /\ io.pc = "start" /\ io.req.file \in behind
      /\ UNCHANGED <<faults, disk, file, entry, behind, known, pending, queue, stuck, connected, jammed,
                      astray>>
      /\ link' \in BOOLEAN
  BY DEF AskOverlapped, Working, Elsewhere, watcher, shared
<1>2. io' \in IoRecord /\ io'.pc \in {"answer", "send"} /\ io'.req = io.req /\ Carried'
  <2>1. CASE io.req.method = "PUT" /\ io' = [io EXCEPT !.pc = "send"]
    <3>1. "send" \in IoPC
      BY DEF IoPC
    <3>2. io' \in IoRecord /\ io'.pc = "send" /\ io'.req = io.req
      BY <2>1, <3>1, WorkFacts, IoMoves
    <3>. QED BY <2>1, <3>2 DEF Carried
  <2>2. CASE \E a \in Answers[io.req.method] : Ends(a)
    <3>1. io.req.method \in {"PUT", "DELETE", "GET"}
      <4>1. io.req.file # None
        BY <1>1, NoneIsNone, WorkFacts
      <4>. QED BY <4>1, WorkFacts DEF Sensible, SnapshotReq, Request
    <3>2. PICK a \in Answer : Ends(a) /\ (io.req.method = "PUT" => a # "NOT_FOUND")
      BY <2>2, <3>1 DEF Answers, Answer
    <3>3. io' \in IoRecord /\ io'.pc = "answer" /\ io'.req = io.req /\ io'.ans = a
      BY <3>2, WorkFacts, EndsFacts
    <3>. QED BY <1>1, <3>2, <3>3 DEF Carried, Overlapped
  <2>. QED BY <2>1, <2>2 DEF AskOverlapped
<1>. QED BY <1>1, <1>2, WorkFacts, HandKeeps

\* What is not the client's answer may be taken for one, for none, or for neither.
LEMMA MisreadStep ==
  ASSUME ClientInv, Misread
  PROVE  ClientInv'
<1>1. /\ Elsewhere /\ io.pc = "start" /\ astray
      /\ UNCHANGED <<faults, disk, file, entry, link, behind, known, pending, queue, connected, jammed,
                      astray>>
  BY DEF Misread, Working, Elsewhere, watcher, server
<1>2. CASE \E a \in {"OK", "ERROR", "ALREADY_EXISTS", "NOT_FOUND"} : Ends(a) /\ UNCHANGED stuck
  <2>1. PICK a \in Answer : Ends(a)
    BY <1>2 DEF Answer
  <2>2. io' \in IoRecord /\ io'.pc = "answer" /\ io'.req = io.req
    BY <2>1, WorkFacts, EndsFacts
  <2>3. Carried'
    BY <1>1, <2>2 DEF Carried, Overlapped
  <2>. QED BY <1>1, <1>2, <2>2, <2>3, WorkFacts, HandKeeps
<1>3. CASE /\ UNCHANGED stuck
           /\ \/ io' = [io EXCEPT !.pc = "hung"]
              \/ io.req.method = "PUT" /\ io' = [io EXCEPT !.pc = "send"]
  <2>1. "hung" \in IoPC /\ "send" \in IoPC
    BY DEF IoPC
  <2>2. /\ io' \in IoRecord /\ io'.req = io.req
        /\ io'.pc = "hung" \/ (io'.pc = "send" /\ io.req.method = "PUT")
    BY <1>3, <2>1, WorkFacts, IoMoves
  <2>3. Carried'
    BY <1>1, <2>2 DEF Carried
  <2>. QED BY <1>1, <1>3, <2>2, <2>3, WorkFacts, HandKeeps
<1>4. CASE io.req.method = "PUT" /\ io' = Idle /\ stuck' = stuck \cup {OpKey(io.req)}
  <2>1. Fits(pending', queue', io', main, stuck')
    BY <1>1, <1>4, StuckFits
  <2>2. io' \in IoRecord /\ Sensible(io'.req) /\ io'.pc = "idle"
    BY <1>4, RestFacts DEF IoRecord, Answer
  <2>3. Carried'
    BY <2>2 DEF Carried
  <2>. QED BY <1>1, <2>1, <2>2, <2>3, WorkFacts, WorkKeeps
<1>. QED BY <1>2, <1>3, <1>4 DEF Misread

\* The client's file is opened, and created if need be.
LEMMA OpenedFacts ==
  ASSUME disk \in Folder, clock \in 0..MaxTime, NEW f \in Path, Opened(f)
  PROVE  disk' \in Folder
<1>1. [data |-> Empty, time |-> clock] \in [data : Content, time : 0..MaxTime]
  BY NoneIsNone
<1>. QED BY <1>1 DEF Opened, Folder

LEMMA SendStep ==
  ASSUME ClientInv, Send
  PROVE  ClientInv'
<1> DEFINE f == io.req.file
           h == io.req.hash
<1>1. /\ Elsewhere /\ io.pc = "send"
      /\ UNCHANGED <<faults, link, behind, known, pending, queue, stuck, connected, jammed, astray>> /\ Opened(f)
  BY DEF Send, Working, Elsewhere, watcher, shared
<1>2. io.req.method = "PUT"
  BY <1>1, WorkFacts DEF Carried
<1>3. /\ f \in Path /\ h \in Content /\ file \in Held /\ entry \in Held /\ io \in IoRecord
      /\ disk' \in Folder
  BY <1>1, <1>2, WorkFacts, InHandFacts, OpenedFacts
<1>4. PICK whole \in BOOLEAN :
        /\ file' = [file EXCEPT ![f] = IF whole THEN h ELSE None]
        /\ entry' = [entry EXCEPT ![f] = IF whole THEN h ELSE None]
        /\ Ends(IF whole THEN "OK" ELSE "MISMATCH") \/ io' = [io EXCEPT !.pc = "hung"]
  BY DEF Send
<1>5. PICK x \in {None} \cup Content : /\ file' = [file EXCEPT ![f] = x]
                                       /\ entry' = [entry EXCEPT ![f] = x]
  BY <1>3, <1>4
<1>6. file' \in Held /\ entry' \in Held
  BY <1>3, <1>5 DEF Held
<1>7. /\ io' \in IoRecord /\ io'.pc \in {"answer", "hung"} /\ io'.req = io.req
      /\ io'.pc = "answer" => io'.ans # "NOT_FOUND"
  <2> DEFINE a == IF whole THEN "OK" ELSE "MISMATCH"
  <2>1. a \in Answer /\ a # "NOT_FOUND"
    BY DEF Answer
  <2>2. Ends(a) \/ io' = [io EXCEPT !.pc = "hung"]
    BY <1>4
  <2>. HIDE DEF a
  <2>3. CASE Ends(a)
    BY <1>3, <2>1, <2>3, EndsFacts
  <2>4. CASE io' = [io EXCEPT !.pc = "hung"]
    <3>1. "hung" \in IoPC
      BY DEF IoPC
    <3>. QED BY <1>3, <2>4, <3>1, IoMoves
  <2>. QED BY <2>2, <2>3, <2>4
<1>8. Carried'
  BY <1>2, <1>7 DEF Carried
<1>. QED BY <1>1, <1>3, <1>6, <1>7, <1>8, WorkFacts, HandKeeps

\* The server cannot write, or answers anything.
LEMMA SendElseStep ==
  ASSUME ClientInv, SendUnsaved \/ SendOverlapped
  PROVE  ClientInv'
<1>1. /\ Elsewhere /\ io.pc = "send" /\ Opened(io.req.file)
      /\ UNCHANGED <<entry, link, behind, known, pending, queue, stuck, connected, jammed, astray>>
      /\ Fault \/ UNCHANGED faults
      /\ \/ UNCHANGED file
         \/ \E c \in Content : file' = [file EXCEPT ![io.req.file] = c]
      /\ \/ io' = [io EXCEPT !.pc = "hung"]
         \/ \E a \in Answer : Ends(a) /\ (a = "NOT_FOUND" => astray)
  BY DEF SendUnsaved, SendOverlapped, Working, Failing, Elsewhere, watcher, shared, server, Answer
<1>2. io.req.method = "PUT"
  BY <1>1, WorkFacts DEF Carried
<1>3. disk' \in Folder /\ file' \in Held /\ faults' \in 0..MaxFaults
  <2>1. io.req.file \in Path
    BY <1>2, InHandFacts
  <2>2. file' \in Held
    BY <1>1, <2>1, WorkFacts DEF Held
  <2>. QED BY <1>1, <2>1, <2>2, WorkFacts, OpenedFacts, FaultFacts
<1>4. /\ io' \in IoRecord /\ io'.pc \in {"answer", "hung"} /\ io'.req = io.req
      /\ io'.pc = "answer" /\ io'.ans = "NOT_FOUND" => astray
  <2>1. CASE io' = [io EXCEPT !.pc = "hung"]
    <3>1. "hung" \in IoPC
      BY DEF IoPC
    <3>. QED BY <2>1, <3>1, WorkFacts, IoMoves
  <2>2. CASE \E a \in Answer : Ends(a) /\ (a = "NOT_FOUND" => astray)
    BY <2>2, WorkFacts, EndsFacts
  <2>. QED BY <1>1, <2>1, <2>2
<1>5. Carried'
  BY <1>1, <1>2, <1>4 DEF Carried
<1>. QED BY <1>1, <1>3, <1>4, <1>5, WorkFacts, HandKeeps

LEMMA SendBreaksStep ==
  ASSUME ClientInv, SendBreaks
  PROVE  ClientInv'
<1>1. /\ Elsewhere /\ io.pc = "send" /\ Opened(io.req.file)
      /\ UNCHANGED <<faults, file, entry, known>>
  BY DEF SendBreaks, Working, Elsewhere, watcher
<1>2. io.req.method = "PUT"
  BY <1>1, WorkFacts DEF Carried
<1>3. disk' \in Folder
  BY <1>1, <1>2, WorkFacts, InHandFacts, OpenedFacts
<1>4. CASE Ends("none") /\ UNCHANGED <<pending, queue, stuck, link, behind, connected, jammed, astray>>
  <2>1. io' \in IoRecord /\ io'.pc = "answer" /\ io'.req = io.req /\ io'.ans = "none"
    BY <1>4, WorkFacts, EndsFacts DEF Answer
  <2>2. Carried'
    BY <1>1, <1>2, <2>1, WorkFacts DEF Carried
  <2>. QED BY <1>1, <1>3, <1>4, <2>1, <2>2, WorkFacts, HandKeeps
<1>5. CASE Over /\ Disconnected /\ jammed' = TRUE
  <2>1. /\ link' = FALSE /\ connected' = FALSE /\ astray' = FALSE /\ behind' \subseteq Path
    BY <1>5, LeftFacts DEF Disconnected
  <2>. QED BY <1>1, <1>3, <1>5, <2>1, WorkFacts, OverKeeps
<1>. QED BY <1>4, <1>5 DEF SendBreaks

\* What the client notes of a file.
LEMMA RememberFacts ==
  ASSUME known \in [Path -> {None} \cup Node], NEW f, NEW n \in Node
  PROVE  Remember(f, n) \in [Path -> {None} \cup Node]
BY DEF Remember

\* The answers after which the request is over.
LEMMA AnsweredStep ==
  ASSUME ClientInv, PutAnswered \/ DeleteAnswered \/ GetFailed \/ SnapshotAnswered
  PROVE  ClientInv'
<1>1. /\ Elsewhere /\ io.pc = "answer" /\ Over
      /\ UNCHANGED <<faults, disk, file, entry, link, behind, connected, jammed, astray>>
  BY DEF PutAnswered, DeleteAnswered, GetFailed, SnapshotAnswered, Answering, Working, Elsewhere,
         watcher, server
<1>2. known' \in [Path -> {None} \cup Node]
  <2>1. CASE PutAnswered
    <3>1. ThisNode \in Node
      BY <2>1, InHandFacts DEF PutAnswered
    <3>2. Remember(io.req.file, ThisNode) \in [Path -> {None} \cup Node]
      BY <3>1, WorkFacts, RememberFacts
    <3>3. Handled(io.ans) \in [Path -> {None} \cup Node]
      BY <3>2, WorkFacts DEF Handled
    <3>. QED BY <2>1, <3>2, <3>3 DEF PutAnswered
  <2>2. CASE DeleteAnswered
    BY <2>2, WorkFacts DEF DeleteAnswered
  <2>3. CASE GetFailed
    <3>1. ThisNode \in Node
      BY <2>3, InHandFacts DEF GetFailed
    <3>2. Remember(io.req.file, ThisNode) \in [Path -> {None} \cup Node]
      BY <3>1, WorkFacts, RememberFacts
    <3>3. Handled(io.ans) \in [Path -> {None} \cup Node]
      BY <3>2, WorkFacts DEF Handled
    <3>. QED BY <2>3, <3>3 DEF GetFailed
  <2>4. CASE SnapshotAnswered
    <3>1. ASSUME NEW l \in Listings, NEW f \in Path, l[f] # None
          PROVE  [key |-> "abs", hash |-> l[f]] \in Node
      BY <3>1 DEF Listings, Node, Spelling
    <3>. QED BY <2>4, <3>1, WorkFacts DEF SnapshotAnswered
  <2>. QED BY <2>1, <2>2, <2>3, <2>4
<1>. QED BY <1>1, <1>2, WorkFacts, OverKeeps

LEMMA GetAnsweredStep ==
  ASSUME ClientInv, GetAnswered
  PROVE  ClientInv'
<1>1. /\ Elsewhere /\ io.pc = "answer" /\ io.req.method = "GET" /\ io.ans = "OK"
      /\ UNCHANGED <<faults, file, entry, link, behind, known, pending, queue, stuck, connected,
                      jammed, astray>>
      /\ disk' = [disk EXCEPT ![io.req.file] = [data |-> Empty, time |-> clock]]
      /\ io' = [io EXCEPT !.pc = "fetch"]
  BY DEF GetAnswered, Answering, Working, Elsewhere, watcher, shared, server
<1>2. disk' \in Folder
  <2>1. [data |-> Empty, time |-> clock] \in [data : Content, time : 0..MaxTime]
    BY WorkFacts, NoneIsNone
  <2>. QED BY <1>1, <2>1, WorkFacts DEF Folder
<1>3. io' \in IoRecord /\ io'.pc = "fetch" /\ io'.req = io.req
  <2>1. "fetch" \in IoPC
    BY DEF IoPC
  <2>. QED BY <1>1, <2>1, WorkFacts, IoMoves
<1>4. Carried'
  BY <1>1, <1>3, WorkFacts DEF Carried, Overlapped
<1>. QED BY <1>1, <1>2, <1>3, <1>4, WorkFacts, HandKeeps

\* The client cannot open the file, or write what it receives.
LEMMA GetUnopenedStep ==
  ASSUME ClientInv, GetUnopened
  PROVE  ClientInv'
<1>1. /\ Elsewhere /\ io.pc = "answer" /\ Over /\ Fault
      /\ UNCHANGED <<disk, file, entry, link, behind, known, connected, jammed>> /\ astray' \in {astray, TRUE}
  BY DEF GetUnopened, Failing, Elsewhere, watcher, server
<1>. QED BY <1>1, WorkFacts, FaultFacts, OverKeeps

LEMMA FetchUnsavedStep ==
  ASSUME ClientInv, FetchUnsaved
  PROVE  ClientInv'
<1>1. /\ Elsewhere /\ io.pc = "fetch" /\ Over /\ Fault
      /\ UNCHANGED <<file, entry, link, behind, known, connected, jammed, astray>>
  BY DEF FetchUnsaved, Failing, Elsewhere, watcher, server
<1>2. disk' \in Folder
  <2>1. \A c \in Content : [data |-> c, time |-> clock] \in [data : Content, time : 0..MaxTime]
    BY WorkFacts
  <2>. QED BY <2>1, WorkFacts DEF FetchUnsaved, Folder
<1>. QED BY <1>1, <1>2, WorkFacts, FaultFacts, OverKeeps

LEMMA FetchStep ==
  ASSUME ClientInv, Fetch
  PROVE  ClientInv'
<1> DEFINE f == io.req.file
<1>1. /\ Elsewhere /\ io.pc = "fetch" /\ Over
      /\ UNCHANGED <<faults, file, entry, link, behind, connected, jammed, astray>>
  BY DEF Fetch, Working, Elsewhere, watcher, server
<1>2. PICK got \in IF disk[f] = None THEN {Empty}
                   ELSE IF Overlapped(f) THEN Content ELSE {file[f]} :
        /\ disk' = IF disk[f] = None THEN disk
                   ELSE [disk EXCEPT ![f] = [data |-> got, time |-> clock]]
        /\ known' = Remember(f, [key |-> io.req.key, hash |-> got])
  BY DEF Fetch
<1>3. io.req.method = "GET" /\ (file[f] # None \/ Overlapped(f))
  BY <1>1, WorkFacts DEF Carried
<1>4. f \in Path /\ io.req.key \in Spelling
  BY <1>3, InHandFacts
<1>5. got \in Content
  BY <1>2, <1>3, <1>4, WorkFacts, NoneIsNone DEF Held
<1>6. disk' \in Folder
  <2>1. [data |-> got, time |-> clock] \in [data : Content, time : 0..MaxTime]
    BY <1>5, WorkFacts
  <2>. QED BY <1>2, <2>1, WorkFacts DEF Folder
<1>7. known' \in [Path -> {None} \cup Node]
  <2>1. [key |-> io.req.key, hash |-> got] \in Node
    BY <1>4, <1>5 DEF Node
  <2>. QED BY <1>2, <2>1, WorkFacts, RememberFacts
<1>. QED BY <1>1, <1>6, <1>7, WorkFacts, OverKeeps

LEMMA ServeStep ==
  ASSUME ClientInv, Serve
  PROVE  ClientInv'
BY TakeStep, GivenUpStep, ProcessStep, AskPutStep, AskDeleteStep, AskGetStep, AskSnapshotStep,
   AskRefusedStep, AskOverlappedStep, MisreadStep, SendStep, SendElseStep, SendBreaksStep,
   AnsweredStep, GetAnsweredStep, GetUnopenedStep, FetchStep, FetchUnsavedStep
   DEF Serve, ReconnectThrows

-----------------------------------------------------------------------------
(* The theorems *)

LEMMA ClientInit == Init => ClientInv
<1>. SUFFICES ASSUME Init PROVE ClientInv
  OBVIOUS
<1>1. /\ MaxTime \in Nat /\ MaxEdits \in Nat /\ MaxFaults \in Nat /\ 0 \in 0..MaxTime
      /\ 0 \in 0..MaxEdits /\ 0 \in 0..MaxFaults
  BY ClientAssumption DEF ClientAssumption
<1>2. /\ clock = 0 /\ edits = 0 /\ faults = 0 /\ gone = {} /\ file \in Held /\ entry = file
      /\ alive = TRUE /\ connected = TRUE /\ link = TRUE /\ jammed = FALSE
      /\ index = Indexed /\ scan = Asleep /\ io = Idle /\ main = "check"
      /\ known = [f \in Path |-> None] /\ pending = {} /\ queue = <<>>
      /\ behind = {} /\ astray = FALSE /\ stuck = {}
  BY DEF Init, Held
<1>3. disk \in Folder
  BY <1>1 DEF Init, Folder
<1>4. Indexed \in [Path -> {None} \cup Dated]
  BY <1>3 DEF Folder, Indexed, Dated, Spelling
<1>5. known \in [Path -> {None} \cup Node] /\ queue \in Seq(Request)
  BY <1>2
<1>6. TypeOK
  BY <1>1, <1>2, <1>3, <1>4, <1>5, RestFacts DEF TypeOK, Folder, Held
<1>7. Requests /\ Throttled
  BY <1>2, RestFacts DEF Requests, Throttled, Queued, InHand
<1>8. Scanned /\ Carried
  BY <1>2, RestFacts DEF Scanned, Carried
<1>. QED BY <1>6, <1>7, <1>8 DEF ClientInv

LEMMA ClientNext == ClientInv /\ [Next]_vars => ClientInv'
<1>. SUFFICES ASSUME ClientInv, [Next]_vars PROVE ClientInv'
  OBVIOUS
<1>1. CASE World
  BY <1>1, UserStep, EndedStep, ProcessStep DEF World, Quit
<1>2. CASE Watch
  BY <1>2, WatchStep
<1>3. CASE Refresh
  BY <1>3, RefreshStep
<1>4. CASE Serve
  BY <1>4, ServeStep
<1>5. CASE UNCHANGED vars
  <2>1. UNCHANGED <<disk, gone, edits, clock, faults, file, entry, link, behind, alive, index, scan, known,
                    pending, queue, stuck, main, io, connected, jammed, astray>>
    BY <1>5 DEF vars, user, server, watcher, shared, worker
  <2>. QED BY <2>1 DEF ClientInv, TypeOK, Requests, Throttled, Queued, InHand, Scanned, Carried,
                       Overlapped
<1>. QED BY <1>1, <1>2, <1>3, <1>4, <1>5 DEF Next

\* In every state of the client with its server what the threads rely on between their
\* steps holds (main.cpp, file_watcher.cpp, client.cpp).
THEOREM ClientInvariance == Spec => []ClientInv
BY ClientInit, ClientNext, PTL DEF Spec

\* The variables keep their types, whatever happens: no file is sent, looked at or noted that
\* is none.
THEOREM ClientTypeCorrect == Spec => []TypeOK
<1>1. ClientInv => TypeOK
  BY DEF ClientInv
<1>. QED BY <1>1, ClientInvariance, PTL

\* The throttle of main.cpp:131-206 lets one operation per file and spelling in, and its key
\* is pending exactly as long as the operation is, however the threads interleave, the
\* connection breaks and sessions overlap; but for the keys of PUTs that client.cpp:100-115
\* neither carried out nor gave up, which stay, and keep every other operation out.
THEOREM OneJobHolds == Spec => []OneJob
<1>1. ASSUME ClientInv PROVE OneJob
  <2>1. io.pc # "idle" => \A i \in 1..Len(queue) : OpKey(queue[i]) # OpKey(io.req)
    BY <1>1 DEF ClientInv, Throttled, InHand
  <2>2. \A k : (\E r \in Jobs : OpKey(r) = k) <=> Queued(k) \/ InHand(k)
    BY DEF Jobs, Queued, InHand
  <2>3. ASSUME NEW f \in Path, NEW k \in Spelling
        PROVE  <<k, f>> \in pending <=> <<k, f>> \in stuck \/ \E r \in Jobs : OpKey(r) = <<k, f>>
    <3>1. <<k, f>> \in pending <=> Queued(<<k, f>>) \/ InHand(<<k, f>>) \/ <<k, f>> \in stuck
      BY <1>1 DEF ClientInv, Throttled, FileKey
    <3>. QED BY <2>2, <3>1
  <2>4. \A r \in Jobs : OpKey(r) \notin stuck
    BY <1>1, <2>2 DEF ClientInv, Throttled
  <2>. QED BY <1>1, <2>1, <2>3, <2>4 DEF OneJob, ClientInv, Throttled
<1>. QED BY <1>1, ClientInvariance, PTL

-----------------------------------------------------------------------------
(* A file the user erased                                                  *)

\* A file of which nothing is asked that was not asked before.
LEMMA QueueGrows ==
  ASSUME queue \in Seq(Request), queue' \in Seq(Request), NEW f, Forgotten(f),
         Len(queue) <= Len(queue'), \A i \in 1..Len(queue) : queue'[i] = queue[i],
         \A i \in 1..Len(queue') : i > Len(queue) => queue'[i].file # f,
         index'[f] = index[f], entry'[f] = entry[f], io' = io
  PROVE  Forgotten(f)'
<1> DEFINE n == Len(queue)
           m == Len(queue')
<1>1. n \in Nat /\ m \in Nat /\ n <= m
  OBVIOUS
<1>2. /\ \A i \in 1..n : queue'[i] = queue[i]
      /\ \A i \in 1..m : queue'[i].file = f => i \in 1..n
  BY <1>1
<1>3. Removing(f)' <=> Removing(f)
  BY DEF Removing
<1>4. \A j \in Nat : DeletedBefore(f, j) => DeletedBefore(f, j)'
  BY <1>1, <1>2 DEF DeletedBefore
<1>5. DeletedBefore(f, Len(queue) + 1) => DeletedBefore(f, Len(queue) + 1)'
  <2>. SUFFICES ASSUME NEW i \in 1..n, queue[i].method = "DELETE", queue[i].file = f
                PROVE  \E j \in 1..m : j < m + 1 /\ queue'[j].method = "DELETE" /\ queue'[j].file = f
    BY DEF DeletedBefore
  <2>1. i \in 1..m /\ i < m + 1 /\ queue'[i] = queue[i]
    BY <1>1, <1>2
  <2>. QED BY <2>1
<1>6. QueuedOf(f)'
  BY <1>1, <1>2, <1>3, <1>4 DEF Forgotten, QueuedOf
<1>7. InHandOf(f)'
  BY DEF Forgotten, InHandOf
<1>8. index'[f] = None => Removing(f)' \/ DeletedBefore(f, Len(queue) + 1)'
  BY <1>3, <1>5 DEF Forgotten
<1>. QED BY <1>6, <1>7, <1>8 DEF Forgotten

LEMMA QueueStays ==
  ASSUME queue \in Seq(Request), NEW f, Forgotten(f),
         queue' = queue, index'[f] = index[f], entry'[f] = entry[f], io' = io
  PROVE  Forgotten(f)'
BY QueueGrows

\* The requests of the watcher for other files.
LEMMA SubmitForgets ==
  ASSUME queue \in Seq(Request), NEW f, Forgotten(f), NEW r \in Request, r.file # f, Submit(r),
         index'[f] = index[f], entry'[f] = entry[f], io' = io
  PROVE  Forgotten(f)'
<1>1. CASE queue' = queue
  BY <1>1, QueueStays
<1>2. CASE queue' = Append(queue, r)
  <2>1. /\ queue' \in Seq(Request) /\ Len(queue') = Len(queue) + 1 /\ Len(queue) \in Nat
        /\ queue'[Len(queue) + 1] = r /\ \A i \in 1..Len(queue) : queue'[i] = queue[i]
    BY <1>2
  <2>2. \A i \in 1..Len(queue') : i > Len(queue) => queue'[i].file # f
    BY <2>1
  <2>3. Len(queue) <= Len(queue')
    BY <2>1
  <2>. QED BY <2>1, <2>2, <2>3, QueueGrows
<1>. QED BY <1>1, <1>2 DEF Submit

LEMMA SubmitBothForgets ==
  ASSUME queue \in Seq(Request), NEW f, Forgotten(f), NEW r1 \in Request, NEW r2 \in Request,
         r1.file # f, r2.file # f, SubmitBoth(r1, r2),
         index'[f] = index[f], entry'[f] = entry[f], io' = io
  PROVE  Forgotten(f)'
<1>1. PICK s \in {<<>>, <<r1>>}, t \in {<<>>, <<r2>>} : queue' = (queue \o s) \o t
  BY DEF SubmitBoth
<1>2. s \in Seq(Request) /\ t \in Seq(Request) /\ queue \o s \in Seq(Request) /\ queue' \in Seq(Request)
  <2>1. s \in Seq(Request) /\ t \in Seq(Request)
    <3>1. <<>> \in Seq(Request) /\ <<r1>> \in Seq(Request)
      OBVIOUS
    <3>2. <<r2>> \in Seq(Request)
      OBVIOUS
    <3>. QED BY <3>1, <3>2
  <2>2. queue \o s \in Seq(Request)
    BY <2>1
  <2>. QED BY <1>1, <2>1, <2>2
<1>3. /\ Len(queue \o s) = Len(queue) + Len(s) /\ Len(queue') = Len(queue \o s) + Len(t)
      /\ Len(queue) \in Nat /\ Len(s) \in Nat /\ Len(t) \in Nat
  BY <1>1, <1>2
<1>4. /\ \A i \in 1..Len(s) : s[i].file # f
      /\ \A i \in 1..Len(t) : t[i].file # f
  BY <1>1
<1>5. \A i \in 1..Len(queue) : queue'[i] = queue[i]
  BY <1>1, <1>2, <1>3
<1>6. ASSUME NEW i \in 1..Len(queue'), i > Len(queue) PROVE queue'[i].file # f
  <2>1. CASE i <= Len(queue \o s)
    <3>1. i - Len(queue) \in 1..Len(s) /\ queue'[i] = s[i - Len(queue)]
      BY <1>1, <1>2, <1>3, <1>6, <2>1
    <3>. QED BY <1>4, <3>1
  <2>2. CASE i > Len(queue \o s)
    <3>1. i - Len(queue \o s) \in 1..Len(t) /\ queue'[i] = t[i - Len(queue \o s)]
      BY <1>1, <1>2, <1>3, <1>6, <2>2
    <3>. QED BY <1>4, <3>1
  <2>. QED BY <1>2, <1>3, <2>1, <2>2
<1>7. Len(queue) <= Len(queue')
  BY <1>3
<1>. QED BY <1>2, <1>5, <1>6, <1>7, QueueGrows

\* What there is of a file.
LEMMA FileFacts ==
  ASSUME ClientInv, NEW f \in Path
  PROVE  /\ f # None /\ disk \in Folder
         /\ queue \in Seq(Request) /\ io.req \in Request
         /\ index \in [Path -> {None} \cup Dated] /\ scan \in ScanRecord
BY WorkFacts, WatchFacts, NoneIsNone DEF ClientInv, TypeOK

\* The file of a request.
LEMMA ReqFile ==
  ASSUME NEW m, NEW f, NEW n
  PROVE  Req(m, f, n).file = f /\ Req(m, f, n).method = m /\ OpKey(Req(m, f, n)) = <<n.key, f>>
BY DEF Req, OpKey

\* A scan that finds the file erased asks for it to be deleted: its key is free.
LEMMA CheckErasedForgets ==
  ASSUME ClientInv, Still, NEW f \in Path, disk[f] = None, Forgotten(f), NEW g \in Path, CheckErased(g)
  PROVE  Forgotten(f)'
<1> DEFINE r == Req("DELETE", g, index[g])
<1>1. /\ UNCHANGED <<disk, entry, io>> /\ g \in scan.todo /\ scan.pc = "erased"
  BY DEF CheckErased, Watching, user, server, worker
<1>2. index[g] # None
  BY <1>1 DEF ClientInv, Scanned
<1>3. r \in Request /\ r.file = g /\ r.method = "DELETE" /\ OpKey(r) = <<index[g].key, g>>
      /\ OpKey(r) \in FileKey
  <2>1. index[g].key \in Spelling /\ index[g].hash \in Content
    BY <1>2, FileFacts DEF Dated
  <2>. QED BY <2>1, ReqFacts, ReqFile DEF FileKey
<1>4. CASE disk[g] # None
  BY <1>1, <1>4, FileFacts, QueueStays DEF CheckErased
<1>5. CASE disk[g] = None
  <2>1. Submit(r) /\ index' = [index EXCEPT ![g] = None]
    BY <1>5 DEF CheckErased
  <2>2. CASE g # f
    <3>1. index'[f] = index[f]
      BY <2>1, <2>2, FileFacts
    <3>. QED BY <1>1, <1>3, <2>1, <2>2, <3>1, FileFacts, SubmitForgets
  <2>3. CASE g = f
    <3>1. /\ \A i \in 1..Len(queue) : queue[i].file # f
          /\ ~(io.pc # "idle" /\ io.req.file = f)
      BY <1>2, <2>3 DEF Forgotten, QueuedOf, InHandOf
    <3>2. OpKey(r) \notin pending
      <4>1. ~Queued(OpKey(r)) /\ ~InHand(OpKey(r))
        BY <1>3, <2>3, <3>1 DEF Queued, InHand, OpKey
      <4>. QED BY <1>3, <4>1 DEF ClientInv, Throttled, Still
    <3>3. queue' = Append(queue, r)
      BY <2>1, <3>2 DEF Submit
    <3>. HIDE DEF r
    <3>4. /\ Len(queue') = Len(queue) + 1 /\ Len(queue) \in Nat
          /\ queue'[Len(queue) + 1] = r /\ \A i \in 1..Len(queue) : queue'[i] = queue[i]
      BY <1>3, <3>3, FileFacts
    <3>5. index'[f] = None
      BY <2>1, <2>3, FileFacts
    <3>6. \A i \in 1..Len(queue') : queue'[i].file = f => queue'[i].method = "DELETE"
      BY <1>3, <3>1, <3>4
    <3>7. DeletedBefore(f, Len(queue) + 1)'
      BY <1>3, <2>3, <3>4 DEF DeletedBefore
    <3>8. QueuedOf(f)'
      BY <3>5, <3>6 DEF QueuedOf
    <3>9. InHandOf(f)'
      BY <1>1, <3>1 DEF InHandOf
    <3>. QED BY <3>7, <3>8, <3>9 DEF Forgotten
  <2>. QED BY <2>2, <2>3
<1>. QED BY <1>4, <1>5

\* What the server still lists is not fetched before it is deleted.
LEMMA CheckMissingForgets ==
  ASSUME ClientInv, Still, NEW f \in Path, disk[f] = None, Forgotten(f), NEW g \in Path, CheckMissing(g)
  PROVE  Forgotten(f)'
<1> DEFINE r == Req("GET", g, scan.copy[g])
<1>1. /\ UNCHANGED <<index, entry, io>> /\ g \in scan.todo /\ scan.pc = "missing"
      /\ \/ index[g] = None /\ Submit(r)
         \/ UNCHANGED <<pending, queue>>
  BY DEF CheckMissing, Watching, user, server, worker
<1>2. r \in Request /\ r.file = g /\ r.method = "GET"
  <2>1. scan.copy[g] \in Node
    BY <1>1, FileFacts DEF ClientInv, Scanned, ScanRecord
  <2>2. scan.copy[g].key \in Spelling /\ scan.copy[g].hash \in Content
    BY <2>1 DEF Node
  <2>. QED BY <2>2, ReqFacts, ReqFile
<1>. HIDE DEF r
<1>3. CASE queue' = queue
  BY <1>1, <1>3, FileFacts, QueueStays
<1>4. CASE index[g] = None /\ Submit(r) /\ queue' # queue
  <2>1. CASE g # f
    BY <1>1, <1>2, <1>4, <2>1, FileFacts, SubmitForgets
  <2>2. CASE g = f
    <3>1. queue' = Append(queue, r)
      BY <1>4 DEF Submit
    <3>2. /\ Len(queue') = Len(queue) + 1 /\ Len(queue) \in Nat
          /\ queue'[Len(queue) + 1] = r /\ \A i \in 1..Len(queue) : queue'[i] = queue[i]
      BY <1>2, <3>1, FileFacts
    <3>3. Removing(f)' <=> Removing(f)
      BY <1>1 DEF Removing
    <3>4. Removing(f) \/ DeletedBefore(f, Len(queue) + 1)
      BY <1>4, <2>2 DEF Forgotten
    <3>5. \A j \in 1..Len(queue) + 1 : DeletedBefore(f, j) => DeletedBefore(f, j)'
      BY <3>2 DEF DeletedBefore
    <3>6. QueuedOf(f)'
      <4>. SUFFICES ASSUME NEW i \in 1..Len(queue'), queue'[i].file = f
                    PROVE  /\ index'[f] = None
                           /\ \/ queue'[i].method = "DELETE"
                              \/ queue'[i].method = "GET" /\ (Removing(f)' \/ DeletedBefore(f, i)')
        BY DEF QueuedOf
      <4>1. index'[f] = None
        BY <1>1, <1>4, <2>2
      <4>2. CASE i = Len(queue) + 1
        BY <1>2, <3>2, <3>3, <3>4, <3>5, <4>1, <4>2
      <4>3. CASE i \in 1..Len(queue)
        BY <3>2, <3>3, <3>5, <4>1, <4>3 DEF Forgotten, QueuedOf
      <4>. QED BY <3>2, <4>2, <4>3
    <3>7. InHandOf(f)'
      BY <1>1 DEF Forgotten, InHandOf
    <3>8. Removing(f)' \/ DeletedBefore(f, Len(queue) + 1)'
      BY <3>2, <3>3, <3>4 DEF DeletedBefore
    <3>. QED BY <3>6, <3>7, <3>8 DEF Forgotten
  <2>. QED BY <2>1, <2>2
<1>. QED BY <1>1, <1>3, <1>4

\* The rest of a scan does nothing about a file that is not there.
LEMMA ScanForgets ==
  ASSUME ClientInv, Still, NEW f \in Path, disk[f] = None, Forgotten(f),
         \/ BeginScan \/ EndErased \/ EndFiles \/ EndScan
         \/ \E g \in Path : Visit(g)
         \/ Created \/ Compared
  PROVE  Forgotten(f)'
<1>1. UNCHANGED <<entry, io>>
  BY DEF BeginScan, EndErased, EndFiles, EndScan, Visit, Created, Compared, Watching, server, worker
<1>2. CASE BeginScan \/ EndErased \/ EndFiles \/ EndScan
  BY <1>1, <1>2, FileFacts, QueueStays DEF BeginScan, EndErased, EndFiles, EndScan
<1>3. ASSUME NEW g \in Path, Visit(g) PROVE Forgotten(f)'
  <2>1. queue' = queue /\ index'[f] = index[f]
    BY <1>3, FileFacts DEF Visit
  <2>. QED BY <1>1, <2>1, FileFacts, QueueStays
<1>4. CASE Created
  <2> DEFINE g == scan.file
             n == [key |-> "rel", hash |-> disk[g].data, time |-> scan.time]
  <2>1. /\ g \in Path /\ disk[g] # None
        /\ index' = [index EXCEPT ![g] = n] /\ Submit(Req("PUT", g, n))
    BY <1>4 DEF Created, Watching, ClientInv, Scanned
  <2>2. g # f /\ index'[f] = index[f]
    BY <2>1, FileFacts
  <2>3. n.key \in Spelling /\ n.hash \in Content
    BY <2>1, FileFacts DEF Folder, Spelling
  <2>. HIDE DEF n
  <2>4. Req("PUT", g, n) \in Request /\ Req("PUT", g, n).file = g
    BY <2>1, <2>3, ReqFacts, ReqFile
  <2>. QED BY <1>1, <2>1, <2>2, <2>4, FileFacts, SubmitForgets
<1>5. CASE Compared
  <2> DEFINE g == scan.file
             now == IF disk[g] = None THEN Empty ELSE disk[g].data
             modified == Redated(g) /\ index[g].hash # now
             fresh == [index[g] EXCEPT !.hash = now, !.time = scan.time]
             n == [key |-> "rel", hash |-> now]
             whole == Req("PUT", g, n)
             change == Req("PUT", g, fresh)
  <2>1. /\ g \in Path /\ index[g] # None
        /\ disk[g] = None => ~Untracked(g) /\ ~modified
        /\ index' = (IF modified THEN [index EXCEPT ![g] = fresh] ELSE index)
        /\ CASE Untracked(g) /\ modified  -> SubmitBoth(whole, change)
             [] Untracked(g) /\ ~modified -> Submit(whole)
             [] ~Untracked(g) /\ modified -> Submit(change)
             [] OTHER                     -> UNCHANGED <<pending, queue>>
    BY <1>5 DEF Compared, Watching, ClientInv, Scanned
  <2>2. now \in Content
    BY <2>1, FileFacts, NoneIsNone DEF Folder
  <2>3. fresh.key \in Spelling /\ fresh.hash \in Content /\ n.key \in Spelling /\ n.hash \in Content
    <3>1. index[g] \in Dated
      BY <2>1, FileFacts
    <3>. HIDE DEF now
    <3>. QED BY <2>2, <3>1 DEF Dated, Spelling
  <2>. HIDE DEF now, modified, fresh, n
  <2>4. /\ whole \in Request /\ whole.file = g
        /\ change \in Request /\ change.file = g
    BY <2>1, <2>3, ReqFacts, ReqFile
  <2>. HIDE DEF whole, change
  <2>5. CASE disk[g] = None
    <3>1. queue' = queue /\ index' = index
      BY <2>1, <2>5
    <3>. QED BY <1>1, <3>1, FileFacts, QueueStays
  <2>6. CASE disk[g] # None
    <3>1. g # f /\ index'[f] = index[f]
      BY <2>1, <2>6, FileFacts
    <3>2. SubmitBoth(whole, change) \/ Submit(whole) \/ Submit(change) \/ queue' = queue
      BY <2>1
    <3>. QED BY <1>1, <2>4, <3>1, <3>2, FileFacts, SubmitForgets, SubmitBothForgets, QueueStays
  <2>. QED BY <2>5, <2>6
<1>. QED BY <1>2, <1>3, <1>4, <1>5

\* The io thread takes a request up: what is before it in the queue is over.
LEMMA TakeForgets ==
  ASSUME ClientInv, Still, NEW f \in Path, disk[f] = None, Forgotten(f), Take
  PROVE  Forgotten(f)'
<1> DEFINE r == Head(queue)
<1>1. /\ io.pc = "idle" /\ queue # <<>> /\ queue' = Tail(queue) /\ UNCHANGED <<index, entry>>
      /\ io' = [Idle EXCEPT !.pc = "start", !.req = r]
  BY DEF Take, Working, watcher, server
<1>2. io'.pc = "start" /\ io'.req = r
  BY <1>1 DEF Idle
<1>3. /\ Len(queue) \in Nat \ {0} /\ Len(queue') = Len(queue) - 1
      /\ r = queue[1] /\ \A i \in 1..Len(queue') : queue'[i] = queue[i + 1]
  BY <1>1, FileFacts
<1>. HIDE DEF r
<1>4. 1 \in 1..Len(queue) /\ ~DeletedBefore(f, 1)
  BY <1>3 DEF DeletedBefore
<1>5. Removing(f) => Removing(f)'
  BY <1>1 DEF Removing
<1>6. ASSUME NEW j \in 1..Len(queue), DeletedBefore(f, j + 1)
      PROVE  Removing(f)' \/ DeletedBefore(f, j)'
  <2>1. PICK i \in 1..Len(queue) : i < j + 1 /\ queue[i].method = "DELETE" /\ queue[i].file = f
    BY <1>6 DEF DeletedBefore
  <2>2. CASE i = 1
    BY <1>2, <1>3, <2>1, <2>2 DEF Removing
  <2>3. CASE i # 1
    <3>1. i - 1 \in 1..Len(queue') /\ i - 1 < j /\ queue'[i - 1] = queue[i]
      BY <1>3, <2>1, <2>3
    <3>. QED BY <2>1, <3>1 DEF DeletedBefore
  <2>. QED BY <2>2, <2>3
<1>7. QueuedOf(f)'
  <2>. SUFFICES ASSUME NEW i \in 1..Len(queue'), queue'[i].file = f
                PROVE  /\ index'[f] = None
                       /\ \/ queue'[i].method = "DELETE"
                          \/ queue'[i].method = "GET" /\ (Removing(f)' \/ DeletedBefore(f, i)')
    BY DEF QueuedOf
  <2>1. i + 1 \in 1..Len(queue) /\ i \in 1..Len(queue) /\ queue'[i] = queue[i + 1]
    BY <1>3
  <2>2. /\ index[f] = None
        /\ \/ queue[i + 1].method = "DELETE"
           \/ queue[i + 1].method = "GET" /\ (Removing(f) \/ DeletedBefore(f, i + 1))
    BY <2>1 DEF Forgotten, QueuedOf
  <2>. QED BY <1>1, <1>5, <1>6, <2>1, <2>2
<1>8. InHandOf(f)'
  <2>. SUFFICES ASSUME r.file = f
                PROVE  /\ index'[f] = None
                       /\ r.method = "DELETE" \/ (r.method = "GET" /\ entry'[f] = None)
    BY <1>2 DEF InHandOf
  <2>1. index[f] = None /\ (r.method = "DELETE" \/ (r.method = "GET" /\ Removing(f)))
    BY <1>3, <1>4 DEF Forgotten, QueuedOf
  <2>. QED BY <1>1, <2>1 DEF Removing
<1>9. index'[f] = None => Removing(f)' \/ DeletedBefore(f, Len(queue) + 1)'
  <2>1. index[f] = None => Removing(f) \/ DeletedBefore(f, Len(queue) + 1)
    BY DEF Forgotten
  <2>2. Len(queue) \in 1..Len(queue) /\ Len(queue') + 1 = Len(queue)
    BY <1>3
  <2>3. ASSUME DeletedBefore(f, Len(queue) + 1)
        PROVE  Removing(f)' \/ \E i \in 1..Len(queue') : queue'[i].method = "DELETE" /\ queue'[i].file = f
    BY <1>6, <2>2, <2>3 DEF DeletedBefore
  <2>4. (\E i \in 1..Len(queue') : queue'[i].method = "DELETE" /\ queue'[i].file = f)
           => DeletedBefore(f, Len(queue) + 1)'
    BY <1>3 DEF DeletedBefore
  <2>. QED BY <1>1, <1>5, <2>1, <2>3, <2>4
<1>. QED BY <1>7, <1>8, <1>9 DEF Forgotten

\* A request goes on, or is over: if it is about the file it has been carried out.
LEMMA HandForgets ==
  ASSUME NEW f, Forgotten(f), io.pc # "idle", io'.req = io.req \/ io'.pc = "idle",
         io.req.file # f, queue' = queue, index'[f] = index[f], entry'[f] = entry[f]
  PROVE  Forgotten(f)'
<1>1. Removing(f) => Removing(f)'
  BY DEF Removing
<1>2. \A j : DeletedBefore(f, j)' <=> DeletedBefore(f, j)
  BY DEF DeletedBefore
<1>3. QueuedOf(f)'
  BY <1>1, <1>2 DEF Forgotten, QueuedOf
<1>4. InHandOf(f)'
  BY DEF InHandOf
<1>5. index'[f] = None => Removing(f)' \/ DeletedBefore(f, Len(queue) + 1)'
  BY <1>1 DEF Forgotten, DeletedBefore
<1>. QED BY <1>3, <1>4, <1>5 DEF Forgotten

LEMMA DoneForgets ==
  ASSUME NEW f, Forgotten(f), io.pc # "idle", entry'[f] = None, queue' = queue, index'[f] = index[f],
         \/ io'.pc = "idle"
         \/ /\ io'.req = io.req
            /\ io.req.method = "GET" => io'.pc = "answer" /\ io'.ans = "NOT_FOUND"
  PROVE  Forgotten(f)'
<1>1. Removing(f)'
  BY DEF Removing
<1>2. QueuedOf(f)'
  BY <1>1 DEF Forgotten, QueuedOf
<1>3. InHandOf(f)'
  BY DEF Forgotten, InHandOf
<1>. QED BY <1>1, <1>2, <1>3 DEF Forgotten

\* What the io thread and the server do leaves an erased file alone, or deletes it.
LEMMA AskForgets ==
  ASSUME ClientInv, Still, NEW f \in Path, disk[f] = None, Forgotten(f),
         AskPut \/ AskDelete \/ AskGet \/ AskSnapshot
  PROVE  Forgotten(f)' /\ disk'[f] = None
<1> DEFINE g == io.req.file
<1>1. /\ io.pc = "start" /\ UNCHANGED <<disk, index, queue>> /\ io \in IoRecord /\ entry \in Held
      /\ io.req.method \in {"PUT", "DELETE", "GET", "SNAPSHOT"}
      /\ io'.req = io.req
  <2>1. io.pc = "start" /\ UNCHANGED <<disk, index, queue>>
    BY DEF AskPut, AskDelete, AskGet, AskSnapshot, Asking, Working, watcher, shared
  <2>2. io'.req = io.req
    BY WorkFacts DEF AskPut, AskDelete, AskGet, AskSnapshot, Ends, IoRecord
  <2>. QED BY <2>1, <2>2, WorkFacts DEF Request
<1>2. CASE g # f
  <2>1. entry'[f] = entry[f]
    BY <1>1, <1>2, FileFacts DEF AskPut, AskDelete, AskGet, AskSnapshot, Held
  <2>. QED BY <1>1, <1>2, <2>1, FileFacts, HandForgets
<1>3. CASE g = f
  <2>1. /\ io.req.method \in {"DELETE", "GET"}
        /\ io.req.method = "GET" => entry[f] = None
    BY <1>1, <1>3 DEF Forgotten, InHandOf
  <2>2. CASE io.req.method = "DELETE"
    <3>1. entry'[f] = None
      BY <1>1, <1>3, <2>2, FileFacts DEF AskPut, AskDelete, AskGet, AskSnapshot, Asking, Held
    <3>. QED BY <1>1, <2>2, <3>1, FileFacts, DoneForgets
  <2>3. CASE io.req.method = "GET"
    <3>1. entry[f] = None /\ AskGet
      BY <2>1, <2>3 DEF AskPut, AskDelete, AskGet, AskSnapshot, Asking
    <3>2. entry'[f] = None /\ Ends("NOT_FOUND")
      BY <1>1, <1>3, <3>1, FileFacts DEF AskGet, Held
    <3>3. io'.pc = "answer" /\ io'.ans = "NOT_FOUND"
      BY <1>1, <3>2, EndsFacts DEF Answer
    <3>. QED BY <1>1, <3>2, <3>3, FileFacts, DoneForgets
  <2>. QED BY <2>1, <2>2, <2>3
<1>. QED BY <1>2, <1>3

LEMMA SendForgets ==
  ASSUME ClientInv, Still, NEW f \in Path, disk[f] = None, Forgotten(f), Send
  PROVE  Forgotten(f)' /\ disk'[f] = None
<1> DEFINE g == io.req.file
<1>1. /\ io.pc = "send" /\ UNCHANGED <<index, queue>> /\ io \in IoRecord /\ entry \in Held
      /\ io.req.method = "PUT" /\ Opened(g)
  BY WorkFacts DEF Send, Working, watcher, shared, Carried
<1>2. g # f
  BY <1>1 DEF Forgotten, InHandOf
<1>3. disk'[f] = None
  BY <1>1, <1>2, FileFacts DEF Opened, Folder
<1>4. entry'[f] = entry[f]
  BY <1>1, <1>2, FileFacts DEF Send, Held
<1>5. io'.req = io.req
  BY <1>1 DEF Send, Ends, IoRecord
<1>. QED BY <1>1, <1>2, <1>3, <1>4, <1>5, HandForgets

\* With no session left behind the list is the server's, and a file comes as it is.
LEMMA StillServes ==
  ASSUME ClientInv, Still
  PROVE  /\ \A f : ~Overlapped(f)
         /\ SnapshotAnswered => \/ known' = known
                                \/ known' = [f \in Path |-> IF known[f] = None /\ entry[f] # None
                                                            THEN [key |-> "abs", hash |-> entry[f]]
                                                            ELSE known[f]]
<1>1. \A f : ~Overlapped(f)
  BY DEF Overlapped, Still
<1>2. \A l \in Listings : \A f \in Path : l[f] = entry[f]
  BY <1>1 DEF Listings
<1>3. ASSUME NEW l \in Listings
      PROVE  [f \in Path |-> IF known[f] = None /\ l[f] # None
                             THEN [key |-> "abs", hash |-> l[f]] ELSE known[f]]
             = [f \in Path |-> IF known[f] = None /\ entry[f] # None
                               THEN [key |-> "abs", hash |-> entry[f]] ELSE known[f]]
  BY <1>2
<1>. QED BY <1>1, <1>3 DEF SnapshotAnswered

LEMMA AnswerForgets ==
  ASSUME ClientInv, Still, NEW f \in Path, disk[f] = None, Forgotten(f),
         PutAnswered \/ DeleteAnswered \/ GetFailed \/ SnapshotAnswered \/ GetAnswered \/ Fetch
  PROVE  Forgotten(f)' /\ disk'[f] = None
<1> DEFINE g == io.req.file
<1>1. /\ UNCHANGED <<index, queue, entry>> /\ io \in IoRecord /\ io.pc \in {"answer", "fetch"}
      /\ io'.pc = "idle" \/ io'.req = io.req
  <2>1. CASE PutAnswered \/ DeleteAnswered \/ GetFailed \/ SnapshotAnswered \/ Fetch
    BY <2>1, WorkFacts DEF PutAnswered, DeleteAnswered, GetFailed, SnapshotAnswered, Fetch, Answering,
                           Working, watcher, server, Over, Idle
  <2>2. CASE GetAnswered
    BY <2>2, WorkFacts DEF GetAnswered, Answering, Working, watcher, server, shared, IoRecord
  <2>. QED BY <2>1, <2>2
<1>2. CASE g # f
  <2>1. disk'[f] = None
    BY <1>2, FileFacts DEF PutAnswered, DeleteAnswered, GetFailed, SnapshotAnswered, GetAnswered, Fetch, Folder
  <2>. QED BY <1>1, <1>2, <2>1, HandForgets
<1>3. CASE g = f
  <2>1. \/ io.req.method = "DELETE"
        \/ io.req.method = "GET" /\ entry[f] = None /\ io.pc = "answer" /\ io.ans = "NOT_FOUND"
    BY <1>1, <1>3 DEF Forgotten, InHandOf
  <2>2. DeleteAnswered \/ GetFailed
    BY <2>1, WorkFacts DEF PutAnswered, DeleteAnswered, GetFailed, SnapshotAnswered, GetAnswered, Fetch,
                Answering, Working, Carried
  <2>3. io'.pc = "idle" /\ UNCHANGED disk
    BY <2>2 DEF DeleteAnswered, GetFailed, Over, Idle
  <2>4. Forgotten(f)'
    <3>1. Removing(f) => Removing(f)'
      BY <1>1 DEF Removing
    <3>2. QueuedOf(f)'
      BY <1>1, <3>1 DEF Forgotten, QueuedOf, DeletedBefore
    <3>3. InHandOf(f)'
      BY <2>3 DEF InHandOf
    <3>4. index'[f] = None => Removing(f)' \/ DeletedBefore(f, Len(queue) + 1)'
      BY <1>1, <3>1 DEF Forgotten, DeletedBefore
    <3>. QED BY <3>2, <3>3, <3>4 DEF Forgotten
  <2>. QED BY <2>3, <2>4, FileFacts
<1>. QED BY <1>2, <1>3

\* A patient user erases a file of which nothing is asked, and which is indexed.
LEMMA EraseForgets ==
  ASSUME ClientInv, Still, Patient, NEW f \in Path, Erase(f)
  PROVE  disk'[f] = None /\ Forgotten(f)'
<1>1. /\ UNCHANGED <<index, entry, queue, io>> /\ disk[f] # None /\ index[f] # None
      /\ \A r \in Jobs : r.file # f
      /\ disk' = [disk EXCEPT ![f] = None]
  BY DEF Erase, MayEdit, server, watcher, shared, worker, Settled
<1>2. /\ \A i \in 1..Len(queue) : queue[i].file # f
      /\ ~(io.pc # "idle" /\ io.req.file = f)
  BY <1>1 DEF Jobs
<1>. QED BY <1>1, <1>2, FileFacts DEF Forgotten, QueuedOf, InHandOf, Folder

\* The steps while nothing disturbs the client.
Edited == \E g \in Path : Erase(g) \/ \E c \in Content : Write(g, c)
Watched == \/ BeginScan \/ EndErased \/ EndFiles \/ EndScan \/ Created \/ Compared
           \/ \E g \in Path : CheckErased(g) \/ Visit(g) \/ CheckMissing(g)
Asks == AskPut \/ AskDelete \/ AskGet \/ AskSnapshot
Replies == \/ PutAnswered \/ DeleteAnswered \/ GetFailed \/ SnapshotAnswered
           \/ GetAnswered \/ Fetch

LEMMA Undisturbed ==
  ASSUME ~Offline, Calm, Next, faults \in Nat, faults' = faults, alive'
  PROVE  /\ UNCHANGED <<faults, connected, link, jammed>> /\ alive /\ Still /\ Still'
         /\ Tick \/ Edited \/ Refresh \/ Watched \/ Take \/ Asks \/ Send \/ Replies
<1>1. ~Stopped /\ ~Start /\ ~Quit /\ ~ReconnectThrows /\ ~ScanThrows
  BY DEF Stopped, Start, Quit, ReconnectThrows, ScanThrows
<1>2. ~Drop /\ ~AskRefused /\ ~SendUnsaved /\ ~SendUnopened /\ ~GetUnopened /\ ~FetchUnsaved
  <2>1. ~Fault
    BY DEF Fault
  <2>. QED BY <2>1 DEF Drop, AskRefused, SendUnsaved, SendUnopened, GetUnopened, FetchUnsaved, Failing
<1>3. ~Reconnect /\ ~Broken /\ ~SendBreaks /\ ~SendJammed
  BY DEF Reconnect, Broken, SendBreaks, SendJammed, Working, Calm, Still
<1>3a. ~AskOverlapped /\ ~Misread /\ ~SendOverlapped /\ \A f \in Path : ~Ended(f)
  <2>1. alive => Still /\ \A f : ~Overlapped(f)
    BY DEF Calm, Still, Overlapped
  <2>2. ~AskOverlapped /\ ~Misread /\ ~SendOverlapped
    BY <2>1 DEF AskOverlapped, Misread, SendOverlapped, Working, Still
  <2>3. \A f \in Path : ~Ended(f)
    BY DEF Ended, Calm, Still
  <2>. QED BY <2>2, <2>3
<1>4. Tick \/ Edited \/ Refresh \/ Watched \/ Take \/ Asks \/ Send \/ Replies
  <2>1. CASE World
    BY <1>1, <1>2, <1>3a, <2>1 DEF World, Edited
  <2>2. CASE Watch
    BY <1>1, <2>2 DEF Watch, Watched
  <2>3. CASE Serve
    BY <1>1, <1>2, <1>3, <1>3a, <2>3 DEF Serve, Asks, Replies
  <2>. QED BY <2>1, <2>2, <2>3 DEF Next
<1>5. CASE Tick \/ Edited \/ Refresh \/ Watched
  <2>1. UNCHANGED <<connected, link, jammed, astray, behind, stuck, alive>>
    BY <1>5 DEF Tick, Edited, Erase, Write, MayEdit, Refresh, SnapshotPut, SnapshotSet, SnapshotWake,
                Looping, Watched, BeginScan, EndErased, EndFiles, EndScan, Created, Compared,
                CheckErased, Visit, CheckMissing, Watching, server, shared, worker
  <2>. QED BY <1>4, <2>1 DEF Calm, Still
<1>6. CASE Take \/ Asks
  <2>1. UNCHANGED <<connected, link, jammed, astray, behind, stuck, alive>>
    BY <1>6 DEF Take, Asks, AskPut, AskDelete, AskGet, AskSnapshot, Asking, Working, server, shared
  <2>. QED BY <1>4, <2>1 DEF Calm, Still
<1>7. CASE Send \/ Replies
  <2>1. UNCHANGED <<connected, link, jammed, astray, behind, stuck, alive>>
    BY <1>7 DEF Send, Replies, PutAnswered, DeleteAnswered, GetFailed, SnapshotAnswered, GetAnswered,
                Fetch, Answering, Working, Over, server, shared
  <2>. QED BY <1>4, <2>1 DEF Calm, Still
<1>. QED BY <1>4, <1>5, <1>6, <1>7

\* The loop of main asks nothing of a file.
LEMMA RefreshForgets ==
  ASSUME ClientInv, Still, NEW f \in Path, disk[f] = None, Forgotten(f), Refresh
  PROVE  Forgotten(f)'
<1>1. UNCHANGED <<index, entry, io>>
  BY DEF Refresh, SnapshotPut, SnapshotSet, SnapshotWake, Looping, server, watcher, worker
<1>2. CASE queue' = queue
  BY <1>1, <1>2, FileFacts, QueueStays
<1>3. CASE queue' = Append(queue, SnapshotReq)
  <2>1. SnapshotReq \in Request /\ SnapshotReq.file # f
    BY RestFacts, FileFacts DEF SnapshotReq
  <2>2. /\ queue' \in Seq(Request) /\ Len(queue') = Len(queue) + 1 /\ Len(queue) \in Nat
        /\ queue'[Len(queue) + 1] = SnapshotReq
        /\ \A i \in 1..Len(queue) : queue'[i] = queue[i]
    BY <1>3, <2>1, FileFacts
  <2>3. \A i \in 1..Len(queue') : i > Len(queue) => queue'[i].file # f
    BY <2>1, <2>2
  <2>. QED BY <1>1, <2>2, <2>3, FileFacts, QueueGrows
<1>. QED BY <1>2, <1>3 DEF Refresh, SnapshotPut, SnapshotSet, SnapshotWake

\* A file the folder lacks, and of which nothing but what is in vain is asked, stays so until the
\* user writes it.
LEMMA ForgottenStays ==
  ASSUME ClientInv, Still, NEW f \in Path, disk[f] = None, Forgotten(f),
         Tick \/ Refresh \/ Watched \/ Take \/ Asks \/ Send \/ Replies
  PROVE  disk'[f] = None /\ Forgotten(f)'
<1>1. CASE Tick
  BY <1>1 DEF Tick, user, server, watcher, shared, worker, Forgotten, QueuedOf, InHandOf, Removing,
              DeletedBefore
<1>2. CASE Refresh
  <2>1. disk' = disk
    BY <1>2 DEF Refresh, SnapshotPut, SnapshotSet, SnapshotWake, Looping, user
  <2>. QED BY <1>2, <2>1, RefreshForgets
<1>3. CASE Watched
  <2>1. disk' = disk
    BY <1>3 DEF Watched, BeginScan, EndErased, EndFiles, EndScan, Created, Compared, CheckErased,
                Visit, CheckMissing, Watching, user
  <2>. QED BY <1>3, <2>1, ScanForgets, CheckErasedForgets, CheckMissingForgets DEF Watched
<1>4. CASE Take
  <2>1. disk' = disk
    BY <1>4 DEF Take
  <2>. QED BY <1>4, <2>1, TakeForgets
<1>5. CASE Asks \/ Send \/ Replies
  BY <1>5, AskForgets, SendForgets, AnswerForgets DEF Asks, Replies
<1>. QED BY <1>1, <1>2, <1>3, <1>4, <1>5

\* Only the user makes a file one that was erased.
LEMMA GoneStays ==
  ASSUME Tick \/ Refresh \/ Watched \/ Take \/ Asks \/ Send \/ Replies
  PROVE  gone' = gone
<1>1. CASE Tick \/ Refresh \/ Take
  BY <1>1 DEF Tick, Refresh, SnapshotPut, SnapshotSet, SnapshotWake, Looping, Take, user
<1>2. CASE Watched
  BY <1>2 DEF Watched, BeginScan, EndErased, EndFiles, EndScan, Created, Compared, CheckErased,
              Visit, CheckMissing, Watching, user
<1>3. CASE Asks \/ Send \/ Replies
  BY <1>3 DEF Asks, AskPut, AskDelete, AskGet, AskSnapshot, Asking, Send, Replies, PutAnswered,
              DeleteAnswered, GetFailed, SnapshotAnswered, GetAnswered, Fetch, Answering
<1>. QED BY <1>1, <1>2, <1>3

\* The io thread meets a fault or none, and goes on unless the login throws.
LEMMA ServeGoesOn ==
  ASSUME Serve
  PROVE  /\ Fault \/ faults' = faults
         /\ ReconnectThrows \/ (alive /\ alive')
<1> DEFINE GoesOn == (Fault \/ faults' = faults) /\ (ReconnectThrows \/ (alive /\ alive'))
<1>1. CASE Take \/ Reconnect \/ ReconnectThrows \/ Broken
  BY <1>1 DEF Take, Reconnect, ReconnectThrows, Broken, Working
<1>2. CASE AskPut \/ AskDelete \/ AskGet \/ AskSnapshot \/ AskRefused \/ AskOverlapped \/ Misread
  BY <1>2 DEF AskPut, AskDelete, AskGet, AskSnapshot, Asking, AskRefused, AskOverlapped, Misread,
              Working, Failing
<1>3. CASE Send \/ SendUnsaved \/ SendOverlapped \/ SendBreaks \/ SendJammed \/ SendUnopened
  BY <1>3 DEF Send, SendUnsaved, SendOverlapped, SendBreaks, SendJammed, SendUnopened, Working, Failing
<1>4. CASE PutAnswered \/ DeleteAnswered \/ GetFailed \/ GetAnswered \/ SnapshotAnswered
  BY <1>4 DEF PutAnswered, DeleteAnswered, GetFailed, GetAnswered, SnapshotAnswered, Answering, Working
<1>5. CASE GetUnopened
  BY <1>5 DEF GetUnopened, Failing
<1>6. CASE Fetch
  BY <1>6 DEF Fetch, Working
<1>7. CASE FetchUnsaved
  BY <1>7 DEF FetchUnsaved, Failing
<1>. QED
  <2>1. GoesOn
    BY <1>1, <1>2, <1>3, <1>4, <1>5, <1>6, <1>7 DEF Serve
  <2>. QED BY <2>1

\* Before the first fault there is none.
LEMMA Faultless ==
  ASSUME Next, faults \in Nat, faults' = 0
  PROVE  faults = 0
<1>1. CASE World \/ Refresh
  BY <1>1 DEF World, Erase, Write, Ended, MayEdit, Tick, Drop, Quit, Start, Fault, Refresh,
              SnapshotPut, SnapshotSet, SnapshotWake, Looping
<1>2. CASE Watch
  BY <1>2 DEF Watch, BeginScan, EndErased, EndFiles, EndScan, Created, Compared, CheckErased, Visit,
              CheckMissing, ScanThrows, Watching
<1>3. CASE Serve
  <2>1. Fault \/ faults' = faults
    BY <1>3, ServeGoesOn
  <2>. QED BY <2>1 DEF Fault
<1>. QED BY <1>1, <1>2, <1>3 DEF Next

\* A client that stops leaves the folder as it is, and nobody touches it afterwards.
LEMMA StoppedLeaves ==
  ASSUME ~Offline, Next, ~alive'
  PROVE  UNCHANGED <<disk, gone>>
<1>1. CASE World \/ Refresh
  BY <1>1 DEF World, Erase, Write, Ended, MayEdit, Tick, Drop, Quit, Start, Stopped, Refresh,
              SnapshotPut, SnapshotSet, SnapshotWake, Looping, user
<1>2. CASE Watch
  BY <1>2 DEF Watch, BeginScan, EndErased, EndFiles, EndScan, Created, Compared, CheckErased, Visit,
              CheckMissing, ScanThrows, Stopped, Watching, user
<1>3. CASE Serve
  BY <1>3, ServeGoesOn DEF ReconnectThrows, Stopped, user
<1>. QED BY <1>1, <1>2, <1>3 DEF Next

\* The user's change of one file is not one of another.
LEMMA EditElsewhere ==
  ASSUME ClientInv, Still, NEW g \in Path, Erase(g) \/ \E c \in Content : Write(g, c), NEW f \in Path, f # g
  PROVE  disk'[f] = disk[f] /\ (Forgotten(f) => Forgotten(f)')
<1>1. UNCHANGED <<index, entry, queue, io>>
  BY DEF Erase, Write, MayEdit, server, watcher, shared, worker
<1>2. disk'[f] = disk[f]
  BY FileFacts DEF Erase, Write, Folder
<1>. QED BY <1>1, <1>2, FileFacts, QueueStays

LEMMA ErasedNext ==
  ASSUME Patient, ~Offline, ClientInv, ErasedInv, [Next]_vars
  PROVE  ErasedInv'
<1>. SUFFICES ASSUME faults' = 0
              PROVE  Calm' /\ StaysErased' /\ (alive' => \A f \in gone' : Forgotten(f)')
  BY DEF ErasedInv
<1>1. faults \in Nat /\ gone \subseteq Path /\ disk \in Folder
  BY WorkFacts, ClientAssumption DEF ClientInv, TypeOK, ClientAssumption
<1>2. CASE UNCHANGED vars
  BY <1>2 DEF vars, user, server, watcher, shared, worker, ErasedInv, Calm, Still, StaysErased,
              Forgotten, QueuedOf, InHandOf, Removing, DeletedBefore
<1>3. CASE Next /\ alive'
  <2>1. faults = 0
    BY <1>1, <1>3, Faultless
  <2>2. /\ UNCHANGED <<faults, connected, link, jammed>> /\ alive /\ Still /\ Still'
        /\ Tick \/ Edited \/ Refresh \/ Watched \/ Take \/ Asks \/ Send \/ Replies
    BY <1>1, <1>3, <2>1, Undisturbed DEF ErasedInv
  <2>3. Calm' /\ StaysErased /\ \A f \in gone : f \in Path /\ disk[f] = None /\ Forgotten(f)
    BY <1>1, <1>3, <2>1, <2>2 DEF ErasedInv, Calm, StaysErased
  <2>4. CASE Tick \/ Refresh \/ Watched \/ Take \/ Asks \/ Send \/ Replies
    BY <2>2, <2>3, <2>4, GoneStays, ForgottenStays DEF StaysErased
  <2>5. CASE Edited
    <3>1. ASSUME NEW g \in Path, Erase(g)
          PROVE  StaysErased' /\ \A f \in gone' : Forgotten(f)'
      <4>1. disk' = [disk EXCEPT ![g] = None] /\ gone' = gone \cup {g}
        BY <3>1 DEF Erase
      <4>2. ASSUME NEW f \in gone, f # g PROVE disk'[f] = None /\ Forgotten(f)'
        BY <1>1, <2>2, <2>3, <3>1, <4>1, <4>2, EditElsewhere
      <4>. QED BY <2>2, <2>3, <3>1, <4>1, <4>2, EraseForgets DEF StaysErased
    <3>2. ASSUME NEW g \in Path, NEW c \in Content, Write(g, c)
          PROVE  StaysErased' /\ \A f \in gone' : Forgotten(f)'
      <4>1. gone' = gone \ {g}
        BY <3>2 DEF Write
      <4>2. ASSUME NEW f \in gone, f # g PROVE disk'[f] = None /\ Forgotten(f)'
        BY <1>1, <2>2, <2>3, <3>2, <4>1, <4>2, EditElsewhere
      <4>. QED BY <2>3, <4>1, <4>2 DEF StaysErased
    <3>. QED BY <2>3, <2>5, <3>1, <3>2 DEF Edited
  <2>. QED BY <2>2, <2>3, <2>4, <2>5
<1>4. CASE Next /\ ~alive'
  <2>1. faults = 0
    BY <1>1, <1>4, Faultless
  <2>2. StaysErased'
    BY <1>4, <2>1, StoppedLeaves DEF ErasedInv, StaysErased
  <2>. QED BY <1>4, <2>2 DEF Calm
<1>. QED BY <1>2, <1>3, <1>4

LEMMA ErasedInit == Init => ErasedInv
BY DEF Init, ErasedInv, Calm, Still, StaysErased

\* Until the first fault every file the user erased is on its way to be forgotten: it is not
\* indexed, or a DELETE of it is carried out before anything fetches it (file_watcher.cpp:38,
\* client.cpp:212-228): ErasedInv.
THEOREM ErasedInvariance ==
  ASSUME Patient, ~Offline
  PROVE  Spec => []ErasedInv
<1>1. ClientInv /\ ErasedInv /\ [Next]_vars => ErasedInv'
  BY ErasedNext
<1>. QED BY <1>1, ErasedInit, ClientInvariance, PTL DEF Spec

\* The file a patient user erases does not come back by itself as long as nothing disturbs
\* the connection and the server: the DELETE of the scan that misses it (file_watcher.cpp:38)
\* is always carried out before the GET of a later scan (file_watcher.cpp:132).
THEOREM ErasedHolds ==
  ASSUME Patient, ~Offline
  PROVE  Spec => [](faults = 0 => StaysErased)
<1>1. ErasedInv => (faults = 0 => StaysErased)
  BY DEF ErasedInv
<1>. QED BY <1>1, ErasedInvariance, PTL

-----------------------------------------------------------------------------
(* The requests of a file                                                  *)

LEMMA JobFacts ==
  ASSUME ClientInv, NEW r \in Jobs
  PROVE  /\ r \in Request /\ Sensible(r)
         /\ r.method # "SNAPSHOT" => r.file \in Path /\ OpKey(r) \in FileKey
         /\ r.method = "SNAPSHOT" => r.file = None
<1>1. r \in Request /\ Sensible(r)
  BY DEF Jobs, ClientInv, TypeOK, Requests
<1>2. SnapshotReq.file = None
  BY DEF SnapshotReq
<1>. QED BY <1>1, <1>2, Keys

\* The request goes on, is over, or is taken up.
LEMMA JobsInHand ==
  ASSUME queue' = queue, io.pc # "idle", io'.pc # "idle", io'.req = io.req
  PROVE  Jobs' = Jobs /\ io.req \in Jobs /\ \A f : FetchesFirst(f)' <=> FetchesFirst(f)
BY DEF Jobs, FetchesFirst

LEMMA JobsOver ==
  ASSUME ClientInv, Still, queue' = queue, io.pc # "idle", io'.pc = "idle"
  PROVE  /\ Jobs' = Jobs \ {io.req} /\ io.req \in Jobs
         /\ \A f : FetchesFirst(f)' <=> FetchesFirst(f)
<1>1. \A i \in 1..Len(queue) : queue[i] # io.req
  BY DEF ClientInv, Throttled, InHand
<1>. QED BY <1>1 DEF Jobs, FetchesFirst

LEMMA JobsTaken ==
  ASSUME ClientInv, Still, Take
  PROVE  /\ Jobs' = Jobs /\ io'.pc = "start" /\ io'.req = queue[1] /\ 1 \in 1..Len(queue)
         /\ io.pc = "idle" /\ Jobs = {queue[i] : i \in 1..Len(queue)}
         /\ \A f : FetchesFirst(f) => FetchesFirst(f)'
<1>1. /\ io.pc = "idle" /\ queue # <<>> /\ queue' = Tail(queue) /\ queue \in Seq(Request)
      /\ io' = [Idle EXCEPT !.pc = "start", !.req = Head(queue)]
  BY DEF Take, Working, ClientInv, TypeOK
<1>2. io'.pc = "start" /\ io'.req = queue[1]
  BY <1>1 DEF Idle
<1>3. /\ Len(queue) \in Nat \ {0} /\ Len(queue') = Len(queue) - 1
      /\ \A i \in 1..Len(queue') : queue'[i] = queue[i + 1]
  BY <1>1
<1>4. Jobs = {queue[i] : i \in 1..Len(queue)}
  BY <1>1 DEF Jobs
<1>5. Jobs' = {queue'[i] : i \in 1..Len(queue')} \cup {queue[1]}
  BY <1>2 DEF Jobs
<1>6. ASSUME NEW i \in 1..Len(queue) PROVE queue[i] \in Jobs'
  <2>1. CASE i = 1
    BY <1>5, <2>1
  <2>2. CASE i # 1
    <3>1. i - 1 \in 1..Len(queue') /\ queue'[i - 1] = queue[i]
      BY <1>3, <2>2
    <3>. QED BY <1>5, <3>1
  <2>. QED BY <2>1, <2>2
<1>7. ASSUME NEW i \in 1..Len(queue') PROVE queue'[i] \in Jobs
  <2>1. i + 1 \in 1..Len(queue) /\ queue'[i] = queue[i + 1]
    BY <1>3
  <2>. QED BY <1>4, <2>1
<1>8. 1 \in 1..Len(queue)
  BY <1>3
<1>9. Jobs' = Jobs
  BY <1>4, <1>5, <1>6, <1>7, <1>8
<1>10. ASSUME NEW f, FetchesFirst(f) PROVE FetchesFirst(f)'
  <2>. SUFFICES ASSUME NEW i \in 1..Len(queue'), NEW j \in 1..Len(queue'),
                       queue'[i].method = "PUT", queue'[i].file = f,
                       queue'[j].method = "GET", queue'[j].file = f
                PROVE  j < i
    BY DEF FetchesFirst
  <2>1. /\ i + 1 \in 1..Len(queue) /\ queue'[i] = queue[i + 1]
        /\ j + 1 \in 1..Len(queue) /\ queue'[j] = queue[j + 1]
    BY <1>3
  <2>2. j + 1 < i + 1
    BY <1>10, <2>1 DEF FetchesFirst
  <2>. QED BY <2>2
<1>. QED BY <1>1, <1>2, <1>4, <1>8, <1>9, <1>10

\* Requests of s join the queue.
LEMMA JobsGrow ==
  ASSUME queue \in Seq(Request), queue' \in Seq(Request), Len(queue) <= Len(queue'),
         \A i \in 1..Len(queue) : queue'[i] = queue[i],
         NEW s, \A i \in 1..Len(queue') : i > Len(queue) => queue'[i] \in s, io' = io
  PROVE  /\ Jobs \subseteq Jobs' /\ Jobs' \subseteq Jobs \cup s
         /\ \A f : FetchesFirst(f) /\ (\A r \in s : r.file = f => r.method # "GET") => FetchesFirst(f)'
<1>1. Len(queue) \in Nat /\ Len(queue') \in Nat
  OBVIOUS
<1>2. \A i \in 1..Len(queue) : i \in 1..Len(queue')
  BY <1>1
<1>3. Jobs \subseteq Jobs'
  BY <1>2 DEF Jobs
<1>4. ASSUME NEW i \in 1..Len(queue') PROVE i \in 1..Len(queue) \/ queue'[i] \in s
  BY <1>1
<1>5. Jobs' \subseteq Jobs \cup s
  BY <1>4 DEF Jobs
<1>6. ASSUME NEW f, FetchesFirst(f), \A r \in s : r.file = f => r.method # "GET"
      PROVE  FetchesFirst(f)'
  <2>. SUFFICES ASSUME NEW i \in 1..Len(queue'), NEW j \in 1..Len(queue'),
                       queue'[i].method = "PUT", queue'[i].file = f,
                       queue'[j].method = "GET", queue'[j].file = f
                PROVE  j < i
    BY DEF FetchesFirst
  <2>1. j \in 1..Len(queue)
    BY <1>4, <1>6
  <2>2. CASE i \in 1..Len(queue)
    BY <1>6, <2>1, <2>2 DEF FetchesFirst
  <2>3. CASE i > Len(queue)
    BY <1>1, <2>1, <2>3
  <2>. QED BY <1>1, <2>2, <2>3
<1>. QED BY <1>3, <1>5, <1>6

\* A request of the watcher: it, or one with its key, is among the requests.
LEMMA JobsSubmitted ==
  ASSUME ClientInv, Still, NEW r \in Request, Sensible(r), r.method # "SNAPSHOT", Submit(r), io' = io
  PROVE  /\ Jobs \subseteq Jobs' /\ Jobs' \subseteq Jobs \cup {r}
         /\ OpKey(r) \in pending => Jobs' = Jobs
         /\ \E q \in Jobs' : OpKey(q) = OpKey(r)
         /\ \A f : FetchesFirst(f) /\ (r.file = f => r.method # "GET") => FetchesFirst(f)'
<1>1. queue \in Seq(Request) /\ OpKey(r) \in FileKey
  BY Keys DEF ClientInv, TypeOK
<1>2. CASE OpKey(r) \in pending
  <2>1. queue' = queue
    BY <1>2 DEF Submit
  <2>2. \E q \in Jobs : OpKey(q) = OpKey(r)
    <3>1. Queued(OpKey(r)) \/ InHand(OpKey(r))
      BY <1>1, <1>2 DEF ClientInv, Throttled, Still
    <3>. QED BY <3>1 DEF Queued, InHand, Jobs
  <2>3. Jobs' = Jobs /\ \A f : FetchesFirst(f) => FetchesFirst(f)'
    BY <2>1 DEF Jobs, FetchesFirst
  <2>. QED BY <2>2, <2>3
<1>3. CASE OpKey(r) \notin pending
  <2>1. queue' = Append(queue, r)
    BY <1>3 DEF Submit
  <2>2. /\ queue' \in Seq(Request) /\ Len(queue') = Len(queue) + 1 /\ Len(queue) \in Nat
        /\ queue'[Len(queue) + 1] = r /\ \A i \in 1..Len(queue) : queue'[i] = queue[i]
    BY <1>1, <2>1
  <2> DEFINE s == {r}
  <2>3. /\ \A i \in 1..Len(queue') : i > Len(queue) => queue'[i] \in s
        /\ Len(queue) <= Len(queue') /\ Len(queue) + 1 \in 1..Len(queue')
    BY <2>2
  <2>. HIDE DEF s
  <2>4. /\ Jobs \subseteq Jobs' /\ Jobs' \subseteq Jobs \cup s
        /\ \A f : FetchesFirst(f) /\ (\A q \in s : q.file = f => q.method # "GET") => FetchesFirst(f)'
    BY <1>1, <2>2, <2>3, JobsGrow
  <2>5. r \in Jobs'
    BY <2>2, <2>3 DEF Jobs
  <2>. QED BY <1>3, <2>4, <2>5 DEF s
<1>. QED BY <1>2, <1>3

LEMMA JobsSubmittedBoth ==
  ASSUME ClientInv, Still, NEW r1 \in Request, Sensible(r1), r1.method # "SNAPSHOT",
         NEW r2 \in Request, Sensible(r2), r2.method # "SNAPSHOT", SubmitBoth(r1, r2), io' = io
  PROVE  /\ Jobs \subseteq Jobs' /\ Jobs' \subseteq Jobs \cup {r1, r2}
         /\ \E q \in Jobs' : OpKey(q) = OpKey(r2)
         /\ \A f : FetchesFirst(f) /\ (\A r \in {r1, r2} : r.file = f => r.method # "GET")
                     => FetchesFirst(f)'
<1>1. queue \in Seq(Request) /\ OpKey(r1) \in FileKey /\ OpKey(r2) \in FileKey
  BY Keys DEF ClientInv, TypeOK
<1> DEFINE s == IF OpKey(r1) \in pending THEN <<>> ELSE <<r1>>
           t == IF OpKey(r2) \in pending \cup {OpKey(r1)} THEN <<>> ELSE <<r2>>
           b == {r1, r2}
<1>2. queue' = (queue \o s) \o t
  BY DEF SubmitBoth
<1>3. s \in Seq(Request) /\ t \in Seq(Request) /\ Len(s) \in Nat /\ Len(t) \in Nat
  <2>1. <<>> \in Seq(Request) /\ <<r1>> \in Seq(Request)
    OBVIOUS
  <2>2. <<r2>> \in Seq(Request)
    OBVIOUS
  <2>. QED BY <2>1, <2>2
<1>4. /\ \A i \in 1..Len(s) : s[i] = r1
      /\ \A i \in 1..Len(t) : t[i] = r2
      /\ OpKey(r1) \notin pending => Len(s) = 1
      /\ OpKey(r2) \notin pending \cup {OpKey(r1)} => Len(t) = 1
  OBVIOUS
<1>. HIDE DEF s, t
<1>5. /\ queue \o s \in Seq(Request) /\ queue' \in Seq(Request) /\ Len(queue) \in Nat
      /\ Len(queue \o s) = Len(queue) + Len(s) /\ Len(queue') = Len(queue) + Len(s) + Len(t)
      /\ \A i \in 1..Len(queue) : queue'[i] = queue[i]
  BY <1>1, <1>2, <1>3
<1>6. ASSUME NEW i \in 1..Len(s)
      PROVE  Len(queue) + i \in 1..Len(queue') /\ queue'[Len(queue) + i] = r1
  <2>1. Len(queue) + i \in 1..Len(queue \o s) /\ (queue \o s)[Len(queue) + i] = s[i]
    BY <1>1, <1>3, <1>5
  <2>. QED BY <1>2, <1>3, <1>4, <1>5, <2>1
<1>7. ASSUME NEW i \in 1..Len(t)
      PROVE  Len(queue) + Len(s) + i \in 1..Len(queue') /\ queue'[Len(queue) + Len(s) + i] = r2
  <2>1. queue'[Len(queue \o s) + i] = t[i]
    BY <1>2, <1>3, <1>5
  <2>. QED BY <1>3, <1>4, <1>5, <2>1
<1>8. ASSUME NEW i \in 1..Len(queue'), i > Len(queue) PROVE queue'[i] \in {r1, r2}
  <2>1. CASE i <= Len(queue) + Len(s)
    <3>1. i - Len(queue) \in 1..Len(s) /\ Len(queue) + (i - Len(queue)) = i
      BY <1>3, <1>5, <1>8, <2>1
    <3>. QED BY <1>6, <3>1
  <2>2. CASE i > Len(queue) + Len(s)
    <3> DEFINE k == i - (Len(queue) + Len(s))
    <3>1. k \in 1..Len(t) /\ Len(queue) + Len(s) + k = i
      BY <1>3, <1>5, <1>8, <2>2
    <3>. HIDE DEF k
    <3>. QED BY <1>7, <3>1
  <2>. QED BY <1>3, <1>5, <2>1, <2>2
<1>9. Len(queue) <= Len(queue') /\ \A i \in 1..Len(queue') : i > Len(queue) => queue'[i] \in b
  BY <1>3, <1>5, <1>8
<1>. HIDE DEF b
<1>10. /\ Jobs \subseteq Jobs' /\ Jobs' \subseteq Jobs \cup b
       /\ \A f : FetchesFirst(f) /\ (\A r \in b : r.file = f => r.method # "GET")
                   => FetchesFirst(f)'
  BY <1>1, <1>5, <1>9, JobsGrow
<1>11. \E q \in Jobs' : OpKey(q) = OpKey(r2)
  <2>1. CASE OpKey(r2) \in pending
    <3>1. Queued(OpKey(r2)) \/ InHand(OpKey(r2))
      BY <1>1, <2>1 DEF ClientInv, Throttled, Still
    <3>2. \E q \in Jobs : OpKey(q) = OpKey(r2)
      BY <3>1 DEF Queued, InHand, Jobs
    <3>. QED BY <1>10, <3>2
  <2>2. CASE OpKey(r2) \notin pending /\ OpKey(r2) = OpKey(r1)
    <3>1. 1 \in 1..Len(s)
      BY <1>4, <2>2
    <3>2. r1 \in Jobs'
      BY <1>6, <3>1 DEF Jobs
    <3>. QED BY <2>2, <3>2
  <2>3. CASE OpKey(r2) \notin pending /\ OpKey(r2) # OpKey(r1)
    <3>1. 1 \in 1..Len(t)
      BY <1>4, <2>3
    <3>2. r2 \in Jobs'
      BY <1>7, <3>1 DEF Jobs
    <3>. QED BY <3>2
  <2>. QED BY <2>1, <2>2, <2>3
<1>. QED BY <1>10, <1>11 DEF b

\* What the watcher asks for a file it finds new, and for one it compares.
LEMMA CreatedJobs ==
  ASSUME ClientInv, Still, Created, NEW f, f = scan.file
  PROVE  /\ f \in Path /\ disk[f] # None /\ index[f] = None /\ Untracked(f) /\ scan.pc = "examine"
         /\ index' = [index EXCEPT ![f] = [key |-> "rel", hash |-> disk[f].data, time |-> scan.time]]
         /\ UNCHANGED <<disk, clock, file, entry, known, io>> /\ scan' = Examined
         /\ Jobs \subseteq Jobs'
         /\ \A r \in Jobs' \ Jobs : r.method = "PUT" /\ r.file = f /\ r.hash = disk[f].data
         /\ \A g : FetchesFirst(g) => FetchesFirst(g)'
<1> DEFINE n == [key |-> "rel", hash |-> disk[f].data, time |-> scan.time]
           r == Req("PUT", f, n)
<1>1. /\ f \in Path /\ disk[f] # None /\ index[f] = None /\ Untracked(f) /\ scan.pc = "examine"
      /\ index' = [index EXCEPT ![f] = n] /\ Submit(r) /\ scan' = Examined
      /\ UNCHANGED <<disk, clock, file, entry, known, io>>
  BY DEF Created, Watching, ClientInv, Scanned, user, server, worker
<1>2. n.key \in Spelling /\ n.hash \in Content /\ n.hash = disk[f].data
  BY <1>1, FileFacts DEF Folder, Spelling
<1>. HIDE DEF n
<1>3. /\ r \in Request /\ Sensible(r) /\ r.method = "PUT" /\ r.file = f /\ r.hash = disk[f].data
  <2>1. r \in Request /\ Sensible(r) /\ r.method = "PUT" /\ r.file = f
    BY <1>1, <1>2, ReqFacts, ReqFile
  <2>2. r.hash = n.hash
    BY DEF Req
  <2>. QED BY <1>2, <2>1, <2>2
<1>. HIDE DEF r
<1>4. /\ Jobs \subseteq Jobs' /\ Jobs' \subseteq Jobs \cup {r}
      /\ \A g : FetchesFirst(g) => FetchesFirst(g)'
  BY <1>1, <1>3, JobsSubmitted
<1>. QED BY <1>1, <1>3, <1>4 DEF n

\* What a scan hashes; of a file that is gone it finds an empty one.
Now(f) == IF disk[f] = None THEN Empty ELSE disk[f].data

LEMMA ComparedJobs ==
  ASSUME ClientInv, Still, Compared, NEW f, f = scan.file
  PROVE  /\ f \in Path /\ index[f] # None /\ scan.pc = "examine"
         /\ UNCHANGED <<disk, clock, file, entry, known, io>> /\ scan' = Examined
         /\ Jobs \subseteq Jobs'
         /\ \A r \in Jobs' \ Jobs : r.method = "PUT" /\ r.file = f /\ r.hash = Now(f)
         /\ ~Untracked(f) => \A r \in Jobs' \ Jobs : /\ r.key = index[f].key
                                                      /\ <<index[f].key, f>> \notin pending
         /\ \/ index'[f] = index[f]
            \/ /\ disk[f] # None /\ index[f].hash # Now(f) /\ index'[f] # None
               /\ index'[f].hash = Now(f) /\ index'[f].time = scan.time /\ index'[f].key = index[f].key
               /\ \E q \in Jobs' : OpKey(q) = <<index[f].key, f>>
         /\ \A g : FetchesFirst(g) => FetchesFirst(g)'
<1> DEFINE modified == Redated(f) /\ index[f].hash # Now(f)
           fresh == [index[f] EXCEPT !.hash = Now(f), !.time = scan.time]
           n == [key |-> "rel", hash |-> Now(f)]
           whole == Req("PUT", f, n)
           change == Req("PUT", f, fresh)
<1>1. /\ f \in Path /\ index[f] # None /\ scan.pc = "examine"
      /\ UNCHANGED <<disk, clock, file, entry, known, io>> /\ scan' = Examined
  BY DEF Compared, Watching, ClientInv, Scanned, user, server, worker
<1>2. disk[f] = None => ~Untracked(f) /\ ~modified
  BY DEF Compared, Now
<1>3. index' = IF modified THEN [index EXCEPT ![f] = fresh] ELSE index
  BY DEF Compared, Now
<1>4. /\ Untracked(f) /\ modified => SubmitBoth(whole, change)
      /\ Untracked(f) /\ ~modified => Submit(whole)
      /\ ~Untracked(f) /\ modified => Submit(change)
      /\ ~Untracked(f) /\ ~modified => UNCHANGED <<pending, queue>>
  BY DEF Compared, Now
<1>5. Now(f) \in Content /\ index[f] \in Dated
  BY <1>1, FileFacts, NoneIsNone DEF Folder, Now
<1>6. /\ fresh.key = index[f].key /\ fresh.key \in Spelling /\ fresh.hash = Now(f) /\ fresh.hash \in Content
      /\ n.key \in Spelling /\ n.hash = Now(f) /\ fresh.time = scan.time /\ fresh \in Dated
  BY <1>5, FileFacts, <1>1 DEF Dated, Spelling, ScanRecord
<1>. HIDE DEF fresh, n
<1>12. /\ ~modified => index'[f] = index[f]
       /\ modified => /\ disk[f] # None /\ index[f].hash # Now(f) /\ index'[f] = fresh /\ fresh # None
  BY <1>1, <1>2, <1>3, <1>6, FileFacts, NoneIsNone DEF Dated
<1>. HIDE DEF modified
<1>7. /\ whole \in Request /\ Sensible(whole) /\ whole.method = "PUT" /\ whole.file = f /\ whole.hash = Now(f)
      /\ change \in Request /\ Sensible(change) /\ change.method = "PUT" /\ change.file = f
      /\ change.hash = Now(f) /\ change.key = index[f].key /\ OpKey(change) = <<index[f].key, f>>
  <2>1. /\ whole \in Request /\ Sensible(whole) /\ whole.method = "PUT" /\ whole.file = f
        /\ change \in Request /\ Sensible(change) /\ change.method = "PUT" /\ change.file = f
        /\ OpKey(change) = <<index[f].key, f>>
    BY <1>1, <1>5, <1>6, ReqFacts, ReqFile
  <2>2. whole.hash = n.hash /\ change.hash = fresh.hash /\ change.key = fresh.key
    BY DEF Req
  <2>. QED BY <1>6, <2>1, <2>2
<1>. HIDE DEF whole, change
<1>8. CASE Untracked(f) /\ modified
  <2>1. /\ Jobs \subseteq Jobs' /\ Jobs' \subseteq Jobs \cup {whole, change}
        /\ \E q \in Jobs' : OpKey(q) = OpKey(change)
        /\ \A g : FetchesFirst(g) => FetchesFirst(g)'
    BY <1>1, <1>4, <1>7, <1>8, JobsSubmittedBoth
  <2>. QED BY <1>1, <1>2, <1>6, <1>7, <1>8, <1>12, <2>1
<1>9. CASE Untracked(f) /\ ~modified
  <2>1. /\ Jobs \subseteq Jobs' /\ Jobs' \subseteq Jobs \cup {whole}
        /\ \A g : FetchesFirst(g) => FetchesFirst(g)'
    BY <1>1, <1>4, <1>7, <1>9, JobsSubmitted
  <2>. QED BY <1>1, <1>2, <1>7, <1>9, <1>12, <2>1
<1>10. CASE ~Untracked(f) /\ modified
  <2>1. /\ Jobs \subseteq Jobs' /\ Jobs' \subseteq Jobs \cup {change}
        /\ OpKey(change) \in pending => Jobs' = Jobs
        /\ \E q \in Jobs' : OpKey(q) = OpKey(change)
        /\ \A g : FetchesFirst(g) => FetchesFirst(g)'
    BY <1>1, <1>4, <1>7, <1>10, JobsSubmitted
  <2>. QED BY <1>1, <1>2, <1>6, <1>7, <1>10, <1>12, <2>1
<1>11. CASE ~Untracked(f) /\ ~modified
  <2>1. queue' = queue
    BY <1>4, <1>11
  <2>2. Jobs' = Jobs /\ \A g : FetchesFirst(g) => FetchesFirst(g)'
    BY <1>1, <2>1 DEF Jobs, FetchesFirst
  <2>. QED BY <1>1, <1>11, <1>12, <2>2
<1>. QED BY <1>8, <1>9, <1>10, <1>11

\* Nothing happens to a file.
Spared(f) ==
  /\ disk'[f] = disk[f] /\ index'[f] = index[f] /\ known'[f] = known[f]
  /\ file'[f] = file[f] /\ entry'[f] = entry[f]
  /\ \A r : r.file = f => (r \in Jobs' <=> r \in Jobs)
  /\ FetchesFirst(f) => FetchesFirst(f)'
  /\ Hand(f) \/ Hand(f)' => io' = io

LEMMA UploadsSpared ==
  ASSUME NEW f, Spared(f), Uploads(f)
  PROVE  Uploads(f)'
<1>1. /\ Asked("PUT", f)' <=> Asked("PUT", f)
      /\ Asked("GET", f)' <=> Asked("GET", f)
  BY DEF Spared, Asked
<1>2. /\ Hand(f)' <=> Hand(f)
      /\ Hand(f) => io' = io
  BY DEF Spared, Hand
<1>. QED BY <1>1, <1>2 DEF Spared, Uploads

\* The scan goes on with the copy it has, or ends.
ScanGoesOn(f) == \/ scan'.copy[f] = scan.copy[f] /\ (scan'.pc # "sleep" => scan.pc # "sleep")
                 \/ scan' = Asleep

LEMMA DownloadsSpared ==
  ASSUME NEW f \in Path, Spared(f), Downloads(f), ScanGoesOn(f)
  PROVE  Downloads(f)'
<1>1. Asked("GET", f)' <=> Asked("GET", f)
  BY DEF Spared, Asked
<1>2. /\ Hand(f)' <=> Hand(f)
      /\ Hand(f) => io' = io
  BY DEF Spared, Hand
<1>3. scan' = Asleep => scan'.copy[f] = None /\ scan'.pc = "sleep"
  BY DEF Asleep
<1>4. /\ scan'.copy[f] # None => scan'.copy[f] = scan.copy[f]
      /\ scan'.pc # "sleep" => scan.pc # "sleep" /\ scan'.copy[f] = scan.copy[f]
  BY <1>3 DEF ScanGoesOn
<1>. QED BY <1>1, <1>2, <1>4 DEF Spared, Downloads

\* Steps that are about no file.
LEMMA QuietStepSpares ==
  ASSUME ClientInv, Still, NEW f \in Path, Tick \/ Refresh
  PROVE  Spared(f) /\ UNCHANGED <<disk, index, io, file, entry, scan>>
<1>1. UNCHANGED <<disk, index, known, file, entry, io, scan>>
  BY DEF Tick, Refresh, SnapshotPut, SnapshotSet, SnapshotWake, Looping, user, server, watcher, shared,
         worker
<1>2. CASE queue' = queue
  BY <1>1, <1>2 DEF Spared, Jobs, FetchesFirst, Hand
<1>3. CASE queue' = Append(queue, SnapshotReq)
  <2>1. SnapshotReq \in Request /\ SnapshotReq.file # f
    BY RestFacts, FileFacts DEF SnapshotReq
  <2>2. /\ queue \in Seq(Request) /\ queue' \in Seq(Request) /\ Len(queue') = Len(queue) + 1
        /\ Len(queue) \in Nat /\ queue'[Len(queue) + 1] = SnapshotReq
        /\ \A i \in 1..Len(queue) : queue'[i] = queue[i]
    BY <1>3, <2>1, FileFacts
  <2> DEFINE s == {SnapshotReq}
  <2>3. Len(queue) <= Len(queue') /\ \A i \in 1..Len(queue') : i > Len(queue) => queue'[i] \in s
    BY <2>2
  <2>. HIDE DEF s
  <2>4. /\ Jobs \subseteq Jobs' /\ Jobs' \subseteq Jobs \cup s
        /\ FetchesFirst(f) /\ (\A r \in s : r.file = f => r.method # "GET") => FetchesFirst(f)'
    BY <1>1, <2>2, <2>3, JobsGrow
  <2>. QED BY <1>1, <2>1, <2>4 DEF s, Spared, Hand
<1>. QED BY <1>1, <1>2, <1>3 DEF Tick, Refresh, SnapshotPut, SnapshotSet, SnapshotWake, shared

\* A step of the scan that asks nothing.
LEMMA LookSpares ==
  ASSUME NEW f \in Path, UNCHANGED <<disk, known, file, entry, io, queue>>, index'[f] = index[f]
  PROVE  Spared(f)
BY DEF Spared, Jobs, FetchesFirst, Hand

\* A step of the watcher spares every file but the one it is about.
LEMMA WatchedSpares ==
  ASSUME ClientInv, Still, NEW f \in Path, Watched
  PROVE  \/ Spared(f)
         \/ Visit(f) /\ disk[f] # None /\ index[f] = None /\ scan.copy[f] # None
         \/ CheckErased(f) /\ disk[f] = None
         \/ Created /\ scan.file = f
         \/ Compared /\ scan.file = f
         \/ CheckMissing(f) /\ index[f] = None
<1>1. UNCHANGED <<disk, known, file, entry, io>>
  BY DEF Watched, BeginScan, EndErased, EndFiles, EndScan, Created, Compared, CheckErased, Visit,
         CheckMissing, Watching, user, server, worker
<1>2. CASE BeginScan \/ EndErased \/ EndFiles \/ EndScan
  <2>1. UNCHANGED <<index, queue>>
    BY <1>2 DEF BeginScan, EndErased, EndFiles, EndScan
  <2>. QED BY <1>1, <2>1, LookSpares
<1>3. ASSUME NEW g \in Path, Visit(g)
      PROVE  Spared(f) \/ (Visit(f) /\ disk[f] # None /\ index[f] = None /\ scan.copy[f] # None)
  <2>1. queue' = queue
    BY <1>3 DEF Visit
  <2>2. index'[f] = index[f] \/ (g = f /\ disk[f] # None /\ index[f] = None /\ scan.copy[f] # None)
    BY <1>3, FileFacts DEF Visit
  <2>. QED BY <1>1, <1>3, <2>1, <2>2, LookSpares
<1>4. ASSUME NEW g \in Path, CheckErased(g)
      PROVE  Spared(f) \/ (CheckErased(f) /\ disk[f] = None)
  <2> DEFINE r == Req("DELETE", g, index[g])
  <2>1. CASE disk[g] # None
    BY <1>1, <1>4, <2>1, LookSpares DEF CheckErased
  <2>2. CASE disk[g] = None /\ g # f
    <3>1. Submit(r) /\ index'[f] = index[f]
      BY <1>4, <2>2, FileFacts DEF CheckErased
    <3>2. index[g] # None
      BY <1>4 DEF CheckErased, Watching, ClientInv, Scanned
    <3>3. r \in Request /\ Sensible(r) /\ r.method = "DELETE" /\ r.file = g
      <4>1. index[g].key \in Spelling /\ index[g].hash \in Content
        BY <3>2, FileFacts DEF Dated
      <4>. QED BY <4>1, ReqFacts, ReqFile
    <3>. HIDE DEF r
    <3>4. /\ Jobs \subseteq Jobs' /\ Jobs' \subseteq Jobs \cup {r}
          /\ FetchesFirst(f) => FetchesFirst(f)'
      BY <1>1, <3>1, <3>3, JobsSubmitted
    <3>. QED BY <1>1, <2>2, <3>1, <3>3, <3>4 DEF Spared, Hand
  <2>. QED BY <1>4, <2>1, <2>2
<1>5. ASSUME NEW g \in Path, CheckMissing(g)
      PROVE  Spared(f) \/ (CheckMissing(f) /\ index[f] = None)
  <2> DEFINE r == Req("GET", g, scan.copy[g])
  <2>1. index' = index /\ (UNCHANGED <<pending, queue>> \/ (index[g] = None /\ Submit(r)))
    BY <1>5 DEF CheckMissing
  <2>2. CASE queue' = queue
    BY <1>1, <2>1, <2>2, LookSpares
  <2>3. CASE index[g] = None /\ Submit(r) /\ g # f
    <3>1. r \in Request /\ Sensible(r) /\ r.method = "GET" /\ r.file = g
      <4>1. scan.copy[g] \in Node
        BY <1>5, FileFacts DEF CheckMissing, Watching, ClientInv, Scanned, ScanRecord
      <4>2. scan.copy[g].key \in Spelling /\ scan.copy[g].hash \in Content
        BY <4>1 DEF Node
      <4>. QED BY <4>2, ReqFacts, ReqFile
    <3>. HIDE DEF r
    <3>2. /\ Jobs \subseteq Jobs' /\ Jobs' \subseteq Jobs \cup {r}
          /\ FetchesFirst(f) => FetchesFirst(f)'
      BY <1>1, <2>3, <3>1, JobsSubmitted
    <3>. QED BY <1>1, <2>1, <2>3, <3>1, <3>2 DEF Spared, Hand
  <2>. QED BY <1>5, <2>1, <2>2, <2>3
<1>6. CASE Created /\ scan.file # f
  <2>1. /\ scan.file \in Path /\ Jobs \subseteq Jobs'
        /\ index' = [index EXCEPT ![scan.file] = [key |-> "rel", hash |-> disk[scan.file].data,
                                                  time |-> scan.time]]
        /\ \A r \in Jobs' \ Jobs : r.file = scan.file
        /\ FetchesFirst(f) => FetchesFirst(f)'
    BY <1>6, CreatedJobs
  <2>2. index'[f] = index[f]
    BY <1>6, <2>1, FileFacts
  <2>. QED BY <1>1, <1>6, <2>1, <2>2 DEF Spared, Hand
<1>7. CASE Compared /\ scan.file # f
  <2>1. PICK g : g = scan.file
    OBVIOUS
  <2>2. g \in Path /\ Jobs \subseteq Jobs'
    BY <1>7, <2>1, ComparedJobs
  <2>3. \A r \in Jobs' \ Jobs : r.file = g
    BY <1>7, <2>1, ComparedJobs
  <2>4. FetchesFirst(f) => FetchesFirst(f)'
    BY <1>7, <2>1, ComparedJobs
  <2>5. index'[f] = index[f]
    <3>1. \/ index' = index
          \/ \E n : index' = [index EXCEPT ![scan.file] = n]
      BY <1>7 DEF Compared
    <3>. QED BY <1>7, <3>1, FileFacts
  <2>. QED BY <1>1, <1>7, <2>1, <2>2, <2>3, <2>4, <2>5 DEF Spared, Hand
<1>. QED BY <1>2, <1>3, <1>4, <1>5, <1>6, <1>7 DEF Watched

\* The io thread spares every file but that of the request in hand; the list is about all.
LEMMA ServedSpares ==
  ASSUME ClientInv, Still, NEW f \in Path, io.req.file # f, Asks \/ Send \/ (Replies /\ ~SnapshotAnswered)
  PROVE  Spared(f) /\ scan' = scan
<1>1. UNCHANGED <<index, scan, queue>> /\ io.pc # "idle"
  BY DEF Asks, AskPut, AskDelete, AskGet, AskSnapshot, Asking, Send, Replies, PutAnswered,
         DeleteAnswered, GetFailed, GetAnswered, Fetch, Answering, Working, watcher, shared, Over
<1>2. io'.pc = "idle" \/ (io'.pc # "idle" /\ io'.req = io.req)
  <2>1. CASE Asks
    BY <2>1, WorkFacts DEF Asks, AskPut, AskDelete, AskGet, AskSnapshot, Ends, IoRecord
  <2>2. CASE Send
    BY <2>2, WorkFacts DEF Send, Ends, IoRecord
  <2>3. CASE Replies /\ ~SnapshotAnswered
    BY <2>3, WorkFacts DEF Replies, PutAnswered, DeleteAnswered, GetFailed, GetAnswered, Fetch, Over,
                           Idle, IoRecord
  <2>. QED BY <2>1, <2>2, <2>3
<1>3. /\ \A r : r.file = f => (r \in Jobs' <=> r \in Jobs)
      /\ FetchesFirst(f) => FetchesFirst(f)'
  BY <1>1, <1>2, JobsInHand, JobsOver
<1>4. ~Hand(f) /\ ~Hand(f)'
  BY <1>2 DEF Hand
<1>5. disk'[f] = disk[f]
  BY WorkFacts DEF Asks, AskPut, AskDelete, AskGet, AskSnapshot, Asking, Send, Opened, Replies, PutAnswered,
         DeleteAnswered, GetFailed, GetAnswered, Fetch, Folder
<1>6. file'[f] = file[f] /\ entry'[f] = entry[f]
  BY WorkFacts DEF Asks, AskPut, AskDelete, AskGet, AskSnapshot, Asking, Send, Replies, PutAnswered,
         DeleteAnswered, GetFailed, GetAnswered, Fetch, Answering, server, Held
<1>7. known'[f] = known[f]
  BY WorkFacts DEF Asks, AskPut, AskDelete, AskGet, AskSnapshot, Asking, Send, Replies, PutAnswered,
         DeleteAnswered, GetFailed, GetAnswered, Fetch, Answering, shared, Handled, Remember
<1>. QED BY <1>1, <1>3, <1>4, <1>5, <1>6, <1>7 DEF Spared

-----------------------------------------------------------------------------
(* What each file goes through                                             *)

\* Only while it receives a file the server's record of it is not what it has.
LEMMA RecordedStays ==
  ASSUME ClientInv, Still, NEW f \in Path, Recorded(f),
         Tick \/ Edited \/ Refresh \/ Watched \/ Take \/ Asks \/ Send \/ Replies
  PROVE  Recorded(f)'
<1> DEFINE g == io.req.file
<1>1. io \in IoRecord /\ file \in Held /\ entry \in Held
  BY WorkFacts
<1>2. CASE Tick \/ Edited \/ Refresh \/ Watched
  <2>1. UNCHANGED <<file, entry, io>>
    BY <1>2 DEF Tick, Edited, Erase, Write, MayEdit, Refresh, SnapshotPut, SnapshotSet, SnapshotWake,
         Looping, Watched, BeginScan, EndErased, EndFiles, EndScan, Created, Compared, CheckErased,
         Visit, CheckMissing, Watching, server, worker
  <2>. QED BY <2>1 DEF Recorded
<1>3. CASE Take \/ Replies
  <2>1. UNCHANGED <<file, entry>> /\ io.pc # "send"
    BY <1>3 DEF Take, Replies, PutAnswered, DeleteAnswered, GetFailed, SnapshotAnswered, GetAnswered,
         Fetch, Answering, Working, server
  <2>. QED BY <2>1 DEF Recorded
<1>4. CASE Asks
  <2>1. io.pc = "start" /\ file[f] = entry[f]
    BY <1>4 DEF Recorded, Asks, AskPut, AskDelete, AskGet, AskSnapshot, Asking, Working
  <2>2. CASE AskPut
    <3>1. CASE UNCHANGED <<file, entry>>
      BY <2>1, <3>1 DEF Recorded
    <3>2. CASE ~UNCHANGED <<file, entry>>
      <4>1. io' = [io EXCEPT !.pc = "send"]
        BY <2>2, <3>2 DEF AskPut
      <4>2. io'.pc = "send" /\ io'.req = io.req
        BY <1>1, <4>1 DEF IoRecord
      <4>3. g # f => file'[f] = file[f] /\ entry'[f] = entry[f]
        BY <1>1, <2>2 DEF AskPut, Held
      <4>. QED BY <2>1, <4>2, <4>3 DEF Recorded
    <3>. QED BY <3>1, <3>2
  <2>3. CASE AskDelete \/ AskGet \/ AskSnapshot
    <3>1. file'[f] = entry'[f]
      BY <1>1, <2>1, <2>3 DEF AskDelete, AskGet, AskSnapshot, Held
    <3>. QED BY <3>1 DEF Recorded
  <2>. QED BY <1>4, <2>2, <2>3 DEF Asks
<1>5. CASE Send
  <2>1. g # f => file[f] = entry[f]
    BY DEF Recorded
  <2>2. file'[f] = entry'[f]
    BY <1>1, <1>5, <2>1 DEF Send, Held
  <2>. QED BY <2>2 DEF Recorded
<1>. QED BY <1>2, <1>3, <1>4, <1>5

\* The clock goes on, and what the watcher notes of a file it has just seen.
LEMMA InTimeStays ==
  ASSUME ClientInv, Still, NEW f \in Path, InTime(f),
         Tick \/ Edited \/ Refresh \/ Watched \/ Take \/ Asks \/ Send \/ Replies
  PROVE  InTime(f)'
<1> DEFINE g == io.req.file
<1>1. /\ io \in IoRecord /\ disk \in Folder /\ index \in [Path -> {None} \cup Dated]
      /\ scan \in ScanRecord /\ clock \in Nat
      /\ disk[f] # None => disk[f].time \in Nat
      /\ index[f] # None => index[f].time \in Nat
      /\ scan.time \in Nat
  BY WorkFacts, FileFacts, ClientAssumption DEF ClientAssumption, Folder, Dated, ScanRecord
<1>2. CASE Tick
  <2>1. clock' = clock + 1 /\ UNCHANGED <<disk, index, scan>>
    BY <1>2 DEF Tick, user, watcher
  <2>. QED BY <1>1, <2>1 DEF InTime
<1>3. CASE Refresh \/ Take \/ Asks
  <2>1. UNCHANGED <<clock, disk, index, scan>>
    BY <1>3 DEF Refresh, SnapshotPut, SnapshotSet, SnapshotWake, Looping, Take, Asks, AskPut, AskDelete,
         AskGet, AskSnapshot, Asking, Working, user, watcher
  <2>. QED BY <2>1 DEF InTime
<1>4. CASE Edited
  <2>1. UNCHANGED <<clock, index, scan>>
    BY <1>4 DEF Edited, Erase, Write, MayEdit, watcher
  <2>2. CASE disk'[f] = disk[f]
    BY <2>1, <2>2 DEF InTime
  <2>3. CASE disk'[f] # disk[f]
    <3>1. disk'[f] = None \/ disk'[f].time = clock
      <4>1. PICK h \in Path : Erase(h) \/ \E c \in Content : Write(h, c)
        BY <1>4 DEF Edited
      <4>2. CASE Erase(h)
        BY <1>1, <2>3, <4>2 DEF Erase, Folder
      <4>3. ASSUME NEW c \in Content, Write(h, c) PROVE disk'[f].time = clock
        BY <1>1, <2>3, <4>3 DEF Write, Folder
      <4>. QED BY <4>1, <4>2, <4>3
    <3>. QED BY <1>1, <2>1, <3>1 DEF InTime
  <2>. QED BY <2>2, <2>3
<1>5. CASE Send \/ Replies
  <2>1. UNCHANGED <<clock, index, scan>>
    BY <1>5 DEF Send, Replies, PutAnswered, DeleteAnswered, GetFailed, SnapshotAnswered, GetAnswered,
         Fetch, Answering, Working, watcher
  <2>2. disk'[f] = disk[f] \/ (disk'[f] # None /\ disk'[f].time = clock)
    <3>1. disk' = disk \/ \E c \in Content : disk' = [disk EXCEPT ![g] = [data |-> c, time |-> clock]]
      <4>1. CASE Send
        BY <4>1, NoneIsNone DEF Send, Opened
      <4>2. CASE PutAnswered \/ DeleteAnswered \/ GetFailed \/ SnapshotAnswered
        BY <4>2 DEF PutAnswered, DeleteAnswered, GetFailed, SnapshotAnswered
      <4>3. CASE GetAnswered
        BY <4>3, NoneIsNone DEF GetAnswered
      <4>4. CASE Fetch
        <5>1. file[g] \in Content
          BY <4>4, StillServes, WorkFacts, InHandFacts DEF Fetch, Working, Carried, Held
        <5>2. PICK c \in IF disk[g] = None THEN {Empty} ELSE {file[g]} :
                disk' = IF disk[g] = None THEN disk
                        ELSE [disk EXCEPT ![g] = [data |-> c, time |-> clock]]
          BY <4>4, StillServes DEF Fetch
        <5>. QED BY <5>1, <5>2
      <4>. QED BY <1>5, <4>1, <4>2, <4>3, <4>4 DEF Replies
    <3>2. CASE disk' # disk
      <4>1. PICK c \in Content : disk' = [disk EXCEPT ![g] = [data |-> c, time |-> clock]]
        BY <3>1, <3>2
      <4>2. [data |-> c, time |-> clock] # None
        BY WorkFacts, NoneIsNone
      <4>. QED BY <1>1, <4>1, <4>2 DEF Folder
    <3>. QED BY <3>2
  <2>. QED BY <1>1, <2>1, <2>2 DEF InTime
<1>6. CASE Watched
  <2>1. UNCHANGED <<clock, disk>>
    BY <1>6 DEF Watched, BeginScan, EndErased, EndFiles, EndScan, Created, Compared, CheckErased,
         Visit, CheckMissing, Watching, user
  <2>2. ASSUME NEW h \in Path, Visit(h) PROVE InTime(f)'
    <3>1. CASE disk[h] = None
      <4>1. index' = index /\ scan'.pc # "examine"
        BY <1>1, <2>2, <3>1 DEF Visit, Watching, ScanRecord
      <4>. QED BY <2>1, <4>1 DEF InTime
    <3>2. CASE disk[h] # None
      <4>1. scan'.file = h /\ scan'.time = disk[h].time
        BY <1>1, <2>2, <3>2 DEF Visit, ScanRecord
      <4>2. \/ index'[f] = index[f]
            \/ h = f /\ index'[f].time = disk[f].time
        BY <1>1, <2>2, <3>2 DEF Visit
      <4>. QED BY <1>1, <2>1, <3>2, <4>1, <4>2 DEF InTime
    <3>. QED BY <3>1, <3>2
  <2>3. CASE ~\E h \in Path : Visit(h)
    <3>1. scan'.pc # "examine"
      BY <1>1, <1>6, <2>3, RestFacts DEF Watched, BeginScan, EndErased, EndFiles, EndScan, Created, Compared,
           CheckErased, CheckMissing, Examined, Watching, ScanRecord, Asleep
    <3>2. \/ index'[f] = index[f] \/ index'[f] = None
          \/ scan.pc = "examine" /\ scan.file = f /\ index'[f].time = scan.time
      <4>1. CASE Created
        BY <1>1, <4>1 DEF Created, Watching
      <4>2. CASE Compared
        <5>1. index' = index \/ \E m : index' = [index EXCEPT ![scan.file] = [index[scan.file] EXCEPT !.hash = m, !.time = scan.time]]
          BY <4>2 DEF Compared
        <5>2. scan.pc = "examine" /\ index[scan.file] # None /\ scan.file \in Path
          BY <4>2 DEF Compared, Watching, ClientInv, Scanned
        <5>3. index[scan.file] \in Dated
          BY <1>1, <5>2
        <5>. QED BY <1>1, <5>1, <5>2, <5>3 DEF Dated
      <4>3. CASE ~Created /\ ~Compared
        BY <1>1, <1>6, <2>3, <4>3 DEF Watched, BeginScan, EndErased, EndFiles, EndScan, CheckErased, CheckMissing
      <4>. QED BY <4>1, <4>2, <4>3
    <3>. QED BY <1>1, <2>1, <3>1, <3>2 DEF InTime
  <2>. QED BY <2>2, <2>3
<1>. QED BY <1>2, <1>3, <1>4, <1>5, <1>6

\* A scan that misses a file asks for it under the key of the copy.
LEMMA CheckMissingJobs ==
  ASSUME ClientInv, Still, NEW f \in Path, CheckMissing(f)
  PROVE  /\ UNCHANGED <<disk, clock, file, entry, known, io, index>> /\ scan.pc = "missing"
         /\ scan.copy[f] # None /\ scan'.copy = scan.copy /\ scan'.pc = scan.pc
         /\ Jobs \subseteq Jobs'
         /\ \A r \in Jobs' \ Jobs : r.method = "GET" /\ r.file = f /\ r.key = scan.copy[f].key
<1> DEFINE r == Req("GET", f, scan.copy[f])
<1>1. /\ UNCHANGED <<disk, clock, file, entry, known, io, index>> /\ scan.pc = "missing"
      /\ scan.copy[f] # None
      /\ Submit(r) \/ UNCHANGED <<pending, queue>>
      /\ scan' = [scan EXCEPT !.todo = @ \ {f}]
  BY DEF CheckMissing, Watching, ClientInv, Scanned, user, server, worker
<1>2. scan'.copy = scan.copy /\ scan'.pc = scan.pc /\ scan.copy[f] # None
  BY <1>1, FileFacts DEF CheckMissing, Watching, ClientInv, Scanned, ScanRecord
<1>3. r \in Request /\ Sensible(r) /\ r.method = "GET" /\ r.file = f /\ r.key = scan.copy[f].key
  <2>1. scan.copy[f] \in Node
    BY <1>2, FileFacts DEF ScanRecord
  <2>2. scan.copy[f].key \in Spelling /\ scan.copy[f].hash \in Content
    BY <2>1 DEF Node
  <2>3. r \in Request /\ Sensible(r) /\ r.method = "GET" /\ r.file = f
    BY <2>2, ReqFacts, ReqFile
  <2>4. r.key = scan.copy[f].key
    BY DEF Req
  <2>. QED BY <2>3, <2>4
<1>. HIDE DEF r
<1>4. CASE Submit(r)
  <2>1. Jobs \subseteq Jobs' /\ Jobs' \subseteq Jobs \cup {r}
    BY <1>1, <1>3, <1>4, JobsSubmitted
  <2>. QED BY <1>1, <1>2, <1>3, <2>1
<1>5. CASE UNCHANGED <<pending, queue>>
  <2>1. Jobs' = Jobs
    BY <1>1, <1>5 DEF Jobs
  <2>. QED BY <1>1, <1>2, <2>1
<1>. QED BY <1>1, <1>4, <1>5

\* A file that is not indexed is taken for what the scan's copy says.
LEMMA VisitIndexes ==
  ASSUME ClientInv, Still, NEW f \in Path, Visit(f), disk[f] # None, index[f] = None, scan.copy[f] # None
  PROVE  /\ UNCHANGED <<disk, clock, file, entry, known, io, queue>>
         /\ index'[f] # None /\ index'[f].key = scan.copy[f].key /\ index'[f].time = disk[f].time
         /\ scan.pc = "files" /\ scan'.pc = "examine" /\ scan'.copy = scan.copy
<1> DEFINE n == [key |-> scan.copy[f].key, hash |-> scan.copy[f].hash, time |-> disk[f].time]
<1>1. /\ UNCHANGED <<disk, clock, file, entry, known, io, queue>>
      /\ index' = [index EXCEPT ![f] = n] /\ scan.pc = "files"
      /\ scan' = [scan EXCEPT !.pc = "examine", !.todo = @ \ {f}, !.file = f, !.time = disk[f].time,
                              !.wasPending = <<"rel", f>> \in pending]
  BY DEF Visit, Watching, user, server, worker
<1>2. n \in Dated
  <2>1. scan.copy[f] \in Node /\ disk[f] \in [data : Content, time : 0..MaxTime]
    BY FileFacts DEF ScanRecord, Folder
  <2>. QED BY <2>1 DEF Node, Dated
<1>3. n.key = scan.copy[f].key /\ n.time = disk[f].time
  OBVIOUS
<1>. HIDE DEF n
<1>4. scan'.pc = "examine" /\ scan'.copy = scan.copy
  BY <1>1, FileFacts DEF ScanRecord
<1>. QED BY <1>1, <1>2, <1>3, <1>4, FileFacts, NoneIsNone

\* An upload and the scan: the file is indexed as it is, and once more asked for if need be.
LEMMA UploadsWatched ==
  ASSUME ClientInv, Still, NEW f \in Path, Uploads(f), Watched
  PROVE  Uploads(f)'
<1>1. CASE Spared(f)
  BY <1>1, UploadsSpared
<1>2. CASE Visit(f) /\ disk[f] # None /\ index[f] = None /\ scan.copy[f] # None
  <2>1. /\ UNCHANGED <<disk, file, entry, known, io, queue>> /\ index'[f] # None /\ known[f] = None
    BY <1>2, VisitIndexes DEF Uploads
  <2>2. Jobs' = Jobs
    BY <2>1 DEF Jobs
  <2>. QED BY <1>2, <2>1, <2>2 DEF Uploads, Asked, Hand, FetchesFirst
<1>3. CASE Created /\ scan.file = f
  <2>1. /\ UNCHANGED <<disk, file, entry, known, io>> /\ Jobs \subseteq Jobs' /\ index[f] = None
        /\ \A r \in Jobs' \ Jobs : r.method = "PUT" /\ r.file = f /\ r.hash = disk[f].data
        /\ FetchesFirst(f)'
    BY <1>3, CreatedJobs DEF Uploads
  <2>2. Asked("GET", f)' <=> Asked("GET", f)
    BY <2>1 DEF Asked
  <2>3. known[f] = None /\ index'[f] # None
    <3>1. index' = [index EXCEPT ![f] = [key |-> "rel", hash |-> disk[f].data, time |-> scan.time]]
      BY <1>3, CreatedJobs
    <3>2. disk[f] \in [data : Content, time : 0..MaxTime] /\ scan.time \in 0..MaxTime
      BY FileFacts DEF Uploads, Folder, ScanRecord
    <3>3. [key |-> "rel", hash |-> disk[f].data, time |-> scan.time] \in Dated
      BY <3>2 DEF Dated, Spelling
    <3>. QED BY <2>1, <3>1, <3>3, FileFacts, NoneIsNone DEF Uploads
  <2>4. \A r \in Jobs' : r.file = f => r.method = "GET" \/ (r.method = "PUT" /\ r.hash = disk[f].data)
    BY <2>1 DEF Uploads
  <2>. QED BY <2>1, <2>2, <2>3, <2>4 DEF Uploads, Hand
<1>4. CASE Compared /\ scan.file = f
  <2>1. disk[f] # None /\ Now(f) = disk[f].data
    BY DEF Uploads, Now
  <2>2. /\ UNCHANGED <<disk, file, entry, known, io>> /\ Jobs \subseteq Jobs' /\ index[f] # None
        /\ \A r \in Jobs' \ Jobs : r.method = "PUT" /\ r.file = f /\ r.hash = disk[f].data
        /\ FetchesFirst(f)'
    BY <1>4, <2>1, ComparedJobs DEF Uploads
  <2>3. Asked("GET", f)' <=> Asked("GET", f)
    BY <2>2 DEF Asked
  <2>4. \A r \in Jobs' : r.file = f => r.method = "GET" \/ (r.method = "PUT" /\ r.hash = disk[f].data)
    BY <2>2 DEF Uploads
  <2>5. Asked("PUT", f) => Asked("PUT", f)'
    BY <2>2 DEF Asked
  <2>6. \/ index'[f] = index[f]
        \/ index'[f] # None /\ \E q \in Jobs' : OpKey(q) = <<index[f].key, f>>
    BY <1>4, ComparedJobs
  <2>7. (\E q \in Jobs' : OpKey(q) = <<index[f].key, f>>) => Asked("PUT", f)' \/ Asked("GET", f)'
    BY <2>4 DEF OpKey, Asked
  <2>8. index'[f] # None
    BY <2>2, <2>6
  <2>9. /\ known[f] # None
        /\ index'[f].time = disk[f].time \/ index'[f].hash = disk[f].data
        => file[f] = disk[f].data \/ Asked("PUT", f)'
    BY <2>2, <2>3, <2>5, <2>6, <2>7 DEF Uploads
  <2>. QED BY <2>2, <2>3, <2>4, <2>8, <2>9 DEF Uploads, Hand
<1>5. CASE CheckMissing(f) /\ index[f] = None
  <2>1. /\ UNCHANGED <<disk, file, entry, known, io, index>> /\ Jobs \subseteq Jobs'
        /\ \A r \in Jobs' \ Jobs : r.method = "GET" /\ r.file = f
        /\ known[f] = None /\ entry[f] = None /\ ~Asked("PUT", f)
    BY <1>5, CheckMissingJobs DEF Uploads
  <2>2. ~Asked("PUT", f)'
    BY <2>1 DEF Asked
  <2>3. FetchesFirst(f)'
    BY <2>2 DEF Asked, Jobs, FetchesFirst
  <2>4. ~(Hand(f) /\ io.req.method = "PUT")
    BY <2>1 DEF Hand, Asked, Jobs
  <2>. QED BY <2>1, <2>2, <2>3, <2>4 DEF Uploads, Hand
<1>. QED BY <1>1, <1>2, <1>3, <1>4, <1>5, WatchedSpares DEF Uploads

\* What is asked of a file in hand is one of its requests.
LEMMA HandAsks ==
  ASSUME ClientInv, Still, NEW f \in Path, Hand(f)
  PROVE  io.req \in Jobs /\ Asked(io.req.method, f) /\ io.req.method # "SNAPSHOT"
<1>1. io.req \in Jobs
  BY DEF Hand, Jobs
<1>2. io.req.method # "SNAPSHOT"
  BY <1>1, JobFacts, FileFacts DEF Hand
<1>. QED BY <1>1, <1>2 DEF Hand, Asked

LEMMA UploadsTake ==
  ASSUME ClientInv, Still, NEW f \in Path, Uploads(f), Take
  PROVE  Uploads(f)'
<1>1. /\ Jobs' = Jobs /\ io'.pc = "start" /\ io'.req = queue[1] /\ 1 \in 1..Len(queue)
      /\ io.pc = "idle" /\ Jobs = {queue[i] : i \in 1..Len(queue)}
      /\ FetchesFirst(f)'
  BY JobsTaken DEF Uploads
<1>2. UNCHANGED <<disk, file, entry, known, index>>
  BY DEF Take, Working, server, watcher
<1>3. \A m : Asked(m, f)' <=> Asked(m, f)
  BY <1>1 DEF Asked
<1>4. Asked("GET", f) => ~(Hand(f)' /\ io'.req.method = "PUT")
  <2>. SUFFICES ASSUME Asked("GET", f), queue[1].file = f, queue[1].method = "PUT"
                PROVE  FALSE
    BY <1>1 DEF Hand
  <2>1. PICK j \in 1..Len(queue) : queue[j].method = "GET" /\ queue[j].file = f
    BY <1>1 DEF Asked
  <2>2. j < 1
    BY <1>1, <2>1 DEF Uploads, FetchesFirst
  <2>. QED BY <2>2
<1>. QED BY <1>1, <1>2, <1>3, <1>4 DEF Uploads

\* An upload and the server.
LEMMA UploadsAsks ==
  ASSUME ClientInv, Still, NEW f \in Path, Uploads(f), Asks
  PROVE  Uploads(f)'
<1>1. CASE io.req.file # f
  BY <1>1, ServedSpares, UploadsSpared
<1>2. CASE io.req.file = f
  <2>1. /\ io.pc = "start" /\ UNCHANGED <<disk, index, known, queue>>
        /\ io \in IoRecord /\ file \in Held /\ entry \in Held
    BY WorkFacts DEF Asks, AskPut, AskDelete, AskGet, AskSnapshot, Asking, Working, watcher, shared
  <2>2. io'.pc # "idle" /\ io'.req = io.req
    BY <2>1 DEF Asks, AskPut, AskDelete, AskGet, AskSnapshot, Ends, IoRecord
  <2>3. Jobs' = Jobs /\ FetchesFirst(f)' /\ Hand(f) /\ Hand(f)'
    BY <1>2, <2>1, <2>2, JobsInHand DEF Uploads, Hand
  <2>4. \A m : Asked(m, f)' <=> Asked(m, f)
    BY <2>3 DEF Asked
  <2>5. io.req \in Jobs /\ Asked(io.req.method, f)
    BY <2>3, HandAsks
  <2>6. CASE io.req.method = "PUT"
    <3>1. AskPut /\ io.req.hash = disk[f].data /\ ~Asked("GET", f) /\ index[f] # None
      BY <1>2, <2>3, <2>5, <2>6 DEF Uploads, Asks, AskPut, AskDelete, AskGet, AskSnapshot, Asking
    <3>2. CASE file[f] = disk[f].data
      <4>1. UNCHANGED <<file, entry>>
        BY <1>2, <3>1, <3>2 DEF AskPut
      <4>. QED BY <2>1, <2>2, <2>3, <2>4, <2>6, <3>1, <3>2, <4>1 DEF Uploads
    <3>3. CASE file[f] # disk[f].data
      <4>1. io' = [io EXCEPT !.pc = "send"] /\ entry'[f] \in {entry[f], None, disk[f].data}
        BY <1>2, <2>1, <3>1, <3>3 DEF AskPut, Held
      <4>2. io'.pc = "send"
        BY <2>1, <4>1 DEF IoRecord
      <4>. QED BY <2>1, <2>2, <2>3, <2>4, <2>5, <2>6, <3>1, <4>1, <4>2 DEF Uploads
    <3>. QED BY <3>2, <3>3
  <2>7. CASE io.req.method = "GET"
    <3>1. AskGet /\ known[f] = None /\ entry[f] = None
      BY <2>4, <2>5, <2>7 DEF Uploads, Asks, AskPut, AskDelete, AskGet, AskSnapshot, Asking
    <3>2. Ends("NOT_FOUND") /\ file' = file /\ entry'[f] = None
      BY <1>2, <2>1, <3>1 DEF AskGet, Held
    <3>3. io'.pc = "answer" /\ io'.ans = "NOT_FOUND"
      BY <2>1, <3>2, EndsFacts DEF Answer
    <3>. QED BY <2>1, <2>2, <2>3, <2>4, <2>7, <3>1, <3>2, <3>3 DEF Uploads
  <2>. QED BY <1>2, <2>5, <2>6, <2>7 DEF Uploads
<1>. QED BY <1>1, <1>2

LEMMA UploadsSend ==
  ASSUME ClientInv, Still, NEW f \in Path, Uploads(f), Send
  PROVE  Uploads(f)'
<1>1. CASE io.req.file # f
  BY <1>1, ServedSpares, UploadsSpared
<1>2. CASE io.req.file = f
  <2>1. /\ io.pc = "send" /\ UNCHANGED <<index, known, queue>> /\ io.req.method = "PUT"
        /\ io \in IoRecord /\ file \in Held /\ entry \in Held
    BY WorkFacts DEF Send, Working, watcher, shared, Carried
  <2>2. io'.req = io.req /\ io'.pc \in {"answer", "hung"}
    BY <2>1 DEF Send, Ends, IoRecord
  <2>3. Jobs' = Jobs /\ FetchesFirst(f)' /\ Hand(f) /\ Hand(f)'
    BY <1>2, <2>1, <2>2, JobsInHand DEF Uploads, Hand
  <2>4. \A m : Asked(m, f)' <=> Asked(m, f)
    BY <2>3 DEF Asked
  <2>5. io.req.hash = disk[f].data /\ ~Asked("GET", f) /\ index[f] # None /\ disk[f] # None
    BY <1>2, <2>1, <2>3, HandAsks DEF Uploads
  <2>6. disk' = disk /\ file'[f] = disk[f].data /\ entry'[f] = disk[f].data
    BY <1>2, <2>1, <2>5 DEF Send, Opened, Held
  <2>. QED BY <2>1, <2>2, <2>3, <2>4, <2>5, <2>6 DEF Uploads
<1>. QED BY <1>1, <1>2

LEMMA UploadsAnswers ==
  ASSUME ClientInv, Still, NEW f \in Path, Uploads(f), Recorded(f), Replies
  PROVE  Uploads(f)'
<1>1. CASE io.req.file # f /\ ~SnapshotAnswered
  BY <1>1, ServedSpares, UploadsSpared
<1>2. UNCHANGED <<index, queue, file, entry>> /\ io.pc \in {"answer", "fetch"}
  BY DEF Replies, PutAnswered, DeleteAnswered, GetFailed, SnapshotAnswered, GetAnswered, Fetch,
         Answering, Working, watcher, server, shared, Over
<1>3. file[f] = entry[f]
  BY <1>2 DEF Recorded
<1>4. CASE SnapshotAnswered
  <2>1. UNCHANGED disk /\ io'.pc = "idle" /\ io.req.method = "SNAPSHOT"
    BY <1>4, RestFacts DEF SnapshotAnswered, Answering, Working, Over
  <2>2. /\ Jobs' = Jobs \ {io.req} /\ FetchesFirst(f)' /\ ~Hand(f) /\ ~Hand(f)'
    BY <1>2, <2>1, JobsOver, HandAsks DEF Uploads, Hand
  <2>3. \A m \in {"PUT", "GET"} : Asked(m, f)' <=> Asked(m, f)
    BY <2>1, <2>2 DEF Asked
  <2>4. known'[f] # known[f] => known[f] = None /\ entry[f] # None
    BY <1>4, StillServes
  <2>. QED BY <1>2, <1>3, <2>1, <2>2, <2>3, <2>4 DEF Uploads
<1>5. CASE io.req.file = f
  <2>1. Hand(f)
    BY <1>2, <1>5 DEF Hand
  <2>2. io.req \in Jobs /\ Asked(io.req.method, f)
    BY <2>1, HandAsks
  <2>3. CASE io.req.method = "PUT"
    <3>1. PutAnswered /\ ~Asked("GET", f) /\ index[f] # None /\ file[f] = disk[f].data
      BY <1>2, <2>1, <2>2, <2>3, WorkFacts DEF Uploads, Replies, PutAnswered, DeleteAnswered, GetFailed,
         SnapshotAnswered, GetAnswered, Fetch, Answering, Working, Carried
    <3>2. disk' = disk /\ io'.pc = "idle"
      BY <3>1, RestFacts DEF PutAnswered, Over
    <3>3. Jobs' = Jobs \ {io.req} /\ FetchesFirst(f)' /\ ~Hand(f)'
      BY <1>2, <3>2, JobsOver DEF Uploads, Hand
    <3>4. ~Asked("GET", f)'
      BY <3>1, <3>3 DEF Asked
    <3>5. known[f] # None => known'[f] # None
      BY <1>2, <1>5, <2>3, <3>1, WorkFacts DEF PutAnswered, Handled, Remember, Carried, Still
    <3>. QED BY <1>2, <3>1, <3>2, <3>3, <3>4, <3>5 DEF Uploads
  <2>4. CASE io.req.method = "GET"
    <3>1. known[f] = None /\ entry[f] = None /\ io.pc = "answer" /\ io.ans = "NOT_FOUND"
      BY <1>2, <2>1, <2>2, <2>4 DEF Uploads
    <3>2. GetFailed
      BY <2>4, <3>1 DEF Replies, PutAnswered, DeleteAnswered, GetFailed,
         SnapshotAnswered, GetAnswered, Fetch, Answering, Working
    <3>3. disk' = disk /\ io'.pc = "idle" /\ known'[f] = None
      BY <1>5, <3>1, <3>2, WorkFacts, RestFacts DEF GetFailed, Handled, Over
    <3>4. Jobs' = Jobs \ {io.req} /\ FetchesFirst(f)' /\ ~Hand(f)'
      BY <1>2, <3>3, JobsOver DEF Uploads, Hand
    <3>5. \A m : Asked(m, f)' => Asked(m, f)
      BY <3>4 DEF Asked
    <3>. QED BY <1>2, <3>1, <3>3, <3>4, <3>5 DEF Uploads
  <2>. QED BY <1>5, <2>2, <2>3, <2>4 DEF Uploads
<1>. QED BY <1>1, <1>4, <1>5

LEMMA UploadsStay ==
  ASSUME ClientInv, Still, NEW f \in Path, Uploads(f), Recorded(f),
         Tick \/ Refresh \/ Watched \/ Take \/ Asks \/ Send \/ Replies
  PROVE  Uploads(f)'
<1>1. CASE Tick \/ Refresh
  BY <1>1, QuietStepSpares, UploadsSpared
<1>. QED BY <1>1, UploadsWatched, UploadsTake, UploadsAsks, UploadsSend, UploadsAnswers

\* A scan has the copy it began with, until it ends.
LEMMA WatchedGoesOn ==
  ASSUME ClientInv, Still, NEW f \in Path, Watched, ~BeginScan
  PROVE  ScanGoesOn(f)
<1>1. CASE EndScan
  BY <1>1 DEF EndScan, ScanGoesOn
<1>2. CASE EndErased \/ EndFiles \/ Created \/ Compared
  BY <1>2, FileFacts DEF EndErased, EndFiles, Created, Compared, Examined, Watching, ScanGoesOn, ScanRecord
<1>3. ASSUME NEW g \in Path, CheckErased(g) \/ Visit(g) \/ CheckMissing(g) PROVE ScanGoesOn(f)
  BY <1>3, FileFacts DEF CheckErased, Visit, CheckMissing, Watching, ScanGoesOn, ScanRecord
<1>. QED BY <1>1, <1>2, <1>3 DEF Watched

\* A download and the scan: what the server told of the file is kept, and nothing is uploaded
\* but what was downloaded.
LEMMA DownloadsWatched ==
  ASSUME ClientInv, Still, NEW f \in Path, Downloads(f), Watched
  PROVE  Downloads(f)'
<1>1. CASE BeginScan
  <2>1. UNCHANGED <<disk, known, file, entry, io, index, queue>>
    BY <1>1 DEF BeginScan, Watching, user, server, worker
  <2>2. Jobs' = Jobs /\ scan'.copy = known
    BY <1>1, <2>1 DEF Jobs, BeginScan, Asleep
  <2>. QED BY <2>1, <2>2 DEF Downloads, Asked, Hand
<1>2. CASE ~BeginScan /\ Spared(f)
  BY <1>2, WatchedGoesOn, DownloadsSpared
<1>3. CASE Visit(f) /\ disk[f] # None /\ index[f] = None /\ scan.copy[f] # None
  <2>1. /\ UNCHANGED <<disk, file, entry, known, io, queue>> /\ index'[f].key = "abs"
        /\ scan'.copy = scan.copy /\ scan.pc # "sleep"
    BY <1>3, VisitIndexes DEF Downloads
  <2>2. Jobs' = Jobs
    BY <2>1 DEF Jobs
  <2>. QED BY <1>3, <2>1, <2>2 DEF Downloads, Asked, Hand
<1>4. ~(CheckErased(f) /\ disk[f] = None)
  BY DEF CheckErased, Watching, ClientInv, Scanned, Downloads
<1>5. ~(Created /\ scan.file = f)
  BY CreatedJobs DEF Downloads, Untracked
<1>6. CASE Compared /\ scan.file = f
  <2>1. /\ UNCHANGED <<disk, file, entry, known, io>> /\ scan.pc = "examine" /\ index[f] # None
        /\ Jobs \subseteq Jobs'
        /\ \A r \in Jobs' \ Jobs : r.method = "PUT" /\ r.file = f /\ r.hash = Now(f)
    BY <1>6, ComparedJobs
  <2>2. disk[f] # None /\ index[f].key = "abs" /\ Now(f) = disk[f].data /\ ~Untracked(f)
    BY <2>1 DEF Downloads, Now, Untracked
  <2>3. \A r \in Jobs' \ Jobs : r.key = "abs" /\ <<"abs", f>> \notin pending
    BY <1>6, <2>2, ComparedJobs
  <2>4. Hand(f) => <<"abs", f>> \in pending
    <3>1. Hand(f) => InHand(<<"abs", f>>)
      BY HandAsks DEF Downloads, Hand, InHand, OpKey
    <3>2. <<"abs", f>> \in FileKey
      BY DEF FileKey, Spelling
    <3>. QED BY <3>1, <3>2 DEF ClientInv, Throttled
  <2>5. \A r \in Jobs' : r.file = f =>
          r.key = "abs" /\ (r.method = "GET" \/ (r.method = "PUT" /\ r.hash = file[f]))
    BY <2>1, <2>2, <2>3, <2>4 DEF Downloads
  <2>6. \/ index'[f] = index[f]
        \/ index'[f] # None /\ index'[f].key = index[f].key
    BY <1>6, ComparedJobs
  <2>7. scan'.copy = scan.copy /\ scan'.pc = "files"
    BY <1>6, FileFacts DEF Compared, Examined, ScanRecord
  <2>8. Asked("GET", f)' <=> Asked("GET", f)
    BY <2>1 DEF Asked
  <2>. QED BY <2>1, <2>2, <2>5, <2>6, <2>7, <2>8 DEF Downloads, Hand
<1>7. CASE CheckMissing(f) /\ index[f] = None
  <2>1. /\ UNCHANGED <<disk, file, entry, known, io, index>> /\ scan.pc = "missing"
        /\ scan.copy[f] # None /\ scan'.copy = scan.copy /\ scan'.pc = scan.pc
        /\ Jobs \subseteq Jobs'
        /\ \A r \in Jobs' \ Jobs : r.method = "GET" /\ r.file = f /\ r.key = scan.copy[f].key
    BY <1>7, CheckMissingJobs
  <2>2. \A r \in Jobs' : r.file = f =>
          r.key = "abs" /\ (r.method = "GET" \/ (r.method = "PUT" /\ r.hash = file[f]))
    BY <2>1 DEF Downloads
  <2>. QED BY <2>1, <2>2 DEF Downloads, Hand
<1>. QED BY <1>1, <1>2, <1>3, <1>4, <1>5, <1>6, <1>7, WatchedSpares

LEMMA DownloadsTake ==
  ASSUME ClientInv, Still, NEW f \in Path, Downloads(f), Take
  PROVE  Downloads(f)'
<1>1. /\ Jobs' = Jobs /\ io'.pc = "start" /\ io.pc = "idle"
  BY JobsTaken
<1>2. UNCHANGED <<disk, file, entry, known, index, scan>>
  BY DEF Take, Working, server, watcher
<1>. QED BY <1>1, <1>2 DEF Downloads, Asked, Hand

\* A download and the server.
LEMMA DownloadsAsks ==
  ASSUME ClientInv, Still, NEW f \in Path, Downloads(f), Asks
  PROVE  Downloads(f)'
<1>1. CASE io.req.file # f
  BY <1>1, ServedSpares, DownloadsSpared DEF ScanGoesOn
<1>2. CASE io.req.file = f
  <2>1. /\ io.pc = "start" /\ UNCHANGED <<disk, index, known, queue, scan>>
        /\ io \in IoRecord /\ file \in Held /\ entry \in Held
    BY WorkFacts DEF Asks, AskPut, AskDelete, AskGet, AskSnapshot, Asking, Working, watcher, shared
  <2>2. io.req \in Jobs /\ Hand(f)
    BY <1>2, <2>1, HandAsks DEF Hand
  <2>3. /\ UNCHANGED <<file, entry>> /\ io'.pc = "answer" /\ io'.req = io.req
        /\ io.req.method = "GET" => io'.ans = "OK"
    <3>1. CASE io.req.method = "PUT"
      <4>1. AskPut /\ io.req.hash = file[f]
        BY <1>2, <2>2, <3>1 DEF Downloads, Asks, AskPut, AskDelete, AskGet, AskSnapshot, Asking
      <4>2. Ends("ALREADY_EXISTS") /\ UNCHANGED <<file, entry>>
        BY <1>2, <4>1 DEF AskPut
      <4>. QED BY <2>1, <3>1, <4>2, EndsFacts DEF Answer
    <3>2. CASE io.req.method = "GET"
      <4>1. AskGet /\ file[f] # None /\ entry[f] # None
        BY <1>2, <2>2, <3>2 DEF Downloads, Asks, AskPut, AskDelete, AskGet, AskSnapshot, Asking
      <4>2. Ends("OK") /\ UNCHANGED <<file, entry>>
        BY <1>2, <2>1, <4>1 DEF AskGet, Held
      <4>. QED BY <2>1, <3>2, <4>2, EndsFacts DEF Answer
    <3>. QED BY <1>2, <2>2, <3>1, <3>2 DEF Downloads
  <2>4. Jobs' = Jobs
    BY <2>1, <2>3, JobsInHand
  <2>. QED BY <2>1, <2>2, <2>3, <2>4 DEF Downloads, Asked, Hand
<1>. QED BY <1>1, <1>2

LEMMA DownloadsSend ==
  ASSUME ClientInv, Still, NEW f \in Path, Downloads(f), Send
  PROVE  Downloads(f)'
<1>1. CASE io.req.file # f
  BY <1>1, ServedSpares, DownloadsSpared DEF ScanGoesOn
<1>2. CASE io.req.file = f
  <2>1. io.pc = "send" /\ io.req.method = "PUT"
    BY WorkFacts DEF Send, Working, Carried
  <2>. QED BY <1>2, <2>1 DEF Downloads, Hand
<1>. QED BY <1>1, <1>2

LEMMA DownloadsAnswers ==
  ASSUME ClientInv, Still, NEW f \in Path, Downloads(f), Replies
  PROVE  Downloads(f)'
<1>1. CASE io.req.file # f /\ ~SnapshotAnswered
  BY <1>1, ServedSpares, DownloadsSpared DEF ScanGoesOn
<1>2. /\ UNCHANGED <<index, scan, queue, file, entry>> /\ io.pc \in {"answer", "fetch"}
      /\ io \in IoRecord /\ disk \in Folder /\ known \in [Path -> {None} \cup Node]
  BY WorkFacts DEF Replies, PutAnswered, DeleteAnswered, GetFailed, SnapshotAnswered, GetAnswered, Fetch,
         Answering, Working, watcher, server, shared, Over
<1>3. CASE SnapshotAnswered
  <2>1. UNCHANGED disk /\ io'.pc = "idle" /\ io.req.method = "SNAPSHOT" /\ io.pc = "answer"
    BY <1>3, RestFacts DEF SnapshotAnswered, Answering, Working, Over
  <2>2. Jobs' = Jobs \ {io.req} /\ ~Hand(f) /\ ~Hand(f)'
    BY <1>2, <2>1, JobsOver, HandAsks DEF Hand
  <2>3. Asked("GET", f)' => Asked("GET", f)
    BY <2>2 DEF Asked
  <2>4. known'[f] = known[f] \/ (known'[f] # None /\ known'[f].key = "abs")
    <3>1. known'[f] = known[f] \/ known'[f] = [key |-> "abs", hash |-> entry[f]]
      BY <1>3, StillServes
    <3>2. entry[f] # None /\ entry[f] \in Content
      BY WorkFacts DEF Downloads, Held
    <3>3. [key |-> "abs", hash |-> entry[f]] \in Node
      BY <3>2 DEF Node, Spelling
    <3>. QED BY <3>1, <3>2, <3>3, NoneIsNone
  <2>. QED BY <1>2, <2>1, <2>2, <2>3, <2>4 DEF Downloads
<1>4. CASE io.req.file = f
  <2>1. Hand(f)
    BY <1>2, <1>4 DEF Hand
  <2>2. io.req \in Jobs /\ Asked(io.req.method, f) /\ io.req.key = "abs"
    BY <1>4, <2>1, HandAsks DEF Downloads
  <2>3. CASE io.req.method = "PUT"
    <3>1. PutAnswered
      BY <1>2, <2>1, <2>2, <2>3, WorkFacts DEF Replies, PutAnswered, DeleteAnswered, GetFailed,
         SnapshotAnswered, GetAnswered, Fetch, Answering, Working, Carried
    <3>2. disk' = disk /\ io'.pc = "idle" /\ io.pc = "answer"
      BY <3>1, RestFacts DEF PutAnswered, Over, Answering, Working
    <3>3. Jobs' = Jobs \ {io.req} /\ ~Hand(f)'
      BY <1>2, <3>2, JobsOver DEF Hand
    <3>4. Asked("GET", f)' => Asked("GET", f)
      BY <3>3 DEF Asked
    <3>5. /\ known[f] # None => known'[f] # None
          /\ known'[f] # None => known'[f].key = "abs"
      BY <1>2, <1>4, <2>2, <2>3, <3>1, <3>2, WorkFacts
         DEF PutAnswered, Handled, Remember, ThisNode, Downloads, Carried, Still
    <3>. QED BY <1>2, <3>2, <3>3, <3>4, <3>5 DEF Downloads
  <2>4. CASE io.req.method = "GET"
    <3>1. known[f] # None /\ (scan.pc # "sleep" => scan.copy[f] # None)
      BY <2>2, <2>4 DEF Downloads
    <3>2. CASE GetAnswered
      <4>1. disk'[f] = [data |-> Empty, time |-> clock] /\ disk'[f] # None /\ known' = known
        BY <1>2, <1>4, <3>2, WorkFacts, NoneIsNone DEF GetAnswered, shared, Folder
      <4>2. io'.pc = "fetch" /\ io'.req = io.req
        BY <1>2, <3>2 DEF GetAnswered, IoRecord
      <4>3. Jobs' = Jobs /\ Hand(f)'
        BY <1>2, <1>4, <4>2, JobsInHand DEF Hand
      <4>. QED BY <1>2, <2>1, <2>4, <3>1, <4>1, <4>2, <4>3 DEF Downloads, Asked
    <3>3. CASE Fetch
      <4>1. io.pc = "fetch" /\ disk[f] # None /\ file[f] \in Content
        BY <1>4, <2>1, <2>4, <3>3, WorkFacts DEF Fetch, Working, Downloads, Held
      <4>2. io'.pc = "idle" /\ disk'[f].data = file[f] /\ disk'[f] # None /\ known'[f] = known[f]
        <5>1. disk' = [disk EXCEPT ![f] = [data |-> file[f], time |-> clock]] /\ io'.pc = "idle"
          BY <1>4, <3>3, <4>1, StillServes, RestFacts DEF Fetch, Over
        <5>2. [data |-> file[f], time |-> clock] # None
          BY <4>1, WorkFacts, NoneIsNone
        <5>3. known'[f] = known[f]
          BY <1>2, <1>4, <3>1, <3>3 DEF Fetch, Remember
        <5>. QED BY <1>2, <5>1, <5>2, <5>3 DEF Folder
      <4>3. Jobs' = Jobs \ {io.req} /\ ~Hand(f)'
        BY <1>2, <4>2, JobsOver DEF Hand
      <4>4. Asked("GET", f)' => Asked("GET", f)
        BY <4>3 DEF Asked
      <4>. QED BY <1>2, <3>1, <4>2, <4>3, <4>4 DEF Downloads
    <3>. QED BY <2>1, <2>4, <3>2, <3>3 DEF Downloads, Replies, PutAnswered, DeleteAnswered, GetFailed,
         SnapshotAnswered, Answering, Working
  <2>. QED BY <1>4, <2>2, <2>3, <2>4 DEF Downloads
<1>. QED BY <1>1, <1>3, <1>4

LEMMA DownloadsStay ==
  ASSUME ClientInv, Still, NEW f \in Path, Downloads(f),
         Tick \/ Refresh \/ Watched \/ Take \/ Asks \/ Send \/ Replies
  PROVE  Downloads(f)'
<1>1. CASE Tick \/ Refresh
  BY <1>1, QuietStepSpares, DownloadsSpared DEF ScanGoesOn
<1>. QED BY <1>1, DownloadsWatched, DownloadsTake, DownloadsAsks, DownloadsSend, DownloadsAnswers

\* A file the user writes is uploaded from then on; whether it is there already or not.
LEMMA WriteUploads ==
  ASSUME ClientInv, Still, Patient, NEW f \in Path, NEW c \in Content, Write(f, c),
         Through(f), InTime(f)
  PROVE  Uploads(f)'
<1>1. /\ UNCHANGED <<index, file, entry, known, queue, io>> /\ Settled(f)
      /\ \A r \in Jobs : r.file # f
      /\ disk[f] # None => /\ index[f].hash = disk[f].data /\ disk[f].time < clock
                           /\ disk[f].data # c
      /\ disk' = [disk EXCEPT ![f] = [data |-> c, time |-> clock]]
  BY DEF Write, MayEdit, server, watcher, shared, worker
<1>2. disk'[f].data = c /\ disk'[f].time = clock /\ disk'[f] # None
  <2>1. [data |-> c, time |-> clock] # None
    BY WorkFacts, NoneIsNone
  <2>. QED BY <1>1, <2>1, FileFacts DEF Folder
<1>3. Jobs' = Jobs /\ ~Hand(f)' /\ ~Asked("GET", f)' /\ ~Asked("PUT", f)'
  BY <1>1 DEF Jobs, Hand, Asked
<1>4. FetchesFirst(f)'
  BY <1>1 DEF Jobs, FetchesFirst
<1>5. CASE disk[f] = None
  BY <1>1, <1>2, <1>3, <1>4, <1>5 DEF Uploads, Settled
<1>6. CASE disk[f] # None
  <2>1. index[f] # None /\ known[f] # None /\ index[f].hash # c
    BY <1>1, <1>6 DEF Settled
  <2>2. index[f].time # clock
    <3>1. index[f].time <= disk[f].time /\ disk[f].time < clock
      BY <1>1, <1>6, <2>1 DEF InTime
    <3>2. index[f].time \in Nat /\ disk[f].time \in Nat /\ clock \in Nat
      BY <1>6, <2>1, FileFacts, WorkFacts, ClientAssumption DEF ClientAssumption, Folder, Dated
    <3>. QED BY <3>1, <3>2
  <2>. QED BY <1>1, <1>2, <1>3, <1>4, <2>1, <2>2 DEF Uploads
<1>. QED BY <1>5, <1>6

LEMMA EditGoesThrough ==
  ASSUME ClientInv, Still, Patient, NEW f \in Path, Through(f), InTime(f), Edited
  PROVE  Through(f)'
<1>1. PICK g \in Path : Erase(g) \/ \E c \in Content : Write(g, c)
  BY DEF Edited
<1>2. CASE g # f
  <2>1. UNCHANGED <<index, file, entry, known, queue, io, scan>>
    BY <1>1 DEF Erase, Write, MayEdit, server, watcher, shared, worker
  <2>2. disk'[f] = disk[f] /\ (Forgotten(f) => Forgotten(f)')
    BY <1>1, <1>2, EditElsewhere
  <2>3. Spared(f)
    BY <2>1, <2>2 DEF Spared, Jobs, FetchesFirst, Hand
  <2>. QED BY <2>1, <2>2, <2>3, UploadsSpared, DownloadsSpared DEF Through, Lacks, ScanGoesOn
<1>3. CASE Erase(f)
  BY <1>3, EraseForgets DEF Through, Lacks
<1>4. ASSUME NEW c \in Content, Write(f, c) PROVE Through(f)'
  BY <1>4, WriteUploads DEF Through
<1>. QED BY <1>1, <1>2, <1>3, <1>4

LEMMA RestNext ==
  ASSUME Patient, ~Offline, ClientInv, RestInv, [Next]_vars
  PROVE  RestInv'
<1>. SUFFICES ASSUME faults' = 0
              PROVE  /\ Calm'
                     /\ alive' => \A f \in Path : Recorded(f)' /\ InTime(f)' /\ Through(f)'
  BY DEF RestInv
<1>1. faults \in Nat
  BY WorkFacts, ClientAssumption DEF ClientAssumption
<1>2. CASE UNCHANGED vars
  <2>1. UNCHANGED <<disk, index, known, file, entry, io, queue, scan, clock, faults>> /\ (Calm' <=> Calm)
        /\ alive' = alive
    BY <1>2 DEF vars, user, server, watcher, shared, worker, Calm, Still
  <2>2. \A f \in Path : /\ Recorded(f)' <=> Recorded(f)
                        /\ InTime(f)' <=> InTime(f)
    BY <2>1 DEF Recorded, InTime
  <2>3. ASSUME NEW f \in Path, Through(f) PROVE Through(f)'
    <3>1. Spared(f) /\ ScanGoesOn(f)
      BY <2>1, LookSpares DEF ScanGoesOn
    <3>2. Lacks(f) => Lacks(f)'
      BY <2>1, QueueStays, FileFacts DEF Lacks
    <3>. QED BY <2>3, <3>1, <3>2, UploadsSpared, DownloadsSpared DEF Through
  <2>. QED BY <2>1, <2>2, <2>3 DEF RestInv
<1>3. CASE Next /\ alive'
  <2>1. faults = 0
    BY <1>1, <1>3, Faultless
  <2>2. /\ UNCHANGED <<faults, connected, link, jammed>> /\ alive /\ Still /\ Still'
        /\ Tick \/ Edited \/ Refresh \/ Watched \/ Take \/ Asks \/ Send \/ Replies
    BY <1>1, <1>3, <2>1, Undisturbed DEF RestInv
  <2>3. Calm' /\ \A f \in Path : Recorded(f) /\ InTime(f) /\ Through(f)
    BY <2>1, <2>2 DEF RestInv, Calm
  <2>4. ASSUME NEW f \in Path PROVE Recorded(f)' /\ InTime(f)'
    BY <2>2, <2>3, RecordedStays, InTimeStays
  <2>5. ASSUME NEW f \in Path, ~Edited PROVE Through(f)'
    <3>1. Lacks(f) => Lacks(f)'
      BY <2>2, <2>5, ForgottenStays DEF Lacks
    <3>. QED BY <2>2, <2>3, <2>5, <3>1, UploadsStay, DownloadsStay DEF Through
  <2>. QED BY <2>2, <2>3, <2>4, <2>5, EditGoesThrough
<1>4. CASE Next /\ ~alive'
  BY <1>4 DEF Calm
<1>. QED BY <1>2, <1>3, <1>4

LEMMA RestInit ==
  ASSUME ~Offline, Init
  PROVE  RestInv
<1>. SUFFICES ASSUME NEW f \in Path
              PROVE  Recorded(f) /\ InTime(f) /\ Through(f)
  BY DEF Init, RestInv, Calm, Still
<1>1. /\ disk \in [Path -> {None} \cup [data : Content, time : {0}]]
      /\ file \in [Path -> {None} \cup Content] /\ entry = file /\ clock = 0
      /\ disk[f] # None /\ file[f] # None => disk[f].data = file[f]
      /\ index = Indexed /\ scan = Asleep /\ io = Idle /\ queue = <<>> /\ known[f] = None
  BY DEF Init
<1>2. /\ disk[f] = None => index[f] = None
      /\ disk[f] # None => /\ index[f] = [key |-> "rel", hash |-> disk[f].data, time |-> disk[f].time]
                           /\ disk[f].data \in Content /\ disk[f].time = 0
  BY <1>1 DEF Indexed
<1>3. disk[f] # None => index[f] # None /\ index[f].time = 0
  <2>. SUFFICES ASSUME disk[f] # None PROVE index[f] # None /\ index[f].time = 0
    OBVIOUS
  <2>1. [key |-> "rel", hash |-> disk[f].data, time |-> disk[f].time] \in Dated
    BY <1>2, ClientAssumption DEF Dated, Spelling, ClientAssumption
  <2>. QED BY <1>2, <2>1, NoneIsNone
<1>4. /\ io.pc = "idle" /\ Len(queue) = 0 /\ Jobs = {} /\ scan.pc = "sleep" /\ scan.copy[f] = None
  BY <1>1 DEF Idle, Asleep, Jobs
<1>5. ~Hand(f) /\ ~Asked("GET", f) /\ ~Asked("PUT", f) /\ FetchesFirst(f)
  BY <1>4 DEF Hand, Asked, FetchesFirst
<1>6. Recorded(f) /\ InTime(f)
  BY <1>1, <1>2, <1>3, <1>4 DEF Recorded, InTime
<1>7. CASE disk[f] = None /\ entry[f] = None
  <2>1. QueuedOf(f)
    BY <1>4 DEF QueuedOf
  <2>2. InHandOf(f)
    BY <1>4 DEF InHandOf
  <2>. QED BY <1>6, <1>7, <2>1, <2>2 DEF Through, Lacks, Forgotten, Removing
<1>8. CASE disk[f] = None /\ entry[f] # None
  <2>1. file[f] = entry[f] /\ known[f] = None /\ index[f] = None
    BY <1>1, <1>2, <1>8
  <2>2. Downloads(f)
    BY <1>4, <1>5, <1>8, <2>1 DEF Downloads
  <2>. QED BY <1>6, <2>2 DEF Through
<1>9. CASE disk[f] # None
  <2>1. known[f] = None /\ entry[f] \in {None, disk[f].data} /\ index[f] # None
    BY <1>1, <1>3, <1>9
  <2>2. Uploads(f)
    BY <1>4, <1>5, <1>9, <2>1 DEF Uploads
  <2>. QED BY <1>6, <2>2 DEF Through
<1>. QED BY <1>7, <1>8, <1>9

\* A client that is at rest is right: a file that is being uploaded, downloaded or deleted is not
\* settled, or something is asked of it.
LEMMA RestIsRight ==
  ASSUME ClientInv, RestInv, faults = 0
  PROVE  RestIsBackedUp
<1>. SUFFICES ASSUME Quiet, NEW f \in Path
              PROVE  file[f] = entry[f] /\ file[f] = IF disk[f] = None THEN None ELSE disk[f].data
  BY DEF RestIsBackedUp
<1>1. Settled(f) /\ Recorded(f) /\ (Lacks(f) \/ Uploads(f) \/ Downloads(f))
  BY DEF Quiet, RestInv, Through
<1>2. ~Hand(f) /\ ~Asked("PUT", f)
  <2>1. Still
    BY DEF Quiet, RestInv, Calm
  <2>. QED BY <2>1, HandAsks, JobFacts DEF Quiet, Asked
<1>3. file[f] = entry[f]
  <2>1. io.pc = "send" => io.req \in Jobs /\ io.req.method = "PUT"
    BY WorkFacts DEF Jobs, Carried
  <2>. QED BY <1>1, <2>1 DEF Recorded, Quiet
<1>4. CASE disk[f] = None
  BY <1>1, <1>3, <1>4 DEF Settled
<1>5. CASE disk[f] # None
  BY <1>1, <1>2, <1>3, <1>5 DEF Settled, Lacks, Uploads, Downloads
<1>. QED BY <1>3, <1>4, <1>5

\* Until the first fault every file is where it should be between two steps of the threads:
\* lacking, on its way up with a PUT to come, or on its way down with a GET to come
\* (main.cpp:131-206, file_watcher.cpp:30-150): RestInv.
THEOREM RestInvariance ==
  ASSUME Patient, ~Offline
  PROVE  Spec => []RestInv
<1>1. ClientInv /\ RestInv /\ [Next]_vars => RestInv'
  BY RestNext
<1>2. Init => RestInv
  BY RestInit
<1>. QED BY <1>1, <1>2, ClientInvariance, PTL DEF Spec

\* When every file is settled and nothing is asked, the server has the folder, as long as nothing
\* disturbs the connection and the server and the user lets one change through before the next:
\* that the client stops asking (main.cpp:120-221, file_watcher.cpp:30-150) means it is done.
THEOREM RestHolds ==
  ASSUME Patient, ~Offline
  PROVE  Spec => [](faults = 0 => RestIsBackedUp)
<1>1. ClientInv /\ RestInv => (faults = 0 => RestIsBackedUp)
  BY RestIsRight
<1>. QED BY <1>1, ClientInvariance, RestInvariance, PTL

=============================================================================
