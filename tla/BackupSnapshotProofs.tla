------------------------ MODULE BackupSnapshotProofs ------------------------
(***************************************************************************)
(* SnapshotSound holds for every number of paths, inodes and blocks when   *)
(* one connection is served and nobody kills the process: SnapshotInv is   *)
(* inductive then.  With a second connection or a kill, the record and the *)
(* file may part; GET and PUT live with that, as Confirmed says.           *)
(***************************************************************************)
EXTENDS BackupServerProofs

\* Places at which nothing is known of the file in hand.
Bare(r) == /\ r.pc \notin {"open", "recv", "revert", "hset", "hdel"}
           /\ r.pc = "reply" => r.ans # "GO"

\* SnapshotInv, for the one handler there is.
LEMMA SoleFacts ==
  ASSUME SnapshotInv, Sole, NEW s \in Session
  PROVE  /\ ses[s] \in SessionRecord /\ ses \in [Session -> SessionRecord]
         /\ \A t \in Session : t = s
         /\ PlacedOf(ses[s])
         /\ \A k \in Key : snapshot[k] # None /\ dir[k] = None =>
                             ses[s].pc = "hdel" /\ ses[s].file = k
BY DEF SnapshotInv, ServerInv, TypeOK, Sole, Placed, Backed

\* A step that leaves names, records and named contents alone.
LEMMA Stays ==
  ASSUME SnapshotInv, Sole, ServerInv', NEW s \in Session,
         dir' = dir, snapshot' = snapshot, data' = data \/ data' = Reap(dir', ses'),
         ses[s].pc = "hdel" => ses'[s].pc = "hdel" /\ ses'[s].file = ses[s].file,
         PlacedOf(ses'[s])
  PROVE  SnapshotInv'
<1>1. \A k \in Key : dir[k] # None => data'[dir[k]] = data[dir[k]]
  BY ReapKeeps DEF SnapshotInv, ServerInv, TypeOK
<1>2. ses'[s].pc = "hset" => ses'[s].file \in Key
  BY Here DEF ServerInv, TypeOK, SessionRecord, Shape, ShapeOf, NoFile
<1>3. PlacedOf(ses[s])'
  BY <1>1, <1>2 DEF PlacedOf
<1>4. Placed'
  BY <1>3 DEF Sole, Placed
<1>5. ASSUME NEW k \in Key PROVE Agrees(k)' /\ Backed(k)'
  BY <1>1, SoleFacts DEF SnapshotInv, Agrees, Backed
<1>. QED BY <1>4, <1>5 DEF SnapshotInv

\* Handlers that come to nowhere in particular.
BareStep(s) == \/ Accept(s) \/ HangUp(s) \/ Login(s) \/ Refuse(s) \/ PutCompare(s)
               \/ Snapshot(s) \/ List(s)
               \/ Lookup(s) \/ Load(s) \/ Size(s) \/ Send(s) \/ SendEnd(s)

LEMMA BareSnapshot ==
  ASSUME SnapshotInv, Sole, ServerInv', NEW s \in Session, BareStep(s)
  PROVE  SnapshotInv'
<1>1. ses[s] \in SessionRecord /\ ses \in [Session -> SessionRecord]
  BY SoleFacts
<1>2. /\ dir' = dir /\ snapshot' = snapshot /\ (data' = data \/ data' = Reap(dir', ses'))
      /\ ses[s].pc # "hdel"
  BY DEF BareStep, Accept, HangUp, Login, Refuse, PutCompare, Snapshot, List, Lookup,
         Load, Size, Send, SendEnd, At
<1>3. Bare(ses'[s])
  <2>1. CASE Accept(s) \/ SendEnd(s)
    <3>1. PICK u, a : ses'[s] = Idle(u, a)
      BY <1>1, <2>1 DEF Accept, SendEnd
    <3>2. ses'[s].pc = "ready"
      BY <3>1 DEF Idle
    <3>. QED BY <3>2 DEF Bare
  <2>2. CASE HangUp(s)
    <3>1. ses'[s].pc = "closed"
      BY <1>1, <2>2, ClosedFacts DEF HangUp
    <3>. QED BY <3>1 DEF Bare
  <2>3. CASE Login(s) \/ Refuse(s) \/ Snapshot(s) \/ List(s)
    <3>1. \/ ses'[s].pc = "list"
          \/ ses'[s].pc = "reply" /\ ses'[s].ans \in {"LOGGED", "REFUSED", "LISTING", "LIST_ERROR"}
      BY <1>1, <2>3 DEF Login, Refuse, Snapshot, List, Reply, Goto, SessionRecord
    <3>. QED BY <3>1 DEF Bare
  <2>4. CASE PutCompare(s) \/ Lookup(s)
    <3>1. \/ ses'[s].pc \in {"patch", "found"}
          \/ ses'[s].pc = "reply" /\ ses'[s].ans \in {"ALREADY_EXISTS", "NOT_FOUND"}
      BY <1>1, <2>4 DEF PutCompare, Lookup, Reply, Goto, SessionRecord
    <3>. QED BY <3>1 DEF Bare
  <2>5. CASE Load(s) \/ Size(s)
    <3>1. \/ ses'[s].pc = "size"
          \/ ses'[s].pc = "reply" /\ ses'[s].ans \in {"OPEN_ERROR", "LENGTH"}
      BY <1>1, <2>5 DEF Load, Size, Reply, SessionRecord
    <3>. QED BY <3>1 DEF Bare
  <2>6. CASE Send(s)
    <3>1. ses'[s].pc = "send"
      BY <2>6, SendFields DEF SnapshotInv, Send, At
    <3>. QED BY <3>1 DEF Bare
  <2>. QED BY <2>1, <2>2, <2>3, <2>4, <2>5, <2>6 DEF BareStep
<1>4. PlacedOf(ses'[s])
  BY <1>3 DEF Bare, PlacedOf
<1>. QED BY <1>2, <1>4, Stays

\* A request arrives, or the client leaves.
LEMMA ArrivalSnapshot ==
  ASSUME SnapshotInv, Sole, ServerInv', NEW s \in Session,
         Put(s) \/ Delete(s) \/ Get(s) \/ Disconnect(s)
  PROVE  SnapshotInv'
<1>1. ses[s] \in SessionRecord /\ ses \in [Session -> SessionRecord] /\ PlacedOf(ses[s])
  BY SoleFacts
<1>2. dir' = dir /\ snapshot' = snapshot /\ data' = data
  BY DEF Put, Delete, Get, Request, Disconnect
<1>3. CASE Disconnect(s)
  <2>1. /\ ses'[s].pc = ses[s].pc /\ ses'[s].ans = ses[s].ans
        /\ ses'[s].file = ses[s].file /\ ses'[s].hash = ses[s].hash
    BY <1>1, <1>3 DEF Disconnect, SessionRecord
  <2>2. PlacedOf(ses'[s])
    BY <1>1, <2>1 DEF PlacedOf
  <2>. QED BY <1>2, <2>1, <2>2, Stays
<1>4. CASE Put(s) \/ Delete(s) \/ Get(s)
  <2>1. PICK k \in Key, h \in Data, n \in 0..MaxLen, l \in {"exists", "delete", "lookup"} :
          Request(s, k, l, h, n)
    BY <1>4, EmptyData, ServerAssumption DEF Put, Delete, Get, ServerAssumption
  <2>2. PICK a : ses'[s] = [ses[s] EXCEPT !.pc = l, !.file = k, !.hash = h, !.len = n,
                                            !.alone = a]
    BY <2>1 DEF Request
  <2>3. ses[s].pc = "ready" /\ ses'[s].pc = l
    BY <1>1, <2>1, <2>2 DEF Request, At, SessionRecord
  <2>4. PlacedOf(ses'[s])
    BY <2>3 DEF PlacedOf
  <2>. QED BY <1>2, <2>3, <2>4, Stays
<1>. QED BY <1>3, <1>4

-----------------------------------------------------------------------------
(* The steps of an upload *)

LEMMA PutExistsSnapshot ==
  ASSUME SnapshotInv, Sole, ServerInv', NEW s \in Session, PutExists(s)
  PROVE  SnapshotInv'
<1>1. /\ ses[s] \in SessionRecord /\ ses \in [Session -> SessionRecord]
      /\ ses[s].pc = "exists" /\ ses[s].file \in Key
  BY SoleFacts, ChangingFacts DEF SnapshotInv, PutExists, At, Changing
<1>2. /\ ses'[s].pc = IF dir[ses[s].file] = None THEN "open" ELSE "compare"
      /\ ses'[s].file = ses[s].file
      /\ dir' = dir /\ snapshot' = snapshot /\ data' = data
  BY <1>1 DEF PutExists, Goto, SessionRecord
<1>3. dir[ses[s].file] = None => snapshot[ses[s].file] = None
  BY <1>1, SoleFacts
<1>4. PlacedOf(ses'[s])
  BY <1>2, <1>3 DEF PlacedOf
<1>. QED BY <1>1, <1>2, <1>4, Stays

LEMMA PutOpenSnapshot ==
  ASSUME SnapshotInv, Sole, ServerInv', NEW s \in Session, PutOpen(s)
  PROVE  SnapshotInv'
<1> DEFINE k == ses[s].file
<1>1. /\ ses[s] \in SessionRecord /\ ses \in [Session -> SessionRecord]
      /\ ses[s].pc = "open" /\ k \in Key /\ dir \in [Key -> Inode \cup {None}]
      /\ dir[k] = None /\ snapshot[k] = None
  BY SoleFacts, ChangingFacts DEF SnapshotInv, ServerInv, TypeOK, PutOpen, At, Changing, PlacedOf
<1>2. CASE UNCHANGED <<dir, data>>
  <2>1. ses'[s].pc = "reply" /\ ses'[s].file = k
    BY <1>1, <1>2, NoneIsNone DEF PutOpen, Reply, SessionRecord
  <2>2. CASE ses'[s].ans # "GO"
    <3>1. PlacedOf(ses'[s])
      BY <2>1, <2>2 DEF PlacedOf
    <3>. QED BY <1>1, <1>2, <3>1, Stays DEF PutOpen
  <2>3. CASE ses'[s].ans = "GO"
    <3>1. PICK i \in Inode : dir' = [dir EXCEPT ![k] = i]
      BY <1>1, <2>3 DEF PutOpen, Reply, SessionRecord
    <3>. QED BY <1>1, <1>2, <3>1, NoneIsNone
  <2>. QED BY <2>2, <2>3
<1>3. CASE ~UNCHANGED <<dir, data>>
  <2>1. PICK i \in Inode :
          /\ i \notin Held(dir, ses)
          /\ dir' = [dir EXCEPT ![k] = i]
          /\ data' = [data EXCEPT ![i] = <<>>]
          /\ ses' = [ses EXCEPT ![s].pc = "reply", ![s].ans = "GO", ![s].fd = i]
    BY <1>1, <1>3 DEF PutOpen
  <2>2. ses'[s].pc = "reply" /\ ses'[s].file = k /\ snapshot' = snapshot
    BY <1>1, <2>1 DEF SessionRecord, PutOpen
  <2>3. dir'[k] = i /\ \A l \in Key \ {k} : dir'[l] = dir[l] /\ dir[l] # i
    BY <1>1, <2>1 DEF Held
  <2>4. \A l \in Key \ {k} : dir[l] # None => data'[dir[l]] = data[dir[l]]
    BY <1>1, <2>1, <2>3 DEF SnapshotInv, ServerInv, TypeOK
  <2>5. PlacedOf(ses[s])'
    BY <1>1, <2>2, <2>3, NoneIsNone DEF PlacedOf
  <2>6. ASSUME NEW l \in Key PROVE Agrees(l)' /\ Backed(l)'
    BY <1>1, <2>2, <2>3, <2>4, SoleFacts DEF SnapshotInv, Agrees, Backed
  <2>. QED BY <2>5, <2>6 DEF SnapshotInv, Placed, Sole
<1>. QED BY <1>2, <1>3

LEMMA ReceiveSnapshot ==
  ASSUME SnapshotInv, Sole, ServerInv', NEW s \in Session, Receive(s)
  PROVE  SnapshotInv'
<1> DEFINE k == ses[s].file
<1>1. /\ ses[s] \in SessionRecord /\ ses \in [Session -> SessionRecord]
      /\ ses[s].pc = "recv" /\ k \in Key
      /\ dir[k] # None /\ snapshot[k] = None
  BY SoleFacts, ChangingFacts DEF SnapshotInv, Receive, At, Changing, PlacedOf
<1>2. /\ ses'[s].pc = "recv" /\ ses'[s].file = k
      /\ dir' = dir /\ snapshot' = snapshot
  BY <1>1 DEF Receive, SessionRecord
<1>3. PlacedOf(ses'[s])
  BY <1>1, <1>2 DEF PlacedOf
<1>4. CASE data' = Reap(dir, ses')
  BY <1>1, <1>2, <1>3, <1>4, Stays
<1>5. CASE data' # Reap(dir, ses')
  <2>1. ses[s].fd # None /\ \E c : data' = [data EXCEPT ![ses[s].fd] = c]
    BY <1>5 DEF Receive
  <2>2. \A l \in Key \ {k} : dir[l] # ses[s].fd
    BY <2>1 DEF SnapshotInv, ServerInv, OwnStream
  <2>3. \A l \in Key \ {k} : dir[l] # None => data'[dir[l]] = data[dir[l]]
    BY <2>1, <2>2 DEF SnapshotInv, ServerInv, TypeOK
  <2>4. PlacedOf(ses[s])'
    BY <1>1, <1>2 DEF PlacedOf
  <2>5. ASSUME NEW l \in Key PROVE Agrees(l)' /\ Backed(l)'
    BY <1>1, <1>2, <2>3, SoleFacts DEF SnapshotInv, Agrees, Backed
  <2>. QED BY <2>4, <2>5 DEF SnapshotInv, Placed, Sole
<1>. QED BY <1>4, <1>5

LEMMA VerifySnapshot ==
  ASSUME SnapshotInv, Sole, ServerInv', NEW s \in Session, Verify(s)
  PROVE  SnapshotInv'
<1> DEFINE k == ses[s].file
<1>1. /\ ses[s] \in SessionRecord /\ ses \in [Session -> SessionRecord]
      /\ ses[s].pc = "recv" /\ k \in Key
      /\ dir[k] # None /\ snapshot[k] = None
  BY SoleFacts, ChangingFacts DEF SnapshotInv, Verify, At, Changing, PlacedOf
<1>2. dir' = dir /\ snapshot' = snapshot /\ data' = Reap(dir', ses')
  BY DEF Verify
<1>3. PlacedOf(ses'[s])
  <2>1. CASE ses' = [ses EXCEPT ![s] = Idle(ses[s].user, ses[s].alive)]
    <3>1. ses'[s] = Idle(ses[s].user, ses[s].alive)
      BY <1>1, <2>1
    <3>2. ses'[s].pc = "ready"
      BY <3>1 DEF Idle
    <3>. QED BY <3>2 DEF PlacedOf
  <2>2. CASE ses' # [ses EXCEPT ![s] = Idle(ses[s].user, ses[s].alive)]
    <3>1. /\ ses'[s].pc = IF Sha(k) = ses[s].hash THEN "hset" ELSE "revert"
          /\ ses'[s].file = k /\ ses'[s].hash = ses[s].hash
      BY <1>1, <2>2 DEF Verify, SessionRecord
    <3>. QED BY <1>1, <3>1 DEF PlacedOf, Sha
  <2>. QED BY <2>1, <2>2
<1>. QED BY <1>1, <1>2, <1>3, Stays

LEMMA HSetSnapshot ==
  ASSUME SnapshotInv, Sole, ServerInv', NEW s \in Session, HSet(s)
  PROVE  SnapshotInv'
<1> DEFINE k == ses[s].file
<1>1. /\ ses[s] \in SessionRecord /\ ses \in [Session -> SessionRecord]
      /\ ses[s].pc = "hset" /\ k \in Key /\ snapshot \in [Key -> Data \cup {None}]
      /\ dir[k] # None /\ data[dir[k]] = ses[s].hash
  BY SoleFacts, ChangingFacts DEF SnapshotInv, ServerInv, TypeOK, HSet, At, Changing, PlacedOf
<1>2. /\ ses'[s].pc = "reply" /\ ses'[s].ans = "STORED"
      /\ dir' = dir /\ data' = data /\ snapshot' = [snapshot EXCEPT ![k] = ses[s].hash]
  BY <1>1 DEF HSet, Reply, SessionRecord
<1>3. PlacedOf(ses[s])'
  BY <1>2 DEF PlacedOf
<1>4. ASSUME NEW l \in Key PROVE Agrees(l)' /\ Backed(l)'
  BY <1>1, <1>2, SoleFacts DEF SnapshotInv, Agrees, Backed
<1>. QED BY <1>3, <1>4 DEF SnapshotInv, Placed, Sole

-----------------------------------------------------------------------------
(* The steps of delete_file *)

LEMMA RemoveSnapshot ==
  ASSUME SnapshotInv, Sole, ServerInv', NEW s \in Session, Remove(s)
  PROVE  SnapshotInv'
<1> DEFINE k == ses[s].file
<1>1. /\ ses[s] \in SessionRecord /\ ses \in [Session -> SessionRecord]
      /\ ses[s].pc \in {"patch", "revert", "delete"}
      /\ k \in Key /\ dir \in [Key -> Inode \cup {None}]
  BY SoleFacts, ChangingFacts DEF SnapshotInv, ServerInv, TypeOK, Remove, Changing
<1>2. /\ ses'[s].pc = "hdel" /\ ses'[s].file = k /\ snapshot' = snapshot
      /\ dir' = [dir EXCEPT ![k] = None] /\ data' = Reap(dir', ses')
  BY <1>1 DEF Remove, SessionRecord
<1>3. dir'[k] = None /\ \A l \in Key \ {k} : dir'[l] = dir[l]
  BY <1>1, <1>2
<1>4. \A l \in Key : dir'[l] # None => dir'[l] = dir[l] /\ data'[dir[l]] = data[dir[l]]
  <2>1. ASSUME NEW l \in Key, dir'[l] # None PROVE dir'[l] = dir[l] /\ dir[l] \in Inode
    BY <1>1, <1>3, <2>1
  <2>2. \A l \in Key : dir'[l] \in Inode => Reap(dir', ses')[dir'[l]] = data[dir'[l]]
    BY ReapKeeps DEF SnapshotInv, ServerInv, TypeOK
  <2>. QED BY <1>2, <2>1, <2>2
<1>5. PlacedOf(ses[s])'
  BY <1>2, <1>3 DEF PlacedOf
<1>6. ASSUME NEW l \in Key PROVE Agrees(l)'
  BY <1>2, <1>3, <1>4 DEF SnapshotInv, Agrees
<1>7. ASSUME NEW l \in Key PROVE Backed(l)'
  BY <1>1, <1>2, <1>3, SoleFacts DEF Backed
<1>. QED BY <1>5, <1>6, <1>7 DEF SnapshotInv, Placed, Sole

LEMMA HDelSnapshot ==
  ASSUME SnapshotInv, Sole, ServerInv', NEW s \in Session, HDel(s)
  PROVE  SnapshotInv'
<1> DEFINE k == ses[s].file
<1>1. /\ ses[s] \in SessionRecord /\ ses \in [Session -> SessionRecord]
      /\ ses[s].pc = "hdel" /\ k \in Key /\ snapshot \in [Key -> Data \cup {None}]
      /\ dir[k] = None
  BY SoleFacts, ChangingFacts DEF SnapshotInv, ServerInv, TypeOK, HDel, At, Changing, PlacedOf
<1>2. /\ ses'[s].pc = IF ses[s].ans = "GO" THEN "open" ELSE "reply"
      /\ ses'[s].ans = ses[s].ans /\ ses'[s].file = k
      /\ dir' = dir /\ data' = data /\ snapshot' = [snapshot EXCEPT ![k] = None]
  BY <1>1 DEF HDel, Goto, SessionRecord
<1>3. PlacedOf(ses[s])'
  BY <1>1, <1>2 DEF PlacedOf
<1>4. ASSUME NEW l \in Key PROVE Agrees(l)' /\ Backed(l)'
  BY <1>1, <1>2, SoleFacts DEF SnapshotInv, Agrees, Backed
<1>. QED BY <1>3, <1>4 DEF SnapshotInv, Placed, Sole

LEMMA FoundSnapshot ==
  ASSUME SnapshotInv, Sole, ServerInv', NEW s \in Session, Found(s)
  PROVE  SnapshotInv'
<1>1. /\ ses[s] \in SessionRecord /\ ses \in [Session -> SessionRecord]
      /\ ses[s].pc = "found"
  BY SoleFacts DEF Found, At
<1>2. /\ ses'[s].pc = IF dir[ses[s].file] # None THEN "load" ELSE "hdel"
      /\ ses'[s].file = ses[s].file
      /\ dir' = dir /\ snapshot' = snapshot /\ data' = data
  BY <1>1 DEF Found, Goto, SessionRecord
<1>3. PlacedOf(ses'[s])
  BY <1>2 DEF PlacedOf
<1>. QED BY <1>1, <1>2, <1>3, Stays

-----------------------------------------------------------------------------
(* Answers, and the end of the process *)

LEMMA RespondSnapshot ==
  ASSUME SnapshotInv, Sole, ServerInv', NEW s \in Session, Respond(s)
  PROVE  SnapshotInv'
<1> DEFINE o == ses[s]
           next == AfterReply[o.ans]
<1>1. /\ o \in SessionRecord /\ ses \in [Session -> SessionRecord]
      /\ o.pc = "reply" /\ o.ans \in Answer /\ PlacedOf(o)
      /\ dir' = dir /\ snapshot' = snapshot /\ data' = data
  BY SoleFacts, Here DEF SnapshotInv, Respond, At, ShapeOf, SessionRecord
<1>2. /\ next \in {"ready", "closed", "reply", "recv", "send"}
      /\ next = "recv" => o.ans = "GO"
  BY <1>1 DEF Answer, AfterReply
<1>3. CASE next = "ready"
  <2>1. ses'[s] = Idle(o.user, o.alive)
    BY <1>1, <1>3 DEF Respond
  <2>2. ses'[s].pc = "ready"
    BY <2>1 DEF Idle
  <2>3. PlacedOf(ses'[s])
    BY <2>2 DEF PlacedOf
  <2>. QED BY <1>1, <2>3, Stays
<1>4. CASE next = "closed"
  <2>1. ses'[s].pc = "closed"
    BY <1>1, <1>4, ClosedFacts DEF Respond
  <2>2. PlacedOf(ses'[s])
    BY <2>1 DEF PlacedOf
  <2>. QED BY <1>1, <2>2, Stays
<1>5. CASE next = "reply"
  <2>1. ses'[s] = [o EXCEPT !.ans = "LINES"]
    BY <1>1, <1>5 DEF Respond
  <2>2. ses'[s].pc = "reply" /\ ses'[s].ans = "LINES"
    BY <1>1, <2>1 DEF SessionRecord
  <2>3. PlacedOf(ses'[s])
    BY <2>2 DEF PlacedOf
  <2>. QED BY <1>1, <2>3, Stays
<1>6. CASE next \in {"recv", "send"}
  <2>1. ses'[s] = [o EXCEPT !.pc = next, !.ans = None]
    BY <1>1, <1>6 DEF Respond
  <2>2. ses'[s].pc = next /\ ses'[s].file = o.file
    <3>. HIDE DEF next
    <3>. QED BY <1>1, <2>1 DEF SessionRecord
  <2>. HIDE DEF next
  <2>3. PlacedOf(ses'[s])
    BY <1>1, <1>2, <1>6, <2>2 DEF PlacedOf
  <2>. QED BY <1>1, <2>3, Stays
<1>. QED BY <1>2, <1>3, <1>4, <1>5, <1>6

\* Of its own accord the process ends at no place where a record is about to be
\* dropped.
LEMMA TerminateSnapshot ==
  ASSUME SnapshotInv, Sole, ServerInv', NEW s \in Session, Terminate(s)
  PROVE  SnapshotInv'
<1>1. /\ ses[s].pc # "hdel" /\ ses'[s] = Closed
      /\ dir' = dir /\ snapshot' = snapshot /\ data' = Reap(dir', ses')
  BY DEF Terminate, Crash, At
<1>2. PlacedOf(ses'[s])
  BY <1>1, ClosedFacts DEF PlacedOf
<1>. QED BY <1>1, <1>2, Stays

-----------------------------------------------------------------------------
(* The theorem *)

LEMMA SnapshotInit == Init => SnapshotInv
<1>. SUFFICES ASSUME Init PROVE SnapshotInv
  OBVIOUS
<1>1. ServerInv
  BY InitInv
<1>2. \A s \in Session : ses[s] = Closed
  BY DEF Init
<1>3. Placed
  BY <1>2, ClosedFacts DEF Placed, PlacedOf
<1>4. \A k \in Key : Agrees(k) /\ Backed(k)
  BY DEF Init, Agrees, Backed
<1>. QED BY <1>1, <1>3, <1>4 DEF SnapshotInv

LEMMA SnapshotNext == Sole /\ SnapshotInv /\ [Next]_vars => SnapshotInv'
<1>. SUFFICES ASSUME Sole, SnapshotInv, [Next]_vars PROVE SnapshotInv'
  OBVIOUS
<1>1. ServerInv'
  BY NextInv DEF SnapshotInv
<1>2. ASSUME NEW s \in Session, Connection(s) \/ Snapshot(s) \/ List(s) PROVE SnapshotInv'
  BY <1>1, <1>2, BareSnapshot, ArrivalSnapshot DEF Connection, BareStep
<1>3. ASSUME NEW s \in Session, Upload(s) PROVE SnapshotInv'
  BY <1>1, <1>3, BareSnapshot, ArrivalSnapshot, PutExistsSnapshot, PutOpenSnapshot,
     ReceiveSnapshot, VerifySnapshot, HSetSnapshot DEF Upload, BareStep
<1>4. ASSUME NEW s \in Session, Erase(s) PROVE SnapshotInv'
  BY <1>1, <1>4, ArrivalSnapshot, RemoveSnapshot, HDelSnapshot DEF Erase
<1>5. ASSUME NEW s \in Session, Download(s) PROVE SnapshotInv'
  BY <1>1, <1>5, BareSnapshot, ArrivalSnapshot, FoundSnapshot DEF Download, BareStep
<1>6. CASE Restart \/ UNCHANGED vars
  <2>1. ses' = ses /\ dir' = dir /\ data' = data /\ snapshot' = snapshot
    BY <1>6 DEF Restart, vars
  <2>. QED BY <1>1, <2>1 DEF SnapshotInv, Placed, PlacedOf, Agrees, Backed
<1>. QED BY <1>1, <1>2, <1>3, <1>4, <1>5, <1>6, RespondSnapshot, TerminateSnapshot
         DEF Next, Killed, Sole

\* With one connection every handler stands at a place where the record and the file of its
\* path agree or differ as that place says, through every failure and every end of the process
\* by itself (session.cpp:437-534, db.cpp:83-125): SnapshotInv.
THEOREM SoleSnapshotInvariance == Sole => (Spec => []SnapshotInv)
<1>. SUFFICES ASSUME Sole PROVE Spec => []SnapshotInv
  OBVIOUS
<1>1. Init => SnapshotInv
  BY SnapshotInit
<1>2. SnapshotInv /\ [Next]_vars => SnapshotInv'
  BY SnapshotNext
<1>. QED BY <1>1, <1>2, PTL DEF Spec

\* SnapshotSound (db.cpp:83), for every number of files, while one client is served
\* and the process ends only of its own accord.
THEOREM SoleSnapshotSound == Sole => (Spec => []SnapshotSound)
<1>. SUFFICES ASSUME Sole PROVE Spec => []SnapshotSound
  OBVIOUS
<1>1. SnapshotInv => SnapshotSound
  BY DEF SnapshotInv, Agrees, SnapshotSound
<1>. QED BY <1>1, SoleSnapshotInvariance, PTL

=============================================================================
