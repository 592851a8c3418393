------------------------ MODULE BackupServiceProofs ------------------------
(***************************************************************************)
(* BackupServer implements BackupService.  A step of the server touches    *)
(* what is held under one key at most, and by Confirmed, before and after  *)
(* it, not under a key whose last answer still counts.                     *)
(***************************************************************************)
EXTENDS BackupServerProofs

Step == [Service!ServiceNext]_(Service!serviceVars)

\* Nothing under any key but those of S changes.
Spares(S) == \A l \in Key \ S : Served(l)' = Served(l)

\* Closing streams and ending handlers changes nothing that is held.
LEMMA SparesAll ==
  ASSUME TypeOK, dir' = dir, snapshot' = snapshot,
         data' = data \/ data' = Reap(dir', ses')
  PROVE  Spares({})
<1>1. \A l \in Key : dir[l] # None => data'[dir[l]] = data[dir[l]]
  BY ReapKeeps DEF TypeOK
<1>. QED BY <1>1 DEF Spares, Served

\* A step that spares everything and tells nothing is none of the service's.
LEMMA Stutters ==
  ASSUME Spares({}), told' = told
  PROVE  Step
<1>1. [k \in Key |-> Served(k)]' = [k \in Key |-> Served(k)]
  BY DEF Spares
<1>. QED BY <1>1 DEF Step, Service!serviceVars

\* A step that changes what is held under k, and tells nothing, is work on k.
LEMMA Works ==
  ASSUME ServerInv, ServerInv', NEW k \in Key, Spares({k}), told' = told
  PROVE  Step
<1>1. told[k] \in Data \cup {None, Unknown}
  BY DEF ServerInv, TypeOK
<1>2. CASE told[k] = Unknown
  <2>1. Served(k)' \in Data \cup {None}
    BY DEF ServerInv, TypeOK, Served
  <2>2. [l \in Key |-> Served(l)]' = [[l \in Key |-> Served(l)] EXCEPT ![k] = Served(k)']
    BY DEF Spares
  <2>3. Service!Work(k)
    BY <1>2, <2>1, <2>2 DEF Service!Work
  <2>. QED BY <2>3 DEF Step, Service!ServiceNext
<1>3. CASE told[k] # Unknown
  <2>1. Served(k)' = Served(k)
    BY <1>1, <1>3, NoneIsNone DEF ServerInv, Confirmed, Served
  <2>2. Spares({})
    BY <2>1 DEF Spares
  <2>. QED BY <2>2, Stutters
<1>. QED BY <1>2, <1>3

\* A request that may change k takes back what was told of it.
LEMMA Asks ==
  ASSUME Spares({}), NEW k \in Key, told' = [told EXCEPT ![k] = Unknown]
  PROVE  Step
<1>1. [l \in Key |-> Served(l)]' = [l \in Key |-> Served(l)]
  BY DEF Spares
<1>2. Service!Ask(k)
  BY <1>1 DEF Service!Ask
<1>. QED BY <1>2 DEF Step, Service!ServiceNext

\* An answer tells what is held: Confirmed says so of the state after it.
LEMMA Tells ==
  ASSUME ServerInv, ServerInv', Spares({}), NEW k \in Key, NEW v \in Data \cup {None},
         told' = [told EXCEPT ![k] = v]
  PROVE  Step
<1>1. told'[k] = v
  BY DEF ServerInv, TypeOK
<1>2. Served(k)' = v
  BY <1>1, NoneIsNone DEF ServerInv, Confirmed, Served
<1>3. Served(k) = v
  BY <1>2 DEF Spares
<1>4. [l \in Key |-> Served(l)]' = [l \in Key |-> Served(l)]
  BY DEF Spares
<1>5. Service!Tell(k)
  BY <1>3, <1>4 DEF Service!Tell
<1>. QED BY <1>5 DEF Step, Service!ServiceNext

\* A handler past its header has a path in hand.
LEMMA InHand ==
  ASSUME ServerInv, NEW s \in Session, ~NoFile(ses[s])
  PROVE  ses[s].file \in Key
BY DEF ServerInv, TypeOK, SessionRecord, Shape, ShapeOf

-----------------------------------------------------------------------------
(* The actions *)

LEMMA ConnectionRefines ==
  ASSUME ServerInv, NEW s \in Session, Connection(s)
  PROVE  Step
<1>1. /\ dir' = dir /\ snapshot' = snapshot /\ told' = told
      /\ data' = data \/ data' = Reap(dir', ses')
  BY DEF Connection, Accept, Disconnect, HangUp, Login, Refuse
<1>. QED BY <1>1, SparesAll, Stutters DEF ServerInv

LEMMA UploadRefines ==
  ASSUME ServerInv, ServerInv', NEW s \in Session, Upload(s)
  PROVE  Step
<1>1. CASE Put(s)
  <2>1. PICK k \in Key, h \in Data, n \in 0..MaxLen :
          Request(s, k, "exists", h, n) /\ told' = [told EXCEPT ![k] = Unknown]
    BY <1>1 DEF Put
  <2>. QED BY <2>1, SparesAll, Asks DEF Request, ServerInv
<1>2. CASE PutExists(s) \/ PutCompare(s) \/ Verify(s)
  <2>1. /\ dir' = dir /\ snapshot' = snapshot /\ told' = told
        /\ data' = data \/ data' = Reap(dir', ses')
    BY <1>2 DEF PutExists, PutCompare, Verify
  <2>. QED BY <2>1, SparesAll, Stutters DEF ServerInv
<1>3. CASE PutOpen(s)
  <2> DEFINE k == ses[s].file
  <2>1. k \in Key
    BY <1>3, InHand DEF PutOpen, At, NoFile
  <2>2. CASE dir' = dir /\ data' = data
    BY <1>3, <2>2, SparesAll, Stutters DEF PutOpen, ServerInv
  <2>3. ASSUME NEW i \in Inode,
               IF dir[k] = None THEN i \notin Held(dir, ses) ELSE i = dir[k],
               dir' = [dir EXCEPT ![k] = i], data' = [data EXCEPT ![i] = <<>>]
        PROVE  Step
    <3>1. \A l \in Key \ {k} : dir[l] # i
      BY <2>1, <2>3, NoneIsNone DEF Held, ServerInv, OneName
    <3>2. \A l \in Key \ {k} : dir'[l] = dir[l] /\ (dir[l] # None => data'[dir[l]] = data[dir[l]])
      BY <2>3, <3>1 DEF ServerInv, TypeOK
    <3>3. Spares({k})
      BY <1>3, <3>2 DEF Spares, Served, PutOpen
    <3>. QED BY <1>3, <2>1, <3>3, Works DEF PutOpen
  <2>. QED BY <1>3, <2>2, <2>3 DEF PutOpen
<1>4. CASE Receive(s)
  <2> DEFINE k == ses[s].file
  <2>1. k \in Key
    BY <1>4, InHand DEF Receive, At, NoFile
  <2>2. CASE data' = Reap(dir, ses')
    BY <1>4, <2>2, SparesAll, Stutters DEF Receive, ServerInv
  <2>3. ASSUME ses[s].fd # None, NEW b \in Block,
               data' = [data EXCEPT ![ses[s].fd] = WriteAt(@, ses[s].pos + 1, b)]
        PROVE  Step
    <3>1. \A l \in Key \ {k} : dir[l] # ses[s].fd
      BY <2>3 DEF ServerInv, OwnStream
    <3>2. \A l \in Key \ {k} : dir[l] # None => data'[dir[l]] = data[dir[l]]
      BY <2>3, <3>1 DEF ServerInv, TypeOK
    <3>3. Spares({k})
      BY <1>4, <3>2 DEF Spares, Served, Receive
    <3>. QED BY <1>4, <2>1, <3>3, Works DEF Receive
  <2>. QED BY <1>4, <2>2, <2>3 DEF Receive
<1>5. CASE HSet(s)
  <2>1. ses[s].file \in Key
    BY <1>5, InHand DEF HSet, At, NoFile
  <2>2. Spares({ses[s].file})
    BY <1>5 DEF HSet, Spares, Served, ServerInv, TypeOK
  <2>. QED BY <1>5, <2>1, <2>2, Works DEF HSet
<1>. QED BY <1>1, <1>2, <1>3, <1>4, <1>5 DEF Upload

LEMMA EraseRefines ==
  ASSUME ServerInv, ServerInv', NEW s \in Session, Erase(s)
  PROVE  Step
<1>1. CASE Delete(s)
  <2>1. PICK k \in Key : Request(s, k, "delete", <<>>, 0) /\ told' = [told EXCEPT ![k] = Unknown]
    BY <1>1 DEF Delete
  <2>. QED BY <2>1, SparesAll, Asks DEF Request, ServerInv
<1>2. CASE Remove(s)
  <2> DEFINE k == ses[s].file
  <2>1. k \in Key
    BY <1>2, InHand DEF Remove, NoFile
  <2>2. \A l \in Key \ {k} : dir'[l] = dir[l]
    BY <1>2 DEF Remove, ServerInv, TypeOK
  <2>3. \A l \in Key \ {k} : dir[l] # None => data'[dir[l]] = data[dir[l]]
    <3>1. data' = Reap(dir', ses') /\ data \in [Inode -> Data]
      BY <1>2 DEF Remove, ServerInv, TypeOK
    <3>2. \A l \in Key : dir'[l] \in Inode => data'[dir'[l]] = data[dir'[l]]
      BY <3>1, ReapKeeps
    <3>3. \A l \in Key : dir[l] # None => dir[l] \in Inode
      BY DEF ServerInv, TypeOK
    <3>. QED BY <2>2, <3>2, <3>3
  <2>4. Spares({k})
    BY <1>2, <2>2, <2>3 DEF Spares, Served, Remove
  <2>. QED BY <1>2, <2>1, <2>4, Works DEF Remove
<1>3. CASE HDel(s)
  <2>1. ses[s].file \in Key
    BY <1>3, InHand DEF HDel, At, NoFile
  <2>2. Spares({ses[s].file})
    BY <1>3 DEF HDel, Spares, Served, ServerInv, TypeOK
  <2>. QED BY <1>3, <2>1, <2>2, Works DEF HDel
<1>. QED BY <1>1, <1>2, <1>3 DEF Erase

LEMMA DownloadRefines ==
  ASSUME ServerInv, NEW s \in Session, Download(s) \/ Snapshot(s) \/ List(s)
  PROVE  Step
<1>1. /\ dir' = dir /\ snapshot' = snapshot /\ told' = told
      /\ data' = data \/ data' = Reap(dir', ses')
  BY DEF Download, Get, Request, Lookup, Found, Load, Size, Send, SendEnd, Snapshot, List
<1>. QED BY <1>1, SparesAll, Stutters DEF ServerInv

LEMMA RespondRefines ==
  ASSUME ServerInv, ServerInv', NEW s \in Session, Respond(s)
  PROVE  Step
<1> DEFINE r == ses[s]
<1>1. Spares({})
  BY SparesAll DEF Respond, ServerInv
<1>2. CASE told' = told
  BY <1>1, <1>2, Stutters
<1>3. CASE r.ans \in {"STORED", "DELETED"} /\ told' # told
  <2>1. r.file \in Key
    BY <1>3, InHand DEF Respond, At, NoFile
  <2>2. r.hash \in Data
    BY DEF ServerInv, TypeOK, SessionRecord
  <2>3. \E v \in Data \cup {None} : told' = [told EXCEPT ![r.file] = v]
    BY <1>3, <2>2 DEF Respond
  <2>. QED BY <1>1, <2>1, <2>3, Tells
<1>. QED BY <1>2, <1>3 DEF Respond

LEMMA EndRefines ==
  ASSUME ServerInv, Crash \/ Restart
  PROVE  Step
<1>1. /\ dir' = dir /\ snapshot' = snapshot /\ told' = told
      /\ data' = data \/ data' = Reap(dir', ses')
  BY DEF Crash, Restart
<1>. QED BY <1>1, SparesAll, Stutters DEF ServerInv

LEMMA NextRefines == ServerInv /\ ServerInv' /\ [Next]_vars => Step
<1>. SUFFICES ASSUME ServerInv, ServerInv', [Next]_vars PROVE Step
  OBVIOUS
<1>1. ASSUME NEW s \in Session,
             \/ Connection(s) \/ Upload(s) \/ Erase(s) \/ Download(s)
             \/ Snapshot(s) \/ List(s) \/ Respond(s) \/ Terminate(s)
      PROVE  Step
  BY <1>1, ConnectionRefines, UploadRefines, EraseRefines, DownloadRefines, RespondRefines,
     EndRefines DEF Terminate
<1>2. CASE Killed \/ Restart
  BY <1>2, EndRefines DEF Killed
<1>3. CASE UNCHANGED vars
  BY <1>3, SparesAll, Stutters DEF vars, ServerInv
<1>. QED BY <1>1, <1>2, <1>3 DEF Next

\* Nothing is held and nothing was told.
LEMMA InitRefines == Init => Service!ServiceInit
BY DEF Init, Service!ServiceInit, Served

\* The server is the service (session.cpp:164-409): whatever its sessions do to one
\* another and whenever it dies, what is held under a key changes only while an
\* operation on it is open, and an answer tells what is held.
THEOREM ServerIsService == Spec => ServiceRefined
<1>1. Spec => []ServerInv
  BY Invariance
<1> QED
  BY <1>1, InitRefines, NextRefines, PTL DEF Spec, ServiceRefined, Service!ServiceSpec, Step

=============================================================================
