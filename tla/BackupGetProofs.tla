--------------------------- MODULE BackupGetProofs ---------------------------
(***************************************************************************)
(* GetConfirmed holds for every number of connections, users, paths and    *)
(* inodes.  GetInv is inductive: of a path whose last PUT still counts     *)
(* neither the name nor the content changes (Rests), and a handler is      *)
(* disturbed by no other step than the arrival of a request (Spared).      *)
(***************************************************************************)
EXTENDS BackupServerProofs

-----------------------------------------------------------------------------
(* What a step may do to the others *)

\* Handler t keeps all that a GET has established, and is marked alone only if it was.
Spared(t) ==
  /\ ses'[t].pc = ses[t].pc /\ ses'[t].ans = ses[t].ans /\ ses'[t].file = ses[t].file
  /\ ses'[t].fd = ses[t].fd /\ ses'[t].len = ses[t].len /\ ses'[t].body = ses[t].body
  /\ ses'[t].alone => ses[t].alone

\* A path whose last PUT or DELETE still counts keeps its name.
Rests == \A k \in Key : told[k] # Unknown => dir'[k] = dir[k]

\* The steps of handler s alone, once its request has arrived and before its answer.
OwnStep(s) ==
  \/ Connection(s) \/ Snapshot(s) \/ List(s)
  \/ PutExists(s) \/ PutCompare(s) \/ PutOpen(s) \/ Receive(s) \/ Verify(s) \/ HSet(s)
  \/ Remove(s) \/ HDel(s)
  \/ Lookup(s) \/ Found(s) \/ Load(s) \/ Size(s) \/ Send(s) \/ SendEnd(s)

\* Such a step touches no other handler.
LEMMA OwnSpares ==
  ASSUME TypeOK, NEW s \in Session, OwnStep(s)
  PROVE  /\ \A t \in Session \ {s} : ses'[t] = ses[t]
         /\ told' = told
<1>1. CASE Connection(s) \/ Snapshot(s) \/ List(s)
  BY <1>1 DEF Connection, Accept, Disconnect, HangUp, Login, Refuse, Reply, Snapshot, List, Goto,
              TypeOK
<1>2. CASE PutExists(s) \/ PutCompare(s) \/ PutOpen(s)
  BY <1>2 DEF PutExists, PutCompare, PutOpen, Goto, Reply, TypeOK
<1>3. CASE Receive(s) \/ Verify(s) \/ HSet(s)
  BY <1>3 DEF Receive, Verify, HSet, Reply, TypeOK
<1>4. CASE Remove(s) \/ HDel(s)
  BY <1>4 DEF Remove, HDel, Goto, TypeOK
<1>5. CASE Lookup(s) \/ Found(s) \/ Load(s) \/ Size(s)
  BY <1>5 DEF Lookup, Found, Load, Size, Goto, Reply, TypeOK
<1>6. CASE Send(s) \/ SendEnd(s)
  BY <1>6 DEF Send, SendEnd, TypeOK
<1>. QED BY <1>1, <1>2, <1>3, <1>4, <1>5, <1>6 DEF OwnStep

\* Names change only at PutOpen and Remove, of a path whose user counts on nothing.
LEMMA OwnRests ==
  ASSUME ServerInv, NEW s \in Session, OwnStep(s)
  PROVE  Rests
<1>1. CASE PutOpen(s) \/ Remove(s)
  <2>1. told[ses[s].file] = Unknown
    BY <1>1, ChangingFacts DEF PutOpen, Remove, At, Changing
  <2>2. \A k \in Key \ {ses[s].file} : dir'[k] = dir[k]
    BY <1>1 DEF PutOpen, Remove, ServerInv, TypeOK
  <2>. QED BY <2>1, <2>2 DEF Rests
<1>2. CASE dir' = dir
  BY <1>2 DEF Rests
<1>. QED
  BY <1>1, <1>2 DEF OwnStep, Connection, Accept, Disconnect, HangUp, Login, Refuse, Snapshot, List,
     PutExists, PutCompare, Receive, Verify, HSet, HDel, Lookup, Found, Load, Size, Send, SendEnd

\* A handler that is spared, of a path at rest, has got as far as before.
LEMMA SparedGot ==
  ASSUME ServerInv, NEW t \in Session, GotOf(ses[t]), Spared(t), Rests,
         Counts(ses[t])' => told'[ses[t].file] = told[ses[t].file]
  PROVE  GotOf(ses[t])'
<1>1. Counts(ses[t])' => Counts(ses[t]) /\ told'[ses[t].file] = told[ses[t].file]
  BY DEF Counts, Spared
<1>2. Counts(ses[t])' => dir'[ses[t].file] = dir[ses[t].file]
  <2>1. ses[t].file # None => ses[t].file \in Key
    BY Here DEF SessionRecord
  <2>. QED BY <1>1, <2>1, ServerAssumption DEF Counts, Rests, ServerAssumption
<1>. QED BY <1>1, <1>2 DEF GotOf, Spared

\* Another handler's step, or one that leaves the records of the handlers alone.
LEMMA OthersGot ==
  ASSUME GetInv, Rests, told' = told, NEW s, \A t \in Session \ {s} : ses'[t] = ses[t]
  PROVE  \A t \in Session \ {s} : GotOf(ses[t])'
<1>. TAKE t \in Session \ {s}
<1>1. GotOf(ses[t]) /\ Spared(t)
  BY DEF GetInv, Got, Spared
<1>. QED BY <1>1, SparedGot DEF GetInv

-----------------------------------------------------------------------------
(* The handler that steps *)

\* A handler that keeps its request, was no GET's and is none's, has sent nothing.
LEMMA ChangingGot ==
  ASSUME GetInv, ServerInv', NEW s \in Session, ses[s].pc \in Changing, ses'[s].body = ses[s].body,
         ses'[s].file = ses[s].file, told' = told,
         ses'[s].pc \notin {"lookup", "found", "load", "size", "send"}
  PROVE  GotOf(ses[s])'
<1>1. ses[s].body = <<>> /\ told[ses[s].file] = Unknown
  BY ChangingFacts DEF GetInv, Got, GotOf, Changing
<1>. QED BY <1>1, ServerAssumption DEF GotOf, Counts, ServerAssumption

\* A handler without a file.
LEMMA FilelessGot ==
  ASSUME NEW s \in Session, ses'[s].body = <<>>, ses'[s].file = None,
         ses'[s].pc \notin {"lookup", "found", "load", "size", "send"}
  PROVE  GotOf(ses[s])'
BY DEF GotOf, Counts

LEMMA ConnectionGot ==
  ASSUME GetInv, NEW s \in Session, Connection(s) \/ Snapshot(s) \/ List(s)
  PROVE  GotOf(ses[s])'
<1>1. /\ ses \in [Session -> SessionRecord] /\ ses[s] \in SessionRecord
      /\ GotOf(ses[s]) /\ ShapeOf(ses[s])
  BY Here DEF GetInv, Got, ServerInv, TypeOK
<1>2. CASE Disconnect(s)
  <2>1. Spared(s)
    BY <1>1, <1>2 DEF Disconnect, Spared, SessionRecord
  <2>. QED BY <1>1, <1>2, <2>1, SparedGot DEF Disconnect, Rests, GetInv
<1>3. CASE Accept(s) \/ HangUp(s)
  BY <1>1, <1>3, FilelessGot DEF Accept, HangUp, Closed, Idle
<1>4. CASE Login(s) \/ Refuse(s) \/ Snapshot(s) \/ List(s)
  <2>1. ses[s].file = None /\ ses[s].body = <<>>
    BY <1>1, <1>4 DEF Login, Refuse, Snapshot, List, At, ShapeOf, NoFile, GotOf
  <2>2. /\ ses'[s].file = None /\ ses'[s].body = <<>>
        /\ ses'[s].pc \notin {"lookup", "found", "load", "size", "send"}
    BY <1>1, <1>4, <2>1 DEF Login, Refuse, Snapshot, List, Goto, Reply, SessionRecord
  <2>. QED BY <2>2, FilelessGot
<1>. QED BY <1>2, <1>3, <1>4 DEF Connection

LEMMA UploadGot ==
  ASSUME GetInv, ServerInv', NEW s \in Session,
         \/ PutExists(s) \/ PutCompare(s) \/ PutOpen(s) \/ Receive(s) \/ Verify(s) \/ HSet(s)
         \/ Remove(s) \/ HDel(s)
  PROVE  GotOf(ses[s])'
<1>1. ses \in [Session -> SessionRecord] /\ ses[s] \in SessionRecord /\ ses[s].pc \in Changing
  BY DEF GetInv, ServerInv, TypeOK, PutExists, PutCompare, PutOpen, Receive, Verify, HSet,
         Remove, HDel, At, Changing
<1>2. told' = told
  BY DEF PutExists, PutCompare, PutOpen, Receive, Verify, HSet, Remove, HDel
<1>3. CASE ses' = [ses EXCEPT ![s] = Idle(ses[s].user, ses[s].alive)]
  BY <1>1, <1>3, FilelessGot DEF Idle
<1>4. CASE PutExists(s) \/ PutCompare(s) \/ PutOpen(s)
  <2>1. /\ ses'[s].body = ses[s].body /\ ses'[s].file = ses[s].file
        /\ ses'[s].pc \notin {"lookup", "found", "load", "size", "send"}
    BY <1>1, <1>4 DEF PutExists, PutCompare, PutOpen, Goto, Reply, SessionRecord
  <2>. QED BY <1>1, <1>2, <2>1, ChangingGot
<1>5. CASE Receive(s) \/ HSet(s)
  <2>1. /\ ses'[s].body = ses[s].body /\ ses'[s].file = ses[s].file
        /\ ses'[s].pc \notin {"lookup", "found", "load", "size", "send"}
    BY <1>1, <1>5 DEF Receive, HSet, At, Reply, SessionRecord
  <2>. QED BY <1>1, <1>2, <2>1, ChangingGot
<1>6. CASE Verify(s) /\ ses' # [ses EXCEPT ![s] = Idle(ses[s].user, ses[s].alive)]
  <2>1. /\ ses'[s].body = ses[s].body /\ ses'[s].file = ses[s].file
        /\ ses'[s].pc \notin {"lookup", "found", "load", "size", "send"}
    BY <1>1, <1>6 DEF Verify, SessionRecord
  <2>. QED BY <1>1, <1>2, <2>1, ChangingGot
<1>7. CASE Remove(s) \/ HDel(s)
  <2>1. /\ ses'[s].body = ses[s].body /\ ses'[s].file = ses[s].file
        /\ ses'[s].pc \notin {"lookup", "found", "load", "size", "send"}
    BY <1>1, <1>7 DEF Remove, HDel, Goto, SessionRecord
  <2>. QED BY <1>1, <1>2, <2>1, ChangingGot
<1>. QED BY <1>3, <1>4, <1>5, <1>6, <1>7

\* A path that counts is served: it is recorded, it has a file and its content.
LEMMA CountsServed ==
  ASSUME ServerInv, NEW s \in Session, Counts(ses[s])
  PROVE  LET k == ses[s].file IN
         /\ k \in Key /\ snapshot[k] # None /\ dir[k] \in Inode /\ data[dir[k]] = told[k]
         /\ told[k] \in Seq(Block) /\ Len(told[k]) \in 0..MaxLen
<1> DEFINE k == ses[s].file
<1>1. k \in Key
  BY Here DEF Counts, SessionRecord
<1>2. Served(k) = told[k] /\ told[k] \in Data /\ told[k] # None
  BY <1>1, NoneIsNone DEF Counts, ServerInv, Confirmed
<1>3. snapshot[k] # None /\ dir[k] # None /\ data[dir[k]] = told[k]
  BY <1>2 DEF Served
<1>. QED BY <1>1, <1>2, <1>3, DataIsSeq DEF ServerInv, TypeOK

LEMMA LookupGot ==
  ASSUME GetInv, NEW s \in Session, Lookup(s) \/ Found(s)
  PROVE  GotOf(ses[s])'
<1>1. /\ ses \in [Session -> SessionRecord] /\ ses[s] \in SessionRecord /\ GotOf(ses[s])
      /\ ses[s].pc \in {"lookup", "found"} /\ told' = told
  BY DEF GetInv, ServerInv, TypeOK, Got, Lookup, Found, At
<1>2. ses[s].body = <<>> /\ ses[s].ans = None
  BY <1>1 DEF GotOf
<1>3. /\ ses'[s].body = <<>> /\ ses'[s].file = ses[s].file /\ ses'[s].alone = ses[s].alone
      /\ \/ ses'[s].pc \in {"found", "load"} /\ ses'[s].ans = None
         \/ /\ ses'[s].pc \in {"reply", "hdel"} /\ ses'[s].ans = "NOT_FOUND"
            /\ snapshot[ses[s].file] = None \/ dir[ses[s].file] = None
  BY <1>1, <1>2 DEF Lookup, Found, Goto, Reply, SessionRecord
<1>4. Counts(ses[s])' => Counts(ses[s])
  BY <1>1, <1>3 DEF Counts
<1>5. Counts(ses[s])' => ses'[s].ans = None
  BY <1>3, <1>4, CountsServed, NoneIsNone DEF GetInv
<1>6. Counts(ses[s])' => Len(told[ses[s].file]) >= 0
  BY <1>4, CountsServed DEF GetInv
<1>. QED BY <1>1, <1>3, <1>5, <1>6, NoneIsNone DEF GotOf, Answer, AfterReply

LEMMA LoadGot ==
  ASSUME GetInv, NEW s \in Session, Load(s)
  PROVE  GotOf(ses[s])'
<1>1. /\ ses \in [Session -> SessionRecord] /\ ses[s] \in SessionRecord /\ GotOf(ses[s])
      /\ ses[s].pc = "load" /\ told' = told /\ dir' = dir
  BY DEF GetInv, ServerInv, TypeOK, Got, Load, At
<1>2. ses[s].body = <<>> /\ ses[s].ans = None
  BY <1>1 DEF GotOf
<1>3. /\ ses'[s].body = <<>> /\ ses'[s].file = ses[s].file /\ ses'[s].alone = ses[s].alone
      /\ \/ ses'[s].pc = "size" /\ ses'[s].ans = None /\ ses'[s].fd = dir[ses[s].file]
         \/ ses'[s].pc = "reply" /\ ses'[s].ans = "OPEN_ERROR"
  BY <1>1, <1>2 DEF Load, Reply, SessionRecord
<1>4. Counts(ses[s])' => Counts(ses[s])
  BY <1>1, <1>3 DEF Counts
<1>5. Counts(ses[s])' => Len(told[ses[s].file]) >= 0
  BY <1>4, CountsServed DEF GetInv
<1>. QED BY <1>1, <1>3, <1>5, NoneIsNone DEF GotOf, Answer, AfterReply

LEMMA SizeGot ==
  ASSUME GetInv, NEW s \in Session, Size(s)
  PROVE  GotOf(ses[s])'
<1>1. /\ ses \in [Session -> SessionRecord] /\ ses[s] \in SessionRecord /\ GotOf(ses[s])
      /\ ses[s].pc = "size" /\ told' = told /\ dir' = dir
  BY DEF GetInv, ServerInv, TypeOK, Got, Size, At
<1>2. ses[s].body = <<>>
  BY <1>1 DEF GotOf
<1>3. /\ ses'[s].body = <<>> /\ ses'[s].file = ses[s].file /\ ses'[s].alone = ses[s].alone
      /\ ses'[s].fd = ses[s].fd /\ ses'[s].len = Len(data[dir[ses[s].file]])
      /\ ses'[s].pc = "reply" /\ ses'[s].ans = "LENGTH"
  BY <1>1, <1>2 DEF Size, SessionRecord
<1>4. Counts(ses[s])' => Counts(ses[s])
  BY <1>1, <1>3 DEF Counts
<1>5. Counts(ses[s])' => /\ ses[s].fd = dir[ses[s].file]
                        /\ data[dir[ses[s].file]] = told[ses[s].file]
                        /\ Len(told[ses[s].file]) >= 0
  BY <1>1, <1>4, CountsServed DEF GetInv, GotOf
<1>. QED BY <1>1, <1>3, <1>5 DEF GotOf

LEMMA SendGot ==
  ASSUME GetInv, NEW s \in Session, Send(s)
  PROVE  GotOf(ses[s])'
<1> DEFINE b == ses[s].body
           c == told[ses[s].file]
<1>1. /\ ses \in [Session -> SessionRecord] /\ ses[s] \in SessionRecord /\ GotOf(ses[s])
      /\ ses[s].pc = "send" /\ told' = told /\ dir' = dir
      /\ Len(b) < ses[s].len /\ b \in Seq(Block) /\ Len(b) \in Nat
  BY DataIsSeq DEF GetInv, ServerInv, TypeOK, Got, Send, At, SessionRecord
<1>2. /\ ses'[s].file = ses[s].file /\ ses'[s].alone = ses[s].alone
      /\ ses'[s].pc = "send" /\ ses'[s].len = ses[s].len /\ ses'[s].ans = ses[s].ans
  BY <1>1, SendFields DEF GetInv
<1>3. CASE Counts(ses[s])
  <2>1. /\ ses[s].fd = dir[ses[s].file] /\ dir[ses[s].file] \in Inode
        /\ data[dir[ses[s].file]] = c /\ ses[s].len = Len(c)
        /\ ses[s].ans # "NOT_FOUND"
        /\ c \in Seq(Block) /\ \A i \in 1..Len(b) : b[i] = c[i]
    BY <1>1, <1>3, CountsServed DEF GetInv, GotOf
  <2>2. ses' = [ses EXCEPT ![s].body = Append(@, c[Len(b) + 1])]
    BY <1>1, <2>1, NoneIsNone DEF Send
  <2>3. ses'[s].body = Append(b, c[Len(b) + 1]) /\ ses'[s].fd = ses[s].fd
    BY <1>1, <2>2 DEF SessionRecord
  <2>4. c[Len(b) + 1] \in Block
    BY <1>1, <2>1
  <2>5. /\ Len(ses'[s].body) = Len(b) + 1
        /\ \A i \in 1..(Len(b) + 1) : ses'[s].body[i] = c[i]
    <3>. HIDE DEF b, c
    <3>1. /\ Len(Append(b, c[Len(b) + 1])) = Len(b) + 1
          /\ \A i \in 1..Len(b) : Append(b, c[Len(b) + 1])[i] = b[i]
          /\ Append(b, c[Len(b) + 1])[Len(b) + 1] = c[Len(b) + 1]
      BY <1>1, <2>4
    <3>2. \A i \in 1..(Len(b) + 1) : i \in 1..Len(b) \/ i = Len(b) + 1
      BY <1>1
    <3>. QED BY <2>1, <2>3, <3>1, <3>2
  <2>. QED BY <1>1, <1>2, <2>1, <2>3, <2>5 DEF GotOf, c
<1>4. CASE ~Counts(ses[s])
  BY <1>1, <1>2, <1>4 DEF GotOf, Counts
<1>. QED BY <1>3, <1>4

LEMMA OwnGot ==
  ASSUME GetInv, ServerInv', NEW s \in Session, OwnStep(s)
  PROVE  GotOf(ses[s])'
<1>1. CASE SendEnd(s)
  <2>1. ses'[s] = Idle(ses[s].user, ses[s].alive)
    BY <1>1 DEF SendEnd, GetInv, ServerInv, TypeOK
  <2>. QED BY <2>1, FilelessGot DEF Idle
<1>. QED BY <1>1, ConnectionGot, UploadGot, LookupGot, LoadGot, SizeGot, SendGot DEF OwnStep

-----------------------------------------------------------------------------
(* Who else is at work *)

\* Handler s has the file it had, or none; it does not begin to change it, and goes on
\* without harm if it was harmless.
Goes(s) ==
  ses'[s].file # None =>
    /\ ses'[s].file = ses[s].file
    /\ ses'[s].alone = ses[s].alone
    /\ ~Reading(ses'[s]) => ~Reading(ses[s]) /\ (Harmless(ses[s]) => Harmless(ses'[s]))

LEMMA OwnGoes ==
  ASSUME ServerInv, NEW s \in Session, OwnStep(s)
  PROVE  Goes(s)
<1>. USE DEF Goes
<1>1. ses \in [Session -> SessionRecord] /\ ses[s] \in SessionRecord /\ ShapeOf(ses[s])
  BY Here DEF ServerInv, TypeOK
<1>2. CASE Connection(s) \/ Snapshot(s) \/ List(s)
  <2>1. CASE Disconnect(s)
    <3>1. /\ ses'[s].pc = ses[s].pc /\ ses'[s].ans = ses[s].ans /\ ses'[s].file = ses[s].file
          /\ ses'[s].alone = ses[s].alone
      BY <1>1, <2>1 DEF Disconnect, SessionRecord
    <3>. QED BY <3>1 DEF Reading, Harmless
  <2>2. CASE Accept(s) \/ HangUp(s)
    BY <1>1, <2>2 DEF Accept, HangUp, Closed, Idle
  <2>3. CASE Login(s) \/ Refuse(s) \/ Snapshot(s) \/ List(s)
    <3>1. ses[s].file = None /\ ses'[s].file = ses[s].file
      BY <1>1, <2>3 DEF Login, Refuse, Snapshot, List, At, ShapeOf, NoFile, Goto, Reply, SessionRecord
    <3>. QED BY <3>1
  <2>. QED BY <1>2, <2>1, <2>2, <2>3 DEF Connection
<1>3. CASE PutExists(s) \/ PutCompare(s) \/ PutOpen(s) \/ Receive(s) \/ Verify(s) \/ HSet(s) \/ Remove(s)
  <2>1. ~Reading(ses[s]) /\ ~Harmless(ses[s])
    BY <1>3 DEF PutExists, PutCompare, PutOpen, Receive, Verify, HSet, Remove, At, Reading, Harmless
  <2>2. \/ ses'[s].file = None
        \/ ses'[s].file = ses[s].file /\ ses'[s].alone = ses[s].alone
    <3>1. CASE PutExists(s) \/ PutCompare(s) \/ PutOpen(s)
      BY <1>1, <3>1 DEF PutExists, PutCompare, PutOpen, Goto, Reply, SessionRecord
    <3>2. CASE Receive(s) \/ HSet(s) \/ Remove(s)
      <4>1. CASE Receive(s)
        BY <1>1, <4>1 DEF Receive, SessionRecord
      <4>. QED BY <1>1, <3>2, <4>1 DEF HSet, Remove, Reply, SessionRecord
    <3>3. CASE Verify(s)
      <4>1. CASE ses' = [ses EXCEPT ![s] = Idle(ses[s].user, ses[s].alive)]
        <5>1. ses'[s] = Idle(ses[s].user, ses[s].alive)
          BY <1>1, <4>1
        <5>2. ses'[s].file = None
          BY <5>1 DEF Idle
        <5>. QED BY <5>2
      <4>2. CASE ses' # [ses EXCEPT ![s] = Idle(ses[s].user, ses[s].alive)]
        BY <1>1, <3>3, <4>2 DEF Verify, SessionRecord
      <4>. QED BY <4>1, <4>2
    <3>. QED BY <1>3, <3>1, <3>2, <3>3
  <2>. QED BY <2>1, <2>2
<1>4. CASE HDel(s)
  <2>1. /\ ses[s].pc = "hdel" /\ ses'[s].file = ses[s].file /\ ses'[s].alone = ses[s].alone
        /\ ses'[s].ans = ses[s].ans
        /\ ses'[s].pc = IF ses[s].ans = "GO" THEN "open" ELSE "reply"
    BY <1>1, <1>4 DEF HDel, At, Goto, SessionRecord
  <2>. QED BY <2>1 DEF Reading, Harmless
<1>5. CASE Lookup(s) \/ Found(s)
  <2>1. /\ ~Reading(ses[s])
        /\ ses'[s].file = ses[s].file /\ ses'[s].alone = ses[s].alone
        /\ \/ ses'[s].pc \in {"found", "load"}
           \/ ses'[s].pc \in {"reply", "hdel"} /\ ses'[s].ans = "NOT_FOUND"
    BY <1>1, <1>5 DEF Lookup, Found, At, Goto, Reply, SessionRecord, Reading
  <2>. QED BY <2>1 DEF Reading, Harmless
<1>6. CASE Load(s) \/ Size(s)
  <2>1. /\ ses'[s].file = ses[s].file /\ ses'[s].alone = ses[s].alone
        /\ \/ ses'[s].pc = "size"
           \/ ses'[s].pc = "reply" /\ ses'[s].ans \in {"LENGTH", "OPEN_ERROR"}
    BY <1>1, <1>6 DEF Load, Size, Reply, SessionRecord
  <2>. QED BY <2>1 DEF Reading
<1>7. CASE Send(s)
  <2>1. ses[s].pc = "send"
    BY <1>7 DEF Send, At
  <2>2. ses'[s].pc = "send" /\ ses'[s].file = ses[s].file /\ ses'[s].alone = ses[s].alone
    BY <1>7, <2>1, SendFields
  <2>. QED BY <2>2 DEF Reading
<1>8. CASE SendEnd(s)
  BY <1>1, <1>8 DEF SendEnd, Idle
<1>. QED BY <1>2, <1>3, <1>4, <1>5, <1>6, <1>7, <1>8 DEF OwnStep

LEMMA GoesLone ==
  ASSUME Lone, NEW s \in Session, Goes(s), \A t \in Session \ {s} : ses'[t] = ses[t]
  PROVE  Lone'
<1>. SUFFICES ASSUME NEW r \in Session, NEW t \in Session, r # t, ses'[r].alone, ses'[r].file # None,
                     ses'[t].file = ses'[r].file, ~Reading(ses'[t])
              PROVE  Harmless(ses'[t])
  BY DEF Lone, Working, Harmless
<1>1. CASE r # s /\ t # s
  BY <1>1 DEF Lone, Working, Harmless
<1>2. CASE r = s
  BY <1>2 DEF Lone, Working, Harmless, Goes
<1>3. CASE t = s
  BY <1>3 DEF Lone, Working, Harmless, Goes
<1>. QED BY <1>1, <1>2, <1>3

-----------------------------------------------------------------------------
(* Requests, answers and the end of the process *)

LEMMA RequestGet ==
  ASSUME GetInv, NEW s \in Session, NEW k \in Key, NEW l \in {"exists", "delete", "lookup"},
         NEW h, NEW n, Request(s, k, l, h, n),
         told' = [told EXCEPT ![k] = Unknown] \/ (l = "lookup" /\ told' = told)
  PROVE  Lone' /\ Got'
<1>1. /\ ses \in [Session -> SessionRecord] /\ ses[s] \in SessionRecord
      /\ ses[s].pc = "ready" /\ ses[s].ans = None /\ ses[s].body = <<>>
  BY Here DEF GetInv, Got, GotOf, ServerInv, TypeOK, Request, At, ShapeOf
<1>2. /\ ses'[s].pc = l /\ ses'[s].file = k /\ ses'[s].ans = None /\ ses'[s].body = <<>>
      /\ ses'[s].alone => \A o \in Session \ {s} : ~Working(o, k)
  BY <1>1 DEF Request, SessionRecord
<1>3. ASSUME NEW t \in Session \ {s}
      PROVE  Spared(t) /\ (ses'[t].alone /\ ses[t].file = k => l = "lookup")
  <2>1. ses[t] \in SessionRecord
    BY <1>1
  <2>. QED BY <2>1 DEF Request, SessionRecord, Spared
<1>4. Lone'
  <2>. SUFFICES ASSUME NEW r \in Session, NEW t \in Session, r # t,
                       ses'[r].alone, ses'[r].file # None,
                       ses'[t].file = ses'[r].file, ~Reading(ses'[t])
                PROVE  Harmless(ses'[t])
    BY DEF Lone, Working, Harmless
  <2>1. CASE r # s /\ t # s
    BY <1>3, <2>1 DEF Spared, GetInv, Lone, Working, Harmless, Reading
  <2>2. CASE r = s
    BY <1>2, <1>3, <2>2 DEF Spared, Working, Reading
  <2>3. CASE t = s
    BY <1>2, <1>3, <2>3 DEF Spared, Harmless
  <2>. QED BY <2>1, <2>2, <2>3
<1>5. GotOf(ses[s])'
  <2>1. told \in [Key -> Data \cup {None, Unknown}] /\ Unknown \notin Data
    BY ServerAssumption DEF ServerAssumption, GetInv, ServerInv, TypeOK
  <2>2. Counts(ses[s])' => told'[k] \in Data /\ l = "lookup"
    BY <1>2, <2>1 DEF Counts
  <2>3. told'[k] \in Data => Len(told'[k]) >= 0
    BY DataIsSeq
  <2>. QED BY <1>2, <2>2, <2>3, NoneIsNone DEF GotOf, Answer, AfterReply
<1>6. ASSUME NEW t \in Session \ {s} PROVE GotOf(ses[t])'
  <2>1. Rests
    BY DEF Request, Rests
  <2>2. ASSUME Counts(ses[t])' PROVE told'[ses[t].file] = told[ses[t].file]
    <3>1. ses'[t].file = ses[t].file /\ (ses[t].file = k => l = "lookup")
      BY <1>3, <2>2 DEF Counts, Spared
    <3>2. told \in [Key -> Data \cup {None, Unknown}] /\ Unknown \notin Data
      BY ServerAssumption DEF ServerAssumption, GetInv, ServerInv, TypeOK
    <3>3. ses[t].file \in Key
      BY <1>1, <2>2, <3>1 DEF Counts, SessionRecord
    <3>. QED BY <2>2, <3>1, <3>2, <3>3 DEF Counts
  <2>. QED BY <1>3, <2>1, <2>2, SparedGot DEF GetInv, Got
<1>. QED BY <1>4, <1>5, <1>6 DEF Got

LEMMA RespondGet ==
  ASSUME GetInv, NEW s \in Session, Respond(s)
  PROVE  Lone' /\ Got'
<1> DEFINE o == ses[s]
           next == AfterReply[o.ans]
<1>1. /\ ses \in [Session -> SessionRecord] /\ o \in SessionRecord
      /\ o.pc = "reply" /\ o.ans \in Answer /\ o.body = <<>> /\ ShapeOf(o)
  BY Here DEF GetInv, ServerInv, TypeOK, Respond, At, Got, GotOf, ShapeOf, SessionRecord
<1>2. \A t \in Session \ {s} : ses'[t] = ses[t]
  BY <1>1 DEF Respond
<1>3. \/ ses'[s].file = None /\ ses'[s].body = <<>> /\ ses'[s].pc \in {"ready", "closed", "reply"}
      \/ /\ o.ans = "GO" /\ ses'[s].pc = "recv" /\ ses'[s].body = <<>> /\ ses'[s].file = o.file
         /\ ses'[s].alone = o.alone /\ told' = told
      \/ /\ o.ans = "LENGTH" /\ ses'[s].pc = "send" /\ ses'[s].body = <<>> /\ ses'[s].file = o.file
         /\ ses'[s].alone = o.alone /\ ses'[s].fd = o.fd /\ ses'[s].len = o.len /\ ses'[s].ans = None
         /\ told' = told
  <2>1. CASE next = "ready"
    BY <1>1, <2>1 DEF Respond, Idle
  <2>2. CASE next = "closed"
    BY <1>1, <2>2 DEF Respond, Closed, Idle
  <2>3. CASE next = "reply"
    <3>1. o.ans = "LISTING" /\ o.file = None
      BY <1>1, <2>3 DEF Answer, AfterReply, ShapeOf, NoFile
    <3>2. ses' = [ses EXCEPT ![s] = [o EXCEPT !.ans = "LINES"]]
      BY <2>3 DEF Respond
    <3>. QED BY <1>1, <3>1, <3>2 DEF SessionRecord
  <2>4. CASE next \in {"recv", "send"}
    <3>1. /\ next = "recv" => o.ans = "GO"
          /\ next = "send" => o.ans = "LENGTH"
      BY <1>1 DEF Answer, AfterReply
    <3>2. ses' = [ses EXCEPT ![s] = [o EXCEPT !.pc = next, !.ans = None]] /\ told' = told
      BY <2>4, <3>1 DEF Respond
    <3>. HIDE DEF next
    <3>. QED BY <1>1, <2>4, <3>1, <3>2 DEF SessionRecord
  <2>. QED BY <1>1, <2>1, <2>2, <2>3, <2>4 DEF Answer, AfterReply
<1>4. Lone'
  <2>1. Goes(s)
    BY <1>1, <1>3 DEF Goes, Reading, Harmless
  <2>. QED BY <1>2, <2>1, GoesLone DEF GetInv
<1>5. GotOf(ses[s])'
  <2>1. CASE ses'[s].file = None /\ ses'[s].body = <<>> /\ ses'[s].pc \in {"ready", "closed", "reply"}
    BY <2>1, FilelessGot
  <2>2. CASE o.ans = "GO" /\ ses'[s].pc = "recv" /\ ses'[s].body = <<>> /\ ses'[s].file = o.file /\ told' = told
    <3>1. told[o.file] = Unknown
      BY <1>1, <2>2, Here DEF GetInv, HeardOf, Reading, ShapeOf, NoFile
    <3>. QED BY <2>2, <3>1, ServerAssumption DEF GotOf, Counts, ServerAssumption
  <2>3. CASE /\ o.ans = "LENGTH" /\ ses'[s].pc = "send" /\ ses'[s].body = <<>> /\ ses'[s].file = o.file
             /\ ses'[s].alone = o.alone /\ ses'[s].fd = o.fd /\ ses'[s].len = o.len /\ ses'[s].ans = None
             /\ told' = told
    <3>1. Counts(ses[s])' => Counts(o)
      BY <2>3 DEF Counts
    <3>2. Counts(o) => Len(told[o.file]) >= 0 /\ o.fd = dir[o.file] /\ o.len = Len(told[o.file])
      BY <2>3, CountsServed DEF GetInv, Got, GotOf
    <3>. QED BY <2>3, <3>1, <3>2, NoneIsNone DEF GotOf, Answer, AfterReply, Respond
  <2>. QED BY <1>3, <2>1, <2>2, <2>3
<1>6. ASSUME NEW t \in Session \ {s} PROVE GotOf(ses[t])'
  \* nobody that is told an answer about the path is alone beside t
  <2>1. Rests /\ Spared(t)
    BY <1>2 DEF Respond, Rests, Spared
  <2>2. Counts(ses[t])' => told'[ses[t].file] = told[ses[t].file]
    <3>1. CASE told' = told
      BY <3>1
    <3>2. CASE o.ans \in {"STORED", "DELETED"} /\ told' # told
      <4>1. \A k \in Key : k # o.file => told'[k] = told[k]
        BY <3>2 DEF Respond, GetInv, ServerInv, TypeOK
      <4>2. ~Reading(o) /\ ~Harmless(o)
        BY <1>1, <3>2 DEF Reading, Harmless
      <4>3. ses[t].alone /\ ses[t].file # None => ses[t].file # o.file
        BY <4>2 DEF GetInv, Lone, Working, Harmless
      <4>4. ses[t].file \in Key \cup {None}
        BY <1>1 DEF SessionRecord
      <4>. QED BY <1>2, <4>1, <4>3, <4>4 DEF Counts
    <3>. QED BY <3>1, <3>2 DEF Respond
  <2>. QED BY <2>1, <2>2, SparedGot DEF GetInv, Got
<1>. QED BY <1>4, <1>5, <1>6 DEF Got

LEMMA AllClosedGet ==
  ASSUME NEW ss, \A s \in Session : ss[s] = Closed
  PROVE  /\ \A s \in Session : GotOf(ss[s])
         /\ \A s \in Session : ss[s].file = None
BY DEF Closed, Idle, GotOf, Counts

-----------------------------------------------------------------------------
(* The theorems *)

LEMMA GetInitInv == Init => GetInv
<1>. SUFFICES ASSUME Init PROVE GetInv
  OBVIOUS
<1>1. \A s \in Session : ses[s] = Closed
  BY DEF Init
<1>. QED BY <1>1, InitInv, AllClosedGet DEF GetInv, Got, Lone

LEMMA GetNextInv == GetInv /\ [Next]_vars => GetInv'
<1>. SUFFICES ASSUME GetInv, [Next]_vars PROVE GetInv'
  OBVIOUS
<1>1. ServerInv'
  BY NextInv DEF GetInv
<1>2. ASSUME NEW s \in Session, OwnStep(s) PROVE Lone' /\ Got'
  BY <1>1, <1>2, OwnSpares, OwnRests, OthersGot, OwnGot, OwnGoes, GoesLone
     DEF GetInv, ServerInv, Got
<1>3. ASSUME NEW s \in Session, Put(s) \/ Delete(s) \/ Get(s) PROVE Lone' /\ Got'
  BY <1>3, RequestGet DEF Put, Delete, Get
<1>4. CASE Crash
  <2>1. \A s \in Session : /\ ses'[s].file = None /\ ses'[s].body = <<>>
                             /\ ses'[s].pc = "closed"
    BY <1>4 DEF Crash, Closed, Idle
  <2>2. Lone'
    BY <2>1 DEF Lone
  <2>3. ASSUME NEW s \in Session PROVE GotOf(ses[s])'
    BY <2>1, FilelessGot
  <2>. QED BY <1>1, <2>2, <2>3 DEF GetInv, Got
<1>5. CASE Restart \/ UNCHANGED vars
  <2>1. ses' = ses /\ dir' = dir /\ told' = told
    BY <1>5 DEF Restart, vars
  <2>2. Lone'
    BY <2>1 DEF GetInv, Lone, Working, Reading
  <2>3. Rests /\ \A t \in Session : Spared(t)
    BY <2>1 DEF Rests, Spared
  <2>4. ASSUME NEW s \in Session PROVE GotOf(ses[s])'
    BY <2>1, <2>3, SparedGot DEF GetInv, Got
  <2>. QED BY <1>1, <2>2, <2>4 DEF GetInv, Got
<1>. QED BY <1>1, <1>2, <1>3, <1>4, <1>5, RespondGet
         DEF GetInv, Next, OwnStep, Upload, Erase, Download, Terminate, Killed

\* Every GET of a confirmed file has the right file open, announces its length and
\* has sent its beginning, however the sessions interleave.
THEOREM GetInvariance == Spec => []GetInv
BY GetInitInv, GetNextInv, PTL DEF Spec

\* GetConfirmed (session.cpp:211-261), for every number of connections and files.
THEOREM GetServesConfirmed == Spec => []GetConfirmed
<1>1. GetInv => GetConfirmed
  BY DEF GetInv, Got, GotOf, Counts, GetConfirmed
<1>. QED BY <1>1, GetInvariance, PTL

=============================================================================
