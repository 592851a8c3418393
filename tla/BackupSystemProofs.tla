-------------------------- MODULE BackupSystemProofs --------------------------
(***************************************************************************)
(* HeardIsHeld holds for every number of connections, users, paths and     *)
(* blocks.  Every step of the system is one of the server's or leaves the  *)
(* server alone, so GetInv comes with it; HeardInv adds what the client    *)
(* knows, and is inductive.  So the system implements the service too.     *)
(***************************************************************************)
EXTENDS BackupSystemInv, BackupGetProofs, BackupServiceProofs

-----------------------------------------------------------------------------
(* Steps of a session that neither read nor answer *)

Inner(s) ==
  \/ Disconnect(s) \/ HangUp(s)
  \/ PutExists(s) \/ PutCompare(s) \/ PutOpen(s) \/ Receive(s) \/ Verify(s) \/ HSet(s)
  \/ Remove(s) \/ HDel(s)
  \/ Lookup(s) \/ Found(s) \/ Load(s) \/ Size(s) \/ Send(s) \/ SendEnd(s)

\* Session s goes on with its request, or is through with it.
Carries(s) ==
  /\ Goes(s)
  /\ ses'[s].file # None => ses'[s].hash = ses[s].hash
  /\ Busy(ses'[s]) => Busy(ses[s])
  /\ ses[s].pc = "closed" => ses'[s].pc = "closed"
  /\ ses'[s].pc # "list" /\ ses'[s].ans \notin {"LISTING", "LINES", "LIST_ERROR"}

\* None is no answer.
LEMMA NoList == None \notin {"LISTING", "LINES", "LIST_ERROR"}
BY NoneIsNone DEF Answer, AfterReply

\* What becomes of the record of a session.
LEMMA InnerFields ==
  ASSUME ServerInv, Unlisted, NEW s \in Session, Inner(s)
  PROVE  /\ ses'[s].file # None => ses'[s].hash = ses[s].hash
         /\ Busy(ses'[s]) => Busy(ses[s])
         /\ ses[s].pc = "closed" => ses'[s].pc = "closed"
         /\ ses'[s].pc # "list" /\ ses'[s].ans \notin {"LISTING", "LINES", "LIST_ERROR"}
<1>1. /\ ses \in [Session -> SessionRecord] /\ ses[s] \in SessionRecord
      /\ ses[s].pc # "list" /\ ses[s].ans \notin {"LISTING", "LINES", "LIST_ERROR"}
  BY DEF ServerInv, TypeOK, Unlisted
<1>2. CASE Disconnect(s)
  <2>1. /\ ses'[s].pc = ses[s].pc /\ ses'[s].ans = ses[s].ans /\ ses'[s].hash = ses[s].hash
    BY <1>1, <1>2 DEF Disconnect, SessionRecord
  <2>. QED BY <1>1, <2>1 DEF Busy
<1>3. CASE HangUp(s)
  <2>1. ses'[s] = Closed
    BY <1>1, <1>3 DEF HangUp
  <2>. QED BY <2>1, ClosedFacts, NoList DEF Busy
<1>4. CASE ses' = [ses EXCEPT ![s] = Idle(ses[s].user, ses[s].alive)] /\ (Verify(s) \/ SendEnd(s))
  <2>1. ses'[s] = Idle(ses[s].user, ses[s].alive)
    BY <1>1, <1>4
  <2>2. ses'[s].file = None /\ ses'[s].pc = "ready" /\ ses'[s].ans = None
    BY <2>1 DEF Idle
  <2>3. ses[s].pc # "closed"
    BY <1>4 DEF Verify, SendEnd, At
  <2>. QED BY <2>2, <2>3, NoList DEF Busy
<1>5. CASE PutExists(s) \/ PutCompare(s) \/ PutOpen(s)
  <2>1. /\ ses[s].pc \in {"exists", "compare", "open"} /\ ses'[s].hash = ses[s].hash
        /\ ses'[s].pc \in {"open", "compare", "patch", "reply"}
        /\ ses'[s].ans \in {ses[s].ans, "ALREADY_EXISTS", "GO", "PATCH_CREATE_ERROR", "CREATE_ERROR"}
    BY <1>1, <1>5 DEF PutExists, PutCompare, PutOpen, At, Goto, Reply, SessionRecord
  <2>. QED BY <1>1, <2>1 DEF Busy
<1>6. CASE Receive(s) \/ HSet(s)
  <2>1. /\ ses[s].pc \in {"recv", "hset"} /\ ses'[s].hash = ses[s].hash
        /\ ses'[s].pc \in {"recv", "reply"}
        /\ ses'[s].ans \in {ses[s].ans, "STORED"}
    BY <1>1, <1>6 DEF Receive, HSet, At, Reply, SessionRecord
  <2>. QED BY <1>1, <2>1 DEF Busy
<1>7. CASE Verify(s) /\ ses' # [ses EXCEPT ![s] = Idle(ses[s].user, ses[s].alive)]
  <2>1. /\ ses[s].pc = "recv" /\ ses'[s].hash = ses[s].hash /\ ses'[s].ans = ses[s].ans
        /\ ses'[s].pc \in {"hset", "revert"}
    BY <1>1, <1>7 DEF Verify, At, SessionRecord
  <2>. QED BY <1>1, <2>1 DEF Busy
<1>8. CASE Remove(s) \/ HDel(s)
  <2>1. CASE Remove(s)
    <3>1. /\ ses[s].pc \in {"patch", "revert", "delete"} /\ ses'[s].pc = "hdel"
          /\ ses'[s].hash = ses[s].hash
          /\ \E d \in BOOLEAN : ses'[s].ans = AfterDelete(ses[s].pc, d)
      BY <1>1, <2>1 DEF Remove, SessionRecord
    <3>2. ses'[s].ans \in {"HASH_MISMATCH", "GO", "DELETED", "DELETE_ERROR"}
      BY <3>1 DEF AfterDelete
    <3>. QED BY <3>1, <3>2 DEF Busy
  <2>2. CASE HDel(s)
    <3>1. /\ ses[s].pc = "hdel" /\ ses'[s].hash = ses[s].hash /\ ses'[s].ans = ses[s].ans
          /\ ses'[s].pc = IF ses[s].ans = "GO" THEN "open" ELSE "reply"
      BY <1>1, <2>2 DEF HDel, At, Goto, SessionRecord
    <3>. QED BY <1>1, <3>1 DEF Busy
  <2>. QED BY <1>8, <2>1, <2>2
<1>9. CASE Lookup(s) \/ Found(s) \/ Load(s) \/ Size(s)
  <2>1. /\ ses[s].pc \in {"lookup", "found", "load", "size"} /\ ses'[s].hash = ses[s].hash
        /\ ses'[s].pc \in {"found", "load", "size", "hdel", "reply"}
        /\ ses'[s].ans \in {ses[s].ans, "NOT_FOUND", "OPEN_ERROR", "LENGTH"}
    BY <1>1, <1>9 DEF Lookup, Found, Load, Size, At, Goto, Reply, SessionRecord
  <2>. QED BY <1>1, <2>1 DEF Busy
<1>10. CASE Send(s)
  <2>1. /\ ses'[s].pc = ses[s].pc /\ ses'[s].ans = ses[s].ans /\ ses'[s].hash = ses[s].hash
        /\ ses[s].pc = "send"
    BY <1>10, SendFields DEF Send, At
  <2>. QED BY <1>1, <2>1 DEF Busy
<1>. QED BY <1>2, <1>3, <1>4, <1>5, <1>6, <1>7, <1>8, <1>9, <1>10 DEF Inner, SendEnd

\* Where an upload stands that has found the file there.
AtFile(r) == r.pc = "compare" \/ (r.pc = "reply" /\ r.ans = "ALREADY_EXISTS")

LEMMA InnerElsewhere ==
  ASSUME ServerInv, NEW s \in Session, Inner(s), AtFile(ses'[s])
  PROVE  Disconnect(s) \/ PutExists(s) \/ PutCompare(s)
<1>1. /\ ses \in [Session -> SessionRecord] /\ ses[s] \in SessionRecord /\ ShapeOf(ses[s])
  BY Here DEF ServerInv, TypeOK
<1>2. ASSUME HangUp(s) PROVE FALSE
  <2>1. ses'[s] = Closed
    BY <1>1, <1>2 DEF HangUp
  <2>. QED BY <2>1, ClosedFacts DEF AtFile
<1>3. ASSUME ses' = [ses EXCEPT ![s] = Idle(ses[s].user, ses[s].alive)] PROVE FALSE
  <2>1. ses'[s] = Idle(ses[s].user, ses[s].alive)
    BY <1>1, <1>3
  <2>2. ses'[s].pc = "ready"
    BY <2>1 DEF Idle
  <2>. QED BY <2>2 DEF AtFile
<1>4. ASSUME PutOpen(s) \/ HSet(s) PROVE FALSE
  <2>1. ses'[s].pc = "reply" /\ ses'[s].ans # "ALREADY_EXISTS"
    BY <1>1, <1>4 DEF PutOpen, HSet, Reply, SessionRecord
  <2>. QED BY <2>1 DEF AtFile
<1>5. ASSUME Receive(s) \/ Remove(s) PROVE FALSE
  <2>1. ses'[s].pc \in {"recv", "hdel"}
    BY <1>1, <1>5 DEF Receive, Remove, At, SessionRecord
  <2>. QED BY <2>1 DEF AtFile
<1>6. ASSUME Verify(s) PROVE FALSE
  <2>1. ses'[s].pc \in {"hset", "revert"}
    BY <1>1, <1>3, <1>6 DEF Verify, SessionRecord
  <2>. QED BY <2>1 DEF AtFile
<1>7. ASSUME HDel(s) PROVE FALSE
  <2>1. ses'[s].pc \in {"open", "reply"} /\ ses'[s].ans = ses[s].ans /\ ses[s].pc = "hdel"
    BY <1>1, <1>7 DEF HDel, At, Goto, SessionRecord
  <2>. QED BY <1>1, <2>1 DEF AtFile, ShapeOf
<1>8. ASSUME Lookup(s) \/ Found(s) PROVE FALSE
  <2>1. \/ ses'[s].pc \in {"found", "load", "hdel"}
        \/ ses'[s].pc = "reply" /\ ses'[s].ans = "NOT_FOUND"
    BY <1>1, <1>8 DEF Lookup, Found, Goto, Reply, SessionRecord
  <2>. QED BY <2>1 DEF AtFile
<1>9. ASSUME Load(s) \/ Size(s) PROVE FALSE
  <2>1. \/ ses'[s].pc = "size"
        \/ ses'[s].pc = "reply" /\ ses'[s].ans \in {"OPEN_ERROR", "LENGTH"}
    BY <1>1, <1>9 DEF Load, Size, Reply, SessionRecord
  <2>. QED BY <2>1 DEF AtFile
<1>10. ASSUME Send(s) PROVE FALSE
  BY <1>10, SendFields DEF Send, At, AtFile
<1>. QED BY <1>2, <1>3, <1>4, <1>5, <1>6, <1>7, <1>8, <1>9, <1>10 DEF Inner, SendEnd

LEMMA InnerCarries ==
  ASSUME ServerInv, Unlisted, NEW s \in Session, Inner(s)
  PROVE  /\ Carries(s) /\ told' = told
         /\ \A t \in Session \ {s} : ses'[t] = ses[t]
<1>1. OwnStep(s)
  BY DEF Inner, OwnStep, Connection
<1>. QED BY <1>1, OwnSpares, OwnGoes, InnerFields DEF Carries, ServerInv

\* Only the handler of a PUT or a DELETE changes what is held under a path.
LEMMA InnerSteady ==
  ASSUME ServerInv, NEW s \in Session, Inner(s), NEW k \in Key, ~Alters(s, k), dir[k] # None
  PROVE  dir'[k] = dir[k] /\ data'[dir[k]] = data[dir[k]]
<1>1. /\ dir \in [Key -> Inode \cup {None}] /\ data \in [Inode -> Data] /\ dir[k] \in Inode
  BY DEF ServerInv, TypeOK
<1>2. CASE dir' = dir /\ (data' = data \/ data' = Reap(dir', ses'))
  BY <1>1, <1>2, ReapKeeps
<1>3. CASE PutOpen(s) \/ Remove(s) \/ Receive(s)
  <2>1. ses[s].file \in Key /\ ses[s].file # k
    BY <1>3, ChangingFacts DEF PutOpen, Remove, Receive, At, Changing, Alters, Reading, Harmless
  <2>2. CASE Remove(s)
    <3>1. dir' = [dir EXCEPT ![ses[s].file] = None] /\ data' = Reap(dir', ses')
      BY <2>2 DEF Remove
    <3>2. dir'[k] = dir[k]
      BY <1>1, <2>1, <3>1
    <3>3. dir'[k] \in Inode => Reap(dir', ses')[dir'[k]] = data[dir'[k]]
      BY <1>1, ReapKeeps
    <3>. QED BY <1>1, <3>1, <3>2, <3>3
  <2>3. CASE PutOpen(s)
    <3>1. CASE UNCHANGED <<dir, data>>
      BY <3>1
    <3>2. CASE ~UNCHANGED <<dir, data>>
      <4>1. PICK i \in Inode :
              /\ IF dir[ses[s].file] = None THEN i \notin Held(dir, ses) ELSE i = dir[ses[s].file]
              /\ dir' = [dir EXCEPT ![ses[s].file] = i]
              /\ data' = [data EXCEPT ![i] = <<>>]
        BY <2>3, <3>2 DEF PutOpen
      <4>2. dir[k] # i
        BY <1>1, <2>1, <4>1 DEF Held, ServerInv, OneName
      <4>. QED BY <1>1, <2>1, <4>1, <4>2
    <3>. QED BY <3>1, <3>2
  <2>4. CASE Receive(s) /\ data' # Reap(dir, ses')
    <3>1. /\ dir' = dir
          /\ ses[s].fd # None /\ \E c : data' = [data EXCEPT ![ses[s].fd] = c]
      BY <2>4 DEF Receive
    <3>2. dir[k] # ses[s].fd
      BY <2>1, <3>1 DEF ServerInv, OwnStream
    <3>. QED BY <1>1, <3>1, <3>2
  <2>5. CASE Receive(s) /\ data' = Reap(dir, ses')
    BY <1>1, <2>5, ReapKeeps DEF Receive
  <2>. QED BY <1>3, <2>2, <2>3, <2>4, <2>5
<1>. QED
  BY <1>2, <1>3 DEF Inner, Disconnect, HangUp, PutExists, PutCompare, Verify, HSet, HDel,
     Lookup, Found, Load, Size, Send, SendEnd

\* Where a PUT finds a file it finds it until it has answered.
LEMMA InnerThere ==
  ASSUME GetInv, There, Unlisted, NEW s \in Session, Inner(s)
  PROVE  There'
<1>. USE DEF GetInv
<1>1. /\ ses \in [Session -> SessionRecord] /\ ses[s] \in SessionRecord /\ ThereOf(ses[s])
      /\ \A t \in Session : ses[t].file \in Key \cup {None}
  BY DEF ServerInv, TypeOK, There, SessionRecord
<1>2. ASSUME NEW t \in Session \ {s} PROVE ThereOf(ses[t])'
  <2>1. ses'[t] = ses[t] /\ ThereOf(ses[t])
    BY <1>2, InnerCarries DEF There
  <2>2. ses[t].alone /\ ses[t].file # None => ~Alters(s, ses[t].file)
    BY DEF Lone, Working, Alters
  <2>3. ses[t].alone /\ ses[t].file # None /\ dir[ses[t].file] # None =>
          dir'[ses[t].file] = dir[ses[t].file] /\ data'[dir[ses[t].file]] = data[dir[ses[t].file]]
    BY <1>1, <2>2, InnerSteady
  <2>. QED BY <2>1, <2>3 DEF ThereOf
<1>3. ThereOf(ses[s])'
  <2>1. CASE Disconnect(s)
    <3>1. /\ ses'[s].pc = ses[s].pc /\ ses'[s].ans = ses[s].ans /\ ses'[s].file = ses[s].file
          /\ ses'[s].alone = ses[s].alone /\ ses'[s].hash = ses[s].hash
      BY <1>1, <2>1 DEF Disconnect, SessionRecord
    <3>. QED BY <1>1, <2>1, <3>1 DEF ThereOf, Disconnect
  <2>2. CASE PutExists(s)
    <3>1. /\ ses'[s].pc = IF dir[ses[s].file] = None THEN "open" ELSE "compare"
          /\ ses'[s].file = ses[s].file /\ dir' = dir
      BY <1>1, <2>2 DEF PutExists, Goto, SessionRecord
    <3>. QED BY <3>1 DEF ThereOf
  <2>3. CASE PutCompare(s)
    <3>1. /\ ses[s].pc = "compare"
          /\ \/ ses'[s].pc = "patch"
             \/ ses'[s].pc = "reply" /\ Sha(ses[s].file) = ses[s].hash
          /\ ses'[s].file = ses[s].file /\ ses'[s].alone = ses[s].alone
          /\ ses'[s].hash = ses[s].hash /\ dir' = dir /\ data' = data
      BY <1>1, <2>3 DEF PutCompare, At, Goto, Reply, SessionRecord
    <3>. QED BY <1>1, <3>1 DEF ThereOf, Sha
  <2>4. CASE ~AtFile(ses'[s])
    BY <2>4 DEF ThereOf, AtFile
  <2>. QED BY <2>1, <2>2, <2>3, <2>4, InnerElsewhere
<1>. QED BY <1>2, <1>3 DEF There

-----------------------------------------------------------------------------
(* A session goes on, or answers *)

\* Only the handler of a PUT or a DELETE changes what is held or what is told of a path.
SparesOthers(s) ==
  \A k \in Key : ~Alters(s, k) =>
    /\ told'[k] = told[k]
    /\ dir[k] # None => dir'[k] = dir[k] /\ data'[dir[k]] = data[dir[k]]

\* No other session moves, and no request comes up.
Carried(s) ==
  /\ Carries(s) /\ SparesOthers(s) /\ There' /\ client' = client /\ heard' = heard
  /\ \A t \in Session \ {s} : ses'[t] = ses[t]
  /\ line' \in [Session -> [req : RequestRecord \cup {None}, blocks : Seq(Block)]]
  /\ \A t \in Session : line'[t].req \in {line[t].req, None}

\* What is answered to the client is so.
Speaks(s) ==
  \/ back' = back
  \/ /\ client.cur = s /\ Busy(ses[s])
     /\ \E a \in [ans : Answer \cup {"BODY"}, body : Data] :
          /\ back' = Append(back, a)
          /\ a.ans \notin {"GO", "LENGTH"} => ~Busy(ses'[s])
          /\ client.req.file # None /\ client.clear =>
               Holds(client.req.file, a.ans, client.req.hash)'

\* A session without a request has no file.
LEMMA RestingShape ==
  ASSUME ServerInv, NEW s \in Session, ~Busy(ses[s])
  PROVE  ses[s].file = None /\ \A k \in Key : ~Alters(s, k)
BY Here, NoneIsNone DEF Busy, ShapeOf, NoFile, Alters

LEMMA CarriedSettled ==
  ASSUME NEW k \in Key, Settled(k), NEW s \in Session, Carried(s)
  PROVE  Settled(k)'
<1>. SUFFICES ASSUME NEW o \in Session
              PROVE  ~Alters(o, k)' /\ (Sending(o, k)' => line'[o].req.method = "GET")
  BY DEF Settled
<1>1. ~Alters(o, k) /\ (Sending(o, k) => line[o].req.method = "GET")
  BY DEF Settled
<1>2. line'[o].req \in {line[o].req, None}
  BY DEF Carried
<1>3. CASE o # s
  <2>1. ses'[o] = ses[o]
    BY <1>3 DEF Carried
  <2>. QED BY <1>1, <1>2, <2>1 DEF Alters, Sending, At
<1>4. CASE o = s
  BY <1>1, <1>2, <1>4, NoneIsNone DEF Carried, Carries, Goes, Alters, Sending, At
<1>. QED BY <1>3, <1>4

LEMMA CarriedBelieved ==
  ASSUME Believed, NEW s \in Session, Carried(s)
  PROVE  Believed'
<1>. SUFFICES ASSUME NEW k \in Key, heard[k] # Unknown
              PROVE  Settled(k)' /\ Holds(k, heard[k].ans, heard[k].hash)'
  BY DEF Believed, Carried
<1>1. Settled(k) /\ Holds(k, heard[k].ans, heard[k].hash)
  BY DEF Believed
<1>2. ~Alters(s, k)
  BY <1>1 DEF Settled
<1>3. Holds(k, heard[k].ans, heard[k].hash)'
  <2> DEFINE a == heard[k].ans
             h == heard[k].hash
  <2>1. Holds(k, a, h) /\ a' = a /\ h' = h
    BY <1>1 DEF Carried
  <2>. QED BY <1>2, <2>1 DEF SparesOthers, Holds, Carried
<1>. QED BY <1>1, <1>3, CarriedSettled

LEMMA CarriedConversation ==
  ASSUME ServerInv, Typed, Unlisted, Conversation, NEW s \in Session, Carried(s), Speaks(s)
  PROVE  Conversation'
<1> DEFINE c == client.cur
           q == client.req
<1>1. /\ (c = None) <=> (client.pc = "off")
      /\ c = None => back = <<>> /\ client.clear /\ q.file = None
  BY DEF Conversation
<1>2. client' = client
  BY DEF Carried
<1>3. back \in Seq([ans : Answer \cup {"BODY"}, body : Data])
  BY DEF Typed
<1>4. CASE c = None
  <2>1. back' = back
    BY <1>4, SystemAssumption DEF Speaks
  <2>. QED BY <1>1, <1>2, <1>4, <2>1 DEF Conversation
<1>5. CASE c # None
  <2>. DEFINE r == ses[c]
  <2>1. /\ c \in Session
        /\ r.file # None => r.file = q.file /\ r.hash = q.hash
        /\ Busy(r) => client.pc # "idle" /\ line[c].req = None
        /\ client.pc = "idle" => back = <<>>
        /\ ~At(c, "closed") /\ line[c].req # None =>
             line[c].req = q /\ back = <<>> /\ client.pc = "wait"
        /\ \A i \in 1..Len(back) : back[i].ans \notin {"GO", "LENGTH"} => i = Len(back) /\ ~Busy(r)
    BY <1>5 DEF Conversation, Typed
  <2>2. /\ ses'[c].file # None => ses'[c].file = r.file /\ ses'[c].hash = r.hash
        /\ Busy(ses'[c]) => Busy(r)
        /\ ses'[c].pc # "closed" => r.pc # "closed"
    BY <2>1 DEF Carried, Carries, Goes
  <2>3. line'[c].req \in {line[c].req, None}
    BY <2>1 DEF Carried
  <2>4. CASE back' = back
    <3>1. \A i \in 1..Len(back') : back'[i].ans \notin {"GO", "LENGTH"} =>
             i = Len(back') /\ ~Busy(ses'[c])
      BY <2>1, <2>2, <2>4
    <3>. QED BY <1>1, <1>2, <1>5, <2>1, <2>2, <2>3, <2>4, <3>1 DEF Conversation, At
  <2>5. CASE /\ c = s /\ Busy(r)
             /\ \E a \in [ans : Answer \cup {"BODY"}, body : Data] :
                  /\ back' = Append(back, a)
                  /\ a.ans \notin {"GO", "LENGTH"} => ~Busy(ses'[s])
    <3>1. PICK a \in [ans : Answer \cup {"BODY"}, body : Data] :
                  /\ back' = Append(back, a)
                  /\ a.ans \notin {"GO", "LENGTH"} => ~Busy(ses'[c])
      BY <2>5
    <3>2. line'[c].req = None /\ client.pc # "idle"
      BY <2>1, <2>3, <2>5
    <3>3. \A i \in 1..Len(back) : back[i].ans \in {"GO", "LENGTH"}
      BY <2>1, <2>5
    <3>4. /\ Len(back') = Len(back) + 1 /\ back'[Len(back) + 1] = a /\ Len(back) \in Nat
          /\ \A i \in 1..Len(back) : back'[i] = back[i]
      BY <1>3, <3>1
    <3>5. \A i \in 1..Len(back') : back'[i].ans \notin {"GO", "LENGTH"} =>
             i = Len(back') /\ ~Busy(ses'[c])
      BY <3>1, <3>3, <3>4
    <3>. QED BY <1>1, <1>2, <1>5, <2>1, <2>2, <3>2, <3>5 DEF Conversation, At
  <2>. QED BY <2>4, <2>5 DEF Speaks
<1>. QED BY <1>4, <1>5

LEMMA CarriedUndisturbed ==
  ASSUME ServerInv, Typed, Conversation, Undisturbed, NEW s \in Session, Carried(s), Speaks(s)
  PROVE  Undisturbed'
<1> DEFINE c == client.cur
           k == client.req.file
<1>. SUFFICES ASSUME c # None, k # None, client.clear, client.pc # "idle"
              PROVE  /\ \A o \in Session \ {c} : ~Working(o, k)' /\ ~Sending(o, k)'
                     /\ ses'[c].file # None => ses'[c].alone
                     /\ \A i \in 1..Len(back') : Holds(k, back[i].ans, client.req.hash)'
  BY DEF Undisturbed, Carried
<1>1. /\ \A o \in Session \ {c} : ~Working(o, k) /\ ~Sending(o, k)
      /\ ses[c].file # None => ses[c].alone
      /\ \A i \in 1..Len(back) : Holds(k, back[i].ans, client.req.hash)
  BY DEF Undisturbed
<1>2. c \in Session /\ k \in Key /\ client' = client
      /\ back \in Seq([ans : Answer \cup {"BODY"}, body : Data])
  BY DEF Typed, RequestRecord, Carried
<1>3. ASSUME NEW o \in Session \ {c} PROVE ~Working(o, k)' /\ ~Sending(o, k)'
  <2>1. line'[o].req \in {line[o].req, None}
    BY DEF Carried
  <2>2. CASE o # s
    <3>1. ses'[o] = ses[o]
      BY <2>2 DEF Carried
    <3>. QED BY <1>1, <1>2, <2>1, <3>1 DEF Working, Sending, At, Reading
  <2>3. CASE o = s
    BY <1>1, <1>2, <2>1, <2>3, NoneIsNone DEF Carried, Carries, Goes, Working, Sending, At
  <2>. QED BY <2>2, <2>3
<1>4. ses'[c].file # None => ses'[c].alone
  BY <1>1, <1>2 DEF Carried, Carries, Goes
<1>5. ASSUME NEW i \in 1..Len(back) PROVE Holds(k, back[i].ans, client.req.hash)' \/ back'[i] # back[i]
  <2>. SUFFICES ASSUME back'[i] = back[i] PROVE Holds(k, back[i].ans, client.req.hash)'
    OBVIOUS
  <2>1. Holds(k, back[i].ans, client.req.hash)
    BY <1>1
  <2>2. CASE s = c /\ Busy(ses[c])
    <3>1. back[i].ans \in {"GO", "LENGTH"}
      BY <2>2 DEF Conversation
    <3>. QED BY <3>1 DEF Holds
  <2>3. CASE ~(s = c /\ Busy(ses[c]))
    <3>1. ~Alters(s, k)
      BY <1>1, <1>2, <2>3, RestingShape DEF Alters, Working
    <3>. QED BY <1>2, <2>1, <3>1 DEF SparesOthers, Holds, Carried
  <2>. QED BY <2>2, <2>3
<1>6. ASSUME NEW i \in 1..Len(back') PROVE Holds(k, back[i].ans, client.req.hash)'
  <2>1. CASE back' = back
    BY <1>5, <2>1
  <2>2. CASE back' # back
    <3>1. PICK a \in [ans : Answer \cup {"BODY"}, body : Data] :
            back' = Append(back, a) /\ Holds(k, a.ans, client.req.hash)'
      BY <2>2 DEF Speaks
    <3>2. /\ Len(back') = Len(back) + 1 /\ back'[Len(back) + 1] = a /\ Len(back) \in Nat
          /\ \A j \in 1..Len(back) : back'[j] = back[j]
      BY <1>2, <3>1
    <3>3. CASE i = Len(back) + 1
      BY <3>1, <3>2, <3>3 DEF Holds
    <3>4. CASE i \in 1..Len(back)
      BY <1>5, <3>2, <3>4
    <3>. QED BY <3>2, <3>3, <3>4
  <2>. QED BY <2>1, <2>2
<1>. QED BY <1>3, <1>4, <1>6

-----------------------------------------------------------------------------
(* The steps of a session *)

\* The part of HeardInv that is not GetInv.
Known == Typed /\ Believed /\ There /\ Unlisted /\ Conversation /\ Undisturbed

LEMMA CarriedKnown ==
  ASSUME HeardInv, NEW s \in Session, Carried(s), Speaks(s)
  PROVE  Known'
<1>1. Unlisted'
  BY DEF HeardInv, RequestInv, Unlisted, Carried, Carries
<1>2. Typed'
  <2>1. back \in Seq([ans : Answer \cup {"BODY"}, body : Data])
    BY DEF HeardInv, RequestInv, Typed
  <2>2. back' \in Seq([ans : Answer \cup {"BODY"}, body : Data])
    <3>1. CASE back' = back
      BY <2>1, <3>1
    <3>2. CASE back' # back
      <4>1. PICK a \in [ans : Answer \cup {"BODY"}, body : Data] : back' = Append(back, a)
        BY <3>2 DEF Speaks
      <4>. QED BY <2>1, <4>1
    <3>. QED BY <3>1, <3>2
  <2>. QED BY <2>2 DEF HeardInv, RequestInv, Typed, Carried
<1>3. There'
  BY DEF Carried
<1>. QED BY <1>1, <1>2, <1>3, CarriedBelieved, CarriedConversation, CarriedUndisturbed
         DEF Known, HeardInv, RequestInv, GetInv

LEMMA InnerCarried ==
  ASSUME HeardInv, NEW s \in Session, Inner(s), client' = client, heard' = heard,
         line' \in [Session -> [req : RequestRecord \cup {None}, blocks : Seq(Block)]],
         \A t \in Session : line'[t].req \in {line[t].req, None}
  PROVE  Carried(s)
<1>1. /\ Carries(s) /\ told' = told
      /\ \A t \in Session \ {s} : ses'[t] = ses[t]
  BY InnerCarries DEF HeardInv, RequestInv, GetInv
<1>2. There'
  BY InnerThere DEF HeardInv, RequestInv
<1>3. SparesOthers(s)
  BY <1>1, InnerSteady DEF SparesOthers, HeardInv, RequestInv, GetInv
<1>. QED BY <1>1, <1>2, <1>3 DEF Carried

LEMMA InnerKnown ==
  ASSUME HeardInv, NEW s \in Session, Onward(s) \/ ReceiveBlock(s) \/ Ended(s) \/ Sent(s)
  PROVE  Known'
<1>1. line \in [Session -> [req : RequestRecord \cup {None}, blocks : Seq(Block)]]
  BY DEF HeardInv, RequestInv, Typed
<1>2. CASE Onward(s)
  <2>1. Inner(s) /\ UNCHANGED systemVars
    BY <1>2 DEF Onward, Inner
  <2>2. Carried(s) /\ Speaks(s)
    BY <1>1, <2>1, InnerCarried DEF systemVars, Speaks
  <2>. QED BY <2>2, CarriedKnown
<1>3. CASE ReceiveBlock(s)
  <2>1. /\ Inner(s) /\ line' = [line EXCEPT ![s].blocks = Tail(@)] /\ line[s].blocks # <<>>
        /\ UNCHANGED <<client, back, heard>>
    BY <1>3 DEF ReceiveBlock, Inner
  <2>2. Tail(line[s].blocks) \in Seq(Block)
    BY <1>1, <2>1
  <2>3. /\ line' \in [Session -> [req : RequestRecord \cup {None}, blocks : Seq(Block)]]
        /\ \A t \in Session : line'[t].req = line[t].req
    BY <1>1, <2>1, <2>2
  <2>4. Carried(s) /\ Speaks(s)
    BY <2>1, <2>3, InnerCarried DEF Speaks
  <2>. QED BY <2>4, CarriedKnown
<1>4. CASE Ended(s)
  <2>1. Inner(s) /\ line' = [line EXCEPT ![s] = Silent] /\ UNCHANGED <<client, back, heard>>
    BY <1>4 DEF Ended, Inner
  <2>2. Silent.req = None /\ Silent \in [req : RequestRecord \cup {None}, blocks : Seq(Block)]
    BY DEF Silent
  <2>3. /\ line' \in [Session -> [req : RequestRecord \cup {None}, blocks : Seq(Block)]]
        /\ \A t \in Session : line'[t].req \in {line[t].req, None}
    BY <1>1, <2>1, <2>2
  <2>4. Carried(s) /\ Speaks(s)
    BY <2>1, <2>3, InnerCarried DEF Speaks
  <2>. QED BY <2>4, CarriedKnown
<1>5. CASE Sent(s)
  <2>1. /\ SendEnd(s) /\ Inner(s) /\ UNCHANGED <<client, line, heard>>
        /\ back' = IF client.cur = s /\ ses[s].alive
                   THEN Append(back, [ans |-> "BODY", body |-> ses[s].body]) ELSE back
    BY <1>5 DEF Sent, Delivers, Inner, systemVars
  <2>2. Carried(s)
    BY <1>1, <2>1, InnerCarried
  <2>3. ses \in [Session -> SessionRecord] /\ ses[s].body \in Data /\ ses[s].pc = "send"
    BY <2>1 DEF HeardInv, RequestInv, GetInv, ServerInv, TypeOK, SessionRecord, SendEnd, At
  <2>4. ses'[s] = Idle(ses[s].user, ses[s].alive)
    BY <2>1, <2>3 DEF SendEnd
  <2>5. Busy(ses[s]) /\ ~Busy(ses'[s])
    BY <2>3, <2>4 DEF Idle, Busy
  <2>6. PICK a \in [ans : Answer \cup {"BODY"}, body : Data] :
          a = [ans |-> "BODY", body |-> ses[s].body]
    BY <2>3
  <2>7. back' = IF client.cur = s /\ ses[s].alive THEN Append(back, a) ELSE back
    BY <2>1, <2>6
  <2>8. a.ans = "BODY" /\ Holds(client.req.file, a.ans, client.req.hash)'
    BY <2>6 DEF Holds
  <2>9. Speaks(s)
    BY <2>5, <2>7, <2>8 DEF Speaks
  <2>. QED BY <2>2, <2>9, CarriedKnown
<1>. QED BY <1>2, <1>3, <1>4, <1>5

\* Where an answer leaves the session.
LEMMA RespondShape ==
  ASSUME ServerInv, Unlisted, NEW s \in Session, Respond(s)
  PROVE  /\ ses[s].pc = "reply" /\ ses[s].ans \in Answer
         /\ \A t \in Session \ {s} : ses'[t] = ses[t]
         /\ \/ ses'[s].file = None /\ ses'[s].pc \in {"ready", "closed"} /\ ses'[s].ans = None
            \/ /\ \/ ses[s].ans = "GO" /\ ses'[s].pc = "recv"
                  \/ ses[s].ans = "LENGTH" /\ ses'[s].pc = "send"
               /\ ses'[s].file = ses[s].file /\ ses'[s].hash = ses[s].hash
               /\ ses'[s].alone = ses[s].alone /\ ses'[s].ans = None
               /\ ses'[s].pos = ses[s].pos /\ ses'[s].len = ses[s].len
         /\ ses'[s].pc = "ready" => ses'[s].pos = 0
<1> DEFINE o == ses[s]
           next == AfterReply[o.ans]
<1>1. /\ ses \in [Session -> SessionRecord] /\ o \in SessionRecord
      /\ o.pc = "reply" /\ o.ans \in Answer /\ o.ans # "LISTING"
  BY Here DEF ServerInv, TypeOK, Respond, At, ShapeOf, SessionRecord, Unlisted
<1>2. \A t \in Session \ {s} : ses'[t] = ses[t]
  BY <1>1 DEF Respond
<1>3. next \in {"ready", "closed", "recv", "send"}
  BY <1>1 DEF Answer, AfterReply
<1>4. CASE next = "ready"
  BY <1>1, <1>2, <1>4 DEF Respond, Idle
<1>5. CASE next = "closed"
  <2>1. ses'[s] = Closed
    BY <1>1, <1>5 DEF Respond
  <2>. QED BY <1>1, <1>2, <2>1, ClosedFacts
<1>6. CASE next \in {"recv", "send"}
  <2>1. /\ next = "recv" => o.ans = "GO"
        /\ next = "send" => o.ans = "LENGTH"
    BY <1>1 DEF Answer, AfterReply
  <2>2. ses' = [ses EXCEPT ![s] = [o EXCEPT !.pc = next, !.ans = None]]
    BY <1>6 DEF Respond
  <2>. HIDE DEF next
  <2>. QED BY <1>1, <1>2, <1>6, <2>1, <2>2 DEF SessionRecord
<1>. QED BY <1>3, <1>4, <1>5, <1>6

LEMMA RespondCarried ==
  ASSUME HeardInv, NEW s \in Session, Respond(s), client' = client, heard' = heard, line' = line
  PROVE  Carried(s)
<1>. USE DEF HeardInv, RequestInv, GetInv
<1>1. /\ ses[s].pc = "reply" /\ ses[s].ans \in Answer
      /\ \A t \in Session \ {s} : ses'[t] = ses[t]
  BY RespondShape
<1>2. Carries(s)
  <2>1. CASE ses'[s].file = None /\ ses'[s].pc \in {"ready", "closed"} /\ ses'[s].ans = None
    BY <1>1, <2>1, NoList DEF Carries, Goes, Busy
  <2>2. CASE /\ \/ ses[s].ans = "GO" /\ ses'[s].pc = "recv"
                \/ ses[s].ans = "LENGTH" /\ ses'[s].pc = "send"
             /\ ses'[s].file = ses[s].file /\ ses'[s].hash = ses[s].hash
             /\ ses'[s].alone = ses[s].alone /\ ses'[s].ans = None
    BY <1>1, <2>2, NoList DEF Carries, Goes, Busy, Reading, Harmless
  <2>. QED BY <2>1, <2>2, RespondShape
<1>3. SparesOthers(s)
  <2>. SUFFICES ASSUME NEW k \in Key, ~Alters(s, k)
                PROVE  told'[k] = told[k] /\ dir' = dir /\ data' = data
    BY DEF SparesOthers
  <2>1. dir' = dir /\ data' = data
    BY DEF Respond
  <2>2. CASE ses[s].ans \in {"STORED", "DELETED"}
    <3>1. ses[s].file # k
      BY <1>1, <2>2 DEF Alters, Reading, Harmless
    <3>. QED BY <2>1, <2>2, <3>1 DEF Respond, ServerInv, TypeOK
  <2>3. CASE ses[s].ans \notin {"STORED", "DELETED"}
    BY <2>1, <2>3 DEF Respond
  <2>. QED BY <2>2, <2>3
<1>4. There'
  <2>. SUFFICES ASSUME NEW t \in Session PROVE ThereOf(ses[t])'
    BY DEF There
  <2>1. dir' = dir /\ data' = data
    BY DEF Respond
  <2>2. CASE t # s
    <3>1. ses'[t] = ses[t] /\ ThereOf(ses[t])
      BY <1>1, <2>2 DEF There
    <3>. QED BY <2>1, <3>1 DEF ThereOf
  <2>3. CASE t = s
    <3>1. ses'[t].pc \in {"ready", "closed", "recv", "send"}
      BY <2>3, RespondShape
    <3>. QED BY <3>1 DEF ThereOf
  <2>. QED BY <2>2, <2>3
<1>5. line \in [Session -> [req : RequestRecord \cup {None}, blocks : Seq(Block)]]
  BY DEF Typed
<1>. QED BY <1>1, <1>2, <1>3, <1>4, <1>5 DEF Carried

\* What the client's session answers is so when the client counts on it.
LEMMA AnswerHolds ==
  ASSUME HeardInv, NEW s \in Session, Respond(s), ses[s].alive, client.cur = s,
         client.req.file # None, client.clear
  PROVE  /\ ses[s].ans = "STORED" => told'[client.req.file] = client.req.hash
         /\ ses[s].ans = "DELETED" => told'[client.req.file] = None
         /\ ses[s].ans = "ALREADY_EXISTS" =>
              dir'[client.req.file] # None /\ data'[dir'[client.req.file]] = client.req.hash
<1> DEFINE r == ses[s]
           k == client.req.file
           h == client.req.hash
<1>. USE DEF HeardInv, RequestInv, GetInv
<1>1. /\ r.pc = "reply" /\ r \in SessionRecord /\ ShapeOf(r) /\ ThereOf(r)
      /\ told \in [Key -> Data \cup {None, Unknown}]
  BY Here, RespondShape DEF There, ServerInv, TypeOK
<1>2. SUFFICES ASSUME r.ans \in {"STORED", "DELETED", "ALREADY_EXISTS"}
               PROVE  /\ r.ans = "STORED" => told'[k] = h
                      /\ r.ans = "DELETED" => told'[k] = None
                      /\ r.ans = "ALREADY_EXISTS" => dir'[k] # None /\ data'[dir'[k]] = h
  OBVIOUS
<1>3. r.file # None
  BY <1>1, <1>2 DEF ShapeOf, NoFile
<1>4. s # None
  BY SystemAssumption DEF SystemAssumption
<1>5. r.file = k /\ r.hash = h /\ client.pc # "idle" /\ k \in Key
  BY <1>1, <1>3, <1>4 DEF Conversation, Busy, SessionRecord
<1>6. r.alone
  BY <1>3, <1>4, <1>5 DEF Undisturbed
<1>7. CASE r.ans = "STORED"
  BY <1>1, <1>5, <1>6, <1>7 DEF Respond
<1>8. CASE r.ans = "DELETED"
  BY <1>1, <1>5, <1>6, <1>8 DEF Respond
<1>9. CASE r.ans = "ALREADY_EXISTS"
  BY <1>1, <1>3, <1>5, <1>6, <1>9 DEF Respond, ThereOf
<1>. QED BY <1>2, <1>7, <1>8, <1>9

LEMMA AnsweringKnown ==
  ASSUME HeardInv, NEW s \in Session, Answering(s)
  PROVE  Known'
<1>1. /\ Respond(s) /\ client' = client /\ heard' = heard /\ line' = line
      /\ \/ back' = back
         \/ ses[s].alive /\ client.cur = s /\ back' = Append(back, [ans |-> ses[s].ans, body |-> <<>>])
  BY DEF Answering, Delivers, systemVars
<1>2. Carried(s)
  BY <1>1, RespondCarried
<1>3. Speaks(s)
  <2>1. CASE back' = back
    BY <2>1 DEF Speaks
  <2>2. CASE ses[s].alive /\ client.cur = s /\ back' = Append(back, [ans |-> ses[s].ans, body |-> <<>>])
    <3>1. ses[s].pc = "reply" /\ ses[s].ans \in Answer
      BY <1>1, RespondShape DEF HeardInv, RequestInv, GetInv
    <3>2. PICK a \in [ans : Answer \cup {"BODY"}, body : Data] : a = [ans |-> ses[s].ans, body |-> <<>>]
      BY <3>1, EmptyData
    <3>3. back' = Append(back, a) /\ a.ans = ses[s].ans
      BY <2>2, <3>2
    <3>4. a.ans \notin {"GO", "LENGTH"} => ~Busy(ses'[s])
      BY <1>1, <3>3, RespondShape DEF HeardInv, RequestInv, GetInv, Busy
    <3>5. client.req.file # None /\ client.clear => Holds(client.req.file, a.ans, client.req.hash)'
      BY <1>1, <2>2, <3>3, AnswerHolds DEF Holds
    <3>. QED BY <2>2, <3>1, <3>3, <3>4, <3>5 DEF Speaks, Busy
  <2>. QED BY <1>1, <2>1, <2>2
<1>. QED BY <1>2, <1>3, CarriedKnown

-----------------------------------------------------------------------------
(* A session reads a request *)

Taken(s) ==
  LET q == line[s].req
      r == ses'[s]
  IN /\ ses[s].pc = "ready" /\ q # None /\ line' = [line EXCEPT ![s].req = None]
     /\ UNCHANGED <<client, back, heard, dir, data>>
     /\ r.pc \in {"reply", "exists", "delete", "lookup"}
     /\ r.ans \notin {"ALREADY_EXISTS", "LISTING", "LINES", "LIST_ERROR"}
     /\ r.pc = "reply" => r.ans = "LOGGED"
     /\ r.pos = ses[s].pos
     /\ r.pc # "reply" => r.len = q.len
     /\ r.file # None =>
          /\ r.file = q.file /\ r.hash = q.hash
          /\ (\A o \in Session \ {s} : ~Working(o, q.file)) => r.alone
          /\ q.method = "GET" => r.pc = "lookup"
     /\ \A t \in Session \ {s} :
          /\ ses'[t].pc = ses[t].pc /\ ses'[t].ans = ses[t].ans
          /\ ses'[t].file = ses[t].file /\ ses'[t].hash = ses[t].hash
          /\ ses'[t].fd = ses[t].fd /\ ses'[t].len = ses[t].len /\ ses'[t].pos = ses[t].pos
          /\ ses'[t].body = ses[t].body
          /\ ses'[t].alone => ses[t].alone
          /\ ses[t].file # q.file /\ ses[t].alone => ses'[t].alone
     /\ \A k \in Key : (k = q.file /\ q.method # "GET") \/ told'[k] = told[k]

LEMMA ReadTaken ==
  ASSUME HeardInv, NEW s \in Session, ReadLogin(s) \/ ReadPut(s) \/ ReadDelete(s) \/ ReadGet(s)
  PROVE  Taken(s)
<1> DEFINE q == line[s].req
<1>1. /\ q # None /\ line' = [line EXCEPT ![s].req = None] /\ UNCHANGED <<client, back, heard>>
  BY DEF ReadLogin, ReadPut, ReadDelete, ReadGet, Reads
<1>2. /\ ses \in [Session -> SessionRecord] /\ ses[s] \in SessionRecord /\ ShapeOf(ses[s])
      /\ told \in [Key -> Data \cup {None, Unknown}]
  BY Here DEF HeardInv, RequestInv, GetInv, ServerInv, TypeOK
<1>3. CASE ReadLogin(s)
  <2>1. /\ ses[s].pc = "ready" /\ ses'[s].pc = "reply" /\ ses'[s].ans = "LOGGED"
        /\ ses'[s].file = ses[s].file /\ ses[s].file = None /\ ses'[s].pos = ses[s].pos
        /\ \A t \in Session \ {s} : ses'[t] = ses[t]
        /\ UNCHANGED <<dir, data, told>>
    BY <1>2, <1>3 DEF ReadLogin, Login, At, SessionRecord, ShapeOf, NoFile
  <2>. QED BY <1>1, <2>1 DEF Taken
<1>4. CASE ReadPut(s) \/ ReadDelete(s) \/ ReadGet(s)
  <2>1. PICK k \in Key, l \in {"exists", "delete", "lookup"} :
          /\ \E h, n : Request(s, k, l, h, n)
          /\ told' = [told EXCEPT ![k] = Unknown] \/ told' = told
          /\ q.method = "GET" => l = "lookup" /\ told' = told
    BY <1>4 DEF ReadPut, ReadDelete, ReadGet, Reads, Put, Delete, Get
  <2>2. ses'[s].file = q.file /\ ses'[s].hash = q.hash /\ ses'[s].len = q.len
    BY <1>4 DEF ReadPut, ReadDelete, ReadGet, OnRequest
  <2>3. PICK h, n : Request(s, k, l, h, n)
    BY <2>1
  <2>4. /\ ses[s].pc = "ready" /\ ses[s].ans = None /\ UNCHANGED <<dir, data>>
        /\ ses'[s] = [ses[s] EXCEPT !.pc = l, !.file = k, !.hash = h, !.len = n,
                                    !.alone = \A o \in Session \ {s} : ~Working(o, k)]
        /\ \A t \in Session \ {s} : ses'[t] =
             [ses[t] EXCEPT !.alone = @ /\ (ses[t].file = k => l = "lookup" /\ Reading(ses[t]))]
    BY <1>2, <2>3 DEF Request, At, ShapeOf
  <2>5. /\ ses'[s].pc = l /\ ses'[s].file = k /\ ses'[s].ans = None /\ ses'[s].pos = ses[s].pos
        /\ (\A o \in Session \ {s} : ~Working(o, k)) => ses'[s].alone
    BY <1>2, <2>4 DEF SessionRecord
  <2>6. ASSUME NEW t \in Session \ {s}
        PROVE  /\ ses'[t].pc = ses[t].pc /\ ses'[t].ans = ses[t].ans
               /\ ses'[t].file = ses[t].file /\ ses'[t].hash = ses[t].hash
               /\ ses'[t].fd = ses[t].fd /\ ses'[t].len = ses[t].len /\ ses'[t].pos = ses[t].pos
               /\ ses'[t].body = ses[t].body
               /\ ses'[t].alone => ses[t].alone
               /\ ses[t].file # k /\ ses[t].alone => ses'[t].alone
    <3>1. ses[t] \in SessionRecord
      BY <1>2
    <3> DEFINE b == ses[t].alone /\ (ses[t].file = k => l = "lookup" /\ Reading(ses[t]))
    <3>2. ses'[t] = [ses[t] EXCEPT !.alone = b]
      BY <2>4
    <3>3. b => ses[t].alone
      OBVIOUS
    <3>4. ses[t].file # k /\ ses[t].alone => b
      OBVIOUS
    <3>. HIDE DEF b
    <3>. QED BY <3>1, <3>2, <3>3, <3>4 DEF SessionRecord
  <2>7. k = q.file
    BY <2>2, <2>5
  <2>8. \A j \in Key : (j = k /\ q.method # "GET") \/ told'[j] = told[j]
    BY <1>2, <2>1
  <2>9. None \notin {"ALREADY_EXISTS", "LISTING", "LINES", "LIST_ERROR"}
    BY NoneIsNone DEF Answer, AfterReply
  <2>. QED BY <1>1, <2>1, <2>2, <2>4, <2>5, <2>6, <2>7, <2>8, <2>9 DEF Taken
<1>. QED BY <1>3, <1>4

LEMMA TakenBelieved ==
  ASSUME HeardInv, NEW s \in Session, Taken(s)
  PROVE  Believed'
<1> DEFINE q == line[s].req
<1>1. /\ line \in [Session -> [req : RequestRecord \cup {None}, blocks : Seq(Block)]]
      /\ q # None /\ line' = [line EXCEPT ![s].req = None]
  BY DEF HeardInv, RequestInv, Typed, Taken
<1>2. line'[s].req = None /\ \A o \in Session \ {s} : line'[o] = line[o]
  BY <1>1
<1>3. Sending(s, q.file)
  BY <1>1 DEF Taken, Sending, At
<1>. SUFFICES ASSUME NEW k \in Key, heard[k] # Unknown
              PROVE  Settled(k)' /\ Holds(k, heard[k].ans, heard[k].hash)'
  BY DEF Believed, Taken
<1>4. Settled(k) /\ Holds(k, heard[k].ans, heard[k].hash)
  BY DEF HeardInv, RequestInv, Believed
<1>5. k = q.file => q.method = "GET"
  BY <1>3, <1>4 DEF Settled
<1>6. Holds(k, heard[k].ans, heard[k].hash)'
  BY <1>4, <1>5 DEF Taken, Holds
<1>7. ASSUME NEW o \in Session PROVE ~Alters(o, k)' /\ (Sending(o, k)' => line'[o].req.method = "GET")
  <2>1. CASE o # s
    <3>1. /\ ses'[o].pc = ses[o].pc /\ ses'[o].ans = ses[o].ans /\ ses'[o].file = ses[o].file
          /\ line'[o] = line[o]
      BY <1>2, <2>1 DEF Taken
    <3>2. ~Alters(o, k) /\ (Sending(o, k) => line[o].req.method = "GET")
      BY <1>4 DEF Settled
    <3>. QED BY <3>1, <3>2 DEF Alters, Reading, Harmless, Sending, At
  <2>2. CASE o = s
    <3>1. ~Sending(o, k)'
      BY <1>2, <2>2 DEF Sending
    <3>2. ses'[s].file = k => ses'[s].pc = "lookup"
      BY <1>5, NoneIsNone DEF Taken
    <3>. QED BY <2>2, <3>1, <3>2 DEF Alters, Harmless
  <2>. QED BY <2>1, <2>2
<1>. QED BY <1>6, <1>7 DEF Settled

LEMMA TakenConversation ==
  ASSUME HeardInv, NEW s \in Session, Taken(s)
  PROVE  Conversation'
<1> DEFINE c == client.cur
           q == client.req
<1>1. /\ line \in [Session -> [req : RequestRecord \cup {None}, blocks : Seq(Block)]]
      /\ line[s].req # None /\ line' = [line EXCEPT ![s].req = None]
      /\ client' = client /\ back' = back /\ ses[s].pc = "ready"
  BY DEF HeardInv, RequestInv, Typed, Taken
<1>2. line'[s].req = None /\ \A o \in Session \ {s} : line'[o] = line[o]
  BY <1>1
<1>3. CASE c = None
  BY <1>1, <1>3 DEF HeardInv, RequestInv, Conversation
<1>4. CASE c = s
  <2>1. c # None /\ line[c].req = q /\ back = <<>> /\ client.pc = "wait"
    BY <1>1, <1>4, SystemAssumption DEF SystemAssumption, HeardInv, RequestInv, Conversation, At
  <2>2. ses'[c].file # None => ses'[c].file = q.file /\ ses'[c].hash = q.hash
    BY <1>4, <2>1 DEF Taken
  <2>. QED BY <1>1, <1>2, <1>4, <2>1, <2>2 DEF HeardInv, RequestInv, Conversation
<1>5. CASE c # None /\ c # s
  <2>1. c \in Session \ {s}
    BY <1>5 DEF HeardInv, RequestInv, Typed
  <2>2. /\ ses'[c].pc = ses[c].pc /\ ses'[c].file = ses[c].file /\ ses'[c].hash = ses[c].hash
        /\ line'[c] = line[c]
    BY <1>2, <2>1 DEF Taken
  <2>. QED BY <1>1, <1>5, <2>2 DEF HeardInv, RequestInv, Conversation, Busy, At
<1>. QED BY <1>3, <1>4, <1>5

LEMMA TakenUndisturbed ==
  ASSUME HeardInv, NEW s \in Session, Taken(s)
  PROVE  Undisturbed'
<1> DEFINE c == client.cur
           k == client.req.file
           f == line[s].req.file
<1>1. /\ line \in [Session -> [req : RequestRecord \cup {None}, blocks : Seq(Block)]]
      /\ line[s].req # None /\ line' = [line EXCEPT ![s].req = None]
      /\ client' = client /\ back' = back /\ ses[s].pc = "ready"
  BY DEF HeardInv, RequestInv, Typed, Taken
<1>2. line'[s].req = None /\ \A o \in Session \ {s} : line'[o] = line[o]
  BY <1>1
<1>3. Sending(s, f)
  BY <1>1 DEF Sending, At
<1>. SUFFICES ASSUME c # None, k # None, client.clear, client.pc # "idle"
              PROVE  /\ \A o \in Session \ {c} : ~Working(o, k)' /\ ~Sending(o, k)'
                     /\ ses'[c].file # None => ses'[c].alone
                     /\ \A i \in 1..Len(back) : Holds(k, back[i].ans, client.req.hash)'
  BY <1>1 DEF Undisturbed
<1>4. /\ \A o \in Session \ {c} : ~Working(o, k) /\ ~Sending(o, k)
      /\ ses[c].file # None => ses[c].alone
      /\ \A i \in 1..Len(back) : Holds(k, back[i].ans, client.req.hash)
      /\ c \in Session /\ k \in Key
  BY DEF HeardInv, RequestInv, Undisturbed, Typed, RequestRecord
<1>5. s # c => k # f
  BY <1>3, <1>4
<1>6. ASSUME NEW o \in Session \ {c} PROVE ~Working(o, k)' /\ ~Sending(o, k)'
  <2>1. CASE o # s
    <3>1. /\ ses'[o].pc = ses[o].pc /\ ses'[o].ans = ses[o].ans /\ ses'[o].file = ses[o].file
          /\ line'[o] = line[o]
      BY <1>2, <2>1 DEF Taken
    <3>. QED BY <1>1, <1>4, <3>1 DEF Working, Reading, Sending, At
  <2>2. CASE o = s
    <3>1. ~Sending(o, k)'
      BY <1>2, <2>2 DEF Sending
    <3>2. ses'[o].file # k
      BY <1>4, <1>5, <2>2, NoneIsNone DEF Taken
    <3>. QED BY <1>1, <3>1, <3>2 DEF Working
  <2>. QED BY <2>1, <2>2
<1>7. ses'[c].file # None => ses'[c].alone
  <2>1. CASE c = s
    <3>1. f = k
      BY <1>1, <2>1, SystemAssumption DEF SystemAssumption, HeardInv, RequestInv, Conversation, At
    <3>. QED BY <1>4, <2>1, <3>1 DEF Taken
  <2>2. CASE c # s
    <3>1. ses[c].file # None => ses[c].file = k
      BY DEF HeardInv, RequestInv, Conversation
    <3>2. ses'[c].file = ses[c].file /\ (ses[c].file # f /\ ses[c].alone => ses'[c].alone)
      BY <1>4, <2>2 DEF Taken
    <3>. QED BY <1>4, <1>5, <2>2, <3>1, <3>2
  <2>. QED BY <2>1, <2>2
<1>8. ASSUME NEW i \in 1..Len(back) PROVE Holds(k, back[i].ans, client.req.hash)'
  <2>1. CASE c = s
    <3>1. back = <<>>
      BY <1>1, <2>1, SystemAssumption DEF SystemAssumption, HeardInv, RequestInv, Conversation, At
    <3>. QED BY <3>1
  <2>2. CASE c # s
    <3>1. told'[k] = told[k] /\ dir' = dir /\ data' = data
      BY <1>4, <1>5, <2>2 DEF Taken
    <3>. QED BY <1>1, <1>4, <3>1 DEF Holds
  <2>. QED BY <2>1, <2>2
<1>. QED BY <1>6, <1>7, <1>8

LEMMA TakenKnown ==
  ASSUME HeardInv, NEW s \in Session, Taken(s)
  PROVE  Known'
<1>1. Typed'
  <2>1. /\ line \in [Session -> [req : RequestRecord \cup {None}, blocks : Seq(Block)]]
        /\ line' = [line EXCEPT ![s].req = None]
    BY DEF HeardInv, RequestInv, Typed, Taken
  <2>2. line' \in [Session -> [req : RequestRecord \cup {None}, blocks : Seq(Block)]]
    BY <2>1
  <2>. QED BY <2>2 DEF HeardInv, RequestInv, Typed, Taken
<1>2. There'
  <2>. SUFFICES ASSUME NEW t \in Session PROVE ThereOf(ses[t])'
    BY DEF There
  <2>1. ThereOf(ses[t])
    BY DEF HeardInv, RequestInv, There
  <2>. QED BY <2>1 DEF Taken, ThereOf
<1>3. Unlisted'
  <2>. SUFFICES ASSUME NEW t \in Session
                PROVE  ses'[t].pc # "list" /\ ses'[t].ans \notin {"LISTING", "LINES", "LIST_ERROR"}
    BY DEF Unlisted
  <2>. QED BY DEF HeardInv, RequestInv, Unlisted, Taken
<1>. QED BY <1>1, <1>2, <1>3, TakenBelieved, TakenConversation, TakenUndisturbed DEF Known

-----------------------------------------------------------------------------
(* The client *)

\* A step that leaves the server alone keeps what is said of it.
LEMMA ServerRests ==
  ASSUME There, Unlisted, UNCHANGED vars
  PROVE  There' /\ Unlisted'
BY DEF There, ThereOf, Unlisted, vars

\* A client that has just asked, on a connection whose session is at rest.
LEMMA AskedConversation ==
  ASSUME NEW c \in Session, client'.cur = c, client'.pc = "wait", back' = <<>>,
         line'[c].req = client'.req, ses'[c].file = None, ~Busy(ses'[c])
  PROVE  Conversation'
<1>1. c # None /\ Len(back') = 0
  BY SystemAssumption DEF SystemAssumption
<1>. QED BY <1>1 DEF Conversation

LEMMA ConnectKnown ==
  ASSUME HeardInv, NEW s \in Session, Connect(s)
  PROVE  Known'
<1>. USE DEF HeardInv, RequestInv
<1> DEFINE n == [Off EXCEPT !.pc = "wait", !.cur = s]
           q == [Silent EXCEPT !.req = LoginRequest]
<1>1. /\ client' = n /\ line' = [line EXCEPT ![s] = q] /\ client.pc = "off"
      /\ UNCHANGED <<back, heard, dir, data, told>>
      /\ ses' = [ses EXCEPT ![s] = Idle(None, TRUE)] /\ ses \in [Session -> SessionRecord]
  BY DEF Connect, Accept, GetInv, ServerInv, TypeOK
<1>2. /\ n.pc = "wait" /\ n.cur = s /\ n.req = LoginRequest /\ n.left = 0 /\ n.clear = TRUE
      /\ LoginRequest \in RequestRecord
      /\ n \in [pc : {"off", "idle", "wait", "send", "wait2", "fetch"},
                cur : Session \cup {None}, req : RequestRecord, left : 0..MaxLen, clear : BOOLEAN]
  <2>1. LoginRequest \in RequestRecord /\ 0 \in 0..MaxLen
    BY EmptyData, ServerAssumption DEF ServerAssumption, LoginRequest, RequestRecord, Method
  <2>. QED BY <2>1 DEF Off
<1>3. /\ q.req = LoginRequest /\ q \in [req : RequestRecord \cup {None}, blocks : Seq(Block)]
      /\ LoginRequest.file = None
  <2>1. Silent \in [req : RequestRecord \cup {None}, blocks : Seq(Block)]
    BY DEF Silent
  <2>2. q.req = LoginRequest /\ q \in [req : RequestRecord \cup {None}, blocks : Seq(Block)]
    BY <1>2, <2>1
  <2>. QED BY <2>2 DEF LoginRequest
<1>. HIDE DEF n, q
<1>4. /\ line \in [Session -> [req : RequestRecord \cup {None}, blocks : Seq(Block)]]
      /\ line'[s] = q /\ \A o \in Session \ {s} : line'[o] = line[o]
      /\ line' \in [Session -> [req : RequestRecord \cup {None}, blocks : Seq(Block)]]
  BY <1>1, <1>3 DEF Typed
<1>5. /\ ses'[s].file = None /\ ses'[s].pc = "ready" /\ ses'[s].ans = None
      /\ \A o \in Session \ {s} : ses'[o] = ses[o]
  BY <1>1 DEF Idle
<1>6. back = <<>>
  BY <1>1 DEF Conversation
<1>7. Typed'
  BY <1>1, <1>2, <1>4 DEF Typed
<1>8. ASSUME NEW k \in Key, Settled(k) PROVE Settled(k)'
  <2>. SUFFICES ASSUME NEW o \in Session
                PROVE  ~Alters(o, k)' /\ (Sending(o, k)' => line'[o].req.method = "GET")
    BY DEF Settled
  <2>1. CASE o = s
    BY <1>3, <1>4, <1>5, <2>1, NoneIsNone DEF Alters, Sending
  <2>2. CASE o # s
    <3>1. ses'[o] = ses[o] /\ line'[o] = line[o]
      BY <1>4, <1>5, <2>2
    <3>. QED BY <1>8, <3>1 DEF Settled, Alters, Sending, At, Reading, Harmless
  <2>. QED BY <2>1, <2>2
<1>9. Believed'
  BY <1>1, <1>8 DEF Believed, Holds
<1>10. There'
  <2>. SUFFICES ASSUME NEW t \in Session PROVE ThereOf(ses[t])'
    BY DEF There
  <2>1. t # s => ses'[t] = ses[t] /\ ThereOf(ses[t])
    BY <1>5 DEF There
  <2>. QED BY <1>1, <1>5, <2>1 DEF ThereOf
<1>11. Unlisted'
  BY <1>5, NoList DEF Unlisted
<1>12. Conversation'
  <2>1. /\ client'.cur = s /\ client'.pc = "wait" /\ back' = <<>> /\ line'[s].req = client'.req
        /\ ses'[s].file = None /\ ~Busy(ses'[s])
    BY <1>1, <1>2, <1>3, <1>4, <1>5, <1>6 DEF Busy
  <2>. QED BY <2>1, AskedConversation
<1>13. Undisturbed'
  BY <1>1, <1>2, <1>3 DEF Undisturbed
<1>. QED BY <1>7, <1>9, <1>10, <1>11, <1>12, <1>13 DEF Known

LEMMA LeaveKnown ==
  ASSUME HeardInv, Leave
  PROVE  Known'
<1>. USE DEF HeardInv, RequestInv
<1>1. client' = Off /\ back' = <<>> /\ UNCHANGED <<vars, line, heard>>
  BY DEF Leave
<1>2. /\ Off.pc = "off" /\ Off.cur = None /\ Off.req = LoginRequest /\ Off.clear = TRUE
      /\ LoginRequest.file = None
      /\ Off \in [pc : {"off", "idle", "wait", "send", "wait2", "fetch"},
                  cur : Session \cup {None}, req : RequestRecord, left : 0..MaxLen, clear : BOOLEAN]
  <2>1. LoginRequest \in RequestRecord /\ 0 \in 0..MaxLen
    BY EmptyData, ServerAssumption DEF ServerAssumption, LoginRequest, RequestRecord, Method
  <2>. QED BY <2>1 DEF Off, LoginRequest
<1>3. Typed'
  BY <1>1, <1>2 DEF Typed
<1>4. Believed'
  BY <1>1 DEF Believed, Settled, Holds, Alters, Sending, At, Reading, Harmless, vars
<1>5. Conversation'
  BY <1>1, <1>2 DEF Conversation
<1>6. Undisturbed'
  BY <1>1, <1>2 DEF Undisturbed
<1>. QED BY <1>1, <1>3, <1>4, <1>5, <1>6, ServerRests DEF Known

LEMMA AskKnown ==
  ASSUME HeardInv, NEW m \in Method \ {"LOGIN"}, NEW k \in Key, NEW h \in Data, NEW n \in 0..MaxLen,
         Ask(m, k, h, n)
  PROVE  Known'
<1>. USE DEF HeardInv, RequestInv
<1> DEFINE req == [method |-> m, file |-> k, hash |-> h, len |-> n]
           c == client.cur
<1>1. /\ req \in RequestRecord /\ req.file = k /\ req.method = m
      /\ client.pc = "idle"
      /\ client' = [client EXCEPT !.pc = "wait", !.req = req, !.left = n,
                                  !.clear = ~Outstanding(c, k)]
      /\ line' = [line EXCEPT ![c].req = req]
      /\ heard' = IF m = "GET" THEN heard ELSE [heard EXCEPT ![k] = Unknown]
      /\ UNCHANGED <<vars, back>>
  BY DEF Ask, RequestRecord
<1>. HIDE DEF req
<1>2. /\ client \in [pc : {"off", "idle", "wait", "send", "wait2", "fetch"},
                     cur : Session \cup {None}, req : RequestRecord, left : 0..MaxLen, clear : BOOLEAN]
      /\ line \in [Session -> [req : RequestRecord \cup {None}, blocks : Seq(Block)]]
      /\ heard \in [Key -> {Unknown} \cup [ans : {"STORED", "ALREADY_EXISTS", "DELETED"}, hash : Data]]
  BY DEF Typed
<1>3. /\ c # None /\ c \in Session /\ back = <<>> /\ ~Busy(ses[c])
  BY <1>1, <1>2 DEF Conversation
<1>4. ses[c].file = None
  BY <1>3, RestingShape DEF GetInv
<1>5. /\ client'.pc = "wait" /\ client'.cur = c /\ client'.req = req
      /\ client'.clear = ~Outstanding(c, k)
      /\ client' \in [pc : {"off", "idle", "wait", "send", "wait2", "fetch"},
                      cur : Session \cup {None}, req : RequestRecord, left : 0..MaxLen, clear : BOOLEAN]
  BY <1>1, <1>2
<1>6. /\ line'[c].req = req /\ \A o \in Session \ {c} : line'[o] = line[o]
      /\ line' \in [Session -> [req : RequestRecord \cup {None}, blocks : Seq(Block)]]
  BY <1>1, <1>2, <1>3
<1>7. Typed'
  BY <1>1, <1>2, <1>5, <1>6 DEF Typed
<1>8. Believed'
  <2>. SUFFICES ASSUME NEW j \in Key, heard'[j] # Unknown
                PROVE  Settled(j)' /\ Holds(j, heard[j].ans, heard[j].hash)'
    BY DEF Believed
  <2>1. heard'[j] = heard[j] /\ (j = k => m = "GET")
    BY <1>1, <1>2
  <2>2. Settled(j) /\ Holds(j, heard[j].ans, heard[j].hash)
    BY <2>1 DEF Believed
  <2>3. ASSUME NEW o \in Session PROVE ~Alters(o, j)' /\ (Sending(o, j)' => line'[o].req.method = "GET")
    <3>1. ses' = ses /\ ~Alters(o, j) /\ (Sending(o, j) => line[o].req.method = "GET")
      BY <1>1, <2>2 DEF Settled, vars
    <3>2. CASE o = c
      BY <1>1, <1>6, <2>1, <3>1, <3>2 DEF Alters, Sending, Reading, Harmless
    <3>3. CASE o # c
      BY <1>6, <3>1, <3>3 DEF Alters, Sending, Reading, Harmless, At
    <3>. QED BY <3>2, <3>3
  <2>. QED BY <1>1, <2>1, <2>2, <2>3 DEF Settled, Holds, vars
<1>9. Conversation'
  <2>1. ses' = ses /\ back' = back
    BY <1>1 DEF vars
  <2>. QED BY <1>3, <1>4, <1>5, <1>6, <2>1, AskedConversation
<1>10. Undisturbed'
  <2>. SUFFICES ASSUME ~Outstanding(c, k)
                PROVE  \A o \in Session \ {c} : ~Working(o, k)' /\ ~Sending(o, k)'
    <3>1. ses'[c].file = None /\ Len(back') = 0 /\ client'.req.file = k
      BY <1>1, <1>3, <1>4, <1>5 DEF vars
    <3>. QED BY <1>5, <3>1 DEF Undisturbed
  <2>. TAKE o \in Session \ {c}
  <2>1. ses' = ses /\ line'[o] = line[o]
    BY <1>1, <1>6 DEF vars
  <2>2. ~Working(o, k) /\ ~Sending(o, k)
    <3>1. CASE At(o, "closed")
      <4>1. ses[o].file = None
        BY <3>1, RestingShape DEF GetInv, Busy, At
      <4>. QED BY <3>1, <4>1, NoneIsNone DEF Working, Sending
    <3>2. CASE ~At(o, "closed")
      BY <3>2 DEF Outstanding, Sending
    <3>. QED BY <3>1, <3>2
  <2>. QED BY <2>1, <2>2 DEF Working, Sending, Reading, At
<1>. QED BY <1>1, <1>7, <1>8, <1>9, <1>10, ServerRests DEF Known

LEMMA SendKnown ==
  ASSUME HeardInv, SendBlock \/ SendFinished
  PROVE  Known'
<1>. USE DEF HeardInv, RequestInv
<1>1. /\ client \in [pc : {"off", "idle", "wait", "send", "wait2", "fetch"},
                     cur : Session \cup {None}, req : RequestRecord, left : 0..MaxLen, clear : BOOLEAN]
      /\ line \in [Session -> [req : RequestRecord \cup {None}, blocks : Seq(Block)]]
      /\ MaxLen \in Nat
  BY ServerAssumption DEF ServerAssumption, Typed
<1>2. client.pc = "send" /\ client.cur \in Session /\ UNCHANGED <<vars, back, heard>>
  BY <1>1 DEF SendBlock, SendFinished, Conversation
<1>3. /\ client'.pc \in {"send", "wait2"} /\ client'.cur = client.cur /\ client'.req = client.req
      /\ client'.clear = client.clear
      /\ client' \in [pc : {"off", "idle", "wait", "send", "wait2", "fetch"},
                      cur : Session \cup {None}, req : RequestRecord, left : 0..MaxLen, clear : BOOLEAN]
  <2>1. CASE SendBlock
    <3>1. client' = [client EXCEPT !.left = @ - 1] /\ client.left > 0 /\ client.left - 1 \in 0..MaxLen
      BY <1>1, <2>1 DEF SendBlock
    <3>. QED BY <1>1, <1>2, <3>1
  <2>2. CASE SendFinished
    BY <1>1, <2>2 DEF SendFinished
  <2>. QED BY <2>1, <2>2
<1>4. /\ line' \in [Session -> [req : RequestRecord \cup {None}, blocks : Seq(Block)]]
      /\ \A o \in Session : line'[o].req = line[o].req
  <2>1. CASE SendBlock
    <3>1. PICK b \in Block : line' = [line EXCEPT ![client.cur].blocks = Append(@, b)]
      BY <2>1 DEF SendBlock
    <3>2. Append(line[client.cur].blocks, b) \in Seq(Block)
      BY <1>1, <1>2
    <3>. QED BY <1>1, <1>2, <3>1, <3>2
  <2>2. CASE SendFinished
    BY <1>1, <2>2 DEF SendFinished
  <2>. QED BY <2>1, <2>2
<1>5. Typed'
  BY <1>2, <1>3, <1>4 DEF Typed
<1>6. Believed'
  BY <1>2, <1>4 DEF Believed, Settled, Holds, Alters, Sending, At, Reading, Harmless, vars
<1>7. Conversation'
  <2>1. client.cur # None
    BY <1>2, SystemAssumption DEF SystemAssumption
  <2>. QED BY <1>2, <1>3, <1>4, <2>1 DEF Conversation, Busy, At, vars
<1>8. Undisturbed'
  <2>1. ASSUME NEW o \in Session, NEW k
        PROVE  /\ Working(o, k)' => Working(o, k)
               /\ Sending(o, k)' => Sending(o, k)
    BY <1>2, <1>4 DEF Working, Sending, At, Reading, vars
  <2>2. ASSUME NEW k, NEW a, NEW h PROVE Holds(k, a, h) => Holds(k, a, h)'
    BY <1>2 DEF Holds, vars
  <2>3. client.pc # "idle" /\ ses' = ses
    BY <1>2 DEF vars
  <2>. QED BY <1>2, <1>3, <2>1, <2>2, <2>3 DEF Undisturbed
<1>. QED BY <1>2, <1>5, <1>6, <1>7, <1>8, ServerRests DEF Known

LEMMA HearKnown ==
  ASSUME HeardInv, Hear
  PROVE  Known'
<1>. USE DEF HeardInv, RequestInv
<1> DEFINE c == client.cur
           f == client.req.file
           h == client.req.hash
           a == Head(back).ans
<1>1. /\ client \in [pc : {"off", "idle", "wait", "send", "wait2", "fetch"},
                     cur : Session \cup {None}, req : RequestRecord, left : 0..MaxLen, clear : BOOLEAN]
      /\ back \in Seq([ans : Answer \cup {"BODY"}, body : Data])
      /\ heard \in [Key -> {Unknown} \cup [ans : {"STORED", "ALREADY_EXISTS", "DELETED"}, hash : Data]]
      /\ f \in Key \cup {None} /\ h \in Data
  BY DEF Typed, RequestRecord
<1>2. /\ client.pc \in {"wait", "wait2", "fetch"} /\ back # <<>>
      /\ client' = [client EXCEPT !.pc = Then(a)] /\ back' = Tail(back)
      /\ heard' = IF f = None \/ ~client.clear THEN heard ELSE [heard EXCEPT ![f] = News(a)]
      /\ UNCHANGED <<vars, line>>
  BY DEF Hear
<1>3. c \in Session /\ c # None
  BY <1>1, <1>2 DEF Conversation
<1>4. /\ Len(back) \in Nat /\ Len(back) >= 1 /\ a = back[1].ans
      /\ Len(back') = Len(back) - 1 /\ \A i \in 1..Len(back') : back'[i] = back[i + 1]
      /\ back' \in Seq([ans : Answer \cup {"BODY"}, body : Data])
  BY <1>1, <1>2
<1>. HIDE DEF a
<1>5. Then(a) = IF a = "GO" THEN "send" ELSE IF a = "LENGTH" THEN "fetch" ELSE "idle"
  BY DEF Then
<1>6. /\ client'.pc = Then(a) /\ client'.cur = c /\ client'.req = client.req
      /\ client'.clear = client.clear
      /\ client' \in [pc : {"off", "idle", "wait", "send", "wait2", "fetch"},
                      cur : Session \cup {None}, req : RequestRecord, left : 0..MaxLen, clear : BOOLEAN]
  BY <1>1, <1>2, <1>5
\* an answer that ends the request is the last one, and the session is at rest
<1>7. Then(a) = "idle" => Len(back) = 1 /\ ~Busy(ses[c])
  BY <1>3, <1>4, <1>5 DEF Conversation
<1>8. At(c, "closed") \/ line[c].req = None
  BY <1>2, <1>3 DEF Conversation
<1>9. Conversation'
  <2>1. /\ ses[c].file # None => ses[c].file = f /\ ses[c].hash = h
        /\ Busy(ses[c]) => line[c].req = None
        /\ \A i \in 1..Len(back) : back[i].ans \notin {"GO", "LENGTH"} => i = Len(back) /\ ~Busy(ses[c])
    BY <1>3 DEF Conversation
  <2>2. Then(a) = "idle" => back' = <<>>
    <3>1. ASSUME Then(a) = "idle" PROVE Len(back') = 0
      <4>1. Len(back) = 1
        BY <1>7, <3>1
      <4>2. Len(back') = Len(back) - 1
        BY <1>4
      <4>. QED BY <4>1, <4>2
    <3>2. \A q \in Seq([ans : Answer \cup {"BODY"}, body : Data]) : Len(q) = 0 => q = <<>>
      OBVIOUS
    <3>. QED BY <1>4, <3>1, <3>2
  <2>3. \A i \in 1..Len(back') : back'[i].ans \notin {"GO", "LENGTH"} => i = Len(back') /\ ~Busy(ses[c])
    <3>. TAKE i \in 1..Len(back')
    <3>1. i + 1 \in 1..Len(back) /\ back'[i] = back[i + 1]
      BY <1>4
    <3>. QED BY <1>4, <2>1, <3>1
  <2>4. ses' = ses /\ line' = line
    BY <1>2 DEF vars
  <2>5. client'.pc # "off"
    BY <1>5, <1>6
  <2>. HIDE DEF HeardInv, RequestInv
  <2>. QED BY <1>3, <1>5, <1>6, <1>7, <1>8, <2>1, <2>2, <2>3, <2>4, <2>5 DEF Conversation, Busy, At
<1>10. \A k : Working(c, k) \/ ~Alters(c, k)
  BY DEF Working, Alters
<1>11. ASSUME NEW k, NEW x, NEW y, Holds(k, x, y) PROVE Holds(k, x, y)'
  BY <1>2, <1>11 DEF Holds, vars
<1>12. ASSUME NEW k \in Key, Settled(k) PROVE Settled(k)'
  BY <1>2, <1>12 DEF Settled, Alters, Sending, At, Reading, Harmless, vars
<1>13. Undisturbed'
  <2>. SUFFICES ASSUME f # None, client.clear, Then(a) # "idle"
                PROVE  /\ \A o \in Session \ {c} : ~Working(o, f)' /\ ~Sending(o, f)'
                       /\ ses[c].file # None => ses[c].alone
                       /\ \A i \in 1..Len(back') : Holds(f, back[i].ans, h)' 
    BY <1>2, <1>6 DEF Undisturbed, vars
  <2>1. /\ \A o \in Session \ {c} : ~Working(o, f) /\ ~Sending(o, f)
        /\ ses[c].file # None => ses[c].alone
        /\ \A i \in 1..Len(back) : Holds(f, back[i].ans, h)
    BY <1>2, <1>3 DEF Undisturbed
  <2>2. ASSUME NEW i \in 1..Len(back') PROVE Holds(f, back[i].ans, h)'
    <3>1. i + 1 \in 1..Len(back) /\ back'[i] = back[i + 1]
      BY <1>4
    <3>2. Holds(f, back[i + 1].ans, h)
      BY <2>1, <3>1
    <3>. QED BY <1>2, <1>6, <3>1, <3>2 DEF Holds, vars
  <2>3. \A o \in Session \ {c} : ~Working(o, f)' /\ ~Sending(o, f)'
    BY <1>2, <1>6, <2>1 DEF Working, Sending, At, Reading, vars
  <2>. QED BY <2>1, <2>2, <2>3
<1>14. CASE f = None \/ ~client.clear \/ a \notin {"STORED", "ALREADY_EXISTS", "DELETED"}
  <2>1. heard' = heard
    <3>1. f # None /\ client.clear => News(a) = heard[f]
      BY <1>14 DEF News
    <3>. QED BY <1>1, <1>2, <3>1
  <2>2. Typed'
    BY <1>2, <1>4, <1>6, <2>1 DEF Typed
  <2>3. Believed'
    BY <1>2, <1>12, <2>1 DEF Believed, Holds, vars
  <2>. QED BY <1>2, <1>9, <1>13, <2>2, <2>3, ServerRests DEF Known
<1>15. CASE f # None /\ client.clear /\ a \in {"STORED", "ALREADY_EXISTS", "DELETED"}
  <2>1. PICK n \in [ans : {"STORED", "ALREADY_EXISTS", "DELETED"}, hash : Data] :
          n = News(a) /\ n.ans = a /\ (a # "DELETED" => n.hash = h)
    <3>1. News(a) = Told(a, IF a = "DELETED" THEN <<>> ELSE h)
      BY <1>15 DEF News
    <3>2. \A x \in {"STORED", "ALREADY_EXISTS", "DELETED"}, d \in Data :
             /\ Told(x, d) \in [ans : {"STORED", "ALREADY_EXISTS", "DELETED"}, hash : Data]
             /\ Told(x, d).ans = x /\ Told(x, d).hash = d
      BY DEF Told
    <3>3. (IF a = "DELETED" THEN <<>> ELSE h) \in Data
      BY <1>1, EmptyData
    <3>. QED BY <1>15, <3>1, <3>2, <3>3
  <2>2. f \in Key /\ heard' = [heard EXCEPT ![f] = n]
    BY <1>1, <1>2, <1>15, <2>1
  <2>3. Typed'
    BY <1>1, <1>2, <1>4, <1>6, <2>2 DEF Typed
  <2>4. Settled(f)
    <3>1. /\ \A o \in Session \ {c} : ~Working(o, f) /\ ~Sending(o, f)
      BY <1>2, <1>3, <1>15 DEF Undisturbed
    <3>2. ~Busy(ses[c])
      BY <1>5, <1>7, <1>15
    <3>3. ~Alters(c, f) /\ ~Sending(c, f)
      BY <1>3, <1>8, <2>2, <3>2, RestingShape DEF Sending, GetInv
    <3>. QED BY <3>1, <3>3 DEF Settled, Alters, Working
  <2>5. Holds(f, a, n.hash)
    <3>1. Holds(f, a, h)
      <4>1. \A i \in 1..Len(back) : Holds(f, back[i].ans, h)
        BY <1>2, <1>3, <1>15 DEF Undisturbed
      <4>2. 1 \in 1..Len(back) /\ back[1].ans = a
        BY <1>4
      <4>. QED BY <4>1, <4>2
    <3>. QED BY <1>15, <2>1, <3>1 DEF Holds
  <2>6. Believed'
    <3>. SUFFICES ASSUME NEW k \in Key, heard'[k] # Unknown
                  PROVE  Settled(k)' /\ Holds(k, heard[k].ans, heard[k].hash)'
      BY DEF Believed
    <3>1. CASE k = f
      <4>1. heard'[k] = n
        BY <1>1, <2>2, <3>1
      <4>. QED BY <1>2, <1>12, <2>1, <2>2, <2>4, <2>5, <3>1, <4>1 DEF Holds, vars
    <3>2. CASE k # f
      <4>1. heard'[k] = heard[k]
        BY <1>1, <2>2, <3>2
      <4>2. Settled(k) /\ Holds(k, heard[k].ans, heard[k].hash)
        BY <4>1 DEF Believed
      <4>. QED BY <1>2, <1>12, <4>1, <4>2 DEF Holds, vars
    <3>. QED BY <3>1, <3>2
  <2>. QED BY <1>2, <1>9, <1>13, <2>3, <2>6, ServerRests DEF Known
<1>. QED BY <1>14, <1>15

-----------------------------------------------------------------------------
(* The end of the process, and its start *)

LEMMA DiedKnown ==
  ASSUME HeardInv, Died
  PROVE  Known'
<1>. USE DEF HeardInv, RequestInv
<1>1. /\ Crash /\ line' = [s \in Session |-> Silent] /\ UNCHANGED <<client, back, heard>>
  BY DEF Died, Terminate, Killed
<1>2. /\ Silent \in [req : RequestRecord \cup {None}, blocks : Seq(Block)] /\ Silent.req = None
      /\ line' \in [Session -> [req : RequestRecord \cup {None}, blocks : Seq(Block)]]
      /\ \A s \in Session : line'[s].req = None
  <2>1. Silent \in [req : RequestRecord \cup {None}, blocks : Seq(Block)] /\ Silent.req = None
    BY DEF Silent
  <2>. QED BY <1>1, <2>1
<1>3. /\ \A s \in Session : /\ ses'[s].pc = "closed" /\ ses'[s].file = None /\ ses'[s].ans = None
      /\ dir' = dir /\ told' = told
      /\ \A k \in Key : dir[k] # None => data'[dir[k]] = data[dir[k]]
  <2>1. \A s \in Session : ses'[s] = Closed
    BY <1>1 DEF Crash
  <2>2. dir' = dir /\ told' = told /\ data' = Reap(dir', ses')
    BY <1>1 DEF Crash
  <2>3. dir \in [Key -> Inode \cup {None}] /\ data \in [Inode -> Data]
    BY DEF GetInv, ServerInv, TypeOK
  <2>4. \A k \in Key : dir'[k] \in Inode => Reap(dir', ses')[dir'[k]] = data[dir'[k]]
    BY <2>3, ReapKeeps
  <2>5. \A k \in Key : dir[k] # None => data'[dir[k]] = data[dir[k]]
    BY <2>2, <2>3, <2>4
  <2>. QED BY <2>1, <2>2, <2>5, ClosedFacts
<1>4. Typed'
  BY <1>1, <1>2 DEF Typed
<1>5. ASSUME NEW k \in Key, NEW a, NEW h, Holds(k, a, h) PROVE Holds(k, a, h)'
  BY <1>3, <1>5 DEF Holds
<1>6. ASSUME NEW o \in Session, NEW k \in Key
      PROVE  ~Working(o, k)' /\ ~Alters(o, k)' /\ ~Sending(o, k)'
  BY <1>2, <1>3, NoneIsNone DEF Working, Alters, Sending
<1>7. Believed'
  BY <1>1, <1>5, <1>6 DEF Believed, Settled
<1>8. There' /\ Unlisted'
  BY <1>3, NoList DEF There, ThereOf, Unlisted
<1>9. Conversation'
  <2>1. client.cur = None \/ client.cur \in Session
    BY DEF Typed
  <2>. QED BY <1>1, <1>2, <1>3, <2>1 DEF Conversation, Busy, At
<1>10. Undisturbed'
  <2>1. client.cur # None => client.cur \in Session
    BY DEF Typed
  <2>2. client.req.file # None => client.req.file \in Key
    BY DEF Typed, RequestRecord
  <2>. QED BY <1>1, <1>3, <1>5, <1>6, <2>1, <2>2 DEF Undisturbed
<1>. QED BY <1>4, <1>7, <1>8, <1>9, <1>10 DEF Known

LEMMA RestingKnown ==
  ASSUME HeardInv, UNCHANGED <<ses, dir, data, told, systemVars>>
  PROVE  Known'
<1>. USE DEF HeardInv, RequestInv
<1>1. There' /\ Unlisted'
  BY DEF There, ThereOf, Unlisted
<1>2. Typed'
  BY DEF Typed, systemVars
<1>3. Believed'
  BY DEF Believed, Settled, Holds, Alters, Sending, At, Reading, Harmless, systemVars
<1>4. Conversation'
  BY DEF Conversation, Busy, At, systemVars
<1>5. Undisturbed'
  BY DEF Undisturbed, Working, Sending, At, Reading, Holds, systemVars
<1>. QED BY <1>1, <1>2, <1>3, <1>4, <1>5 DEF Known

-----------------------------------------------------------------------------
(* The theorems *)

\* Every step of the system is one of the server's, or leaves the server alone.
LEMMA SystemSteps == (Client \/ Server) => [Next]_vars
<1>. SUFFICES ASSUME Client \/ Server PROVE Next \/ UNCHANGED vars
  OBVIOUS
<1>1. CASE Client
  <2>1. CASE \E s \in Session : Connect(s)
    BY <2>1 DEF Connect, Next, Connection
  <2>2. CASE Leave \/ AskAny \/ SendBlock \/ SendFinished \/ Hear
    BY <2>2 DEF Leave, AskAny, Ask, SendBlock, SendFinished, Hear
  <2>. QED BY <1>1, <2>1, <2>2 DEF Client
<1>2. ASSUME NEW s \in Session, ReadLogin(s) \/ ReadPut(s) \/ ReadDelete(s) \/ ReadGet(s) PROVE Next
  BY <1>2 DEF ReadLogin, ReadPut, ReadDelete, ReadGet, Next, Connection, Upload, Erase, Download
<1>3. ASSUME NEW s \in Session, ReceiveBlock(s) \/ Answering(s) \/ Sent(s) \/ Ended(s) PROVE Next
  BY <1>3 DEF ReceiveBlock, Answering, Sent, Ended, Next, Connection, Upload, Download
<1>4. ASSUME NEW s \in Session, Onward(s) PROVE Next
  BY <1>4 DEF Onward, Next, Connection, Upload, Erase, Download
<1>5. CASE Died \/ Restart
  BY <1>5 DEF Died, Next
<1>. QED BY <1>1, <1>2, <1>3, <1>4, <1>5 DEF Server

LEMMA HeardInitInv == SystemInit => HeardInv
<1>. SUFFICES ASSUME SystemInit PROVE HeardInv
  OBVIOUS
<1>1. GetInv
  BY GetInitInv DEF SystemInit
<1>2. /\ \A s \in Session : ses[s].pc = "closed" /\ ses[s].file = None /\ ses[s].ans = None
      /\ client = Off /\ line = [s \in Session |-> Silent] /\ back = <<>>
      /\ heard = [k \in Key |-> Unknown]
  BY ClosedFacts DEF SystemInit, Init
<1>3. /\ Off.pc = "off" /\ Off.cur = None /\ Off.req = LoginRequest /\ Off.clear = TRUE
      /\ LoginRequest.file = None
      /\ Off \in [pc : {"off", "idle", "wait", "send", "wait2", "fetch"},
                  cur : Session \cup {None}, req : RequestRecord, left : 0..MaxLen, clear : BOOLEAN]
  <2>1. LoginRequest \in RequestRecord /\ 0 \in 0..MaxLen
    BY EmptyData, ServerAssumption DEF ServerAssumption, LoginRequest, RequestRecord, Method
  <2>. QED BY <2>1 DEF Off, LoginRequest
<1>4. Typed
  <2>1. Silent \in [req : RequestRecord \cup {None}, blocks : Seq(Block)]
    BY DEF Silent
  <2>. QED BY <1>2, <1>3, <2>1 DEF Typed
<1>5. Believed
  BY <1>2 DEF Believed
<1>6. There /\ Unlisted
  BY <1>2, NoList DEF There, ThereOf, Unlisted
<1>7. Conversation /\ Undisturbed
  BY <1>2, <1>3 DEF Conversation, Undisturbed
<1>. QED BY <1>1, <1>4, <1>5, <1>6, <1>7 DEF HeardInv, RequestInv

LEMMA HeardNextInv == HeardInv /\ [Client \/ Server]_allVars => HeardInv'
<1>. SUFFICES ASSUME HeardInv, [Client \/ Server]_allVars PROVE HeardInv'
  OBVIOUS
<1>1. GetInv'
  <2>1. [Next]_vars
    BY SystemSteps DEF allVars, vars
  <2>. QED BY <2>1, GetNextInv DEF HeardInv, RequestInv
<1>2. Known'
  <2>1. CASE Client
    BY <2>1, ConnectKnown, LeaveKnown, AskKnown, SendKnown, HearKnown DEF Client, AskAny
  <2>2. ASSUME NEW s \in Session, ReadLogin(s) \/ ReadPut(s) \/ ReadDelete(s) \/ ReadGet(s) PROVE Known'
    BY <2>2, ReadTaken, TakenKnown
  <2>3. ASSUME NEW s \in Session, ReceiveBlock(s) \/ Answering(s) \/ Sent(s) \/ Ended(s) \/ Onward(s)
        PROVE  Known'
    BY <2>3, InnerKnown, AnsweringKnown
  <2>4. CASE Died
    BY <2>4, DiedKnown
  <2>5. CASE Restart /\ UNCHANGED systemVars
    BY <2>5, RestingKnown DEF Restart
  <2>6. CASE UNCHANGED allVars
    BY <2>6, RestingKnown DEF allVars, vars
  <2>. QED BY <2>1, <2>2, <2>3, <2>4, <2>5, <2>6 DEF Server
<1>. QED BY <1>1, <1>2 DEF HeardInv, RequestInv, Known

\* Between the client and the sessions its connections have left behind no request is
\* on its way, in hand or answered other than HeardInv says.
THEOREM HeardInvariance == SystemSpec => []HeardInv
BY HeardInitInv, HeardNextInv, PTL DEF SystemSpec

\* What the client believes of its files is so (client.cpp:170-174, :184-188, :422),
\* for every number of connections, users, files and blocks.
THEOREM HeardHolds == SystemSpec => []HeardIsHeld
<1>1. HeardInv => HeardIsHeld
  <2>. SUFFICES ASSUME HeardInv, NEW k \in Key, heard[k] # Unknown
                PROVE  /\ heard[k].ans = "STORED" => Served(k) = heard[k].hash
                       /\ heard[k].ans = "ALREADY_EXISTS" =>
                            dir[k] # None /\ data[dir[k]] = heard[k].hash
                       /\ heard[k].ans = "DELETED" => Served(k) = None /\ dir[k] = None
    BY DEF HeardIsHeld
  <2>1. Holds(k, heard[k].ans, heard[k].hash) /\ heard[k].hash \in Data
    BY DEF HeardInv, RequestInv, Believed, Typed
  <2>2. Confirmed
    BY DEF HeardInv, RequestInv, GetInv, ServerInv
  <2>. QED BY <2>1, <2>2 DEF Holds, Confirmed, Served
<1>. QED BY <1>1, HeardInvariance, PTL

\* What the client has asked for, its session has in hand and the answers under way fit
\* together (client.cpp:82-143, session.cpp:25-43), and a former session does not come
\* between a request made in the clear and its answer.
THEOREM RequestHolds == SystemSpec => []RequestInv
<1>1. HeardInv => RequestInv
  BY DEF HeardInv
<1>. QED BY <1>1, HeardInvariance, PTL

-----------------------------------------------------------------------------
(* What a GET brings *)

\* What the client knows of a file is what is under its name.
LEMMA KnownFile ==
  ASSUME HeardInv, NEW k \in Key, heard[k] # Unknown
  PROVE  /\ heard[k].ans # "DELETED" =>
              dir[k] # None /\ dir[k] \in Inode /\ data[dir[k]] = heard[k].hash
         /\ heard[k].ans = "DELETED" => dir[k] = None /\ snapshot[k] = None
         /\ heard[k].ans = "STORED" => snapshot[k] # None
         /\ heard[k].hash \in Data /\ heard[k].hash \in Seq(Block) /\ Len(heard[k].hash) \in Nat
         /\ \A o \in Session : ~Alters(o, k)
<1>1. /\ heard[k].ans \in {"STORED", "ALREADY_EXISTS", "DELETED"} /\ heard[k].hash \in Data
      /\ Holds(k, heard[k].ans, heard[k].hash) /\ Settled(k)
  BY DEF HeardInv, RequestInv, Typed, Believed
<1>2. Confirmed /\ dir \in [Key -> Inode \cup {None}]
  BY DEF HeardInv, GetInv, ServerInv, TypeOK
<1>3. heard[k].hash \in Seq(Block) /\ Len(heard[k].hash) \in Nat
  BY <1>1, DataIsSeq
<1>. QED BY <1>1, <1>2, <1>3, NoneIsNone DEF Holds, Confirmed, Served, Settled

\* The places of a GET, and of no other handler.
Fetching(r) ==
  \/ r.pc \in {"lookup", "found", "load", "size", "send"}
  \/ r.pc = "hdel" /\ r.ans = "NOT_FOUND"
  \/ r.pc = "reply" /\ r.ans \in {"LENGTH", "OPEN_ERROR", "NOT_FOUND"}

\* The step of a GET before it answers.
LEMMA FetchMoves ==
  ASSUME HeardInv, NEW s \in Session, Inner(s), NEW k \in Key, ses[s].file = k,
         heard[k] # Unknown, FetchedOf(ses[s], heard[k]), heard' = heard, ses'[s].file # None
  PROVE  FetchedOf(ses[s], heard[k])'
<1> DEFINE n == heard[k]
           r == ses[s]
           q == ses'[s]
<1>1. /\ ses \in [Session -> SessionRecord] /\ r \in SessionRecord /\ ShapeOf(r)
      /\ GotOf(r) /\ FetchedOf(r, n) /\ n' = n
  BY Here DEF HeardInv, GetInv, Got, ServerInv, TypeOK
<1>2. /\ n.ans # "DELETED" => dir[k] # None /\ dir[k] \in Inode /\ data[dir[k]] = n.hash
      /\ n.ans = "DELETED" => dir[k] = None /\ snapshot[k] = None
      /\ n.ans = "STORED" => snapshot[k] # None
      /\ n.hash \in Seq(Block) /\ Len(n.hash) \in Nat
      /\ ~Alters(s, k)
  BY KnownFile
<1>3. Fetching(r)
  BY <1>2 DEF Alters, Reading, Harmless, Fetching
<1>4. /\ r.pc # "send" => Len(r.body) = 0
      /\ r.pc \in {"lookup", "found", "load", "size"} => r.ans = None
      /\ None \notin {"LENGTH", "NOT_FOUND"}
  BY <1>1, NoneIsNone DEF GotOf, Answer, AfterReply
<1>5. \/ Disconnect(s) \/ HDel(s) \/ Lookup(s) \/ Found(s) \/ Load(s) \/ Size(s) \/ Send(s)
      \/ HangUp(s) \/ SendEnd(s)
  BY <1>3 DEF Inner, Fetching, PutExists, PutCompare, PutOpen, Receive, Verify, HSet, Remove, At
<1>6. CASE Disconnect(s) \/ HDel(s)
  <2>1. /\ q.ans = r.ans /\ q.file = r.file /\ q.fd = r.fd /\ q.len = r.len /\ q.body = r.body
        /\ dir' = dir
        /\ q.pc = r.pc \/ (r.pc = "hdel" /\ q.pc \in {"open", "reply"})
    BY <1>1, <1>6 DEF Disconnect, HDel, At, Goto, SessionRecord
  <2>. QED BY <1>1, <1>3, <2>1 DEF FetchedOf, Fetching
<1>7. CASE Lookup(s)
  <2>1. /\ r.pc = "lookup" /\ q.file = r.file /\ q.body = r.body /\ dir' = dir
        /\ \/ q.pc = "found" /\ q.ans = r.ans
           \/ q.pc = "reply" /\ q.ans = "NOT_FOUND" /\ snapshot[k] = None
    BY <1>1, <1>7 DEF Lookup, At, Goto, Reply, SessionRecord
  <2>. QED BY <1>1, <1>2, <1>4, <2>1 DEF FetchedOf
<1>8. CASE Found(s)
  <2>1. /\ r.pc = "found" /\ q.file = r.file /\ q.body = r.body /\ dir' = dir
        /\ \/ q.pc = "load" /\ q.ans = r.ans /\ dir[k] # None
           \/ q.pc = "hdel" /\ q.ans = "NOT_FOUND" /\ dir[k] = None
    BY <1>1, <1>8 DEF Found, At, Goto, SessionRecord
  <2>. QED BY <1>1, <1>2, <1>4, <2>1 DEF FetchedOf
<1>9. CASE Load(s)
  <2>1. /\ r.pc = "load" /\ q.file = r.file /\ q.body = r.body /\ dir' = dir
        /\ \/ q.pc = "size" /\ q.ans = r.ans /\ q.fd = dir[k]
           \/ q.pc = "reply" /\ q.ans = "OPEN_ERROR"
    BY <1>1, <1>9 DEF Load, At, Reply, SessionRecord
  <2>. QED BY <1>1, <1>2, <1>4, <2>1 DEF FetchedOf
<1>10. CASE Size(s)
  <2>1. /\ r.pc = "size" /\ q.file = r.file /\ q.body = r.body /\ dir' = dir /\ q.fd = r.fd
        /\ q.pc = "reply" /\ q.ans = "LENGTH" /\ q.len = Len(data[dir[k]])
    BY <1>1, <1>10 DEF Size, At, SessionRecord
  <2>. QED BY <1>1, <1>2, <1>4, <2>1 DEF FetchedOf
<1>11. CASE Send(s)
  <2> DEFINE b == r.body
             c == n.hash
  <2>1. /\ r.pc = "send" /\ Len(b) < r.len /\ dir' = dir /\ b \in Seq(Block) /\ Len(b) \in Nat
    BY <1>1, <1>11, DataIsSeq DEF Send, At, SessionRecord
  <2>2. /\ q.file = r.file /\ q.pc = r.pc /\ q.len = r.len /\ q.ans = r.ans
    BY <1>11, SendFields DEF HeardInv, GetInv
  <2>3. /\ n.ans # "DELETED" /\ r.fd = dir[k] /\ r.len = Len(c)
        /\ (r.ans = "NOT_FOUND" => n.ans # "STORED")
        /\ \A i \in 1..Len(b) : b[i] = c[i]
    BY <1>1, <2>1 DEF FetchedOf
  <2>4. ses' = [ses EXCEPT ![s].body = Append(@, c[Len(b) + 1])]
    BY <1>2, <1>11, <2>1, <2>3, NoneIsNone DEF Send
  <2>5. q.body = Append(b, c[Len(b) + 1]) /\ q.fd = r.fd
    BY <1>1, <2>4 DEF SessionRecord
  <2>6. c[Len(b) + 1] \in Block
    BY <1>2, <2>1, <2>3
  <2>7. /\ Len(q.body) = Len(b) + 1
        /\ \A i \in 1..(Len(b) + 1) : q.body[i] = c[i]
    <3>. HIDE DEF b, c, q
    <3>1. /\ Len(Append(b, c[Len(b) + 1])) = Len(b) + 1
          /\ \A i \in 1..Len(b) : Append(b, c[Len(b) + 1])[i] = b[i]
          /\ Append(b, c[Len(b) + 1])[Len(b) + 1] = c[Len(b) + 1]
      BY <2>1, <2>6
    <3>2. \A i \in 1..(Len(b) + 1) : i \in 1..Len(b) \/ i = Len(b) + 1
      BY <2>1
    <3>. QED BY <2>3, <2>5, <3>1, <3>2
  <2>. QED BY <1>1, <1>2, <2>1, <2>2, <2>3, <2>5, <2>7 DEF FetchedOf
<1>12. CASE HangUp(s) \/ SendEnd(s)
  <2>1. q = Closed \/ q = Idle(r.user, r.alive)
    BY <1>1, <1>12 DEF HangUp, SendEnd
  <2>. QED BY <2>1, ClosedFacts DEF Idle
<1>. QED BY <1>5, <1>6, <1>7, <1>8, <1>9, <1>10, <1>11, <1>12

\* The answer of a GET leaves it where it sends the file.
LEMMA FetchAnswers ==
  ASSUME HeardInv, NEW s \in Session, Respond(s), NEW k \in Key, ses[s].file = k,
         heard[k] # Unknown, FetchedOf(ses[s], heard[k]), heard' = heard, ses'[s].file # None
  PROVE  FetchedOf(ses[s], heard[k])'
<1> DEFINE n == heard[k]
           r == ses[s]
           q == ses'[s]
           next == AfterReply[r.ans]
<1>1. /\ ses \in [Session -> SessionRecord] /\ r \in SessionRecord
      /\ r.pc = "reply" /\ r.ans \in Answer /\ dir' = dir /\ FetchedOf(r, n) /\ n' = n
  BY RespondShape DEF HeardInv, RequestInv, GetInv, ServerInv, TypeOK, Respond
<1>2. r.ans \notin {"GO", "LISTING"} /\ q.pc \in {"recv", "send"}
  <2>1. ~Alters(s, k)
    BY KnownFile
  <2>2. r.ans \notin {"GO", "LISTING"}
    BY <1>1, <2>1 DEF Alters, Reading, Harmless
  <2>. QED BY <2>2, RespondShape DEF HeardInv, RequestInv, GetInv
<1>3. r.ans = "LENGTH" /\ q.pc = "send" /\ next = "send"
  <2>1. r.ans = "LENGTH" /\ q.pc = "send"
    BY <1>2, RespondShape DEF HeardInv, RequestInv, GetInv
  <2>. QED BY <2>1 DEF AfterReply
<1>4. ses' = [ses EXCEPT ![s] = [r EXCEPT !.pc = "send", !.ans = None]]
  BY <1>3 DEF Respond
<1>5. /\ q.file = r.file /\ q.fd = r.fd /\ q.len = r.len /\ q.body = r.body /\ q.ans = None
  BY <1>1, <1>4 DEF SessionRecord
<1>6. None \notin {"LENGTH", "NOT_FOUND"}
  BY NoneIsNone DEF Answer, AfterReply
<1>. QED BY <1>1, <1>3, <1>5, <1>6 DEF FetchedOf

\* Two sequences with the same elements.
LEMMA SameSeq ==
  ASSUME NEW p \in Seq(Block), NEW q \in Seq(Block), Len(p) = Len(q),
         \A i \in 1..Len(p) : p[i] = q[i]
  PROVE  p = q
OBVIOUS

\* What a session answers of a file the client knows agrees with it.
LEMMA AnswersAgreed ==
  ASSUME HeardInv, NEW s \in Session, NEW k \in Key, heard[k] # Unknown,
         ses[s].file # None => ses[s].file = k /\ FetchedOf(ses[s], heard[k])
  PROVE  /\ Respond(s) => Agreed([ans |-> ses[s].ans, body |-> <<>>], heard[k])
         /\ SendEnd(s) => Agreed([ans |-> "BODY", body |-> ses[s].body], heard[k])
<1> DEFINE n == heard[k]
           r == ses[s]
<1>1. r \in SessionRecord /\ ShapeOf(r)
  BY Here DEF HeardInv, GetInv
<1>2. ASSUME Respond(s) PROVE Agreed([ans |-> r.ans, body |-> <<>>], n)
  <2>1. r.pc = "reply" /\ r.ans \in Answer
    BY <1>2, RespondShape DEF HeardInv, RequestInv, GetInv
  <2>2. r.ans # "BODY"
    BY <2>1 DEF Answer, AfterReply
  <2>3. r.ans = "NOT_FOUND" => n.ans # "STORED"
    BY <1>1, <2>1 DEF ShapeOf, NoFile, FetchedOf
  <2>. QED BY <2>2, <2>3 DEF Agreed
<1>3. ASSUME SendEnd(s) PROVE Agreed([ans |-> "BODY", body |-> r.body], n)
  <2>1. r.pc = "send" /\ Len(r.body) = r.len /\ r.body \in Seq(Block)
    BY <1>1, <1>3, DataIsSeq DEF SendEnd, At, SessionRecord
  <2>2. r.file # None
    BY <1>1, <2>1 DEF ShapeOf, NoFile
  <2>3. /\ n.ans # "DELETED" /\ r.len = Len(n.hash)
        /\ \A i \in 1..Len(r.body) : r.body[i] = n.hash[i]
    BY <2>1, <2>2 DEF FetchedOf
  <2>4. n.hash \in Seq(Block)
    BY KnownFile
  <2>5. r.body = n.hash
    BY <2>1, <2>3, <2>4, SameSeq
  <2>. QED BY <2>3, <2>5 DEF Agreed
<1>. QED BY <1>2, <1>3

\* The client's session is at the client's file, or at none.
LEMMA FetchedHere ==
  ASSUME HeardInv, Fetched, client.cur # None, NEW k \in Key, client.req.file = k, heard[k] # Unknown
  PROVE  /\ client.cur \in Session
         /\ ses[client.cur].file # None =>
              ses[client.cur].file = k /\ FetchedOf(ses[client.cur], heard[k])
         /\ \A i \in 1..Len(back) : Agreed(back[i], heard[k])
BY NoneIsNone DEF HeardInv, RequestInv, Typed, Conversation, Fetched

\* A step of the server keeps Fetched if it keeps it for what the client knows.
LEMMA FetchedFrame ==
  ASSUME HeardInv, Fetched, client' = client, heard' = heard,
         \A k \in Key : client.cur # None /\ client.req.file = k /\ heard[k] # Unknown =>
           /\ ses'[client.cur].file # None => FetchedOf(ses[client.cur], heard[k])'
           /\ \/ back' = back
              \/ \E a \in [ans : Answer \cup {"BODY"}, body : Data] :
                   back' = Append(back, a) /\ Agreed(a, heard[k])
  PROVE  Fetched'
<1> DEFINE c == client.cur
           k == client.req.file
<1>1. client.req.method = "GET" => k # None
  BY DEF Fetched
<1>2. k # None => k \in Key
  BY DEF HeardInv, Typed, RequestRecord
<1>3. back \in Seq([ans : Answer \cup {"BODY"}, body : Data])
  BY DEF HeardInv, Typed
<1>4. SUFFICES ASSUME c # None, k # None, heard[k] # Unknown
               PROVE  /\ ses'[c].file # None => FetchedOf(ses[c], heard[k])'
                      /\ \A i \in 1..Len(back') : Agreed(back[i], heard[k])'
  BY <1>1 DEF Fetched
<1>5. \A i \in 1..Len(back) : Agreed(back[i], heard[k])
  BY <1>2, <1>4, FetchedHere
<1>6. ASSUME NEW i \in 1..Len(back') PROVE Agreed(back[i], heard[k])'
  <2>1. CASE back' = back
    BY <1>5, <2>1 DEF Agreed
  <2>2. CASE back' # back
    <3>1. PICK a \in [ans : Answer \cup {"BODY"}, body : Data] :
            back' = Append(back, a) /\ Agreed(a, heard[k])
      BY <1>2, <1>4, <2>2
    <3>2. /\ Len(back') = Len(back) + 1 /\ back'[Len(back) + 1] = a /\ Len(back) \in Nat
          /\ \A j \in 1..Len(back) : back'[j] = back[j]
      BY <1>3, <3>1
    <3>3. CASE i = Len(back) + 1
      BY <3>1, <3>2, <3>3 DEF Agreed
    <3>4. CASE i \in 1..Len(back)
      BY <1>5, <3>2, <3>4 DEF Agreed
    <3>. QED BY <3>2, <3>3, <3>4
  <2>. QED BY <2>1, <2>2
<1>. QED BY <1>2, <1>4, <1>6

LEMMA InnerFetched ==
  ASSUME HeardInv, Fetched, NEW s \in Session, Onward(s) \/ ReceiveBlock(s) \/ Ended(s) \/ Sent(s)
  PROVE  Fetched'
<1>1. Inner(s) /\ client' = client /\ heard' = heard
  BY DEF Onward, ReceiveBlock, Ended, Sent, Inner, Delivers, systemVars
<1>2. \A t \in Session \ {s} : ses'[t] = ses[t]
  BY <1>1, InnerCarries DEF HeardInv, RequestInv, GetInv
<1>3. SUFFICES ASSUME NEW k \in Key, client.cur # None, client.req.file = k, heard[k] # Unknown
               PROVE  /\ ses'[client.cur].file # None => FetchedOf(ses[client.cur], heard[k])'
                      /\ \/ back' = back
                         \/ \E a \in [ans : Answer \cup {"BODY"}, body : Data] :
                              back' = Append(back, a) /\ Agreed(a, heard[k])
  BY <1>1, FetchedFrame
<1>4. /\ client.cur \in Session
      /\ ses[client.cur].file # None =>
           ses[client.cur].file = k /\ FetchedOf(ses[client.cur], heard[k])
  BY <1>3, FetchedHere
<1>5. ses'[client.cur].file # None => FetchedOf(ses[client.cur], heard[k])'
  <2>. SUFFICES ASSUME ses'[client.cur].file # None PROVE FetchedOf(ses[client.cur], heard[k])'
    OBVIOUS
  <2>1. CASE client.cur = s
    <3>1. ses[s].file # None
      BY <1>1, <2>1, InnerCarries DEF HeardInv, RequestInv, GetInv, Carries, Goes
    <3>2. ses[s].file = k /\ FetchedOf(ses[s], heard[k])
      BY <1>4, <2>1, <3>1
    <3>3. FetchedOf(ses[s], heard[k])'
      BY <1>1, <1>3, <2>1, <3>2, FetchMoves
    <3>. QED BY <1>1, <2>1, <3>3
  <2>2. CASE client.cur # s
    <3> DEFINE r == ses[client.cur]
               n == heard[k]
    <3>1. ses'[client.cur] = r
      BY <1>2, <1>4, <2>2
    <3>2. r.file = k /\ FetchedOf(r, n)
      BY <1>4, <3>1
    <3>3. ~Alters(s, k) /\ (n.ans # "DELETED" => dir[k] # None)
      BY <1>3, KnownFile
    <3>4. n.ans # "DELETED" => dir'[k] = dir[k]
      BY <1>1, <3>3, InnerSteady DEF HeardInv, GetInv
    <3>. QED BY <1>1, <3>1, <3>2, <3>4 DEF FetchedOf
  <2>. QED BY <2>1, <2>2
<1>6. CASE ~(Sent(s) /\ client.cur = s /\ ses[s].alive)
  BY <1>1, <1>5, <1>6 DEF Onward, ReceiveBlock, Ended, Sent, Delivers, systemVars
<1>7. CASE Sent(s) /\ client.cur = s /\ ses[s].alive
  <2>1. /\ SendEnd(s) /\ ses[s].body \in Data
        /\ back' = Append(back, [ans |-> "BODY", body |-> ses[s].body])
    BY <1>7 DEF Sent, Delivers, HeardInv, GetInv, ServerInv, TypeOK, SessionRecord
  <2>2. Agreed([ans |-> "BODY", body |-> ses[s].body], heard[k])
    BY <1>3, <1>4, <1>7, <2>1, AnswersAgreed
  <2>. QED BY <1>5, <2>1, <2>2
<1>. QED BY <1>6, <1>7

LEMMA AnsweringFetched ==
  ASSUME HeardInv, Fetched, NEW s \in Session, Answering(s)
  PROVE  Fetched'
<1>1. Respond(s) /\ client' = client /\ heard' = heard
  BY DEF Answering, Delivers, systemVars
<1>2. /\ ses[s].ans \in Answer /\ \A t \in Session \ {s} : ses'[t] = ses[t]
      /\ ses'[s].file # None => ses[s].file = ses'[s].file
  BY <1>1, RespondShape DEF HeardInv, RequestInv, GetInv
<1>3. SUFFICES ASSUME NEW k \in Key, client.cur # None, client.req.file = k, heard[k] # Unknown
               PROVE  /\ ses'[client.cur].file # None => FetchedOf(ses[client.cur], heard[k])'
                      /\ \/ back' = back
                         \/ \E a \in [ans : Answer \cup {"BODY"}, body : Data] :
                              back' = Append(back, a) /\ Agreed(a, heard[k])
  BY <1>1, FetchedFrame
<1>4. /\ client.cur \in Session
      /\ ses[client.cur].file # None =>
           ses[client.cur].file = k /\ FetchedOf(ses[client.cur], heard[k])
  BY <1>3, FetchedHere
<1>5. ses'[client.cur].file # None => FetchedOf(ses[client.cur], heard[k])'
  <2>1. CASE client.cur = s
    <3>. SUFFICES ASSUME ses'[s].file # None PROVE FetchedOf(ses[s], heard[k])'
      BY <1>1, <2>1
    <3>1. ses[s].file = k /\ FetchedOf(ses[s], heard[k])
      BY <1>2, <1>4, <2>1
    <3>. QED BY <1>1, <1>3, <3>1, FetchAnswers
  <2>2. CASE client.cur # s
    <3>1. ses'[client.cur] = ses[client.cur] /\ dir' = dir
      BY <1>1, <1>2, <1>4, <2>2 DEF Respond
    <3>. QED BY <1>1, <1>4, <3>1 DEF FetchedOf
  <2>. QED BY <2>1, <2>2
<1>6. CASE back' = back
  BY <1>5, <1>6
<1>7. CASE back' # back
  <2>1. client.cur = s /\ back' = Append(back, [ans |-> ses[s].ans, body |-> <<>>])
    BY <1>7 DEF Answering, Delivers, systemVars
  <2>2. Agreed([ans |-> ses[s].ans, body |-> <<>>], heard[k])
    BY <1>1, <1>3, <1>4, <2>1, AnswersAgreed
  <2>3. [ans |-> ses[s].ans, body |-> <<>>] \in [ans : Answer \cup {"BODY"}, body : Data]
    BY <1>2, EmptyData
  <2>. QED BY <1>5, <2>1, <2>2, <2>3
<1>. QED BY <1>6, <1>7

LEMMA TakenFetched ==
  ASSUME HeardInv, HeardInv', Fetched, NEW s \in Session, Taken(s)
  PROVE  Fetched'
<1> DEFINE c == client.cur
           q == line[s].req
<1>1. /\ client' = client /\ heard' = heard /\ back' = back /\ dir' = dir
      /\ ses[s].pc = "ready" /\ q # None
  BY DEF Taken
<1>2. SUFFICES ASSUME NEW k \in Key, c # None, client.req.file = k, heard[k] # Unknown,
                      ses'[c].file # None
               PROVE  FetchedOf(ses[c], heard[k])'
  BY <1>1, FetchedFrame
<1>3. /\ c \in Session
      /\ ses[c].file # None => ses[c].file = k /\ FetchedOf(ses[c], heard[k])
  BY <1>2, FetchedHere
<1>4. CASE c = s
  <2>1. q = client.req
    BY <1>1, <1>2, <1>4 DEF HeardInv, RequestInv, Conversation, At
  <2>2. Sending(s, k)
    BY <1>1, <1>2, <2>1 DEF Sending, At
  <2>3. q.method = "GET"
    BY <1>2, <2>2 DEF HeardInv, RequestInv, Believed, Settled
  <2>4. ses'[s].pc = "lookup"
    BY <1>2, <1>4, <2>3 DEF Taken
  <2>5. ses'[s].ans = None /\ ses'[s].body = <<>>
    BY <2>4 DEF HeardInv, GetInv, Got, GotOf
  <2>6. Len(heard'[k].hash) \in Nat
    BY <1>1, <1>2, KnownFile
  <2>7. None \notin {"LENGTH", "NOT_FOUND"}
    BY NoneIsNone DEF Answer, AfterReply
  <2>. QED BY <1>1, <1>4, <2>4, <2>5, <2>6, <2>7 DEF FetchedOf
<1>5. CASE c # s
  <2>1. /\ ses'[c].pc = ses[c].pc /\ ses'[c].ans = ses[c].ans /\ ses'[c].file = ses[c].file
        /\ ses'[c].fd = ses[c].fd /\ ses'[c].len = ses[c].len /\ ses'[c].body = ses[c].body
    BY <1>3, <1>5 DEF Taken
  <2>2. FetchedOf(ses[c], heard[k])
    BY <1>2, <1>3, <2>1
  <2>. QED BY <1>1, <2>1, <2>2 DEF FetchedOf
<1>. QED BY <1>4, <1>5

LEMMA DiedFetched ==
  ASSUME HeardInv, Fetched, Died
  PROVE  Fetched'
<1>1. /\ client' = client /\ heard' = heard /\ back' = back
      /\ \A s \in Session : ses'[s] = Closed
  BY DEF Died, Terminate, Killed, Crash
<1>2. SUFFICES ASSUME NEW k \in Key, client.cur # None, client.req.file = k, heard[k] # Unknown
               PROVE  ses'[client.cur].file = None
  BY <1>1, FetchedFrame
<1>3. client.cur \in Session
  BY <1>2, FetchedHere
<1>. QED BY <1>1, <1>3, ClosedFacts

LEMMA RestingFetched ==
  ASSUME HeardInv, Fetched, UNCHANGED <<ses, dir, systemVars>>
  PROVE  Fetched'
<1>1. client' = client /\ heard' = heard /\ back' = back
  BY DEF systemVars
<1>2. SUFFICES ASSUME NEW k \in Key, client.cur # None, client.req.file = k, heard[k] # Unknown,
                      ses'[client.cur].file # None
               PROVE  FetchedOf(ses[client.cur], heard[k])'
  BY <1>1, FetchedFrame
<1>3. FetchedOf(ses[client.cur], heard[k])
  BY <1>2, FetchedHere
<1>. QED BY <1>1, <1>3 DEF FetchedOf

\* The client's own steps: when it asks, or is done, its session serves nothing.
LEMMA ClientFetched ==
  ASSUME HeardInv, HeardInv', Fetched, Client
  PROVE  Fetched'
<1>1. CASE \E s \in Session : Connect(s)
  <2>1. PICK s \in Session : Connect(s)
    BY <1>1
  <2>2. client'.req = LoginRequest
    BY <2>1 DEF Connect, Off
  <2>. QED BY <2>2 DEF Fetched, LoginRequest
<1>2. CASE Leave
  BY <1>2 DEF Leave, Fetched, Off, LoginRequest
<1>3. CASE AskAny
  <2>1. PICK m \in Method \ {"LOGIN"}, k \in Key, h \in Data, n \in 0..MaxLen : Ask(m, k, h, n)
    BY <1>3 DEF AskAny
  <2> DEFINE req == [method |-> m, file |-> k, hash |-> h, len |-> n]
  <2>2. /\ client.pc = "idle" /\ UNCHANGED <<vars, back>>
        /\ client' = [client EXCEPT !.pc = "wait", !.req = req, !.left = n,
                                    !.clear = ~Outstanding(client.cur, k)]
    BY <2>1 DEF Ask
  <2>3. client'.cur = client.cur /\ client'.req = req /\ req.file = k
    <3>1. client \in [pc : {"off", "idle", "wait", "send", "wait2", "fetch"},
                      cur : Session \cup {None}, req : RequestRecord, left : 0..MaxLen, clear : BOOLEAN]
      BY DEF HeardInv, Typed
    <3>2. req.file = k
      OBVIOUS
    <3>. HIDE DEF req
    <3>. QED BY <2>2, <3>1, <3>2
  <2>4. client.cur \in Session /\ back' = <<>> /\ ~Busy(ses[client.cur])
    BY <2>2 DEF HeardInv, RequestInv, Typed, Conversation
  <2>5. ses'[client.cur].file = None /\ Len(back') = 0
    BY <2>2, <2>4, RestingShape DEF HeardInv, GetInv, vars
  <2>6. k # None
    BY NoneIsNone
  <2>. QED BY <2>3, <2>5, <2>6 DEF Fetched
<1>4. CASE SendBlock \/ SendFinished
  <2>1. /\ UNCHANGED <<vars, back, heard>>
        /\ client'.cur = client.cur /\ client'.req = client.req
    BY <1>4 DEF SendBlock, SendFinished, HeardInv, Typed
  <2>2. ses' = ses /\ dir' = dir
    BY <2>1 DEF vars
  <2>. QED BY <2>1, <2>2 DEF Fetched, FetchedOf, Agreed
<1>5. CASE Hear
  <2> DEFINE a == Head(back).ans
             f == client.req.file
  <2>1. /\ back # <<>> /\ back \in Seq([ans : Answer \cup {"BODY"}, body : Data])
        /\ client' = [client EXCEPT !.pc = Then(a)] /\ back' = Tail(back) /\ client.pc # "off"
        /\ heard' = IF f = None \/ ~client.clear THEN heard ELSE [heard EXCEPT ![f] = News(a)]
        /\ UNCHANGED <<vars, line>>
    BY <1>5 DEF Hear, HeardInv, Typed
  <2>2. client'.cur = client.cur /\ client'.req = client.req /\ client'.pc = Then(a)
    BY <2>1 DEF HeardInv, Typed
  <2>3. ses' = ses /\ dir' = dir
    BY <2>1 DEF vars
  <2>4. CASE Then(a) = "idle"
    <3>1. client'.cur # None
      BY <2>1, <2>2 DEF HeardInv, RequestInv, Conversation
    <3>2. back' = <<>> /\ ~Busy(ses'[client'.cur]) /\ client'.cur \in Session
      BY <2>2, <2>4, <3>1 DEF HeardInv, RequestInv, Typed, Conversation, Busy
    <3>3. ses'[client'.cur].file = None /\ Len(back') = 0
      BY <2>2, <2>3, <3>2, RestingShape DEF HeardInv, GetInv
    <3>. QED BY <2>2, <3>3 DEF Fetched
  <2>5. CASE Then(a) # "idle"
    <3>1. a \in {"GO", "LENGTH"}
      BY <2>5 DEF Then
    <3>2. News(a) = heard[f]
      BY <3>1 DEF News
    <3>3. heard' = heard
      BY <2>1, <3>2 DEF HeardInv, Typed
    <3>4. \A i \in 1..Len(back') : i + 1 \in 1..Len(back) /\ back'[i] = back[i + 1]
      BY <2>1
    <3>5. SUFFICES ASSUME client.cur # None, f # None, heard[f] # Unknown
                   PROVE  /\ ses[client.cur].file # None => FetchedOf(ses[client.cur], heard[f])
                          /\ \A i \in 1..Len(back') : Agreed(back'[i], heard[f])
      BY <2>2, <2>3, <3>3 DEF Fetched, FetchedOf, Agreed
    <3>6. f \in Key
      BY <3>5 DEF HeardInv, Typed, RequestRecord
    <3>7. /\ ses[client.cur].file # None => FetchedOf(ses[client.cur], heard[f])
          /\ \A i \in 1..Len(back) : Agreed(back[i], heard[f])
      BY <3>5, <3>6, FetchedHere
    <3>. QED BY <3>4, <3>7
  <2>. QED BY <2>4, <2>5
<1>. QED BY <1>1, <1>2, <1>3, <1>4, <1>5 DEF Client

\* What is served of a file the client knows, and answered, agrees with what it knows.
THEOREM RestoreInvariance == SystemSpec => []Fetched
<1>1. SystemInit => Fetched
  BY DEF SystemInit, Fetched, Off, LoginRequest
<1>2. HeardInv /\ HeardInv' /\ Fetched /\ [Client \/ Server]_allVars => Fetched'
  <2>. SUFFICES ASSUME HeardInv, HeardInv', Fetched, [Client \/ Server]_allVars PROVE Fetched'
    OBVIOUS
  <2>1. ASSUME NEW s \in Session, ReadLogin(s) \/ ReadPut(s) \/ ReadDelete(s) \/ ReadGet(s)
        PROVE  Fetched'
    BY <2>1, ReadTaken, TakenFetched
  <2>2. ASSUME NEW s \in Session, ReceiveBlock(s) \/ Answering(s) \/ Sent(s) \/ Ended(s) \/ Onward(s)
        PROVE  Fetched'
    BY <2>2, InnerFetched, AnsweringFetched
  <2>3. CASE (Restart /\ UNCHANGED systemVars) \/ UNCHANGED allVars
    BY <2>3, RestingFetched DEF Restart, allVars, vars
  <2>. QED BY <2>1, <2>2, <2>3, ClientFetched, DiedFetched DEF Server
<1>. QED BY <1>1, <1>2, HeardInvariance, PTL DEF SystemSpec

\* A restored file is the one that was backed up (client.cpp:195-214), for every number of
\* connections, users, files and blocks.
THEOREM RestoredHolds == SystemSpec => []RestoredIsUploaded
<1>1. HeardInv /\ Fetched => RestoredIsUploaded
  <2>. SUFFICES ASSUME HeardInv, Fetched, client.req.method = "GET", client.pc \in {"wait", "fetch"},
                       back # <<>>, heard[client.req.file] # Unknown
                PROVE  Agreed(back[Len(back)], heard[client.req.file])
    BY DEF RestoredIsUploaded, Agreed
  <2>1. client.req.file \in Key /\ client.cur # None
    BY DEF HeardInv, RequestInv, Typed, RequestRecord, Conversation, Fetched
  <2>2. Len(back) \in 1..Len(back)
    BY DEF HeardInv, Typed
  <2>. QED BY <2>1, <2>2, FetchedHere
<1>. QED BY <1>1, HeardInvariance, RestoreInvariance, PTL

-----------------------------------------------------------------------------
(* How much is on its way *)

\* How session c gets on without reading a block or answering.
Advances(c) ==
  LET r == ses[c]
      q == ses'[c]
  IN /\ Admitting(q) => Admitting(r) /\ q.pos = r.pos /\ q.len = r.len
     /\ Locating(q) => Locating(r)
     /\ q.pc = "recv" => r.pc = "recv" /\ q.pos = r.pos /\ q.len = r.len
     /\ r.pc = "recv" /\ q.pc # "recv" => r.pos = r.len
     /\ r.pc = "closed" => q.pc = "closed"
     /\ q.pc = "ready" => q.pos = 0

LEMMA InnerAdvances ==
  ASSUME ServerInv, Unlisted, Bounded, NEW s \in Session, Onward(s) \/ SendEnd(s)
  PROVE  Advances(s)
<1> DEFINE r == ses[s]
           q == ses'[s]
<1>1. /\ ses \in [Session -> SessionRecord] /\ r \in SessionRecord /\ ShapeOf(r)
      /\ r.pc = "ready" => r.pos = 0
  BY Here DEF ServerInv, TypeOK, Bounded
<1>2. CASE Disconnect(s)
  <2>1. q.pc = r.pc /\ q.ans = r.ans /\ q.pos = r.pos /\ q.len = r.len
    BY <1>1, <1>2 DEF Disconnect, SessionRecord
  <2>. QED BY <1>1, <2>1 DEF Advances, Admitting, Locating
<1>3. CASE PutExists(s) \/ PutCompare(s) \/ PutOpen(s)
  <2>1. /\ r.pc \in {"exists", "compare", "open"} /\ q.pos = r.pos /\ q.len = r.len
        /\ \/ q.pc \in {"open", "compare", "patch"}
           \/ q.pc = "reply" /\ q.ans \in {"ALREADY_EXISTS", "GO", "PATCH_CREATE_ERROR", "CREATE_ERROR"}
    BY <1>1, <1>3 DEF PutExists, PutCompare, PutOpen, At, Goto, Reply, SessionRecord
  <2>. QED BY <2>1 DEF Advances, Admitting, Locating
<1>4. CASE HSet(s)
  <2>1. r.pc = "hset" /\ q.pc = "reply" /\ q.ans = "STORED"
    BY <1>1, <1>4 DEF HSet, At, Reply, SessionRecord
  <2>. QED BY <2>1 DEF Advances, Admitting, Locating
<1>5. CASE Verify(s)
  <2>1. CASE ses' = [ses EXCEPT ![s] = Idle(r.user, r.alive)]
    <3>1. q.pc = "ready" /\ q.pos = 0
      BY <1>1, <2>1 DEF Idle
    <3>. QED BY <1>5, <3>1 DEF Advances, Admitting, Locating, Verify, At
  <2>2. CASE ses' # [ses EXCEPT ![s] = Idle(r.user, r.alive)]
    <3>1. q.pc \in {"hset", "revert"} /\ r.pc = "recv" /\ r.pos = r.len
      BY <1>1, <1>5, <2>2 DEF Verify, At, SessionRecord
    <3>. QED BY <3>1 DEF Advances, Admitting, Locating
  <2>. QED BY <2>1, <2>2
<1>6. CASE Remove(s)
  <2>1. /\ r.pc \in {"patch", "revert", "delete"} /\ q.pc = "hdel" /\ q.pos = r.pos /\ q.len = r.len
        /\ \E d \in BOOLEAN : q.ans = AfterDelete(r.pc, d)
    BY <1>1, <1>6 DEF Remove, SessionRecord
  <2>2. q.ans = "GO" => r.pc = "patch"
    BY <2>1 DEF AfterDelete
  <2>. QED BY <2>1, <2>2 DEF Advances, Admitting, Locating
<1>7. CASE HDel(s)
  <2>1. /\ r.pc = "hdel" /\ q.ans = r.ans /\ q.pos = r.pos /\ q.len = r.len
        /\ q.pc = IF r.ans = "GO" THEN "open" ELSE "reply"
    BY <1>1, <1>7 DEF HDel, At, Goto, SessionRecord
  <2>2. r.ans # "LENGTH"
    BY <1>1, <2>1 DEF ShapeOf
  <2>. QED BY <2>1, <2>2 DEF Advances, Admitting, Locating
<1>8. CASE Lookup(s) \/ Found(s) \/ Load(s) \/ Size(s)
  <2>1. /\ r.pc \in {"lookup", "found", "load", "size"}
        /\ \/ q.pc \in {"found", "load", "size"}
           \/ q.pc = "hdel" /\ q.ans = "NOT_FOUND"
           \/ q.pc = "reply" /\ q.ans \in {"NOT_FOUND", "OPEN_ERROR", "LENGTH"}
    BY <1>1, <1>8 DEF Lookup, Found, Load, Size, At, Goto, Reply, SessionRecord
  <2>. QED BY <2>1 DEF Advances, Admitting, Locating
<1>9. CASE Send(s)
  <2>1. r.pc = "send" /\ q.pc = "send"
    BY <1>9, SendFields DEF Send, At
  <2>. QED BY <2>1 DEF Advances, Admitting, Locating
<1>10. CASE SendEnd(s)
  <2>1. r.pc = "send" /\ q.pc = "ready" /\ q.pos = 0
    BY <1>1, <1>10 DEF SendEnd, At, Idle
  <2>. QED BY <2>1 DEF Advances, Admitting, Locating
<1>. QED BY <1>2, <1>3, <1>4, <1>5, <1>6, <1>7, <1>8, <1>9, <1>10 DEF Onward

\* Lengths are numbers.
LEMMA Numbers ==
  ASSUME HeardInv, NEW c \in Session
  PROVE  /\ ses[c].pos \in Nat /\ ses[c].len \in Nat /\ client.left \in Nat
         /\ line[c].blocks \in Seq(Block) /\ Len(line[c].blocks) \in Nat
         /\ ses[c].len <= MaxLen /\ client.req.len <= MaxLen /\ client.left <= MaxLen
         /\ MaxLen \in Nat /\ Len(back) \in Nat
<1>1. MaxLen \in Nat
  BY ServerAssumption DEF ServerAssumption
<1>2. ses[c] \in SessionRecord
  BY DEF HeardInv, GetInv, ServerInv, TypeOK
<1>3. ses[c].pos \in 0..MaxLen /\ ses[c].len \in 0..MaxLen
  BY <1>2 DEF SessionRecord
<1>4. client.left \in 0..MaxLen /\ client.req.len \in 0..MaxLen
  BY DEF HeardInv, Typed, RequestRecord
<1>5. /\ line[c].blocks \in Seq(Block)
      /\ back \in Seq([ans : Answer \cup {"BODY"}, body : Data])
  BY DEF HeardInv, Typed
<1>6. Len(line[c].blocks) \in Nat /\ Len(back) \in Nat
  BY <1>5
<1>. QED BY <1>1, <1>3, <1>4, <1>5, <1>6

\* The client waits, the answers stay where they are, and its session gets on.
LEMMA AdvanceCounted ==
  ASSUME HeardInv, Counted, client' = client, back' = back,
         client.cur # None => Advances(client.cur) /\ line'[client.cur].blocks = line[client.cur].blocks
  PROVE  Counted'
<1> DEFINE c == client.cur
           r == ses[c]
           q == ses'[c]
           b == Len(line[c].blocks)
           l == client.left
<1>. SUFFICES ASSUME c # None PROVE CountedOf(ses[c], b)'
  BY DEF Counted
<1>1. CountedOf(r, b) /\ Advances(c) /\ b' = b
  BY DEF Counted
<1>2. Admitted' = Admitted /\ \A i : Final(back[i])' = Final(back[i])
  BY DEF Admitted, Final
<1>3. c \in Session
  BY DEF HeardInv, Typed
<1>4. Admitted /\ q.pc \notin {"recv", "closed"} => b = 0 /\ l = 0
  <2>1. CASE r.pc = "recv"
    <3>1. r.pos \in Nat /\ b \in Nat /\ l \in Nat
      BY <1>3, Numbers
    <3>2. /\ Admitted => r.pos + b + l = r.len
          /\ q.pc # "recv" => r.pos = r.len
      BY <1>1, <2>1 DEF CountedOf, Advances
    <3>. HIDE DEF b, l
    <3>. QED BY <3>1, <3>2
  <2>2. CASE r.pc # "recv"
    BY <1>1, <2>2 DEF CountedOf, Advances
  <2>. QED BY <2>1, <2>2
<1>5. Admitted /\ q.pc = "recv" => q.pos + b + l = q.len
  BY <1>1 DEF CountedOf, Advances
<1>6. /\ Admitting(q) => q.pos = 0 /\ q.len = l
      /\ Admitting(q) \/ Locating(q) => back = <<>> /\ client.pc = "wait"
  BY <1>1 DEF CountedOf, Advances
<1>. QED BY <1>1, <1>2, <1>4, <1>5, <1>6 DEF CountedOf

\* An answer that ends a request in hand finds nothing on its way.
LEMMA FinalCounted ==
  ASSUME HeardInv, Counted, Ordered, client' = client, line' = line,
         NEW a \in [ans : Answer \cup {"BODY"}, body : Data], Final(a), back' = Append(back, a),
         client.cur # None, ses[client.cur].pc \in {"reply", "send"},
         ses'[client.cur].pc \in {"ready", "closed"}
  PROVE  Counted' /\ Ordered'
<1> DEFINE c == client.cur
           r == ses[c]
           b == Len(line[c].blocks)
           l == client.left
<1>1. CountedOf(r, b) /\ b' = b
  BY DEF Counted
<1>2. /\ Len(back) \in Nat /\ Len(back') = Len(back) + 1
      /\ \A i \in 1..Len(back) : back'[i] = back[i]
      /\ back'[Len(back) + 1] = a /\ back' # <<>> /\ (back = <<>> <=> Len(back) = 0)
  <2>1. back \in Seq([ans : Answer \cup {"BODY"}, body : Data])
    BY DEF HeardInv, Typed
  <2>. QED BY <2>1
<1>3. Admitted' => Admitted
  <2>1. CASE back = <<>>
    BY <1>2, <2>1 DEF Admitted, Final
  <2>2. CASE back # <<>>
    BY <1>2, <2>2 DEF Admitted
  <2>. QED BY <2>1, <2>2
<1>4. Admitted' => b = 0 /\ l = 0
  BY <1>1, <1>3 DEF CountedOf
<1>5. ~Admitting(ses'[c]) /\ ~Locating(ses'[c])
  BY DEF Admitting, Locating
<1>6. Ordered'
  <2>. SUFFICES ASSUME NEW i \in 1..Len(back'), ~Final(back[i])' PROVE i = 1 /\ client.pc = "wait"
    BY DEF Ordered
  <2>1. i \in 1..Len(back) /\ back'[i] = back[i]
    BY <1>2 DEF Final
  <2>. QED BY <2>1 DEF Ordered, Final
<1>7. CountedOf(ses[c], b)'
  BY <1>1, <1>4, <1>5 DEF CountedOf
<1>. QED BY <1>6, <1>7 DEF Counted

\* A session that stays where it is.
LEMMA StandsAdvances ==
  ASSUME Bounded, NEW c \in Session, ses'[c].pc = ses[c].pc, ses'[c].ans = ses[c].ans,
         ses'[c].pos = ses[c].pos, ses'[c].len = ses[c].len
  PROVE  Advances(c)
<1>1. ses[c].pc = "ready" => ses[c].pos = 0
  BY DEF Bounded
<1>. QED BY <1>1 DEF Advances, Admitting, Locating

\* The answers that let a file through are the first ones, and count from there.
LEMMA StartCounted ==
  ASSUME HeardInv, Bounded, client.cur # None, Respond(client.cur), client' = client, line' = line,
         ses[client.cur].ans \in {"GO", "LENGTH"},
         \/ back' = back
         \/ back' = Append(back, [ans |-> ses[client.cur].ans, body |-> <<>>])
  PROVE  Counted' /\ Ordered'
<1> DEFINE c == client.cur
           r == ses[c]
           q == ses'[c]
           b == Len(line[c].blocks)
           l == client.left
           a == [ans |-> r.ans, body |-> <<>>]
<1>1. c \in Session /\ CountedOf(r, b) /\ b' = b
  BY DEF HeardInv, Typed, Bounded, Counted
<1>2. /\ r.pc = "reply" /\ q.len = r.len /\ q.pos = r.pos
      /\ q.pc = IF r.ans = "GO" THEN "recv" ELSE "send"
  <2>1. "ready" # "recv" /\ r.pc = "reply"
    BY <1>1, RespondShape DEF HeardInv, RequestInv, GetInv
  <2>2. CASE ses'[c].file = None /\ ses'[c].pc \in {"ready", "closed"}
    <3>1. AfterReply[r.ans] \in {"recv", "send"}
      BY DEF AfterReply
    <3>2. ses' = [ses EXCEPT ![c] = [r EXCEPT !.pc = AfterReply[r.ans], !.ans = None]]
      BY <3>1 DEF Respond
    <3>3. ses'[c].pc = AfterReply[r.ans]
      BY <1>1, <3>2 DEF HeardInv, GetInv, ServerInv, TypeOK, SessionRecord
    <3>. QED BY <2>2, <3>1, <3>3
  <2>3. CASE ~(ses'[c].file = None /\ ses'[c].pc \in {"ready", "closed"})
    BY <1>1, <2>1, <2>3, RespondShape DEF HeardInv, RequestInv, GetInv
  <2>. QED BY <2>2, <2>3
<1>3. /\ back = <<>> /\ client.pc = "wait" /\ b = 0 /\ l = client.req.len
      /\ r.ans = "GO" => r.pos = 0 /\ r.len = l
  BY <1>1, <1>2 DEF CountedOf, Admitting, Locating
<1>4. \/ back' = <<>>
      \/ back' = <<a>> /\ a.ans = r.ans
  BY <1>3
<1>. HIDE DEF a
<1>5. /\ \A i \in 1..Len(back') : i = 1 /\ ~Final(back[i])'
      /\ Admitted' => r.ans = "GO"
  <2>1. CASE back' = <<>>
    BY <1>3, <2>1 DEF Admitted, Final
  <2>2. CASE back' = <<a>>
    <3>1. Len(back') = 1 /\ back'[1] = a /\ \A i \in 1..1 : i = 1
      BY <2>2
    <3>2. ~Final(a) /\ a.ans = r.ans
      BY <1>4, <2>1, <2>2 DEF Final, a
    <3>. QED BY <1>3, <3>1, <3>2 DEF Admitted, Final
  <2>. QED BY <1>4, <2>1, <2>2
<1>6. Ordered'
  BY <1>3, <1>5 DEF Ordered
<1>7. ~Admitting(q) /\ ~Locating(q)
  BY <1>2 DEF Admitting, Locating
<1>8. l \in Nat
  BY <1>1, Numbers
<1>9. CountedOf(ses[c], b)'
  <2>1. Admitted' /\ q.pc = "recv" => q.pos + b + l = q.len
    BY <1>2, <1>3, <1>5, <1>8
  <2>2. Admitted' => q.pc = "recv"
    BY <1>2, <1>5
  <2>3. b = 0 /\ client'.pc = "wait" /\ l = client.req.len
    BY <1>3
  <2>. HIDE DEF b
  <2>. QED BY <1>1, <1>5, <1>7, <2>1, <2>2, <2>3 DEF CountedOf
<1>. QED BY <1>6, <1>9 DEF Counted

LEMMA AnsweringCounted ==
  ASSUME HeardInv, Bounded, NEW s \in Session, Answering(s)
  PROVE  Counted' /\ Ordered'
<1> DEFINE c == client.cur
           a == [ans |-> ses[s].ans, body |-> <<>>]
<1>1. /\ Respond(s) /\ client' = client /\ line' = line
      /\ \/ back' = back
         \/ client.cur = s /\ back' = Append(back, a)
  BY DEF Answering, Delivers, systemVars
<1>2. /\ ses[s].pc = "reply" /\ ses[s].ans \in Answer
      /\ \A t \in Session \ {s} : ses'[t] = ses[t]
      /\ ses[s].ans \notin {"GO", "LENGTH"} => ses'[s].pc \in {"ready", "closed"}
      /\ ses'[s].pc = "ready" => ses'[s].pos = 0
  BY <1>1, RespondShape DEF HeardInv, RequestInv, GetInv
<1>3. c # None => c \in Session
  BY DEF HeardInv, Typed
<1>4. Counted /\ Ordered
  BY DEF Bounded
<1>5. CASE c # s
  <2>1. back' = back
    BY <1>1, <1>5
  <2>2. c # None => Advances(c)
    BY <1>2, <1>3, <1>5, StandsAdvances
  <2>3. Counted'
    BY <1>1, <1>4, <2>1, <2>2, AdvanceCounted
  <2>. QED BY <1>1, <1>4, <2>1, <2>3 DEF Ordered, Final
<1>6. CASE c = s /\ ses[s].ans \in {"GO", "LENGTH"}
  <2>1. c # None
    BY <1>6, SystemAssumption DEF SystemAssumption
  <2>. QED BY <1>1, <1>6, <2>1, StartCounted
<1>7. CASE c = s /\ ses[s].ans \notin {"GO", "LENGTH"} /\ back' = back
  <2>1. Advances(c)
    BY <1>2, <1>7 DEF Advances, Admitting, Locating
  <2>2. Counted'
    BY <1>1, <1>4, <1>7, <2>1, AdvanceCounted
  <2>. QED BY <1>1, <1>4, <1>7, <2>2 DEF Ordered, Final
<1>8. CASE c = s /\ ses[s].ans \notin {"GO", "LENGTH"} /\ back' = Append(back, a)
  <2>1. c # None
    BY <1>8, SystemAssumption DEF SystemAssumption
  <2>2. a \in [ans : Answer \cup {"BODY"}, body : Data] /\ Final(a)
    BY <1>2, <1>8, EmptyData DEF Final
  <2>3. ses[c].pc \in {"reply", "send"} /\ ses'[c].pc \in {"ready", "closed"}
    BY <1>2, <1>8
  <2>. HIDE DEF a
  <2>. QED BY <1>1, <1>4, <1>8, <2>1, <2>2, <2>3, FinalCounted
<1>. QED BY <1>1, <1>5, <1>6, <1>7, <1>8

\* A session reads a block, or ends.
LEMMA BlockCounted ==
  ASSUME HeardInv, Bounded, NEW s \in Session, ReceiveBlock(s) \/ Ended(s)
  PROVE  Counted' /\ Ordered'
<1> DEFINE c == client.cur
           r == ses[s]
           q == ses'[s]
           b == Len(line[s].blocks)
           l == client.left
<1>1. /\ client' = client /\ back' = back
      /\ \A t \in Session \ {s} : ses'[t] = ses[t] /\ line'[t] = line[t]
  BY DEF ReceiveBlock, Ended, Receive, HangUp, HeardInv, GetInv, ServerInv, TypeOK, Typed
<1>2. /\ c # None => c \in Session
      /\ Counted /\ Ordered /\ Ordered'
  BY <1>1 DEF HeardInv, Typed, Bounded, Ordered, Final
<1>3. CASE c # s
  <2>1. c # None => Advances(c) /\ line'[c].blocks = line[c].blocks
    BY <1>1, <1>2, <1>3, StandsAdvances
  <2>. QED BY <1>1, <1>2, <2>1, AdvanceCounted
<1>4. CASE c = s
  <2>1. CountedOf(r, b) /\ c # None
    BY <1>2, <1>4, SystemAssumption DEF SystemAssumption, Counted
  <2>2. Admitted' = Admitted /\ \A i : Final(back[i])' = Final(back[i])
    BY <1>1 DEF Admitted, Final
  <2>3. /\ r.pos \in Nat /\ r.len \in Nat /\ l \in Nat /\ b \in Nat /\ MaxLen \in Nat
        /\ line[s].blocks \in Seq(Block)
    BY Numbers
  <2>. SUFFICES CountedOf(ses[c], Len(line[c].blocks))'
    BY <1>2 DEF Counted
  <2>4. CASE ReceiveBlock(s)
    <3>1. /\ r.pc = "recv" /\ q.pc = "recv" /\ q.pos = r.pos + 1 /\ q.len = r.len
          /\ line'[s].blocks = Tail(line[s].blocks) /\ line[s].blocks # <<>>
      BY <2>4 DEF ReceiveBlock, Receive, At, HeardInv, GetInv, ServerInv, TypeOK, SessionRecord, Typed
    <3>2. /\ b >= 1 /\ Len(line'[s].blocks) = b - 1
      BY <2>3, <3>1
    <3>3. ~Admitting(q) /\ ~Locating(q)
      BY <3>1 DEF Admitting, Locating
    <3>4. Admitted => r.pos + b + l = r.len
      BY <2>1, <3>1 DEF CountedOf
    <3>5. Admitted => q.pos + (b - 1) + l = q.len
      BY <2>3, <3>1, <3>4
    <3>6. /\ client.pc \notin {"idle", "wait", "fetch"}
          /\ client.pc = "send" => (b - 1) + l <= MaxLen
          /\ ~(Admitted /\ \E i \in 1..Len(back) : Final(back[i]))
      BY <2>1, <2>3, <3>2 DEF CountedOf
    <3>. HIDE DEF b, l
    <3>7. q.pos + Len(line'[s].blocks) + client'.left = q.len \/ ~Admitted
      BY <1>1, <3>2, <3>5 DEF l
    <3>8. client.pc = "send" => Len(line'[s].blocks) + client'.left <= MaxLen
      BY <1>1, <3>2, <3>6 DEF l
    <3>. QED BY <1>1, <1>4, <2>2, <3>1, <3>3, <3>6, <3>7, <3>8 DEF CountedOf
  <2>5. CASE Ended(s)
    <3>1. q.pc = "closed" /\ line'[s] = Silent
      BY <2>5, ClosedFacts DEF Ended, HangUp, HeardInv, GetInv, ServerInv, TypeOK, Typed
    <3>2. Len(line'[s].blocks) = 0
      BY <3>1 DEF Silent
    <3>3. ~Admitting(q) /\ ~Locating(q)
      BY <3>1 DEF Admitting, Locating
    <3>4. /\ client.pc = "wait" => l = client.req.len
          /\ Admitted /\ (\E i \in 1..Len(back) : Final(back[i])) => l = 0
          /\ client.pc = "send" => 0 + l <= MaxLen
      BY <2>1, <2>3, Numbers DEF CountedOf
    <3>. HIDE DEF b
    <3>. QED BY <1>1, <1>4, <2>2, <3>1, <3>2, <3>3, <3>4 DEF CountedOf
  <2>. QED BY <2>4, <2>5
<1>. QED BY <1>2, <1>3, <1>4

LEMMA OnwardCounted ==
  ASSUME HeardInv, Bounded, NEW s \in Session, Onward(s)
  PROVE  Counted' /\ Ordered'
<1>1. /\ Inner(s)
      /\ client' = client /\ back' = back /\ line' = line
  BY DEF Onward, Inner, systemVars
<1>2. \A t \in Session \ {s} : ses'[t] = ses[t]
  BY <1>1, InnerCarries DEF HeardInv, RequestInv, GetInv
<1>3. Counted /\ Ordered /\ Ordered' /\ (client.cur # None => client.cur \in Session)
  BY <1>1 DEF HeardInv, Typed, Bounded, Ordered, Final
<1>4. Advances(s)
  BY InnerAdvances DEF HeardInv, RequestInv, GetInv
<1>5. client.cur # None => Advances(client.cur)
  BY <1>2, <1>3, <1>4, StandsAdvances
<1>. QED BY <1>1, <1>3, <1>5, AdvanceCounted

LEMMA SentCounted ==
  ASSUME HeardInv, Bounded, NEW s \in Session, Sent(s)
  PROVE  Counted' /\ Ordered'
<1> DEFINE a == [ans |-> "BODY", body |-> ses[s].body]
<1>1. /\ SendEnd(s) /\ client' = client /\ line' = line
      /\ back' = IF client.cur = s /\ ses[s].alive THEN Append(back, a) ELSE back
  BY DEF Sent, Delivers, systemVars
<1>2. /\ ses[s].pc = "send" /\ ses'[s].pc = "ready" /\ ses[s].body \in Data
      /\ \A t \in Session \ {s} : ses'[t] = ses[t]
  BY <1>1 DEF SendEnd, At, Idle, HeardInv, GetInv, ServerInv, TypeOK, SessionRecord
<1>3. Counted /\ Ordered /\ (client.cur # None => client.cur \in Session)
  BY DEF HeardInv, Typed, Bounded
<1>4. CASE back' = back
  <2>1. Advances(s)
    BY <1>1, InnerAdvances DEF HeardInv, RequestInv, GetInv
  <2>2. client.cur # None => Advances(client.cur)
    BY <1>2, <1>3, <2>1, StandsAdvances
  <2>3. Counted'
    BY <1>1, <1>3, <1>4, <2>2, AdvanceCounted
  <2>. QED BY <1>1, <1>3, <1>4, <2>3 DEF Ordered, Final
<1>5. CASE back' # back
  <2>1. client.cur = s /\ client.cur # None /\ back' = Append(back, a)
    BY <1>1, <1>5, SystemAssumption DEF SystemAssumption
  <2>2. a \in [ans : Answer \cup {"BODY"}, body : Data] /\ Final(a)
    BY <1>2 DEF Final
  <2>. HIDE DEF a
  <2>. QED BY <1>1, <1>2, <1>3, <2>1, <2>2, FinalCounted
<1>. QED BY <1>4, <1>5

LEMMA TakenCounted ==
  ASSUME HeardInv, Bounded, NEW s \in Session, Taken(s)
  PROVE  Counted' /\ Ordered'
<1> DEFINE c == client.cur
           r == ses[s]
           q == ses'[s]
           b == Len(line[s].blocks)
           l == client.left
<1>1. /\ client' = client /\ back' = back /\ r.pc = "ready" /\ r.pos = 0 /\ line[s].req # None
      /\ \A t \in Session : line'[t].blocks = line[t].blocks
      /\ \A t \in Session \ {s} : /\ ses'[t].pc = ses[t].pc /\ ses'[t].ans = ses[t].ans
                                  /\ ses'[t].pos = ses[t].pos /\ ses'[t].len = ses[t].len
      /\ q.pc \in {"reply", "exists", "delete", "lookup"}
      /\ q.pc = "reply" => q.ans = "LOGGED"
      /\ q.pos = r.pos /\ (q.pc # "reply" => q.len = line[s].req.len)
  BY DEF Taken, Bounded, HeardInv, Typed
<1>2. /\ c # None => c \in Session
      /\ Counted /\ Ordered /\ Ordered'
  BY <1>1 DEF HeardInv, Typed, Bounded, Ordered, Final
<1>3. CASE c # s
  <2>1. c # None => Advances(c) /\ line'[c].blocks = line[c].blocks
    BY <1>1, <1>2, <1>3, StandsAdvances
  <2>. QED BY <1>1, <1>2, <2>1, AdvanceCounted
<1>4. CASE c = s
  <2>1. CountedOf(r, b) /\ c # None
    BY <1>2, <1>4, SystemAssumption DEF SystemAssumption, Counted
  <2>2. line[s].req = client.req /\ back = <<>> /\ client.pc = "wait"
    BY <1>1, <1>4, <2>1 DEF HeardInv, RequestInv, Conversation, At
  <2>3. ~Admitted' /\ b = 0 /\ l = client.req.len
    BY <1>1, <2>1, <2>2 DEF Admitted, CountedOf
  <2>4. Len(line'[c].blocks) = 0
    BY <1>1, <1>4, <2>3
  <2>5. Admitting(q) => q.pos = 0 /\ q.len = l
    BY <1>1, <2>2, <2>3 DEF Admitting
  <2>6. CountedOf(ses[c], Len(line[c].blocks))'
    BY <1>1, <1>4, <2>2, <2>3, <2>4, <2>5 DEF CountedOf
  <2>. QED BY <1>2, <2>6 DEF Counted
<1>. QED BY <1>2, <1>3, <1>4

LEMMA DiedCounted ==
  ASSUME HeardInv, Bounded, Died
  PROVE  Counted' /\ Ordered'
<1> DEFINE c == client.cur
           l == client.left
<1>1. /\ client' = client /\ back' = back
      /\ \A t \in Session : ses'[t] = Closed /\ line'[t] = Silent
  BY DEF Died, Terminate, Killed, Crash
<1>2. Ordered' /\ Counted
  BY <1>1 DEF Bounded, Ordered, Final
<1>3. SUFFICES ASSUME c # None PROVE CountedOf(ses[c], Len(line[c].blocks))'
  BY <1>1, <1>2 DEF Counted
<1>4. c \in Session /\ CountedOf(ses[c], Len(line[c].blocks))
  BY <1>2, <1>3 DEF HeardInv, Typed, Counted
<1>5. ses'[c].pc = "closed" /\ Len(line'[c].blocks) = 0
  BY <1>1, <1>4, ClosedFacts DEF Silent
<1>6. ~Admitting(ses'[c]) /\ ~Locating(ses'[c])
  BY <1>5 DEF Admitting, Locating
<1>7. Admitted' = Admitted /\ \A i : Final(back[i])' = Final(back[i])
  BY <1>1 DEF Admitted, Final
<1>8. /\ 0 + l <= MaxLen
      /\ client.pc = "wait" => l = client.req.len
      /\ (Admitted /\ (\E i \in 1..Len(back) : Final(back[i])) => l = 0)
  BY <1>4, Numbers DEF CountedOf
<1>. QED BY <1>1, <1>5, <1>6, <1>7, <1>8 DEF CountedOf

\* The client connects, or asks: its session is at rest and nothing is on its way.
LEMMA AskedCounted ==
  ASSUME client'.cur # None => /\ ses'[client'.cur].pc \in {"ready", "closed"}
                               /\ line'[client'.cur].blocks = <<>>
                               /\ client'.pc = "wait" /\ client'.left = client'.req.len,
         back' = <<>>
  PROVE  Counted' /\ Ordered'
<1>1. Len(back') = 0
  OBVIOUS
<1>2. Ordered'
  BY <1>1 DEF Ordered
<1>3. ASSUME client'.cur # None PROVE CountedOf(ses[client.cur], Len(line[client.cur].blocks))'
  <2>1. Len(line'[client'.cur].blocks) = 0
    BY <1>3
  <2>. QED BY <1>3, <2>1 DEF CountedOf, Admitting, Locating, Admitted
<1>. QED BY <1>2, <1>3 DEF Counted

LEMMA ClientAskedCounted ==
  ASSUME HeardInv, Bounded, (\E s \in Session : Connect(s)) \/ Leave \/ AskAny
  PROVE  Counted' /\ Ordered'
<1>1. /\ client \in [pc : {"off", "idle", "wait", "send", "wait2", "fetch"},
                     cur : Session \cup {None}, req : RequestRecord, left : 0..MaxLen, clear : BOOLEAN]
      /\ line \in [Session -> [req : RequestRecord \cup {None}, blocks : Seq(Block)]]
      /\ back \in Seq([ans : Answer \cup {"BODY"}, body : Data])
  BY DEF HeardInv, Typed
<1>2. CASE \E s \in Session : Connect(s)
  <2>1. PICK s \in Session : Connect(s)
    BY <1>2
  <2> DEFINE q == [Silent EXCEPT !.req = LoginRequest]
  <2>2. /\ ses'[s] = Idle(None, TRUE) /\ back' = back /\ client.pc = "off"
        /\ client' = [Off EXCEPT !.pc = "wait", !.cur = s]
        /\ line'[s] = q
    BY <1>1, <2>1 DEF Connect, Accept, HeardInv, GetInv, ServerInv, TypeOK
  <2>3. ses'[s].pc = "ready" /\ client'.cur = s /\ client'.pc = "wait"
        /\ client'.left = 0 /\ client'.req = LoginRequest /\ LoginRequest.len = 0
    BY <2>2 DEF Idle, Off, LoginRequest
  <2>4. q.blocks = <<>>
    BY DEF Silent
  <2>5. back = <<>>
    BY <2>2 DEF HeardInv, RequestInv, Conversation
  <2>. HIDE DEF q
  <2>. QED BY <2>2, <2>3, <2>4, <2>5, AskedCounted
<1>3. CASE Leave
  <2>1. client'.cur = None /\ back' = <<>>
    BY <1>3 DEF Leave, Off
  <2>. QED BY <2>1, AskedCounted
<1>4. CASE AskAny
  <2>1. PICK m \in Method \ {"LOGIN"}, k \in Key, h \in Data, n \in 0..MaxLen : Ask(m, k, h, n)
    BY <1>4 DEF AskAny
  <2> DEFINE req == [method |-> m, file |-> k, hash |-> h, len |-> n]
             c == client.cur
  <2>2. /\ client.pc = "idle" /\ ses' = ses /\ back' = back
        /\ client' = [client EXCEPT !.pc = "wait", !.req = req, !.left = n,
                                    !.clear = ~Outstanding(c, k)]
        /\ line' = [line EXCEPT ![c].req = req]
        /\ req.len = n
    BY <2>1 DEF Ask, vars
  <2>. HIDE DEF req
  <2>3. client'.cur = c /\ client'.pc = "wait" /\ client'.left = n /\ client'.req = req
    BY <1>1, <2>2
  <2>4. /\ c # None /\ c \in Session /\ back = <<>> /\ ~Busy(ses[c])
        /\ CountedOf(ses[c], Len(line[c].blocks))
    BY <1>1, <2>2 DEF HeardInv, RequestInv, Conversation, Bounded, Counted
  <2>5. Len(line[c].blocks) = 0 /\ line[c].blocks \in Seq(Block) /\ line'[c].blocks = line[c].blocks
    BY <1>1, <2>2, <2>4 DEF CountedOf
  <2>6. line'[c].blocks = <<>>
    BY <2>5
  <2>. QED BY <2>2, <2>3, <2>4, <2>6, AskedCounted DEF Busy
<1>. QED BY <1>2, <1>3, <1>4

LEMMA SendCounted ==
  ASSUME HeardInv, Bounded, SendBlock \/ SendFinished
  PROVE  Counted' /\ Ordered'
<1> DEFINE c == client.cur
           r == ses[c]
           b == Len(line[c].blocks)
           l == client.left
<1>1. /\ client \in [pc : {"off", "idle", "wait", "send", "wait2", "fetch"},
                     cur : Session \cup {None}, req : RequestRecord, left : 0..MaxLen, clear : BOOLEAN]
      /\ line \in [Session -> [req : RequestRecord \cup {None}, blocks : Seq(Block)]]
  BY DEF HeardInv, Typed
<1>2. /\ client.pc = "send" /\ ses' = ses /\ back' = back
      /\ client'.cur = c /\ client'.pc \in {"send", "wait2"} /\ c # None /\ c \in Session
  <2>1. client.pc = "send" /\ ses' = ses /\ back' = back
        /\ client'.cur = c /\ client'.pc \in {"send", "wait2"}
    BY <1>1 DEF SendBlock, SendFinished, vars
  <2>. QED BY <1>1, <2>1 DEF HeardInv, RequestInv, Conversation
<1>3. /\ CountedOf(r, b) /\ Ordered
      /\ l \in Nat /\ b \in Nat /\ r.pos \in Nat /\ r.len \in Nat /\ MaxLen \in Nat
  BY <1>2, Numbers DEF Bounded, Counted
<1>4. Ordered'
  BY <1>2, <1>3 DEF Ordered, Final
<1>5. ~Admitting(r) /\ ~Locating(r) /\ Admitted
  BY <1>2, <1>3 DEF CountedOf, Admitted
<1>. SUFFICES CountedOf(ses[c], Len(line[c].blocks))'
  BY <1>2, <1>4 DEF Counted
<1>6. CASE SendBlock
  <2>1. PICK x \in Block : line' = [line EXCEPT ![c].blocks = Append(@, x)]
    BY <1>6 DEF SendBlock
  <2>2. /\ line'[c].blocks = Append(line[c].blocks, x) /\ line[c].blocks \in Seq(Block)
        /\ client'.left = l - 1 /\ l > 0 /\ client'.pc = "send"
    BY <1>1, <1>2, <1>6, <2>1 DEF SendBlock
  <2>3. Len(line'[c].blocks) = b + 1
    BY <2>2
  <2>4. /\ r.pc \in {"recv", "closed"}
        /\ ~\E i \in 1..Len(back) : Final(back[i])
        /\ r.pc = "recv" => r.pos + b + l = r.len
        /\ b + l <= MaxLen
    BY <1>2, <1>3, <1>5, <2>2 DEF CountedOf
  <2>. HIDE DEF b, l
  <2>5. /\ r.pc = "recv" => r.pos + Len(line'[c].blocks) + client'.left = r.len
        /\ Len(line'[c].blocks) + client'.left <= MaxLen
    <3> DEFINE n == Len(line'[c].blocks)
               m == client'.left
               p == r.pos
    <3>1. n = b + 1 /\ m = l - 1 /\ b \in Nat /\ l \in Nat /\ p \in Nat /\ r.len \in Nat /\ MaxLen \in Nat
      BY <1>3, <2>2, <2>3
    <3>2. (r.pc = "recv" => p + b + l = r.len) /\ b + l <= MaxLen
      BY <2>4
    <3>. HIDE DEF n, m, p
    <3>3. r.pc = "recv" => p + n + m = r.len
      BY <3>1, <3>2
    <3>4. n + m <= MaxLen
      BY <3>1, <3>2
    <3>. QED BY <3>3, <3>4 DEF n, m, p
  <2>6. ses'[client'.cur] = r /\ line'[client'.cur] = line'[c] /\ r' = r
    BY <1>2
  <2>7. /\ ~Admitting(ses[c])' /\ ~Locating(ses[c])'
        /\ ~(\E i \in 1..Len(back) : Final(back[i]))'
    BY <1>2, <1>5, <2>4 DEF Admitting, Locating, Final
  <2>. HIDE DEF r
  <2>. QED BY <1>2, <2>2, <2>4, <2>5, <2>6, <2>7 DEF CountedOf
<1>7. CASE SendFinished
  <2>1. line' = line /\ client'.left = l /\ client'.pc = "wait2"
    BY <1>1, <1>7 DEF SendFinished
  <2>. QED BY <1>2, <1>3, <1>5, <2>1 DEF CountedOf, Final, Admitting, Locating
<1>. QED BY <1>6, <1>7

LEMMA HearCounted ==
  ASSUME HeardInv, Bounded, Hear
  PROVE  Counted' /\ Ordered'
<1> DEFINE c == client.cur
           r == ses[c]
           b == Len(line[c].blocks)
           l == client.left
           a == Head(back).ans
<1>1. /\ client \in [pc : {"off", "idle", "wait", "send", "wait2", "fetch"},
                     cur : Session \cup {None}, req : RequestRecord, left : 0..MaxLen, clear : BOOLEAN]
      /\ back \in Seq([ans : Answer \cup {"BODY"}, body : Data])
      /\ client.pc \in {"wait", "wait2", "fetch"} /\ back # <<>>
      /\ client' = [client EXCEPT !.pc = Then(a)] /\ back' = Tail(back)
      /\ ses' = ses /\ line' = line
  BY DEF Hear, HeardInv, Typed, vars
<1>2. /\ Len(back) \in Nat /\ Len(back) >= 1 /\ a = back[1].ans
      /\ Len(back') = Len(back) - 1 /\ \A i \in 1..Len(back') : back'[i] = back[i + 1]
  BY <1>1
<1>. HIDE DEF a
<1>3. /\ client'.pc = Then(a) /\ client'.cur = c /\ client'.left = l /\ client'.req = client.req
  BY <1>1
<1>4. Then(a) = IF a = "GO" THEN "send" ELSE IF a = "LENGTH" THEN "fetch" ELSE "idle"
  BY DEF Then
<1>5. c # None /\ c \in Session
  BY <1>1 DEF HeardInv, RequestInv, Conversation
<1>6. /\ CountedOf(r, b) /\ Ordered
      /\ l \in Nat /\ b \in Nat /\ l <= MaxLen /\ client.req.len <= MaxLen
  BY <1>5, Numbers DEF Bounded, Counted
<1>7. \A i \in 1..Len(back') : i + 1 \in 1..Len(back) /\ i + 1 # 1 /\ back'[i] = back[i + 1]
  BY <1>2
<1>8. \A i \in 1..Len(back') : Final(back[i])'
  BY <1>6, <1>7 DEF Ordered, Final
<1>9. Ordered'
  BY <1>8 DEF Ordered
<1>10. ~Admitting(r) /\ ~Locating(r)
  BY <1>1, <1>6 DEF CountedOf
<1>11. a \in {"GO", "LENGTH"} => client.pc = "wait"
  BY <1>2, <1>6 DEF Ordered, Final
<1>. SUFFICES CountedOf(ses[c], b)'
  BY <1>1, <1>3, <1>5, <1>9 DEF Counted
<1>12. r' = r /\ b' = b
  BY <1>1, <1>3
<1>13. CASE a = "GO"
  <2>1. client.pc = "wait" /\ Admitted /\ b = 0 /\ client'.pc = "send"
    BY <1>1, <1>2, <1>3, <1>4, <1>6, <1>11, <1>13 DEF Admitted, CountedOf
  <2>2. /\ r.pc = "recv" => r.pos + b + l = r.len
        /\ r.pc \notin {"recv", "closed"} => b = 0 /\ l = 0
        /\ 0 + l <= MaxLen
    BY <1>6, <2>1 DEF CountedOf
  <2>3. (\E i \in 1..Len(back') : Final(back[i])') => l = 0
    <3>1. \A i \in 1..Len(back') : Final(back[i])' => Final(back[i + 1])
      BY <1>7 DEF Final
    <3>2. (\E i \in 1..Len(back) : Final(back[i])) => l = 0
      BY <1>6, <2>1 DEF CountedOf
    <3>. QED BY <1>7, <3>1, <3>2
  <2>4. ~Admitting(ses[c])' /\ ~Locating(ses[c])'
    BY <1>10, <1>12
  <2>5. client'.left = l /\ (client'.pc = "send" => b + client'.left <= MaxLen)
    BY <1>3, <2>1, <2>2
  <2>. HIDE DEF b
  <2>. QED BY <1>12, <2>1, <2>2, <2>3, <2>4, <2>5 DEF CountedOf
<1>14. CASE a # "GO"
  <2>1. client'.pc \in {"fetch", "idle"}
    BY <1>3, <1>4, <1>14
  <2>2. b = 0
    <3>1. CASE client.pc \in {"wait", "fetch"}
      BY <1>6, <3>1 DEF CountedOf
    <3>2. CASE client.pc = "wait2"
      <4>1. a \notin {"GO", "LENGTH"}
        BY <1>11, <3>2
      <4>2. 1 \in 1..Len(back) /\ Final(back[1])
        BY <1>2, <4>1 DEF Final
      <4>. QED BY <1>6, <3>2, <4>2 DEF CountedOf, Admitted
    <3>. QED BY <1>1, <3>1, <3>2
  <2>3. ~Admitted'
    BY <2>1 DEF Admitted
  <2>4. ~Admitting(ses[c])' /\ ~Locating(ses[c])'
    BY <1>10, <1>12
  <2>. HIDE DEF b
  <2>. QED BY <1>12, <2>1, <2>2, <2>3, <2>4 DEF CountedOf
<1>. QED BY <1>13, <1>14

\* What stays the same for it all: nothing moves.
LEMMA RestingCounted ==
  ASSUME HeardInv, Bounded, UNCHANGED <<ses, client, line, back>>
  PROVE  Counted' /\ Ordered'
<1>1. Counted /\ Ordered /\ (client.cur # None => client.cur \in Session)
  BY DEF HeardInv, Typed, Bounded
<1>2. client.cur # None => Advances(client.cur)
  BY <1>1, StandsAdvances
<1>. QED BY <1>1, <1>2, AdvanceCounted DEF Ordered, Final

\* The blocks on their way are those of a file at most, and a session at rest has read none.
LEMMA BlocksBounded ==
  ASSUME HeardInv, Bounded, [Client \/ Server]_allVars, NEW s \in Session
  PROVE  /\ line'[s].blocks \in Data
         /\ ses'[s].pc = "ready" => ses'[s].pos = 0
<1>1. /\ line[s].blocks \in Data /\ (ses[s].pc = "ready" => ses[s].pos = 0)
      /\ line \in [Session -> [req : RequestRecord \cup {None}, blocks : Seq(Block)]]
      /\ ses \in [Session -> SessionRecord]
      /\ <<>> \in Data
  BY EmptyData DEF Bounded, HeardInv, Typed, GetInv, ServerInv, TypeOK
<1>2. Silent.blocks = <<>>
  BY DEF Silent
<1>3. CASE \E o \in Session : Connect(o)
  <2>1. PICK o \in Session : Connect(o)
    BY <1>3
  <2> DEFINE q == [Silent EXCEPT !.req = LoginRequest]
  <2>2. ses' = [ses EXCEPT ![o] = Idle(None, TRUE)] /\ line' = [line EXCEPT ![o] = q]
    BY <2>1 DEF Connect, Accept
  <2>3. Idle(None, TRUE).pos = 0 /\ q.blocks = <<>>
    BY DEF Idle, Silent
  <2>. HIDE DEF q
  <2>. QED BY <1>1, <2>2, <2>3
<1>4. CASE AskAny
  <2>1. ses' = ses /\ \E q : line' = [line EXCEPT ![client.cur].req = q]
    BY <1>4 DEF AskAny, Ask, vars
  <2>2. line'[s].blocks = line[s].blocks
    BY <1>1, <2>1
  <2>. QED BY <1>1, <2>1, <2>2
<1>5. CASE SendBlock
  <2>1. /\ ses' = ses /\ client.pc = "send" /\ client.left > 0
        /\ \E x \in Block : line' = [line EXCEPT ![client.cur].blocks = Append(@, x)]
    BY <1>5 DEF SendBlock, vars
  <2>2. CASE s # client.cur
    BY <1>1, <2>1, <2>2
  <2>3. CASE s = client.cur
    <3>1. PICK x \in Block : line'[s].blocks = Append(line[s].blocks, x)
      BY <1>1, <2>1, <2>3
    <3>2. CountedOf(ses[s], Len(line[s].blocks))
      BY <2>3, SystemAssumption DEF SystemAssumption, Bounded, Counted
    <3>3. Len(line[s].blocks) + client.left <= MaxLen
      BY <2>1, <3>2 DEF CountedOf
    <3>4. Len(line[s].blocks) < MaxLen
      BY <2>1, <3>3, Numbers
    <3>. QED BY <1>1, <2>1, <3>1, <3>4, AppendData
  <2>. QED BY <2>2, <2>3
<1>6. CASE Leave \/ SendFinished \/ Hear \/ (Restart /\ UNCHANGED systemVars) \/ UNCHANGED allVars
  <2>1. ses' = ses /\ line' = line
    BY <1>6 DEF Leave, SendFinished, Hear, Restart, systemVars, allVars, vars
  <2>. QED BY <1>1, <2>1
<1>7. CASE Died
  <2>1. ses'[s].pc = "closed" /\ line'[s] = Silent
    BY <1>7, ClosedFacts DEF Died, Terminate, Killed, Crash
  <2>. QED BY <1>1, <1>2, <2>1
<1>8. ASSUME NEW o \in Session, ReadLogin(o) \/ ReadPut(o) \/ ReadDelete(o) \/ ReadGet(o)
      PROVE  line'[s].blocks \in Data /\ (ses'[s].pc = "ready" => ses'[s].pos = 0)
  <2>1. Taken(o)
    BY <1>8, ReadTaken
  <2>2. line'[s].blocks = line[s].blocks
    BY <1>1, <2>1 DEF Taken
  <2>. QED BY <1>1, <2>1, <2>2 DEF Taken
<1>9. ASSUME NEW o \in Session, Answering(o)
      PROVE  line'[s].blocks \in Data /\ (ses'[s].pc = "ready" => ses'[s].pos = 0)
  <2>1. Respond(o) /\ line' = line
    BY <1>9 DEF Answering, Delivers, systemVars
  <2>2. ses'[s].pc = "ready" => ses'[s].pos = 0
    BY <1>1, <2>1, RespondShape DEF HeardInv, RequestInv, GetInv
  <2>. QED BY <1>1, <2>1, <2>2
<1>10. ASSUME NEW o \in Session, Onward(o) \/ Sent(o)
       PROVE  line'[s].blocks \in Data /\ (ses'[s].pc = "ready" => ses'[s].pos = 0)
  <2>1. Advances(o) /\ Inner(o) /\ line' = line
    <3>1. Onward(o) \/ SendEnd(o)
      BY <1>10 DEF Sent
    <3>. QED BY <1>10, <3>1, InnerAdvances DEF HeardInv, RequestInv, GetInv,
               Onward, Inner, Sent, Delivers, systemVars
  <2>2. s # o => ses'[s] = ses[s]
    BY <2>1, InnerCarries DEF HeardInv, RequestInv, GetInv
  <2>. QED BY <1>1, <2>1, <2>2 DEF Advances
<1>11. ASSUME NEW o \in Session, ReceiveBlock(o) \/ Ended(o)
       PROVE  line'[s].blocks \in Data /\ (ses'[s].pc = "ready" => ses'[s].pos = 0)
  <2>1. CASE ReceiveBlock(o)
    <3>1. /\ ses'[o].pc = "recv" /\ (s # o => ses'[s] = ses[s] /\ line'[s] = line[s])
          /\ line[o].blocks # <<>> /\ line'[o].blocks = Tail(line[o].blocks)
      BY <1>1, <2>1 DEF ReceiveBlock, Receive, At, SessionRecord
    <3>2. s = o => Tail(line[s].blocks) \in Data
      <4>1. line[s].blocks \in Seq(Block) /\ Len(line[s].blocks) \in 0..MaxLen
        BY <1>1, DataIsSeq
      <4>2. ASSUME NEW d \in Seq(Block), d # <<>>, Len(d) \in 0..MaxLen
            PROVE  Tail(d) \in Seq(Block) /\ Len(Tail(d)) \in 0..MaxLen
        <5>1. MaxLen \in Nat
          BY Numbers
        <5>2. Len(d) >= 1 /\ Len(Tail(d)) = Len(d) - 1 /\ Tail(d) \in Seq(Block)
          BY <4>2
        <5>. QED BY <4>2, <5>1, <5>2
      <4>. QED BY <3>1, <4>1, <4>2, DataIsSeq
    <3>. QED BY <1>1, <3>1, <3>2
  <2>2. CASE Ended(o)
    <3>1. ses' = [ses EXCEPT ![o] = Closed] /\ line' = [line EXCEPT ![o] = Silent]
      BY <2>2 DEF Ended, HangUp
    <3>. QED BY <1>1, <1>2, <3>1, ClosedFacts
  <2>. QED BY <1>11, <2>1, <2>2
<1>. QED BY <1>3, <1>4, <1>5, <1>6, <1>7, <1>8, <1>9, <1>10, <1>11 DEF Client, Server

\* No more of a file is on its way than is left of it, and no answer comes twice: what the
\* client has yet to send and its session yet to read is the rest of the file.
THEOREM CountInvariance == SystemSpec => []Bounded
<1>1. SystemInit => Bounded
  <2>. SUFFICES ASSUME SystemInit PROVE Bounded
    OBVIOUS
  <2>1. /\ client.cur = None /\ Len(back) = 0
        /\ \A s \in Session : line[s].blocks = <<>> /\ ses[s].pc = "closed"
    BY ClosedFacts DEF SystemInit, Init, Off, Silent
  <2>. QED BY <2>1, EmptyData DEF Bounded, Ordered, Counted
<1>2. HeardInv /\ Bounded /\ [Client \/ Server]_allVars => Bounded'
  <2>. SUFFICES ASSUME HeardInv, Bounded, [Client \/ Server]_allVars PROVE Bounded'
    OBVIOUS
  <2>1. ASSUME NEW s \in Session, ReadLogin(s) \/ ReadPut(s) \/ ReadDelete(s) \/ ReadGet(s)
        PROVE  Counted' /\ Ordered'
    BY <2>1, ReadTaken, TakenCounted
  <2>2. ASSUME NEW s \in Session, ReceiveBlock(s) \/ Answering(s) \/ Sent(s) \/ Ended(s) \/ Onward(s)
        PROVE  Counted' /\ Ordered'
    BY <2>2, BlockCounted, AnsweringCounted, SentCounted, OnwardCounted
  <2>3. ASSUME Client PROVE Counted' /\ Ordered'
    BY <2>3, ClientAskedCounted, SendCounted, HearCounted DEF Client
  <2>4. ASSUME Died PROVE Counted' /\ Ordered'
    BY <2>4, DiedCounted
  <2>5. ASSUME (Restart /\ UNCHANGED systemVars) \/ UNCHANGED allVars
        PROVE  Counted' /\ Ordered'
    BY <2>5, RestingCounted DEF Restart, systemVars, allVars, vars
  <2>6. Counted' /\ Ordered'
    BY <2>1, <2>2, <2>3, <2>4, <2>5 DEF Server
  <2>. QED BY <2>6, BlocksBounded DEF Bounded
<1>. QED BY <1>1, <1>2, HeardInvariance, PTL DEF SystemSpec

\* Types of the variables, and at most two answers on their way to the client (client.cpp:82-143).
THEOREM SystemTypeCorrect == SystemSpec => []SystemTypeOK
<1>1. HeardInv /\ Bounded => SystemTypeOK
  <2>. SUFFICES ASSUME HeardInv, Bounded PROVE SystemTypeOK
    OBVIOUS
  <2>1. Len(back) <= 2
    <3>1. Len(back) \in Nat /\ (client.cur = None => Len(back) = 0)
      BY DEF HeardInv, RequestInv, Typed, Conversation
    <3>2. CASE client.cur # None
      <4>1. \A i \in 1..Len(back) : i = Len(back) \/ i = 1
        BY <3>2 DEF HeardInv, RequestInv, Conversation, Bounded, Ordered, Final
      <4>. QED BY <3>1, <4>1
    <3>. QED BY <3>1, <3>2
  <2>. QED BY <2>1 DEF HeardInv, Typed, Bounded, SystemTypeOK
<1>. QED BY <1>1, HeardInvariance, CountInvariance, PTL

-----------------------------------------------------------------------------
(* The system is the server with a client attached *)

\* Whatever the client asks and whenever it leaves, what happens at the server is a behaviour of
\* BackupServer (client.cpp:53-237 against session.cpp:25-409): the sessions are never driven
\* where the server's own specification does not go, so what is proved of it holds here.
THEOREM SystemIsServer == SystemSpec => Spec
<1>1. SystemInit => Init
  BY DEF SystemInit
<1>2. [Client \/ Server]_allVars => [Next]_vars
  BY SystemSteps DEF allVars, vars
<1>. QED BY <1>1, <1>2, PTL DEF SystemSpec, Spec

\* What the client is served is the abstract service (session.cpp:164-409): over all its
\* connections, what is held under a key changes only while an operation on it is open.
THEOREM SystemIsService == SystemSpec => ServiceRefined
BY SystemIsServer, ServerIsService

=============================================================================
