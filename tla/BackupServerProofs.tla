------------------------- MODULE BackupServerProofs -------------------------
(***************************************************************************)
(* Confirmed holds for every number of connections, users, paths, inodes   *)
(* and blocks.  ServerInv is inductive: the steps that only move their own *)
(* handler share the lemma Move, the others are taken one by one.          *)
(***************************************************************************)
EXTENDS BackupServerInv, TLAPS

-----------------------------------------------------------------------------
(* Contents *)

\* Data is the set of the sequences of at most MaxLen blocks.
LEMMA DataIsSeq ==
  ASSUME NEW d
  PROVE  d \in Data <=> d \in Seq(Block) /\ Len(d) \in 0..MaxLen
<1>1. ASSUME d \in Data PROVE d \in Seq(Block) /\ Len(d) \in 0..MaxLen
  <2>1. PICK n \in 0..MaxLen : d \in [1..n -> Block]
    BY <1>1 DEF Data
  <2>. QED BY <2>1
<1>2. ASSUME d \in Seq(Block), Len(d) \in 0..MaxLen PROVE d \in Data
  <2>1. d \in [1..Len(d) -> Block]
    BY <1>2
  <2>. QED BY <1>2, <2>1 DEF Data
<1>. QED BY <1>1, <1>2

\* The empty file is a content.
LEMMA EmptyData == <<>> \in Data
<1>1. <<>> \in Seq(Block) /\ Len(<<>>) \in 0..MaxLen
  BY ServerAssumption DEF ServerAssumption
<1>. QED BY <1>1, DataIsSeq

\* A content grows by one block up to the bound.
LEMMA AppendData ==
  ASSUME NEW d \in Data, NEW b \in Block, Len(d) < MaxLen
  PROVE  Append(d, b) \in Data
<1>1. d \in Seq(Block) /\ Len(d) \in 0..MaxLen
  BY DataIsSeq
<1>2. Append(d, b) \in Seq(Block) /\ Len(Append(d, b)) = Len(d) + 1
  BY <1>1
<1>3. Len(Append(d, b)) \in 0..MaxLen
  BY <1>1, <1>2, ServerAssumption DEF ServerAssumption
<1>. QED BY <1>2, <1>3, DataIsSeq

\* A write within the bound leaves a content.
LEMMA WriteAtData ==
  ASSUME NEW d \in Data, NEW n \in 1..MaxLen, NEW b \in Block
  PROVE  WriteAt(d, n, b) \in Data
<1> DEFINE m == IF n > Len(d) THEN n ELSE Len(d)
<1>1. d \in Seq(Block) /\ Len(d) \in 0..MaxLen
  BY DataIsSeq
<1>2. m \in 0..MaxLen
  BY <1>1, ServerAssumption DEF ServerAssumption
<1>3. \A i \in 1..m : (IF i = n THEN b ELSE IF i <= Len(d) THEN d[i] ELSE Zero) \in Block
  BY <1>1, ServerAssumption DEF ServerAssumption
<1>4. WriteAt(d, n, b) \in [1..m -> Block]
  BY <1>3 DEF WriteAt
<1>. QED BY <1>2, <1>4 DEF Data

\* Reap keeps every content that a name or a stream refers to.
LEMMA ReapKeeps ==
  ASSUME NEW d, NEW ss, data \in [Inode -> Data]
  PROVE  /\ Reap(d, ss) \in [Inode -> Data]
         /\ \A k \in Key : d[k] \in Inode => Reap(d, ss)[d[k]] = data[d[k]]
BY EmptyData DEF Reap, Held

-----------------------------------------------------------------------------
(* Steps that only move one handler *)

\* What the record of a handler must satisfy for its move to keep ServerInv.
Sound(s, r) ==
  /\ r \in SessionRecord /\ ShapeOf(r) /\ HeardOf(r) /\ ProgressOf(r)
  /\ \/ r.fd = None
     \/ r.fd = ses[s].fd /\ r.file = ses[s].file
     \/ r.file # None /\ r.fd = dir[r.file]
  /\ \A k \in Key : r.file = k /\ ~Reading(r) => Working(s, k) /\ (r.alone => ses[s].alone)

LEMMA Move ==
  ASSUME ServerInv, NEW s \in Session, NEW r, Sound(s, r),
         ses' = [ses EXCEPT ![s] = r],
         up' \in BOOLEAN, dir' = dir, snapshot' = snapshot, told' = told,
         data' = data \/ data' = Reap(dir', ses')
  PROVE  ServerInv'
<1>. USE DEF ServerInv
<1>1. data' \in [Inode -> Data]
  BY ReapKeeps DEF TypeOK
<1>2. \A k \in Key : dir[k] # None => data'[dir[k]] = data[dir[k]]
  BY ReapKeeps DEF TypeOK
<1>3. /\ ses' \in [Session -> SessionRecord]
      /\ ses'[s] = r
      /\ \A t \in Session : t # s => ses'[t] = ses[t]
  BY DEF TypeOK, Sound
<1>4. TypeOK'
  BY <1>1, <1>3 DEF TypeOK
<1>5. Shape'
  BY <1>3 DEF Shape, Sound, ShapeOf, NoFile, Streaming
<1>6. OneName'
  BY DEF OneName
<1>7. OwnStream'
  BY <1>3, <1>4 DEF OwnStream, OneName, Sound, TypeOK, SessionRecord
<1>8. Apart'
  BY <1>3 DEF Apart, Sound, Working
<1>9. Heard'
  BY <1>3 DEF Heard, HeardOf, Sound, Reading
<1>10. Progress'
  <2>. SUFFICES ASSUME NEW t \in Session PROVE ProgressOf(ses[t])'
    BY DEF Progress
  <2>1. ProgressOf(ses'[t])
    BY <1>3 DEF Sound, Progress
  <2>2. ses'[t] \in SessionRecord
    BY <1>3
  <2>. QED BY <1>2, <2>1, <2>2 DEF ProgressOf, Written, SessionRecord
<1>11. Confirmed'
  <2>. SUFFICES ASSUME NEW k \in Key
                PROVE  /\ told[k] \in Data => Served(k)' = told[k] /\ snapshot[k] = told[k]
                       /\ told[k] = None => dir[k] = None /\ snapshot[k] = None
    BY DEF Confirmed
  <2>1. Served(k)' = Served(k)
    BY <1>2 DEF Served
  <2>. QED BY <2>1 DEF Confirmed
<1>. QED BY <1>4, <1>5, <1>6, <1>7, <1>8, <1>9, <1>10, <1>11

\* None is none of the things it stands in for.
LEMMA NoneIsNone ==
  /\ None \notin Inode /\ None \notin User /\ None \notin Key /\ None \notin Data
  /\ None \notin Answer
BY ServerAssumption DEF ServerAssumption

\* A handler that is through with its request keeps nothing of it.
LEMMA IdleSound ==
  ASSUME ServerInv, NEW s \in Session, NEW u \in User \cup {None}, NEW a \in BOOLEAN
  PROVE  Sound(s, Idle(u, a))
<1> DEFINE r == Idle(u, a)
<1>1. r \in SessionRecord
  BY EmptyData, ServerAssumption DEF Idle, SessionRecord, PC, ServerAssumption
<1>2. r.file = None /\ r.fd = None /\ r.pc = "ready" /\ r.ans = None
  BY DEF Idle
<1>. HIDE DEF r
<1>3. ShapeOf(r)
  BY <1>2 DEF ShapeOf, NoFile
<1>4. Sound(s, r)
  BY <1>1, <1>2, <1>3, NoneIsNone DEF Sound, HeardOf, ProgressOf
<1>. QED BY <1>4 DEF r

\* A session that is gone, or has not begun.
LEMMA ClosedFacts ==
  /\ Closed \in SessionRecord /\ ShapeOf(Closed)
  /\ Closed.pc = "closed" /\ Closed.file = None /\ Closed.fd = None /\ Closed.ans = None
<1> DEFINE i == Idle(None, FALSE)
           r == [i EXCEPT !.pc = "closed"]
<1>1. i \in SessionRecord /\ i.file = None /\ i.fd = None /\ i.ans = None
  BY EmptyData, ServerAssumption DEF Idle, SessionRecord, PC, ServerAssumption
<1>. HIDE DEF i
<1>2. r \in SessionRecord
  BY <1>1 DEF SessionRecord, PC
<1>3. r.file = None /\ r.fd = None /\ r.pc = "closed" /\ r.ans = None
  BY <1>1 DEF SessionRecord
<1>4. r = Closed
  BY DEF Closed, i
<1>. HIDE DEF r
<1>5. ShapeOf(r)
  BY <1>3 DEF ShapeOf, NoFile
<1>. QED BY <1>2, <1>3, <1>4, <1>5

LEMMA ClosedSound ==
  ASSUME ServerInv, NEW s \in Session
  PROVE  Sound(s, Closed)
BY ClosedFacts, NoneIsNone DEF Sound, HeardOf, ProgressOf

\* ServerInv, for one handler.
LEMMA Here ==
  ASSUME ServerInv, NEW s \in Session
  PROVE  /\ ses[s] \in SessionRecord
         /\ ShapeOf(ses[s]) /\ HeardOf(ses[s]) /\ ProgressOf(ses[s])
BY DEF ServerInv, TypeOK, Shape, Heard, Progress

-----------------------------------------------------------------------------
(* Connection and login *)

LEMMA ConnectionStep ==
  ASSUME ServerInv, NEW s \in Session, Connection(s)
  PROVE  ServerInv'
<1>. ses[s] \in SessionRecord /\ up \in BOOLEAN
  BY DEF ServerInv, TypeOK
<1>1. CASE Accept(s)
  BY <1>1, IdleSound, Move DEF Accept
<1>2. CASE Disconnect(s)
  <2> DEFINE r == [ses[s] EXCEPT !.alive = FALSE]
  <2>1. r \in SessionRecord
    BY DEF SessionRecord
  <2>3. /\ r.pc = ses[s].pc /\ r.ans = ses[s].ans /\ r.file = ses[s].file
        /\ r.fd = ses[s].fd /\ r.hash = ses[s].hash /\ r.alone = ses[s].alone
    BY DEF SessionRecord
  <2>. HIDE DEF r
  <2>4. Sound(s, r)
    BY <2>1, <2>3, Here DEF Sound, ShapeOf, HeardOf, ProgressOf, NoFile, Streaming,
                            Reading, Working, Written
  <2>. QED BY <1>2, <2>4, Move DEF Disconnect, r
<1>3. CASE HangUp(s)
  BY <1>3, ClosedSound, Move DEF HangUp
<1>4. CASE Login(s)
  <2> DEFINE r == [ses[s] EXCEPT !.pc = "reply", !.ans = "LOGGED", !.user = Account[s]]
  <2>1. r \in SessionRecord
    <3>1. "reply" \in PC /\ "LOGGED" \in Answer
      BY DEF PC, Answer, AfterReply
    <3>2. Account[s] \in User
      BY ServerAssumption DEF ServerAssumption
    <3>. QED BY <3>1, <3>2 DEF SessionRecord
  <2>2. r.pc = "reply" /\ r.ans = "LOGGED" /\ r.ans \in Answer /\ r.file = ses[s].file /\ r.fd = ses[s].fd
    BY DEF SessionRecord, Answer, AfterReply
  <2>. HIDE DEF r
  <2>3. r.file = None /\ r.fd = None
    BY <1>4, <2>2, Here DEF Login, At, ShapeOf, NoFile, Streaming
  <2>4. Sound(s, r)
    BY <2>1, <2>2, <2>3, NoneIsNone DEF Sound, ShapeOf, HeardOf, ProgressOf, NoFile
  <2>. QED BY <1>4, <2>4, Move DEF Login, r
<1>5. CASE Refuse(s)
  <2> DEFINE r == [ses[s] EXCEPT !.pc = "reply", !.ans = "REFUSED"]
  <2>1. r \in SessionRecord
    <3>1. "reply" \in PC /\ "REFUSED" \in Answer
      BY DEF PC, Answer, AfterReply
    <3>. QED BY <3>1 DEF SessionRecord
  <2>2. r.pc = "reply" /\ r.ans = "REFUSED" /\ r.ans \in Answer /\ r.file = ses[s].file /\ r.fd = ses[s].fd
    BY DEF SessionRecord, Answer, AfterReply
  <2>. HIDE DEF r
  <2>3. r.file = None /\ r.fd = None
    BY <1>5, <2>2, Here DEF Refuse, At, ShapeOf, NoFile, Streaming
  <2>4. Sound(s, r)
    BY <2>1, <2>2, <2>3, NoneIsNone DEF Sound, ShapeOf, HeardOf, ProgressOf, NoFile
  <2>5. ses' = [ses EXCEPT ![s] = r]
    BY <1>5 DEF Refuse, Reply, r
  <2>. QED BY <1>5, <2>4, <2>5, Move DEF Refuse
<1>. QED BY <1>1, <1>2, <1>3, <1>4, <1>5 DEF Connection

-----------------------------------------------------------------------------
(* Handlers with a file *)

\* Places of a handler that may still change what is held.
Changing == {"exists", "compare", "patch", "revert", "delete", "hdel", "open",
             "recv", "hset"}

\* Such a handler has a file, whose user counts on nothing.
LEMMA ChangingFacts ==
  ASSUME ServerInv, NEW s \in Session, ses[s].pc \in Changing
  PROVE  /\ ses[s].file \in Key
         /\ told[ses[s].file] = Unknown
         /\ ses[s].pc # "recv" => ses[s].fd = None
         /\ Working(s, ses[s].file)
BY Here DEF Changing, SessionRecord, ShapeOf, HeardOf, NoFile, Streaming, Reading, Working

\* A handler goes to l with the answer a, and keeps the rest.
Stepped(s, l, a) == [ses[s] EXCEPT !.pc = l, !.ans = a]

LEMMA StepSound ==
  ASSUME ServerInv, NEW s \in Session, NEW l \in PC, NEW a \in Answer \cup {None},
         ses[s].file # None, ses[s].fd = None,
         ~NoFile(Stepped(s, l, a)), l = "reply" => a # None,
         l = "hdel" => a = "NOT_FOUND",
         Reading(ses[s]) => Reading(Stepped(s, l, a)),
         HeardOf(Stepped(s, l, a)), ProgressOf(Stepped(s, l, a))
  PROVE  Sound(s, Stepped(s, l, a))
<1> DEFINE r == Stepped(s, l, a)
<1>1. ses[s] \in SessionRecord
  BY Here
<1>2. r \in SessionRecord
  BY <1>1 DEF SessionRecord, Stepped
<1>3. r.pc = l /\ r.ans = a /\ r.file = ses[s].file /\ r.fd = None /\ r.alone = ses[s].alone
  BY <1>1 DEF SessionRecord, Stepped
<1>4. HeardOf(r) /\ ProgressOf(r) /\ ~NoFile(r) /\ (Reading(ses[s]) => Reading(r))
  OBVIOUS
<1>. HIDE DEF r
<1>5. ShapeOf(r)
  BY <1>3, <1>4 DEF ShapeOf, NoFile
<1>6. Sound(s, r)
  BY <1>2, <1>3, <1>4, <1>5 DEF Sound, Working
<1>. QED BY <1>6 DEF r

-----------------------------------------------------------------------------
(* PUT *)

LEMMA PutExistsStep ==
  ASSUME ServerInv, NEW s \in Session, PutExists(s)
  PROVE  ServerInv'
<1> DEFINE l == IF dir[ses[s].file] = None THEN "open" ELSE "compare"
           r == Stepped(s, l, ses[s].ans)
<1>1. /\ ses[s] \in SessionRecord /\ up \in BOOLEAN
      /\ ses[s].file \in Key /\ told[ses[s].file] = Unknown /\ ses[s].fd = None
  BY ChangingFacts DEF PutExists, At, Changing, ServerInv, TypeOK
<1>2. r.pc = l /\ r.ans = ses[s].ans /\ r.file = ses[s].file
  BY <1>1 DEF SessionRecord, Stepped
<1>3. ~NoFile(r) /\ HeardOf(r) /\ ProgressOf(r)
  BY <1>1, <1>2 DEF NoFile, HeardOf, ProgressOf, Written
<1>4. ~Reading(ses[s])
  BY DEF PutExists, At, Reading
<1>5. Sound(s, r)
  BY <1>1, <1>3, <1>4, StepSound, NoneIsNone DEF SessionRecord, PC
<1>6. ses' = [ses EXCEPT ![s] = r]
  BY <1>1 DEF PutExists, Goto, Stepped, SessionRecord
<1>. QED BY <1>1, <1>5, <1>6, Move DEF PutExists

LEMMA PutCompareStep ==
  ASSUME ServerInv, NEW s \in Session, PutCompare(s)
  PROVE  ServerInv'
<1>1. /\ ses[s] \in SessionRecord /\ up \in BOOLEAN
      /\ ses[s].file \in Key /\ told[ses[s].file] = Unknown /\ ses[s].fd = None
      /\ ~Reading(ses[s])
  BY ChangingFacts DEF PutCompare, At, Changing, ServerInv, TypeOK, Reading
<1>2. ASSUME NEW l \in {"reply", "patch"}, NEW a \in Answer \cup {None},
             l = "reply" => a = "ALREADY_EXISTS", ses' = [ses EXCEPT ![s] = Stepped(s, l, a)]
      PROVE  ServerInv'
  <2> DEFINE r == Stepped(s, l, a)
  <2>1. r.pc = l /\ r.ans = a /\ r.file = ses[s].file
    BY <1>1 DEF SessionRecord, Stepped
  <2>2. ~NoFile(r) /\ HeardOf(r) /\ ProgressOf(r)
    BY <1>1, <1>2, <2>1 DEF NoFile, HeardOf, ProgressOf, Written
  <2>3. l = "reply" => a # None
    BY <1>2, NoneIsNone DEF Answer, AfterReply
  <2>4. Sound(s, r)
    BY <1>1, <2>2, <2>3, StepSound, NoneIsNone DEF PC
  <2>. QED BY <1>1, <1>2, <2>4, Move DEF PutCompare
<1>3. \/ ses' = [ses EXCEPT ![s] = Stepped(s, "reply", "ALREADY_EXISTS")]
      \/ ses' = [ses EXCEPT ![s] = Stepped(s, "patch", ses[s].ans)]
  BY <1>1 DEF PutCompare, Goto, Reply, Stepped, SessionRecord
<1>. QED BY <1>1, <1>2, <1>3 DEF SessionRecord, Answer, AfterReply

\* A handler that changes what is held under its own file and nowhere else.
LEMMA Change ==
  ASSUME ServerInv, NEW s \in Session, NEW k \in Key, Working(s, k), told[k] = Unknown,
         NEW r \in SessionRecord, ShapeOf(r), r.file = k, r.alone = ses[s].alone,
         ses' = [ses EXCEPT ![s] = r], ProgressOf(r)',
         up' = up, told' = told,
         dir' \in [Key -> Inode \cup {None}], data' \in [Inode -> Data],
         snapshot' \in [Key -> Data \cup {None}],
         \A l \in Key \ {k} :
           /\ dir'[l] = dir[l] /\ snapshot'[l] = snapshot[l]
           /\ dir[l] # None => data'[dir[l]] = data[dir[l]]
           /\ dir[l] # None => dir[l] # dir'[k] /\ dir[l] # r.fd,
         dir'[k] # None => \A t \in Session \ {s} : ses[t].fd = dir'[k] => ses[t].file = k
  PROVE  ServerInv'
<1>. USE DEF ServerInv
<1>1. /\ ses' \in [Session -> SessionRecord]
      /\ ses'[s] = r
      /\ \A t \in Session : t # s => ses'[t] = ses[t]
  BY DEF TypeOK
<1>2. TypeOK'
  BY <1>1 DEF TypeOK
<1>3. Shape'
  BY <1>1 DEF Shape, ShapeOf, NoFile, Streaming
<1>4. OneName'
  BY DEF OneName
<1>5. OwnStream'
  BY <1>1 DEF OwnStream
<1>6. Apart'
  BY <1>1 DEF Apart, Working
<1>7. Heard'
  BY <1>1 DEF Heard, HeardOf, Reading
<1>8. Progress'
  <2>. SUFFICES ASSUME NEW t \in Session PROVE ProgressOf(ses[t])'
    BY DEF Progress
  <2>1. CASE t = s
    BY <1>1, <2>1 DEF ProgressOf, Written
  <2>2. CASE t # s /\ ses[t].file # k
    <3>1. ProgressOf(ses[t]) /\ ses[t] \in SessionRecord
      BY Here
    <3>. QED BY <1>1, <2>2, <3>1 DEF ProgressOf, Written, SessionRecord
  <2>3. CASE t # s /\ ses[t].file = k
    <3>1. ses[t].alone => Reading(ses[t])
      BY <2>3 DEF Apart, Working
    <3>. QED BY <1>1, <2>3, <3>1 DEF ProgressOf, Written, Reading
  <2>. QED BY <2>1, <2>2, <2>3
<1>9. Confirmed'
  <2>. SUFFICES ASSUME NEW l \in Key
                PROVE  /\ told[l] \in Data => Served(l)' = told[l] /\ snapshot'[l] = told[l]
                       /\ told[l] = None => dir'[l] = None /\ snapshot'[l] = None
    BY DEF Confirmed
  <2>1. CASE l = k
    BY <2>1, ServerAssumption DEF ServerAssumption
  <2>2. CASE l # k
    <3>1. Served(l)' = Served(l)
      BY <2>2 DEF Served
    <3>. QED BY <2>2, <3>1 DEF Confirmed
  <2>. QED BY <2>1, <2>2
<1>. QED BY <1>2, <1>3, <1>4, <1>5, <1>6, <1>7, <1>8, <1>9

LEMMA PutOpenStep ==
  ASSUME ServerInv, NEW s \in Session, PutOpen(s)
  PROVE  ServerInv'
<1> DEFINE k == ses[s].file
<1>1. /\ ses[s] \in SessionRecord /\ up \in BOOLEAN
      /\ k \in Key /\ told[k] = Unknown /\ ses[s].fd = None
      /\ ~Reading(ses[s]) /\ Working(s, k)
  BY ChangingFacts DEF PutOpen, At, Changing, ServerInv, TypeOK, Reading
<1>2. CASE \E i \in Inode :
             /\ IF dir[k] = None THEN i \notin Held(dir, ses) ELSE i = dir[k]
             /\ dir' = [dir EXCEPT ![k] = i]
             /\ data' = [data EXCEPT ![i] = <<>>]
             /\ ses' = [ses EXCEPT ![s].pc = "reply", ![s].ans = "GO", ![s].fd = i]
  <2>1. PICK i \in Inode :
          /\ IF dir[k] = None THEN i \notin Held(dir, ses) ELSE i = dir[k]
          /\ dir' = [dir EXCEPT ![k] = i]
          /\ data' = [data EXCEPT ![i] = <<>>]
          /\ ses' = [ses EXCEPT ![s].pc = "reply", ![s].ans = "GO", ![s].fd = i]
    BY <1>2
  <2>2. PICK r \in SessionRecord :
          r = [ses[s] EXCEPT !.pc = "reply", !.ans = "GO", !.fd = i]
    <3>1. "reply" \in PC /\ "GO" \in Answer
      BY DEF PC, Answer, AfterReply
    <3>. QED BY <1>1, <3>1 DEF SessionRecord
  <2>3. /\ r.pc = "reply" /\ r.ans = "GO" /\ r.fd = i
        /\ r.file = k /\ r.alone = ses[s].alone
    BY <1>1, <2>2 DEF SessionRecord
  <2>4. ses' = [ses EXCEPT ![s] = r]
    BY <1>1, <2>1, <2>2 DEF ServerInv, TypeOK, SessionRecord
  <2>5. /\ dir \in [Key -> Inode \cup {None}] /\ data \in [Inode -> Data]
        /\ dir' \in [Key -> Inode \cup {None}] /\ data' \in [Inode -> Data]
        /\ dir'[k] = i
    BY <1>1, <2>1, EmptyData DEF ServerInv, TypeOK
  <2>6. \A l \in Key \ {k} : dir[l] # i
    BY <1>1, <2>1, NoneIsNone DEF Held, ServerInv, OneName
  <2>7. \A l \in Key \ {k} :
          /\ dir'[l] = dir[l]
          /\ dir[l] # None => data'[dir[l]] = data[dir[l]]
    BY <1>1, <2>1, <2>5, <2>6
  <2>8. \A t \in Session \ {s} : ses[t].fd = i => ses[t].file = k
    BY <1>1, <2>1, NoneIsNone DEF Held, ServerInv, OwnStream
  <2>9. snapshot' = snapshot /\ snapshot' \in [Key -> Data \cup {None}] /\ told' = told /\ up' = up
    BY DEF PutOpen, ServerInv, TypeOK
  <2>10. ShapeOf(r)
    BY <1>1, <2>3, NoneIsNone DEF ShapeOf, NoFile, Streaming, Answer, AfterReply
  <2>11. ProgressOf(r)'
    BY <2>3, <2>5, NoneIsNone DEF ProgressOf, Written
  <2>12. \A l \in Key \ {k} :
           /\ dir'[l] = dir[l] /\ snapshot'[l] = snapshot[l]
           /\ dir[l] # None => data'[dir[l]] = data[dir[l]]
           /\ dir[l] # None => dir[l] # dir'[k] /\ dir[l] # r.fd
    BY <2>3, <2>5, <2>6, <2>7, <2>9
  <2>13. dir'[k] # None => \A t \in Session \ {s} : ses[t].fd = dir'[k] => ses[t].file = k
    BY <2>5, <2>8
  <2>. HIDE DEF k
  <2>. QED BY <1>1, <2>3, <2>4, <2>5, <2>9, <2>10, <2>11, <2>12, <2>13, Change
<1>3. CASE /\ Reply(s, IF ses[s].ans = "GO" THEN "PATCH_CREATE_ERROR" ELSE "CREATE_ERROR")
           /\ UNCHANGED <<dir, data>>
  <2> DEFINE a == IF ses[s].ans = "GO" THEN "PATCH_CREATE_ERROR" ELSE "CREATE_ERROR"
             r == Stepped(s, "reply", a)
  <2>1. r.pc = "reply" /\ r.ans = a /\ r.file = k /\ a \in Answer
    BY <1>1 DEF SessionRecord, Stepped, Answer, AfterReply
  <2>2. ~NoFile(r) /\ HeardOf(r) /\ ProgressOf(r)
    BY <1>1, <2>1 DEF NoFile, HeardOf, ProgressOf, Written
  <2>3. Sound(s, r)
    BY <1>1, <2>1, <2>2, StepSound, NoneIsNone DEF PC
  <2>4. ses' = [ses EXCEPT ![s] = r]
    BY <1>1, <1>3 DEF Reply, Stepped, SessionRecord
  <2>. QED BY <1>1, <1>3, <2>3, <2>4, Move DEF PutOpen
<1>. QED BY <1>2, <1>3 DEF PutOpen

LEMMA ReceiveStep ==
  ASSUME ServerInv, NEW s \in Session, Receive(s)
  PROVE  ServerInv'
<1> DEFINE k == ses[s].file
<1>1. /\ ses[s] \in SessionRecord
      /\ k \in Key /\ told[k] = Unknown /\ Working(s, k)
      /\ ses[s].pc = "recv" /\ ses[s].pos < ses[s].len
  BY ChangingFacts, Here DEF Receive, At, Changing
<1>2. ses[s].pos + 1 \in 1..MaxLen /\ ses[s].pos + 1 \in 0..MaxLen
  BY <1>1, ServerAssumption DEF SessionRecord, ServerAssumption
<1>3. CASE \E b \in Block :
             /\ data' = [data EXCEPT ![ses[s].fd] = WriteAt(@, ses[s].pos + 1, b)]
             /\ ses' = [ses EXCEPT ![s].pos = @ + 1]
  <2>1. PICK b \in Block :
          data' = [data EXCEPT ![ses[s].fd] = WriteAt(@, ses[s].pos + 1, b)]
    BY <1>3
  <2>2. PICK r \in SessionRecord : r = [ses[s] EXCEPT !.pos = @ + 1]
    BY <1>1, <1>2 DEF SessionRecord
  <2>3. /\ r.pc = "recv" /\ r.fd = ses[s].fd /\ r.file = k /\ r.alone = ses[s].alone
        /\ r.ans = ses[s].ans
        /\ ses' = [ses EXCEPT ![s] = r]
    BY <1>1, <1>3, <2>2 DEF SessionRecord, ServerInv, TypeOK
  <2>4. /\ data' \in [Inode -> Data] /\ up' = up /\ told' = told /\ dir' = dir /\ snapshot' = snapshot
        /\ dir' \in [Key -> Inode \cup {None}] /\ snapshot' \in [Key -> Data \cup {None}]
    BY <1>2, <2>1, WriteAtData DEF Receive, ServerInv, TypeOK
  <2>5. \A l \in Key \ {k} :
          /\ dir'[l] = dir[l] /\ snapshot'[l] = snapshot[l]
          /\ dir[l] # None => data'[dir[l]] = data[dir[l]]
          /\ dir[l] # None => dir[l] # dir'[k] /\ dir[l] # r.fd
    BY <1>1, <2>1, <2>3, <2>4 DEF ServerInv, OneName, OwnStream, TypeOK
  <2>6. dir'[k] # None => \A t \in Session \ {s} : ses[t].fd = dir'[k] => ses[t].file = k
    BY <1>1, <2>4 DEF ServerInv, OwnStream
  <2>7. ShapeOf(r) /\ ProgressOf(r)'
    BY <1>1, <2>3, <2>4, Here DEF ShapeOf, NoFile, Streaming, ProgressOf, Written
  <2>. HIDE DEF k
  <2>. QED BY <1>1, <2>3, <2>4, <2>5, <2>6, <2>7, Change
<1>4. CASE /\ ses' = [ses EXCEPT ![s].pos = @ + 1, ![s].fd = None]
           /\ data' = Reap(dir, ses')
  <2>1. PICK r \in SessionRecord : r = [ses[s] EXCEPT !.pos = @ + 1, !.fd = None]
    BY <1>1, <1>2 DEF SessionRecord
  <2>2. /\ r.pc = "recv" /\ r.fd = None /\ r.file = k /\ r.alone = ses[s].alone
        /\ r.ans = ses[s].ans
        /\ ses' = [ses EXCEPT ![s] = r]
    BY <1>1, <1>4, <2>1 DEF SessionRecord, ServerInv, TypeOK
  <2>3. ShapeOf(r) /\ HeardOf(r) /\ ProgressOf(r)
    BY <1>1, <2>2, Here DEF ShapeOf, NoFile, HeardOf, ProgressOf, Written
  <2>4. Sound(s, r)
    BY <1>1, <2>2, <2>3 DEF Sound, Working
  <2>5. data' = Reap(dir', ses')
    BY <1>4 DEF Receive
  <2>. QED BY <1>1, <2>2, <2>4, <2>5, Move DEF Receive, ServerInv, TypeOK
<1>. QED BY <1>3, <1>4 DEF Receive

LEMMA VerifyStep ==
  ASSUME ServerInv, NEW s \in Session, Verify(s)
  PROVE  ServerInv'
<1> DEFINE k == ses[s].file
<1>1. /\ ses[s] \in SessionRecord /\ up \in BOOLEAN
      /\ k \in Key /\ told[k] = Unknown /\ Working(s, k) /\ ses[s].pc = "recv"
  BY ChangingFacts, Here DEF Verify, At, Changing, ServerInv, TypeOK
<1>2. CASE ses' = [ses EXCEPT ![s] = Idle(ses[s].user, ses[s].alive)]
  BY <1>1, <1>2, IdleSound, Move DEF Verify, SessionRecord
<1>3. CASE ses' = [ses EXCEPT ![s].fd = None, ![s].pc =
                     IF Sha(k) = ses[s].hash THEN "hset" ELSE "revert"]
  <2>1. PICK r \in SessionRecord :
          r = [ses[s] EXCEPT !.fd = None, !.pc =
                 IF Sha(k) = ses[s].hash THEN "hset" ELSE "revert"]
    BY <1>1 DEF SessionRecord, PC
  <2>2. /\ r.pc = (IF Sha(k) = ses[s].hash THEN "hset" ELSE "revert") /\ r.hash = ses[s].hash
        /\ r.file = k /\ r.fd = None /\ r.alone = ses[s].alone
        /\ ses' = [ses EXCEPT ![s] = r]
    BY <1>1, <1>3, <2>1 DEF SessionRecord, ServerInv, TypeOK
  <2>3. r.alone => dir[k] # None
    BY <1>1, <2>2, Here, NoneIsNone DEF ProgressOf
  <2>4. ShapeOf(r) /\ HeardOf(r) /\ ProgressOf(r)
    BY <1>1, <2>2, <2>3, NoneIsNone DEF ShapeOf, NoFile, HeardOf, ProgressOf, Written, Sha
  <2>5. Sound(s, r)
    BY <1>1, <2>2, <2>4 DEF Sound, Working
  <2>6. data' = Reap(dir', ses')
    BY DEF Verify
  <2>. QED BY <1>1, <2>2, <2>5, <2>6, Move DEF Verify
<1>. QED BY <1>2, <1>3 DEF Verify

LEMMA HSetStep ==
  ASSUME ServerInv, NEW s \in Session, HSet(s)
  PROVE  ServerInv'
<1> DEFINE k == ses[s].file
<1>1. /\ ses[s] \in SessionRecord
      /\ k \in Key /\ told[k] = Unknown /\ Working(s, k)
      /\ ses[s].pc = "hset" /\ ses[s].fd = None
  BY ChangingFacts, Here DEF HSet, At, Changing
<1>2. PICK r \in SessionRecord : r = [ses[s] EXCEPT !.pc = "reply", !.ans = "STORED"]
  <2>1. "reply" \in PC /\ "STORED" \in Answer
    BY DEF PC, Answer, AfterReply
  <2>. QED BY <1>1, <2>1 DEF SessionRecord
<1>3. /\ r.pc = "reply" /\ r.ans = "STORED" /\ r.fd = None /\ r.file = k
      /\ r.alone = ses[s].alone /\ r.hash = ses[s].hash
      /\ ses' = [ses EXCEPT ![s] = r]
  BY <1>1, <1>2 DEF SessionRecord, HSet, Reply, ServerInv, TypeOK
<1>4. /\ data' = data /\ up' = up /\ told' = told /\ dir' = dir
      /\ snapshot' = [snapshot EXCEPT ![k] = ses[s].hash]
      /\ data' \in [Inode -> Data]
      /\ dir' \in [Key -> Inode \cup {None}] /\ snapshot' \in [Key -> Data \cup {None}]
  BY <1>1 DEF HSet, ServerInv, TypeOK, SessionRecord
<1>5. \A l \in Key \ {k} :
        /\ dir'[l] = dir[l] /\ snapshot'[l] = snapshot[l]
        /\ dir[l] # None => data'[dir[l]] = data[dir[l]]
        /\ dir[l] # None => dir[l] # dir'[k] /\ dir[l] # r.fd
  BY <1>1, <1>3, <1>4 DEF ServerInv, OneName, TypeOK
<1>6. dir'[k] # None => \A t \in Session \ {s} : ses[t].fd = dir'[k] => ses[t].file = k
  BY <1>1, <1>4 DEF ServerInv, OwnStream
<1>7. r.alone => dir[k] # None /\ data[dir[k]] = ses[s].hash
  BY <1>1, <1>3, Here, NoneIsNone DEF ProgressOf, Written
<1>8. snapshot'[k] = ses[s].hash
  BY <1>1, <1>4 DEF ServerInv, TypeOK
<1>9. ShapeOf(r)
  BY <1>1, <1>3, NoneIsNone DEF ShapeOf, NoFile, Answer, AfterReply
<1>10. ProgressOf(r)'
  BY <1>3, <1>4, <1>7, <1>8 DEF ProgressOf, Written
<1>11. /\ k \in Key /\ told[k] = Unknown /\ Working(s, k)
       /\ r.file = k /\ r.alone = ses[s].alone /\ ses' = [ses EXCEPT ![s] = r]
       /\ up' = up /\ told' = told /\ data' \in [Inode -> Data]
       /\ dir' \in [Key -> Inode \cup {None}] /\ snapshot' \in [Key -> Data \cup {None}]
  BY <1>1, <1>3, <1>4
<1>. HIDE DEF k
<1>. QED BY <1>5, <1>6, <1>9, <1>10, <1>11, Change

-----------------------------------------------------------------------------
(* delete_file *)

LEMMA RemoveStep ==
  ASSUME ServerInv, NEW s \in Session, Remove(s)
  PROVE  ServerInv'
<1> DEFINE k == ses[s].file
           a == AfterDelete(ses[s].pc, dir[k] # None)
<1>1. /\ ses[s] \in SessionRecord
      /\ k \in Key /\ told[k] = Unknown /\ Working(s, k) /\ ses[s].fd = None
  BY ChangingFacts, Here DEF Remove, Changing
<1>2. a \in Answer /\ a \in {"GO", "DELETED", "DELETE_ERROR", "HASH_MISMATCH", "NOT_FOUND"}
  BY DEF AfterDelete, Answer, AfterReply
<1>. HIDE DEF a
<1>3. PICK r \in SessionRecord : r = [ses[s] EXCEPT !.pc = "hdel", !.ans = a]
  <2>1. "hdel" \in PC
    BY DEF PC
  <2>. QED BY <1>1, <1>2, <2>1 DEF SessionRecord
<1>4. /\ r.pc = "hdel" /\ r.ans = a /\ r.fd = None /\ r.file = k /\ r.alone = ses[s].alone
      /\ ses' = [ses EXCEPT ![s] = r]
  BY <1>1, <1>3 DEF SessionRecord, Remove, ServerInv, TypeOK, a
<1>5. /\ up' = up /\ told' = told /\ snapshot' = snapshot
      /\ dir' = [dir EXCEPT ![k] = None] /\ data' = Reap(dir', ses')
      /\ data \in [Inode -> Data] /\ dir \in [Key -> Inode \cup {None}]
      /\ dir' \in [Key -> Inode \cup {None}] /\ snapshot' \in [Key -> Data \cup {None}]
  BY DEF Remove, ServerInv, TypeOK
<1>6. data' \in [Inode -> Data] /\ \A l \in Key : dir'[l] \in Inode => data'[dir'[l]] = data[dir'[l]]
  BY <1>5, ReapKeeps
<1>7. dir'[k] = None /\ \A l \in Key \ {k} : dir'[l] = dir[l]
  BY <1>1, <1>5
<1>8. \A l \in Key \ {k} :
        /\ dir'[l] = dir[l] /\ snapshot'[l] = snapshot[l]
        /\ dir[l] # None => data'[dir[l]] = data[dir[l]]
        /\ dir[l] # None => dir[l] # dir'[k] /\ dir[l] # r.fd
  BY <1>4, <1>5, <1>6, <1>7
<1>9. ShapeOf(r) /\ ProgressOf(r)'
  BY <1>1, <1>2, <1>4, <1>7, NoneIsNone DEF ShapeOf, NoFile, ProgressOf, Written
<1>. HIDE DEF k
<1>. QED BY <1>1, <1>4, <1>5, <1>6, <1>7, <1>8, <1>9, Change

LEMMA HDelStep ==
  ASSUME ServerInv, NEW s \in Session, HDel(s)
  PROVE  ServerInv'
<1> DEFINE k == ses[s].file
           l == IF ses[s].ans = "GO" THEN "open" ELSE "reply"
<1>1. /\ ses[s] \in SessionRecord
      /\ k \in Key /\ told[k] = Unknown /\ Working(s, k)
      /\ ses[s].pc = "hdel" /\ ses[s].fd = None
  BY ChangingFacts, Here DEF HDel, At, Changing
<1>. l \in PC
  BY DEF PC
<1>2. PICK r \in SessionRecord : r = [ses[s] EXCEPT !.pc = l]
  <2>. HIDE DEF l
  <2>. QED BY <1>1 DEF SessionRecord
<1>3. /\ r.pc = l /\ r.ans = ses[s].ans /\ r.fd = None /\ r.file = k
      /\ r.alone = ses[s].alone /\ ses' = [ses EXCEPT ![s] = r]
  BY <1>1, <1>2 DEF SessionRecord, HDel, Goto, ServerInv, TypeOK
<1>4. /\ data' = data /\ up' = up /\ told' = told /\ dir' = dir
      /\ snapshot' = [snapshot EXCEPT ![k] = None]
      /\ data' \in [Inode -> Data]
      /\ dir' \in [Key -> Inode \cup {None}] /\ snapshot' \in [Key -> Data \cup {None}]
  BY <1>1 DEF HDel, ServerInv, TypeOK
<1>5. \A m \in Key \ {k} :
        /\ dir'[m] = dir[m] /\ snapshot'[m] = snapshot[m]
        /\ dir[m] # None => data'[dir[m]] = data[dir[m]]
        /\ dir[m] # None => dir[m] # dir'[k] /\ dir[m] # r.fd
  BY <1>1, <1>3, <1>4 DEF ServerInv, OneName, TypeOK
<1>6. dir'[k] # None => \A t \in Session \ {s} : ses[t].fd = dir'[k] => ses[t].file = k
  BY <1>1, <1>4 DEF ServerInv, OwnStream
<1>7. snapshot'[k] = None /\ dir'[k] = dir[k]
  BY <1>1, <1>4 DEF ServerInv, TypeOK
<1>8. ses[s].ans \in {"GO", "DELETED", "DELETE_ERROR", "HASH_MISMATCH", "NOT_FOUND"}
  BY <1>1, Here DEF ShapeOf
<1>9. ShapeOf(r)
  BY <1>1, <1>3, <1>8, NoneIsNone DEF ShapeOf, NoFile, Answer, AfterReply
<1>10. ProgressOf(r)'
  BY <1>1, <1>3, <1>4, <1>7, <1>8, Here DEF ProgressOf, Written
<1>11. /\ k \in Key /\ told[k] = Unknown /\ Working(s, k)
       /\ r.file = k /\ r.alone = ses[s].alone /\ ses' = [ses EXCEPT ![s] = r]
       /\ up' = up /\ told' = told /\ data' \in [Inode -> Data]
       /\ dir' \in [Key -> Inode \cup {None}] /\ snapshot' \in [Key -> Data \cup {None}]
  BY <1>1, <1>3, <1>4
<1>. HIDE DEF k
<1>. QED BY <1>5, <1>6, <1>9, <1>10, <1>11, Change

-----------------------------------------------------------------------------
(* GET and SNAPSHOT *)

LEMMA LookupStep ==
  ASSUME ServerInv, NEW s \in Session, Lookup(s)
  PROVE  ServerInv'
<1>1. /\ ses[s] \in SessionRecord /\ up \in BOOLEAN
      /\ ses[s].file \in Key /\ ses[s].file # None /\ ses[s].fd = None /\ ses[s].pc = "lookup"
      /\ ~Reading(ses[s])
  BY Here DEF Lookup, At, ServerInv, TypeOK, ShapeOf, NoFile, Streaming, SessionRecord, Reading
<1>2. CASE snapshot[ses[s].file] # None
  <2> DEFINE r == Stepped(s, "found", ses[s].ans)
  <2>1. r.pc = "found" /\ r.file = ses[s].file
    BY <1>1 DEF SessionRecord, Stepped
  <2>2. told[ses[s].file] # None
    BY <1>1, <1>2 DEF ServerInv, Confirmed
  <2>3. ~NoFile(r) /\ HeardOf(r) /\ ProgressOf(r)
    BY <2>1, <2>2 DEF NoFile, HeardOf, ProgressOf, Written
  <2>4. Sound(s, r)
    BY <1>1, <2>3, StepSound DEF PC, SessionRecord
  <2>5. ses' = [ses EXCEPT ![s] = r]
    BY <1>1, <1>2 DEF Lookup, Goto, Stepped, SessionRecord
  <2>. QED BY <1>1, <2>4, <2>5, Move DEF Lookup
<1>3. CASE snapshot[ses[s].file] = None
  <2> DEFINE r == Stepped(s, "reply", "NOT_FOUND")
  <2>1. r.pc = "reply" /\ r.ans = "NOT_FOUND" /\ r.file = ses[s].file
    BY <1>1 DEF SessionRecord, Stepped
  <2>2. ~NoFile(r) /\ HeardOf(r) /\ ProgressOf(r)
    BY <2>1 DEF NoFile, HeardOf, ProgressOf, Written, Reading
  <2>3. "NOT_FOUND" \in Answer /\ "NOT_FOUND" # None
    BY NoneIsNone DEF Answer, AfterReply
  <2>4. Sound(s, r)
    BY <1>1, <2>2, <2>3, StepSound DEF PC
  <2>5. ses' = [ses EXCEPT ![s] = r]
    BY <1>1, <1>3 DEF Lookup, Reply, Stepped, SessionRecord
  <2>. QED BY <1>1, <2>4, <2>5, Move DEF Lookup
<1>. QED BY <1>2, <1>3

LEMMA FoundStep ==
  ASSUME ServerInv, NEW s \in Session, Found(s)
  PROVE  ServerInv'
<1>1. /\ ses[s] \in SessionRecord /\ up \in BOOLEAN
      /\ ses[s].file \in Key /\ ses[s].file # None /\ ses[s].fd = None /\ ses[s].pc = "found"
      /\ ~Reading(ses[s])
  BY Here DEF Found, At, ServerInv, TypeOK, ShapeOf, NoFile, Streaming, SessionRecord, Reading
<1>2. CASE dir[ses[s].file] # None
  <2> DEFINE r == Stepped(s, "load", ses[s].ans)
  <2>1. r.pc = "load" /\ r.file = ses[s].file
    BY <1>1 DEF SessionRecord, Stepped
  <2>2. ~NoFile(r) /\ HeardOf(r) /\ ProgressOf(r)
    BY <2>1 DEF NoFile, HeardOf, ProgressOf, Written, Reading
  <2>3. Sound(s, r)
    BY <1>1, <2>2, StepSound DEF PC, SessionRecord
  <2>4. ses' = [ses EXCEPT ![s] = r]
    BY <1>1, <1>2 DEF Found, Goto, Stepped, SessionRecord
  <2>. QED BY <1>1, <2>3, <2>4, Move DEF Found
<1>3. CASE dir[ses[s].file] = None
  <2> DEFINE r == Stepped(s, "hdel", "NOT_FOUND")
  <2>1. r.pc = "hdel" /\ r.ans = "NOT_FOUND" /\ r.file = ses[s].file
    BY <1>1 DEF SessionRecord, Stepped
  <2>2. told[ses[s].file] \notin Data
    BY <1>1, <1>3, NoneIsNone DEF ServerInv, Confirmed, Served
  <2>3. told[ses[s].file] = Unknown
    BY <1>1, <2>2, Here DEF ServerInv, TypeOK, HeardOf
  <2>4. ~NoFile(r) /\ HeardOf(r) /\ ProgressOf(r)
    BY <2>1, <2>3 DEF NoFile, HeardOf, ProgressOf, Written
  <2>5. "NOT_FOUND" \in Answer /\ "NOT_FOUND" # None
    BY NoneIsNone DEF Answer, AfterReply
  <2>6. Sound(s, r)
    BY <1>1, <2>4, <2>5, StepSound DEF PC
  <2>7. ses' = [ses EXCEPT ![s] = r]
    BY <1>1, <1>3 DEF Found, Stepped, SessionRecord
  <2>. QED BY <1>1, <2>6, <2>7, Move DEF Found
<1>. QED BY <1>2, <1>3

LEMMA LoadStep ==
  ASSUME ServerInv, NEW s \in Session, Load(s)
  PROVE  ServerInv'
<1>1. /\ ses[s] \in SessionRecord /\ up \in BOOLEAN
      /\ ses[s].file \in Key /\ ses[s].file # None /\ ses[s].fd = None /\ ses[s].pc = "load"
  BY Here DEF Load, At, ServerInv, TypeOK, ShapeOf, NoFile, Streaming, SessionRecord
<1>2. CASE ses' = [ses EXCEPT ![s].pc = "size", ![s].fd = dir[ses[s].file]]
  <2>1. PICK r \in SessionRecord :
          r = [ses[s] EXCEPT !.pc = "size", !.fd = dir[ses[s].file]]
    <3>1. "size" \in PC
      BY DEF PC
    <3>2. dir[ses[s].file] \in Inode \cup {None}
      BY <1>1 DEF ServerInv, TypeOK
    <3>. QED BY <1>1, <3>1, <3>2 DEF SessionRecord
  <2>2. /\ r.pc = "size" /\ r.file = ses[s].file /\ r.fd = dir[r.file]
        /\ ses' = [ses EXCEPT ![s] = r]
    BY <1>1, <1>2, <2>1 DEF SessionRecord, ServerInv, TypeOK
  <2>3. ShapeOf(r) /\ HeardOf(r) /\ ProgressOf(r) /\ Reading(r)
    BY <1>1, <2>2 DEF ShapeOf, NoFile, Streaming, HeardOf, ProgressOf, Written, Reading
  <2>4. Sound(s, r)
    BY <1>1, <2>2, <2>3 DEF Sound
  <2>. QED BY <1>1, <2>2, <2>4, Move DEF Load
<1>3. CASE Reply(s, "OPEN_ERROR")
  <2> DEFINE r == Stepped(s, "reply", "OPEN_ERROR")
  <2>1. r.pc = "reply" /\ r.ans = "OPEN_ERROR" /\ r.file = ses[s].file
    BY <1>1 DEF SessionRecord, Stepped
  <2>2. ~NoFile(r) /\ HeardOf(r) /\ ProgressOf(r) /\ Reading(r)
    BY <2>1 DEF NoFile, HeardOf, ProgressOf, Written, Reading
  <2>3. "OPEN_ERROR" \in Answer /\ "OPEN_ERROR" # None
    BY NoneIsNone DEF Answer, AfterReply
  <2>4. Sound(s, r)
    BY <1>1, <2>2, <2>3, StepSound DEF PC
  <2>5. ses' = [ses EXCEPT ![s] = r]
    BY <1>1, <1>3 DEF Reply, Stepped, SessionRecord
  <2>. QED BY <1>1, <2>4, <2>5, Move DEF Load
<1>. QED BY <1>2, <1>3 DEF Load

LEMMA SizeStep ==
  ASSUME ServerInv, NEW s \in Session, Size(s)
  PROVE  ServerInv'
<1> DEFINE n == Len(data[dir[ses[s].file]])
<1>1. /\ ses[s] \in SessionRecord /\ up \in BOOLEAN
      /\ ses[s].file \in Key /\ ses[s].file # None /\ ses[s].pc = "size"
  BY Here DEF Size, At, ServerInv, TypeOK, ShapeOf, NoFile, SessionRecord
<1>2. n \in 0..MaxLen
  BY <1>1, DataIsSeq DEF Size, ServerInv, TypeOK
<1>. HIDE DEF n
<1>3. PICK r \in SessionRecord : r = [ses[s] EXCEPT !.pc = "reply", !.ans = "LENGTH", !.len = n]
  <2>1. "reply" \in PC /\ "LENGTH" \in Answer
    BY DEF PC, Answer, AfterReply
  <2>. QED BY <1>1, <1>2, <2>1 DEF SessionRecord
<1>4. /\ r.pc = "reply" /\ r.ans = "LENGTH" /\ r.file = ses[s].file /\ r.fd = ses[s].fd
      /\ ses' = [ses EXCEPT ![s] = r]
  BY <1>1, <1>3 DEF Size, SessionRecord, ServerInv, TypeOK, n
<1>5. ShapeOf(r) /\ HeardOf(r) /\ ProgressOf(r) /\ Reading(r)
  BY <1>1, <1>4, NoneIsNone
     DEF ShapeOf, NoFile, Streaming, HeardOf, ProgressOf, Written, Reading, Answer, AfterReply
<1>6. Sound(s, r)
  BY <1>4, <1>5 DEF Sound
<1>. QED BY <1>1, <1>4, <1>6, Move DEF Size

LEMMA SendStep ==
  ASSUME ServerInv, NEW s \in Session, Send(s)
  PROVE  ServerInv'
<1>1. /\ ses[s] \in SessionRecord /\ up \in BOOLEAN
      /\ ses[s].file # None /\ ses[s].pc = "send" /\ Len(ses[s].body) < MaxLen
      /\ ses[s].body \in Data
  <2>1. /\ ses[s] \in SessionRecord /\ up \in BOOLEAN
        /\ ses[s].file # None /\ ses[s].pc = "send" /\ Len(ses[s].body) < ses[s].len
    BY Here DEF Send, At, ServerInv, TypeOK, ShapeOf, NoFile
  <2>2. ses[s].body \in Data /\ Len(ses[s].body) \in 0..MaxLen /\ ses[s].len \in 0..MaxLen
    BY <2>1, DataIsSeq DEF SessionRecord
  <2>. QED BY <2>1, <2>2, ServerAssumption DEF ServerAssumption
<1>2. PICK b \in Block, f \in {ses[s].fd, None} :
        ses' = [ses EXCEPT ![s].body = Append(@, b), ![s].fd = f]
  <2>1. CASE ses[s].fd # None /\ Len(ses[s].body) + 1 <= Len(data[ses[s].fd])
    <3> DEFINE b == data[ses[s].fd][Len(ses[s].body) + 1]
    <3>1. data[ses[s].fd] \in Seq(Block)
      BY <1>1, <2>1, DataIsSeq DEF SessionRecord, ServerInv, TypeOK
    <3>2. Len(ses[s].body) \in Nat
      BY <1>1, DataIsSeq
    <3>3. b \in Block
      BY <2>1, <3>1, <3>2, SMTT(30)
    <3>4. ses' = [ses EXCEPT ![s].body = Append(@, b)]
      BY <2>1 DEF Send
    <3>. HIDE DEF b
    <3>5. ses' = [ses EXCEPT ![s].body = Append(@, b), ![s].fd = ses[s].fd]
      BY <1>1, <3>4 DEF SessionRecord, ServerInv, TypeOK
    <3>. QED BY <3>3, <3>5
  <2>2. CASE ~(ses[s].fd # None /\ Len(ses[s].body) + 1 <= Len(data[ses[s].fd]))
    BY <2>2 DEF Send
  <2>. QED BY <2>1, <2>2
<1>3. Append(ses[s].body, b) \in Data
  BY <1>1, AppendData
<1>4. PICK r \in SessionRecord : r = [ses[s] EXCEPT !.body = Append(ses[s].body, b), !.fd = f]
  BY <1>1, <1>3 DEF SessionRecord
<1>5. /\ r.pc = "send" /\ r.ans = ses[s].ans /\ r.file = ses[s].file /\ r.fd = f
      /\ ses' = [ses EXCEPT ![s] = r]
  BY <1>1, <1>2, <1>4 DEF SessionRecord, ServerInv, TypeOK
<1>6. ShapeOf(r) /\ HeardOf(r) /\ ProgressOf(r) /\ Reading(r)
  BY <1>1, <1>5 DEF ShapeOf, NoFile, Streaming, HeardOf, ProgressOf, Written, Reading
<1>7. Sound(s, r)
  BY <1>5, <1>6 DEF Sound
<1>. QED BY <1>1, <1>5, <1>7, Move DEF Send

\* A Send touches the stream and what was sent of it, and nothing else.
LEMMA SendFields ==
  ASSUME ServerInv, NEW s \in Session, Send(s)
  PROVE  /\ ses'[s].pc = ses[s].pc /\ ses'[s].ans = ses[s].ans /\ ses'[s].file = ses[s].file
         /\ ses'[s].alone = ses[s].alone /\ ses'[s].len = ses[s].len /\ ses'[s].hash = ses[s].hash
<1> DEFINE b == ses[s].body
           n == Len(b) + 1
<1>1. ses \in [Session -> SessionRecord] /\ ses[s] \in SessionRecord
  BY Here DEF ServerInv, TypeOK
<1>2. CASE ses[s].fd # None /\ n <= Len(data[ses[s].fd])
  <2>1. ses' = [ses EXCEPT ![s].body = Append(b, data[ses[s].fd][n])]
    BY <1>2 DEF Send
  <2>. QED BY <1>1, <2>1 DEF SessionRecord
<1>3. CASE ~(ses[s].fd # None /\ n <= Len(data[ses[s].fd]))
  <2>1. PICK d \in Block : ses' = [ses EXCEPT ![s].body = Append(b, d), ![s].fd = None]
    BY <1>3 DEF Send
  <2>. QED BY <1>1, <2>1 DEF SessionRecord
<1>. QED BY <1>2, <1>3

LEMMA SnapshotStep ==
  ASSUME ServerInv, NEW s \in Session, Snapshot(s) \/ List(s)
  PROVE  ServerInv'
<1>1. /\ ses[s] \in SessionRecord /\ up \in BOOLEAN
      /\ ses[s].file = None /\ ses[s].fd = None
  BY Here DEF Snapshot, List, At, ServerInv, TypeOK, ShapeOf, NoFile, Streaming
<1>2. PICK r \in SessionRecord :
        /\ \/ r = [ses[s] EXCEPT !.pc = "list"]
           \/ \E a \in {"LISTING", "LIST_ERROR"} : r = [ses[s] EXCEPT !.pc = "reply", !.ans = a]
        /\ ses' = [ses EXCEPT ![s] = r]
  <2>1. CASE Snapshot(s)
    <3> DEFINE r == [ses[s] EXCEPT !.pc = "list"]
    <3>1. r \in SessionRecord
      BY <1>1 DEF SessionRecord, PC
    <3>2. ses' = [ses EXCEPT ![s] = r]
      BY <1>1, <2>1 DEF Snapshot, Goto, ServerInv, TypeOK, SessionRecord
    <3>. QED BY <3>1, <3>2
  <2>2. CASE List(s)
    <3>1. PICK a \in {"LISTING", "LIST_ERROR"} : Reply(s, a)
      BY <2>2 DEF List
    <3> DEFINE r == [ses[s] EXCEPT !.pc = "reply", !.ans = a]
    <3>2. r \in SessionRecord
      <4>1. "reply" \in PC /\ a \in Answer
        BY <3>1 DEF PC, Answer, AfterReply
      <4>. QED BY <1>1, <4>1 DEF SessionRecord
    <3>3. ses' = [ses EXCEPT ![s] = r]
      BY <1>1, <3>1 DEF Reply, ServerInv, TypeOK, SessionRecord
    <3>. QED BY <3>2, <3>3
  <2>. QED BY <2>1, <2>2
<1>3. /\ r.file = None /\ r.fd = None
      /\ r.pc = "list" \/ (r.pc = "reply" /\ r.ans \in {"LISTING", "LIST_ERROR"})
  BY <1>1, <1>2 DEF SessionRecord
<1>4. Sound(s, r)
  BY <1>3, NoneIsNone DEF Sound, ShapeOf, NoFile, HeardOf, ProgressOf, Answer, AfterReply
<1>. QED BY <1>1, <1>2, <1>4, Move DEF Snapshot, List

-----------------------------------------------------------------------------
(* The arrival of a request, and the answers *)

LEMMA RequestStep ==
  ASSUME ServerInv, NEW s \in Session, NEW k \in Key,
         NEW l \in {"exists", "delete", "lookup"}, NEW h \in Data, NEW n \in 0..MaxLen,
         Request(s, k, l, h, n),
         told' = [told EXCEPT ![k] = Unknown] \/ (l = "lookup" /\ told' = told)
  PROVE  ServerInv'
<1>. USE DEF ServerInv
<1>1. /\ ses[s] \in SessionRecord /\ ses[s].pc = "ready" /\ ses[s].fd = None
      /\ ses[s].ans = None /\ ses[s].file = None
  BY Here DEF Request, At, ShapeOf, Streaming, NoFile
<1> DEFINE a == \A o \in Session \ {s} : ~Working(o, k)
<1>2. PICK r \in SessionRecord :
        r = [ses[s] EXCEPT !.pc = l, !.file = k, !.hash = h, !.len = n, !.alone = a]
  <2>1. a \in BOOLEAN
    OBVIOUS
  <2>. HIDE DEF a
  <2>. QED BY <1>1, <2>1 DEF SessionRecord, PC
<1>3. /\ r.pc = l /\ r.file = k /\ r.fd = None /\ r.ans = None /\ r.alone = a
      /\ ~Reading(r)
  <2>. HIDE DEF a
  <2>. QED BY <1>1, <1>2 DEF SessionRecord, Reading
<1> DEFINE b(t) == ses[t].alone /\ (ses[t].file = k => l = "lookup" /\ Reading(ses[t]))
           q(t) == [ses[t] EXCEPT !.alone = b(t)]
<1>4. ses' = [t \in Session |-> IF t = s THEN r ELSE q(t)]
  BY <1>2 DEF Request
<1>5. ASSUME NEW t \in Session
      PROVE  /\ q(t) \in SessionRecord
             /\ q(t).pc = ses[t].pc /\ q(t).ans = ses[t].ans /\ q(t).file = ses[t].file
             /\ q(t).fd = ses[t].fd /\ q(t).hash = ses[t].hash
             /\ q(t).alone = b(t)
  <2>1. b(t) \in BOOLEAN /\ ses[t] \in SessionRecord
    BY Here
  <2>. HIDE DEF b
  <2>. QED BY <2>1 DEF SessionRecord
<1>6. /\ \A t \in Session : ses'[t] \in SessionRecord
      /\ ses'[s] = r
      /\ \A t \in Session \ {s} :
           /\ ses'[t].pc = ses[t].pc /\ ses'[t].ans = ses[t].ans /\ ses'[t].file = ses[t].file
           /\ ses'[t].fd = ses[t].fd /\ ses'[t].hash = ses[t].hash
           /\ ses'[t].alone => b(t)
  <2>. HIDE DEF q, b
  <2>. QED BY <1>4, <1>5
<1>7. /\ up' = up /\ dir' = dir /\ data' = data /\ snapshot' = snapshot
      /\ ses' \in [Session -> SessionRecord]
  <2>. HIDE DEF q
  <2>. QED BY <1>4, <1>6 DEF Request
<1>8. told' \in [Key -> Data \cup {None, Unknown}]
  BY DEF TypeOK
<1>9. \A t \in Session \ {s} : Reading(ses'[t]) <=> Reading(ses[t])
  BY <1>6 DEF Reading
<1>10. /\ \A t \in Session \ {s}, m \in Key : Working(t, m)' <=> Working(t, m)
       /\ \A m \in Key : Working(s, m)' => m = k
  BY <1>3, <1>6, <1>9 DEF Working
<1>11. TypeOK'
  BY <1>7, <1>8 DEF TypeOK
<1>12. Shape'
  BY <1>3, <1>6, NoneIsNone DEF Shape, ShapeOf, NoFile, Streaming
<1>13. OneName'
  BY <1>7 DEF OneName
<1>14. OwnStream'
  BY <1>3, <1>6, <1>7 DEF OwnStream
<1>15. Apart'
  <2>. SUFFICES ASSUME NEW t \in Session, NEW u \in Session, NEW m \in Key,
                       t # u, Working(t, m)', Working(u, m)'
                PROVE  ~ses'[t].alone
    BY DEF Apart
  <2>1. CASE t # s /\ u # s
    BY <1>6, <1>10, <2>1 DEF Apart
  <2>2. CASE t = s
    BY <1>3, <1>6, <1>10, <2>2
  <2>3. CASE u = s
    <3>1. m = k /\ Working(t, k)
      BY <1>10, <2>3
    <3>. QED BY <1>6, <2>3, <3>1 DEF Working
  <2>. QED BY <2>1, <2>2, <2>3
<1>16. Heard'
  <2>. SUFFICES ASSUME NEW t \in Session PROVE HeardOf(ses[t])'
    BY DEF Heard
  <2>1. CASE t = s
    BY <1>3, <1>6, <2>1 DEF HeardOf, TypeOK
  <2>2. CASE t # s
    <3>1. HeardOf(ses[t]) /\ ses[t] \in SessionRecord
      BY Here
    <3>2. ses[t].file # None => told'[ses[t].file] \in {told[ses[t].file], Unknown}
      BY <3>1 DEF SessionRecord, TypeOK
    <3>. QED BY <1>6, <1>9, <2>2, <3>1, <3>2 DEF HeardOf
  <2>. QED BY <2>1, <2>2
<1>17. Progress'
  <2>. SUFFICES ASSUME NEW t \in Session PROVE ProgressOf(ses[t])'
    BY DEF Progress
  <2>1. CASE t = s
    BY <1>3, <1>6, <2>1 DEF ProgressOf, Written
  <2>2. CASE t # s
    BY <1>6, <1>7, <2>2, Here DEF ProgressOf, Written
  <2>. QED BY <2>1, <2>2
<1>18. Confirmed'
  BY <1>7, ServerAssumption DEF Confirmed, Served, TypeOK, ServerAssumption
<1>. QED BY <1>11, <1>12, <1>13, <1>14, <1>15, <1>16, <1>17, <1>18

\* The user is told the outcome of an operation that met no other.
LEMMA Tell ==
  ASSUME ServerInv, NEW s \in Session, NEW k \in Key, NEW c \in Data \cup {None},
         ses[s].pc = "reply", ses[s].file = k, ses[s].alone,
         \/ ses[s].ans = "STORED" /\ c = ses[s].hash
         \/ ses[s].ans = "DELETED" /\ c = None,
         ses' = [ses EXCEPT ![s] = Idle(ses[s].user, ses[s].alive)],
         told' = [told EXCEPT ![k] = c],
         up' = up, dir' = dir, data' = data, snapshot' = snapshot
  PROVE  ServerInv'
<1>. USE DEF ServerInv
<1> DEFINE i == Idle(ses[s].user, ses[s].alive)
<1>1. Sound(s, i) /\ i.file = None
  BY Here, IdleSound DEF SessionRecord, Idle
<1>. HIDE DEF i
<1>2. /\ ses' \in [Session -> SessionRecord]
      /\ ses'[s] = i
      /\ \A t \in Session : t # s => ses'[t] = ses[t]
  BY <1>1 DEF TypeOK, Sound, i
<1>3. Working(s, k)
  BY DEF Working, Reading
<1>4. TypeOK'
  BY <1>2 DEF TypeOK
<1>5. Shape'
  BY <1>1, <1>2 DEF Shape, Sound, ShapeOf, NoFile, Streaming
<1>6. OneName'
  BY DEF OneName
<1>7. i.fd = None
  BY <1>1, NoneIsNone DEF i, Idle
<1>8. OwnStream'
  BY <1>2, <1>7 DEF OwnStream
<1>9. Apart'
  BY <1>1, <1>2, NoneIsNone DEF Apart, Working
<1>10. Heard'
  <2>. SUFFICES ASSUME NEW t \in Session PROVE HeardOf(ses[t])'
    BY DEF Heard
  <2>1. CASE t = s
    BY <1>1, <1>2, <2>1 DEF HeardOf
  <2>2. CASE t # s /\ ses[t].file = k
    <3>1. Reading(ses[t])
      BY <1>3, <2>2 DEF Apart, Working
    <3>. QED BY <1>2, <2>2, <3>1 DEF HeardOf, Reading
  <2>3. CASE t # s /\ ses[t].file # k
    <3>1. HeardOf(ses[t]) /\ ses[t] \in SessionRecord
      BY Here
    <3>2. ses[t].file # None => told'[ses[t].file] = told[ses[t].file]
      BY <2>3, <3>1 DEF SessionRecord, TypeOK
    <3>. QED BY <1>2, <2>3, <3>1, <3>2 DEF HeardOf, Reading
  <2>. QED BY <2>1, <2>2, <2>3
<1>11. Progress'
  BY <1>1, <1>2, Here DEF Progress, ProgressOf, Written
<1>12. Confirmed'
  <2>. SUFFICES ASSUME NEW l \in Key
                PROVE  /\ told'[l] \in Data => Served(l)' = told'[l] /\ snapshot[l] = told'[l]
                       /\ told'[l] = None => dir[l] = None /\ snapshot[l] = None
    BY DEF Confirmed
  <2>1. Served(l)' = Served(l)
    BY DEF Served
  <2>2. CASE l = k
    <3>1. told'[l] = c
      BY <2>2 DEF TypeOK
    <3>2. CASE ses[s].ans = "STORED" /\ c = ses[s].hash
      <4>1. /\ dir[k] # None /\ data[dir[k]] = c /\ snapshot[k] = c
            /\ c \in Data /\ c # None
        BY <3>2, Here, NoneIsNone DEF ProgressOf, Written, SessionRecord
      <4>. QED BY <2>1, <2>2, <3>1, <4>1 DEF Served
    <3>3. CASE ses[s].ans = "DELETED" /\ c = None
      <4>1. dir[k] = None /\ snapshot[k] = None
        BY <3>3, Here, NoneIsNone DEF ProgressOf
      <4>. QED BY <2>2, <3>1, <3>3, <4>1, NoneIsNone
    <3>. QED BY <3>2, <3>3
  <2>3. CASE l # k
    BY <2>1, <2>3 DEF Confirmed, TypeOK
  <2>. QED BY <2>2, <2>3
<1>. QED BY <1>4, <1>5, <1>6, <1>8, <1>9, <1>10, <1>11, <1>12

LEMMA RespondStep ==
  ASSUME ServerInv, NEW s \in Session, Respond(s)
  PROVE  ServerInv'
<1> DEFINE o == ses[s]
           next == AfterReply[o.ans]
<1>1. /\ o \in SessionRecord /\ up \in BOOLEAN /\ o.pc = "reply" /\ o.ans \in Answer
      /\ o.user \in User \cup {None} /\ o.alive \in BOOLEAN
      /\ up' = up /\ dir' = dir /\ data' = data /\ snapshot' = snapshot
  BY Here DEF Respond, At, ServerInv, TypeOK, ShapeOf, SessionRecord
<1>2. CASE o.alive /\ o.alone /\ o.ans \in {"STORED", "DELETED"}
  <2>1. o.file \in Key
    BY <1>1, <1>2, Here DEF ShapeOf, NoFile, SessionRecord
  <2>2. next = "ready"
    BY <1>2 DEF AfterReply
  <2>3. ses' = [ses EXCEPT ![s] = Idle(o.user, o.alive)]
    BY <2>2 DEF Respond
  <2>4. CASE o.ans = "STORED"
    <3>1. told' = [told EXCEPT ![o.file] = o.hash] /\ o.hash \in Data
      BY <1>1, <1>2, <2>4 DEF Respond, SessionRecord
    <3>. QED BY <1>1, <1>2, <2>1, <2>3, <2>4, <3>1, Tell
  <2>5. CASE o.ans = "DELETED"
    <3>1. told' = [told EXCEPT ![o.file] = None]
      BY <1>2, <2>5 DEF Respond
    <3>. QED BY <1>1, <1>2, <2>1, <2>3, <2>5, <3>1, Tell
  <2>. QED BY <1>2, <2>4, <2>5
<1>3. CASE ~(o.alive /\ o.alone /\ o.ans \in {"STORED", "DELETED"})
  <2>1. told' = told
    BY <1>3 DEF Respond
  <2>2. next \in {"ready", "closed", "reply", "recv", "send"}
    BY <1>1 DEF Answer, AfterReply
  <2>3. CASE next = "ready"
    <3>1. ses' = [ses EXCEPT ![s] = Idle(o.user, o.alive)]
      BY <2>3 DEF Respond
    <3>. QED BY <1>1, <2>1, <3>1, IdleSound, Move
  <2>4. CASE next = "closed"
    <3>1. ses' = [ses EXCEPT ![s] = Closed]
      BY <2>4 DEF Respond
    <3>. QED BY <1>1, <2>1, <3>1, ClosedSound, Move
  <2>5. CASE next = "reply"
    <3>1. o.ans = "LISTING"
      BY <1>1, <2>5 DEF Answer, AfterReply
    <3>2. PICK r \in SessionRecord : r = [o EXCEPT !.ans = "LINES"]
      BY <1>1 DEF SessionRecord, Answer, AfterReply
    <3>3. ses' = [ses EXCEPT ![s] = r]
      BY <2>5, <3>2 DEF Respond
    <3>4. r.pc = "reply" /\ r.ans = "LINES" /\ r.file = None /\ r.fd = None
      BY <1>1, <3>1, <3>2, Here DEF SessionRecord, ShapeOf, NoFile, Streaming
    <3>5. Sound(s, r)
      BY <3>4, NoneIsNone DEF Sound, ShapeOf, NoFile, HeardOf, ProgressOf, Answer, AfterReply
    <3>. QED BY <1>1, <2>1, <3>3, <3>5, Move
  <2>6. CASE next \in {"recv", "send"}
    <3>1. /\ next = "recv" => o.ans = "GO"
          /\ next = "send" => o.ans = "LENGTH"
      BY <1>1 DEF Answer, AfterReply
    <3>2. PICK r \in SessionRecord : r = [o EXCEPT !.pc = next, !.ans = None]
      <4>1. next \in PC
        BY <2>6 DEF PC
      <4>. HIDE DEF next
      <4>. QED BY <1>1, <4>1 DEF SessionRecord
    <3>3. ses' = [ses EXCEPT ![s] = r]
      BY <2>6, <3>2 DEF Respond
    <3>4. r.pc = next /\ r.ans = None /\ r.file = o.file /\ r.fd = o.fd /\ r.alone = o.alone
      <4>. HIDE DEF next
      <4>. QED BY <1>1, <3>2 DEF SessionRecord
    <3>. HIDE DEF next
    <3>5. /\ o.file # None
          /\ next = "recv" => ~Reading(o) /\ told[o.file] = Unknown
      BY <1>1, <2>6, <3>1, Here DEF ShapeOf, NoFile, Reading, HeardOf
    <3>6. ShapeOf(r) /\ HeardOf(r)
      BY <2>6, <3>4, <3>5 DEF ShapeOf, NoFile, Streaming, HeardOf, Reading
    <3>7. ProgressOf(r)
      BY <1>1, <2>6, <3>1, <3>4, NoneIsNone, Here DEF ProgressOf, Written
    <3>8. Sound(s, r)
      BY <2>6, <3>4, <3>5, <3>6, <3>7 DEF Sound, Working, Reading
    <3>. QED BY <1>1, <2>1, <3>3, <3>8, Move
  <2>. QED BY <2>2, <2>3, <2>4, <2>5, <2>6
<1>. QED BY <1>2, <1>3

-----------------------------------------------------------------------------
(* The end of the process *)

LEMMA CrashStep ==
  ASSUME ServerInv, Crash
  PROVE  ServerInv'
<1>. USE DEF ServerInv
<1>1. /\ ses' \in [Session -> SessionRecord] /\ up' \in BOOLEAN
      /\ \A s \in Session : ses'[s] = Closed
      /\ dir' = dir /\ snapshot' = snapshot /\ told' = told /\ data' = Reap(dir', ses')
  BY ClosedFacts DEF Crash
<1>2. /\ data' \in [Inode -> Data]
      /\ \A k \in Key : dir[k] # None => data'[dir[k]] = data[dir[k]]
  BY <1>1, ReapKeeps DEF TypeOK
<1>3. TypeOK'
  BY <1>1, <1>2 DEF TypeOK
<1>4. Shape' /\ OneName' /\ OwnStream'
  BY ClosedFacts, <1>1 DEF Shape, ShapeOf, NoFile, Streaming, OneName, OwnStream
<1>5. Apart' /\ Heard' /\ Progress'
  BY ClosedFacts, <1>1, NoneIsNone DEF Apart, Working, Heard, HeardOf, Progress, ProgressOf
<1>6. Confirmed'
  BY <1>1, <1>2 DEF Confirmed, Served
<1>. QED BY <1>3, <1>4, <1>5, <1>6

-----------------------------------------------------------------------------
(* The theorems *)

LEMMA InitInv == Init => ServerInv
<1>. SUFFICES ASSUME Init PROVE ServerInv
  OBVIOUS
<1>1. TypeOK
  BY ClosedFacts, EmptyData DEF Init, TypeOK
<1>2. Shape /\ OneName /\ OwnStream
  BY ClosedFacts DEF Init, Shape, ShapeOf, NoFile, Streaming, OneName, OwnStream
<1>3. Apart /\ Heard /\ Progress
  BY ClosedFacts, NoneIsNone DEF Init, Apart, Working, Heard, HeardOf, Progress, ProgressOf
<1>4. Confirmed
  BY ServerAssumption DEF Init, Confirmed, ServerAssumption
<1>. QED BY <1>1, <1>2, <1>3, <1>4 DEF ServerInv

LEMMA NextInv == ServerInv /\ [Next]_vars => ServerInv'
<1>. SUFFICES ASSUME ServerInv, [Next]_vars PROVE ServerInv'
  OBVIOUS
<1>1. ASSUME NEW s \in Session, Upload(s) PROVE ServerInv'
  <2>1. CASE Put(s)
    BY <2>1, RequestStep DEF Put
  <2>. QED BY <1>1, <2>1, PutExistsStep, PutCompareStep, PutOpenStep, ReceiveStep, VerifyStep,
              HSetStep DEF Upload
<1>2. ASSUME NEW s \in Session, Erase(s) PROVE ServerInv'
  <2>1. CASE Delete(s)
    <3>1. 0 \in 0..MaxLen
      BY ServerAssumption DEF ServerAssumption
    <3>. QED BY <2>1, <3>1, RequestStep, EmptyData DEF Delete
  <2>. QED BY <1>2, <2>1, RemoveStep, HDelStep DEF Erase
<1>3. ASSUME NEW s \in Session, Download(s) PROVE ServerInv'
  <2>1. CASE Get(s)
    <3>1. 0 \in 0..MaxLen
      BY ServerAssumption DEF ServerAssumption
    <3>. QED BY <2>1, <3>1, RequestStep, EmptyData DEF Get
  <2>2. CASE SendEnd(s)
    <3>1. ses[s].user \in User \cup {None} /\ ses[s].alive \in BOOLEAN
      BY Here DEF SessionRecord
    <3>. QED BY <2>2, <3>1, IdleSound, Move DEF SendEnd, ServerInv, TypeOK
  <2>. QED BY <1>3, <2>1, <2>2, LookupStep, FoundStep, LoadStep, SizeStep, SendStep DEF Download
<1>4. ASSUME NEW s \in Session, Terminate(s) PROVE ServerInv'
  BY <1>4, CrashStep DEF Terminate
<1>5. CASE Killed
  BY <1>5, CrashStep DEF Killed
<1>6. CASE Restart \/ UNCHANGED vars
  <2>1. /\ up' \in BOOLEAN /\ ses' = ses /\ dir' = dir /\ data' = data
        /\ snapshot' = snapshot /\ told' = told
    BY <1>6 DEF Restart, vars, ServerInv, TypeOK
  <2>. QED BY <2>1 DEF ServerInv, TypeOK, Shape, ShapeOf, NoFile, Streaming, OneName, OwnStream,
                       Apart, Working, Reading, Heard, HeardOf, Progress, ProgressOf, Written,
                       Confirmed, Served
<1>. QED BY <1>1, <1>2, <1>3, <1>4, <1>5, <1>6, ConnectionStep, SnapshotStep, RespondStep
         DEF Next

\* The invariant holds in every reachable state of the server.
THEOREM Invariance == Spec => []ServerInv
BY InitInv, NextInv, PTL DEF Spec

\* The variables of the server keep their types, however many connections
\* there are and whenever the process dies.
THEOREM TypeCorrect == Spec => []TypeOK
<1>1. ServerInv => TypeOK
  BY DEF ServerInv
<1>. QED BY <1>1, Invariance, PTL

\* The answers to PUT and DELETE stay true: what Confirmed says of
\* session.cpp:105 and :396, for every number of connections and files.
THEOREM AnswersStayTrue == Spec => []Confirmed
<1>1. ServerInv => Confirmed
  BY DEF ServerInv
<1>. QED BY <1>1, Invariance, PTL

=============================================================================
