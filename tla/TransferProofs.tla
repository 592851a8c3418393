---------------------------- MODULE TransferProofs ----------------------------
(***************************************************************************)
(* Two ends that cut their streams by what they expect next stay in step,  *)
(* for every size of a buffer, of the network, of an int and of a file:    *)
(* TransferInv is inductive.  And what they carry arrives whole: so is     *)
(* WholeInv, beside it.                                                    *)
(***************************************************************************)
EXTENDS TransferInv, SequenceTheorems, WellFoundedInduction, TLAPS

-----------------------------------------------------------------------------
(* Numbers *)

LEMMA ModSmall == ASSUME NEW m \in Nat \ {0}, NEW n \in 0..m-1 PROVE n % m = n
OBVIOUS

LEMMA ModRange == ASSUME NEW m \in Nat \ {0}, NEW n \in Nat PROVE n % m \in 0..m-1
OBVIOUS

\* What an int makes of a number of blocks.
LEMMA ToIntFacts ==
  ASSUME NEW n \in Nat
  PROVE  /\ ToInt(n) \in Int /\ ToInt(n) <= MaxInt
         /\ n <= MaxInt => ToInt(n) = n
<1>1. Values \in Nat \ {0} /\ Values = 2 * (MaxInt + 1) /\ MaxInt \in Nat
  BY TransferAssumption DEF TransferAssumption, Values
<1>2. n % Values \in 0..Values-1
  BY <1>1, ModRange
<1>3. ToInt(n) \in Int /\ ToInt(n) <= MaxInt
  BY <1>1, <1>2 DEF ToInt
<1>4. ASSUME n <= MaxInt PROVE ToInt(n) = n
  <2>1. n \in 0..Values-1
    BY <1>1, <1>4
  <2>2. n % Values = n
    BY <1>1, <2>1, ModSmall
  <2>. QED BY <1>1, <1>4, <2>2 DEF ToInt
<1>. QED BY <1>3, <1>4

LEMMA SumIsOne ==
  ASSUME NEW a \in Nat \ {0}, NEW b \in Nat, a + b = 1
  PROVE  a = 1 /\ b = 0
OBVIOUS

LEMMA LeastOf ==
  ASSUME NEW S \in SUBSET Nat, S # {}
  PROVE  Least(S) \in S /\ \A y \in S : Least(S) <= y
<1> DEFINE R == OpToRel(<, Nat)
<1>1. IsWellFoundedOn(R, Nat)
  BY NatLessThanWellFounded
<1>2. \A x, y \in Nat : x < y => <<x, y>> \in R
  BY DEF OpToRel
<1>. HIDE DEF R
<1>3. \E x \in S : \A y \in S : ~(<<y, x>> \in R)
  BY <1>1, WFMin
<1>4. PICK x \in S : \A y \in S : ~(<<y, x>> \in R)
  BY <1>3
<1>5. ASSUME NEW y \in S PROVE x <= y
  <2>1. x \in Nat /\ y \in Nat /\ ~(y < x)
    BY <1>2, <1>4
  <2>. QED BY <2>1
<1>. QED BY <1>5 DEF Least

LEMMA LeastOfTwo ==
  ASSUME NEW a \in Int, NEW b \in Int
  PROVE  Least({a, b}) = IF a <= b THEN a ELSE b
<1>1. CASE a <= b
  BY <1>1 DEF Least
<1>2. CASE ~(a <= b)
  BY <1>2 DEF Least
<1>. QED BY <1>1, <1>2

LEMMA LeastOfThree ==
  ASSUME NEW a \in Nat, NEW b \in Nat, NEW c \in Nat
  PROVE  /\ Least({a, b, c}) \in Nat
         /\ Least({a, b, c}) <= a /\ Least({a, b, c}) <= b /\ Least({a, b, c}) <= c
BY LeastOf

LEMMA YetFacts ==
  ASSUME NEW n \in Int
  PROVE  Yet(n) \in Nat /\ (n >= 0 => Yet(n) = n) /\ (n <= 0 => Yet(n) = 0)
BY DEF Yet

-----------------------------------------------------------------------------
(* Streams *)

Up == [kind : Requests \cup {"data"}, n : Nat]
Down == [kind : Answers \cup {"data"}, n : Nat]

LEMMA Blocks ==
  /\ Up \subseteq Block /\ Down \subseteq Block /\ Garbage \in Block /\ Garbage \in Response
  /\ \A b \in Down : b.kind # "data" => b \in Response
  /\ \A b \in Response : b.kind # "garbage" => b \in Down
BY DEF Up, Down, Block, Response, Garbage, Header, Answers, Requests

\* What a read takes of a line, and what it leaves.
LEMMA PullFacts ==
  ASSUME NEW T, NEW q \in Seq(T), Headers(q) # {}, NEW k \in Pulls(q)
  PROVE  /\ k \in 1..Len(q) /\ Least(Headers(q)) \in 1..k
         /\ q[Least(Headers(q))].kind # "data"
         /\ Residue(q, k) \in Seq(T) /\ Rest(q, k) \in Seq(T) /\ Len(Rest(q, k)) = Len(q) - k
         /\ Parsed(q) = Garbage \/ (Parsed(q) = q[1] /\ q[1].kind # "data")
<1>1. Headers(q) \in SUBSET Nat /\ Headers(q) \subseteq 1..Len(q) /\ Len(q) \in Nat
  BY DEF Headers
<1>2. Least(Headers(q)) \in Headers(q)
  BY <1>1, LeastOf
<1>3. Least(Headers(q)) \in 1..k /\ k \in 1..Len(q) /\ q[Least(Headers(q))].kind # "data"
  BY <1>1, <1>2 DEF Pulls, Headers
<1>4. SubSeq(q, k + 1, Len(q)) \in Seq(T) /\ Len(SubSeq(q, k + 1, Len(q))) = Len(q) - k
  BY <1>1, <1>3
<1>5. SubSeq(q, Least(Headers(q)) + 1, k) \in Seq(T)
  BY <1>1, <1>3
<1>. QED BY <1>3, <1>4, <1>5 DEF Residue, Rest, Parsed

\* A line that begins with a header.
LEMMA LedFacts ==
  ASSUME NEW T, NEW q \in Seq(T), q # <<>>, q[1].kind # "data", NEW k \in Pulls(q)
  PROVE  /\ Headers(q) # {} /\ k \in 1..Len(q)
         /\ Parsed(q) = q[1] /\ Residue(q, k) \o Rest(q, k) = Tail(q)
<1>1. Len(q) \in Nat \ {0} /\ 1 \in Headers(q) /\ Headers(q) \in SUBSET Nat /\ Headers(q) \subseteq 1..Len(q)
  BY DEF Headers
<1>2. Least(Headers(q)) \in Headers(q) /\ Least(Headers(q)) <= 1
  BY <1>1, LeastOf
<1>3. Least(Headers(q)) = 1
  BY <1>1, <1>2
<1>4. k \in 1..Len(q)
  BY <1>1, <1>3 DEF Pulls
<1>5. Len(q) \in Nat /\ 2 \in 1..Len(q)+1 /\ k \in 2-1..Len(q) /\ Len(q) \in k..Len(q)
  BY <1>1, <1>4
<1>6. SubSeq(q, 2, k) \o SubSeq(q, k + 1, Len(q)) = SubSeq(q, 2, Len(q))
  BY <1>5, ConcatAdjacentSubSeq
<1>7. Residue(q, k) = SubSeq(q, 2, k)
  BY <1>3 DEF Residue
<1>. QED BY <1>1, <1>3, <1>4, <1>6, <1>7, TailIsSubSeq DEF Parsed, Rest

\* A prefix taken off a line.
LEMMA TakenFacts ==
  ASSUME NEW T, NEW q \in Seq(T), NEW r \in 0..Len(q)
  PROVE  /\ SubSeq(q, 1, r) \in Seq(T) /\ Len(SubSeq(q, 1, r)) = r
         /\ Rest(q, r) \in Seq(T) /\ Len(Rest(q, r)) = Len(q) - r
         /\ AllData(q) => AllData(Rest(q, r))
BY DEF Rest, AllData

\* More of a file at the end of a line.
LEMMA MoreFacts ==
  ASSUME NEW T, NEW q \in Seq(T), NEW x \in Seq(T)
  PROVE  /\ q \o x \in Seq(T) /\ Len(q \o x) = Len(q) + Len(x)
         /\ AllData(q) /\ AllData(x) => AllData(q \o x)
BY DEF AllData

LEMMA ChunkFacts ==
  ASSUME client \in ClientRecord, NEW c \in Nat, NEW r \in 0..c
  PROVE  /\ SubSeq(Chunk(c), 1, r) \in Seq(Up) /\ Len(SubSeq(Chunk(c), 1, r)) = r
         /\ AllData(SubSeq(Chunk(c), 1, r))
<1>1. \A i \in 1..c : Chunk(c)[i] \in Up /\ Chunk(c)[i].kind = "data"
  BY DEF Chunk, Data, Up, ClientRecord
<1> DEFINE x == Chunk(c)
<1>2. \A i \in 1..r : x[i] \in Up /\ x[i].kind = "data"
  BY <1>1
<1>. HIDE DEF x
<1>3. 1 \in Int /\ r \in Int /\ \A i \in 1..r : x[i] \in Up
  BY <1>2
<1>4. /\ SubSeq(x, 1, r) \in Seq(Up) /\ Len(SubSeq(x, 1, r)) = IF 1 <= r THEN r - 1 + 1 ELSE 0
      /\ \A i \in 1..r - 1 + 1 : SubSeq(x, 1, r)[i] = x[1 + i - 1]
  BY <1>3, SubSeqProperties
<1>5. Len(SubSeq(x, 1, r)) = r /\ \A i \in 1..r : SubSeq(x, 1, r)[i] = x[i]
  BY <1>4
<1>6. SubSeq(x, 1, r) \in Seq(Up) /\ Len(SubSeq(x, 1, r)) = r /\ AllData(SubSeq(x, 1, r))
  BY <1>2, <1>4, <1>5 DEF AllData
<1>. QED BY <1>6 DEF x

LEMMA FileFacts ==
  ASSUME NEW n \in Nat, NEW c \in Nat
  PROVE  LET x == [i \in 1..c |-> Data(n + i)]
         IN x \in Seq(Down) /\ Len(x) = c /\ AllData(x)
BY DEF Data, Down, AllData

-----------------------------------------------------------------------------
(* The two ends *)

\* The types, group by group.
LineUp(q) == q \in Seq(Up) /\ Len(q) <= Window
LineDown(q) == q \in Seq(Down) /\ Len(q) <= Window

LEMMA TypeGroups ==
  TypeOK <=> /\ LineUp(toServer) /\ LineDown(toClient) /\ linked \in BOOLEAN
             /\ client \in ClientRecord /\ session \in SessionRecord
BY DEF TypeOK, LineUp, LineDown, Up, Down

LEMMA Consts ==
  /\ Unconnected \in ClientRecord
  /\ Unconnected.pc = "idle" /\ Unconnected.connected = FALSE /\ Unconnected.method = "LOGIN"
  /\ Unconnected.size = 0 /\ Unconnected.astray = FALSE /\ Unconnected.buf = <<>>
  /\ Fresh \in SessionRecord /\ Fresh.pc = "read" /\ Fresh.left = 0
  /\ Gone \in SessionRecord /\ Gone.pc = "gone"
<1>1. Garbage \in Response
  BY Blocks
<1>2. Unconnected \in ClientRecord
  BY <1>1 DEF Unconnected, ClientRecord, Requests
<1>3. Fresh \in SessionRecord
  BY <1>1 DEF Fresh, SessionRecord
<1>4. Gone \in SessionRecord /\ Gone.pc = "gone"
  BY <1>3 DEF Gone, SessionRecord
<1>. QED BY <1>2, <1>3, <1>4 DEF Unconnected, Fresh

LEMMA AwaitingFacts ==
  ASSUME NEW c \in ClientRecord, NEW l \in {"wait", "wait2"}
  PROVE  LET a == Awaiting(c, l)
         IN /\ a \in ClientRecord /\ a.pc = l /\ a.connected = c.connected /\ a.method = c.method
            /\ a.size = c.size /\ a.buf = <<>> /\ a.astray = c.astray
            /\ a.lost = (Headers(c.buf) # {})
<1> DEFINE b == Headers(c.buf) # {}
<1>1. Garbage \in Response /\ b \in BOOLEAN
  BY Blocks
<1>2. Awaiting(c, l) = [c EXCEPT !.pc = l, !.ans = Garbage, !.buf = <<>>, !.lost = b]
  BY DEF Awaiting
<1>. HIDE DEF b
<1>3. ASSUME NEW p \in {"wait", "wait2"}, NEW a \in Response, NEW q \in Seq(Block), NEW t \in BOOLEAN
      PROVE  [c EXCEPT !.pc = p, !.ans = a, !.buf = q, !.lost = t] \in ClientRecord
  BY DEF ClientRecord
<1>4. Awaiting(c, l) \in ClientRecord
  <2> DEFINE e == <<>>
  <2>1. e \in Seq(Block)
    OBVIOUS
  <2>2. Awaiting(c, l) = [c EXCEPT !.pc = l, !.ans = Garbage, !.buf = e, !.lost = b]
    BY <1>2
  <2>. HIDE DEF e
  <2>3. [c EXCEPT !.pc = l, !.ans = Garbage, !.buf = e, !.lost = b] \in ClientRecord
    BY <1>1, <1>3, <2>1
  <2>. QED BY <2>2, <2>3
<1>5. Awaiting(c, l).lost = b
  BY <1>2 DEF ClientRecord
<1>. QED BY <1>2, <1>4, <1>5 DEF ClientRecord, b

LEMMA DoneFacts ==
  ASSUME client \in ClientRecord
  PROVE  /\ Done \in ClientRecord /\ Done.pc = "idle" /\ Done.connected = TRUE
         /\ Done.astray = client.astray /\ Done.buf = client.buf
<1>1. Unconnected \in ClientRecord /\ client.buf \in Seq(Block) /\ client.astray \in BOOLEAN
      /\ TRUE \in BOOLEAN
  BY Consts DEF ClientRecord
<1>2. ASSUME NEW t \in BOOLEAN
      PROVE  [Unconnected EXCEPT !.connected = t, !.buf = client.buf, !.astray = client.astray] \in ClientRecord
  BY <1>1 DEF ClientRecord
<1>3. Done \in ClientRecord
  BY <1>1, <1>2 DEF Done
<1>. QED BY <1>3, Consts DEF Done, Unconnected

LEMMA ReadyFacts ==
  ASSUME session \in SessionRecord
  PROVE  Ready \in SessionRecord /\ Ready.pc = "read" /\ Ready.left = 0 /\ Ready.logged = session.logged
<1> DEFINE t == session.logged
<1>1. t \in BOOLEAN /\ Fresh \in SessionRecord /\ Fresh.pc = "read" /\ Fresh.left = 0
  BY Consts DEF SessionRecord
<1>2. Ready = [Fresh EXCEPT !.logged = t]
  BY DEF Ready
<1>. HIDE DEF t
<1>3. Ready \in SessionRecord /\ Ready.pc = "read" /\ Ready.left = 0 /\ Ready.logged = t
  BY <1>1, <1>2 DEF SessionRecord
<1>. QED BY <1>3 DEF t

LEMMA RepliesFacts ==
  ASSUME NEW s \in SessionRecord, NEW a \in Response, a.kind # "garbage",
         NEW l \in {"read", "recv", "send", "gone"}
  PROVE  LET r == Replies(s, a, l)
         IN r \in SessionRecord /\ r.pc = "reply" /\ r.ans = a /\ r.next = l /\ r.left = s.left
BY DEF Replies, SessionRecord

LEMMA RefusalFacts ==
  ASSUME NEW s \in SessionRecord, NEW l \in {"read", "gone"}
  PROVE  LET r == Refusal(s, l)
         IN r \in SessionRecord /\ r.pc = "reply" /\ r.ans.kind = "ERROR" /\ r.next = l /\ r.left = s.left
<1> DEFINE a == Header("ERROR", 0)
<1>1. a \in Response /\ a.kind = "ERROR" /\ a.kind # "garbage" /\ l \in {"read", "recv", "send", "gone"}
  BY DEF Header, Response, Answers
<1>2. Refusal(s, l) = Replies(s, a, l)
  BY DEF Refusal
<1>. HIDE DEF a
<1>. QED BY <1>1, <1>2 DEF Replies, SessionRecord

-----------------------------------------------------------------------------
(* What a step has to keep *)

Linked == linked /\ session.pc # "gone" /\ client.connected

LEMMA Now ==
  ASSUME TransferInv
  PROVE  /\ LineUp(toServer) /\ LineDown(toClient) /\ linked \in BOOLEAN
         /\ client \in ClientRecord /\ session \in SessionRecord /\ Prepared(session)
         /\ Engaged(client)
         /\ Linked /\ ~client.astray => Talk(toServer, toClient, client, session)
BY TypeGroups DEF TransferInv, Joined, Live, Heard, Linked

LEMMA Then ==
  ASSUME LineUp(toServer'), LineDown(toClient'), linked' \in BOOLEAN,
         client' \in ClientRecord, session' \in SessionRecord, Prepared(session'), Engaged(client'),
         Linked' /\ ~client'.astray => Talk(toServer', toClient', client', session')
  PROVE  TransferInv'
BY TypeGroups DEF TransferInv, Joined, Live, Heard, Linked, TypeOK, LineUp, LineDown, Up, Down

\* A step of the client, which leaves the network and the session as they are.
LEMMA ClientKeeps ==
  ASSUME TransferInv, UNCHANGED <<linked, session>>, client' \in ClientRecord,
         LineUp(toServer'), LineDown(toClient'),
         Engaged(client'), client'.connected => client.connected /\ (client.astray => client'.astray),
         Linked /\ client'.connected /\ ~client.astray /\ ~client'.astray =>
           Talk(toServer', toClient', client', session)
  PROVE  TransferInv'
<1>1. Linked' /\ ~client'.astray => Talk(toServer', toClient', client', session')
  BY Now DEF Linked
<1>. QED BY <1>1, Now, Then

\* A step of the session, which leaves the network and the client as they are.
LEMMA SessionKeeps ==
  ASSUME TransferInv, UNCHANGED <<linked, client>>, session' \in SessionRecord, Prepared(session'),
         LineUp(toServer'), LineDown(toClient'), session.pc # "gone",
         Linked /\ ~client.astray /\ session'.pc # "gone" =>
           Talk(toServer', toClient', client, session')
  PROVE  TransferInv'
<1>1. Linked' /\ ~client'.astray => Talk(toServer', toClient', client', session')
  BY Now DEF Linked
<1>. QED BY <1>1, Now, Then

\* The client gives up the connection.
LEMMA DroppedStep ==
  ASSUME TransferInv, UNCHANGED <<toServer, toClient, linked, session>>,
         client' = Dropped \/ client' = [Unconnected EXCEPT !.pc = "dead"]
  PROVE  TransferInv'
<1>1. client' \in ClientRecord /\ client'.connected = FALSE /\ Engaged(client')
  BY Consts DEF Dropped, ClientRecord, Engaged
<1>2. LineUp(toServer') /\ LineDown(toClient')
  BY Now
<1>. QED BY <1>1, <1>2, ClientKeeps

\* The client is done with a request, and nothing is under way.
LEMMA DoneStep ==
  ASSUME TransferInv, UNCHANGED <<toServer, toClient, linked, session>>, client' = Done,
         client.connected,
         Linked /\ ~client.astray => toServer = <<>> /\ toClient = <<>> /\ AtRest(session)
  PROVE  TransferInv'
<1>1. /\ client' \in ClientRecord /\ client'.pc = "idle" /\ client'.astray = client.astray
      /\ Engaged(client')
  BY Now, DoneFacts DEF Engaged
<1>2. LineUp(toServer') /\ LineDown(toClient')
  BY Now
<1>3. ASSUME Linked, ~client.astray PROVE Talk(toServer', toClient', client', session)
  BY <1>1, <1>3 DEF Talk
<1>. QED BY <1>1, <1>2, <1>3, ClientKeeps

-----------------------------------------------------------------------------
(* The io thread *)

LEMMA ConnectStep ==
  ASSUME TransferInv, Connect
  PROVE  TransferInv'
<1> DEFINE c == [Unconnected EXCEPT !.connected = TRUE]
<1>1. /\ client' = Awaiting(c, "wait") /\ toServer' = <<Header("LOGIN", 0)>> /\ toClient' = <<>>
      /\ linked' = TRUE /\ session' = Fresh
  BY DEF Connect
<1>2. c \in ClientRecord /\ c.method = "LOGIN" /\ c.size = 0 /\ c.connected = TRUE
  <2>1. c \in ClientRecord /\ c.connected = TRUE
    BY Consts DEF ClientRecord
  <2>2. c.method = "LOGIN" /\ c.size = 0
    BY DEF Unconnected
  <2>. QED BY <2>1, <2>2
<1>. HIDE DEF c
<1>3. /\ client' \in ClientRecord /\ client'.pc = "wait" /\ client'.method = "LOGIN" /\ client'.size = 0
      /\ Engaged(client')
  BY <1>1, <1>2, AwaitingFacts DEF Engaged
<1>4. session' \in SessionRecord /\ session'.pc = "read" /\ Prepared(session')
  BY <1>1, Consts DEF Prepared
<1>5. LineUp(toServer') /\ LineDown(toClient')
  <2>1. Header("LOGIN", 0) \in Up /\ Window \in Nat /\ Window >= 1
    BY TransferAssumption DEF TransferAssumption, Header, Up, Requests
  <2>. QED BY <1>1, <2>1 DEF LineUp, LineDown
<1>6. Talk(toServer', toClient', client', session')
  BY <1>1, <1>3, <1>4 DEF Talk, Waiting, AtRest
<1>. QED BY <1>1, <1>3, <1>4, <1>5, <1>6, Then

LEMMA AskStep ==
  ASSUME TransferInv, NEW m \in Requests, NEW n \in 0..MaxSize, NEW same \in BOOLEAN, Ask(m, n, same)
  PROVE  TransferInv'
<1> DEFINE c == [Done EXCEPT !.method = m, !.size = n, !.same = same]
           h == Header(m, n)
<1>1. /\ client' = Awaiting(c, "wait") /\ UNCHANGED <<toClient, linked, session>>
      /\ client.pc = "idle" /\ client.connected
      /\ toServer' = IF Live THEN toServer \o <<h>> ELSE toServer
      /\ Live => Len(toServer) < Window
  BY DEF Ask, Put
<1>2. c \in ClientRecord /\ c.method = m /\ c.size = n /\ c.astray = client.astray /\ c.connected = TRUE
  <2>1. n \in Nat
    BY TransferAssumption DEF TransferAssumption
  <2>2. Done \in ClientRecord /\ Done.astray = client.astray /\ Done.connected = TRUE
    BY Now, DoneFacts
  <2>. QED BY <2>1, <2>2 DEF ClientRecord
<1>. HIDE DEF c
<1>3. /\ client' \in ClientRecord /\ client'.pc = "wait" /\ client'.method = m /\ client'.size = n
      /\ client'.astray = client.astray /\ Engaged(client')
  BY <1>1, <1>2, AwaitingFacts DEF Engaged
<1>4. LineUp(toServer') /\ LineDown(toClient')
  <2>1. h \in Up /\ Window \in Nat
    BY TransferAssumption DEF TransferAssumption, Header, Up
  <2>. HIDE DEF h
  <2>. QED BY <1>1, <2>1, Now DEF LineUp
<1>5. ASSUME Linked, ~client.astray PROVE Talk(toServer', toClient', client', session)
  <2>1. toServer = <<>> /\ toClient = <<>> /\ AtRest(session)
    BY <1>1, <1>5, Now DEF Talk
  <2>2. toServer' = <<h>>
    BY <1>1, <1>5, <2>1 DEF Linked, Live
  <2>. QED BY <1>1, <1>3, <2>1, <2>2 DEF Talk, Waiting
<1>. QED BY <1>1, <1>3, <1>4, <1>5, ClientKeeps

\* Where the client stands changes nothing for the session, as far as what it has to
\* write is the same.
LEMMA AfterSame ==
  ASSUME NEW u, NEW c, NEW s, NEW a, NEW v, After(u, c, s, a, v),
         NEW e, e.method = c.method, ToWrite(e) = ToWrite(c)
  PROVE  After(u, e, s, a, v)
BY DEF After, Plain, Bodied, Uploading

\* An answer is a header.
LEMMA AfterHeader ==
  ASSUME NEW u, NEW c, NEW s, NEW a, NEW v, After(u, c, s, a, v)
  PROVE  a.kind # "data"
BY DEF After, Plain, Bodied

LEMMA ReadHeaderStep ==
  ASSUME TransferInv, ReadHeader
  PROVE  TransferInv'
<1> DEFINE l == IF client.pc = "wait" THEN "answer" ELSE "answer2"
<1>1. PICK k \in Pulls(toClient) :
        /\ client' = [client EXCEPT !.pc = l, !.ans = Parsed(toClient), !.buf = Residue(toClient, k)]
        /\ toClient' = Rest(toClient, k)
  BY DEF ReadHeader
<1>2. /\ client.pc \in {"wait", "wait2"} /\ Headers(toClient) # {}
      /\ UNCHANGED <<toServer, linked, session>>
      /\ client \in ClientRecord /\ toClient \in Seq(Down) /\ Len(toClient) <= Window
  BY Now DEF ReadHeader, LineDown
<1>3. /\ k \in 1..Len(toClient) /\ Residue(toClient, k) \in Seq(Down) /\ Rest(toClient, k) \in Seq(Down)
      /\ Len(Rest(toClient, k)) = Len(toClient) - k
      /\ Parsed(toClient) = Garbage \/ (Parsed(toClient) = toClient[1] /\ toClient[1].kind # "data")
  BY <1>1, <1>2, PullFacts
<1>4. client' \in ClientRecord
  <2>1. Residue(toClient, k) \in Seq(Block)
    BY <1>3, Blocks
  <2>2. toClient[1] \in Down
    BY <1>2, <1>3
  <2>3. Parsed(toClient) \in Response
    BY <1>3, <2>2, Blocks
  <2>. QED BY <1>1, <1>2, <2>1, <2>3 DEF ClientRecord
<1>5. /\ client'.pc = l /\ client'.connected = client.connected /\ client'.astray = client.astray
      /\ client'.ans = Parsed(toClient) /\ client'.buf = Residue(toClient, k)
      /\ client'.method = client.method /\ client'.size = client.size /\ Engaged(client')
  BY <1>1, <1>2, Now DEF ClientRecord, Engaged
<1>6. LineUp(toServer') /\ LineDown(toClient')
  <2>1. Len(toClient) \in Nat /\ Window \in Nat /\ k >= 1
    BY <1>2, <1>3, TransferAssumption DEF TransferAssumption
  <2>2. Len(toClient') <= Window
    BY <1>1, <1>2, <1>3, <2>1
  <2>. QED BY <1>1, <1>2, <1>3, <2>2, Now DEF LineDown
<1>7. ASSUME Linked, ~client.astray PROVE Talk(toServer', toClient', client', session)
  <2>0. Talk(toServer, toClient, client, session) /\ toClient # <<>>
    BY <1>2, <1>3, <1>7, Now
  <2>1. CASE client.pc = "wait"
    <3>1. After(toServer, client, session, toClient[1], Tail(toClient))
      BY <2>0, <2>1 DEF Talk, Waiting
    <3>2. Parsed(toClient) = toClient[1] /\ Residue(toClient, k) \o Rest(toClient, k) = Tail(toClient)
      BY <1>1, <1>2, <2>0, <3>1, AfterHeader, LedFacts
    <3>3. ToWrite(client') = ToWrite(client)
      BY <1>5, <2>1 DEF ToWrite
    <3>4. After(toServer, client', session, toClient[1], Tail(toClient))
      BY <1>5, <3>1, <3>3, AfterSame
    <3>5. client'.pc = "answer" /\ client'.ans = toClient[1] /\ client'.buf \o toClient' = Tail(toClient)
      BY <1>1, <1>5, <2>1, <3>2
    <3>. QED BY <1>2, <3>4, <3>5 DEF Talk
  <2>2. CASE client.pc = "wait2"
    <3>1. Uploading(toServer, client, session, toClient)
      BY <2>0, <2>2 DEF Talk, Unheard
    <3>2. session.pc = "read" /\ toServer = <<>> /\ Len(toClient) = 1
      BY <2>0, <3>1 DEF Uploading
    <3>3. toClient' = <<>>
      BY <1>1, <1>3, <3>2
    <3>. QED BY <1>2, <1>5, <2>2, <3>2, <3>3 DEF Talk
  <2>. QED BY <1>2, <2>1, <2>2
<1>. QED BY <1>2, <1>4, <1>5, <1>6, <1>7, ClientKeeps

LEMMA ReadThrowsStep ==
  ASSUME TransferInv, ReadThrows
  PROVE  TransferInv'
BY DroppedStep DEF ReadThrows

\* What the client makes of an answer, when nothing more comes.
LEMMA AnsweredFacts ==
  ASSUME TransferInv, client.pc = "answer", Linked, ~client.astray
  PROVE  /\ After(toServer, client, session, client.ans, client.buf \o toClient)
         /\ client.buf \in Seq(Block) /\ toClient \in Seq(Block)
         /\ client.buf \o toClient = <<>> <=> client.buf = <<>> /\ toClient = <<>>
<1>1. client.buf \in Seq(Block) /\ toClient \in Seq(Block)
  BY Now, Blocks DEF ClientRecord, LineDown
<1>2. client.buf \o toClient = <<>> <=> client.buf = <<>> /\ toClient = <<>>
  BY <1>1, ConcatEqualIffEmpty
<1>. QED BY <1>1, <1>2, Now DEF Talk

LEMMA RefusedStep ==
  ASSUME TransferInv,
         Told \/ PutRefused \/ GetRefused
              \/ (ListRefused /\ client' = Done)
  PROVE  TransferInv'
<1>1. /\ client.pc = "answer" /\ UNCHANGED <<toServer, toClient, linked, session>> /\ client' = Done
      /\ \/ client.method \in {"LOGIN", "DELETE"}
         \/ client.method = "PUT" /\ client.ans.kind # "OK"
         \/ client.method = "GET" /\ client.ans.kind # "LENGTH"
         \/ client.method = "SNAPSHOT" /\ client.ans.kind # "LIST"
  BY DEF Told, PutRefused, GetRefused, ListRefused, Answered
<1>2. client.connected
  BY <1>1, Now DEF Engaged
<1>3. ASSUME Linked, ~client.astray PROVE toServer = <<>> /\ toClient = <<>> /\ AtRest(session)
  BY <1>1, <1>3, AnsweredFacts DEF After, Plain, Bodied, AtRest
<1>. QED BY <1>1, <1>2, <1>3, DoneStep

LEMMA UploadingSame ==
  ASSUME NEW u, NEW c, NEW s, NEW v, Uploading(u, c, s, v), NEW e, ToWrite(e) = ToWrite(c)
  PROVE  Uploading(u, e, s, v)
BY DEF Uploading

\* A verdict can only have come when nothing is left to write.
LEMMA VerdictFacts ==
  ASSUME NEW u, NEW c, NEW s, NEW v, Uploading(u, c, s, v), v # <<>>
  PROVE  s.pc = "read" /\ u = <<>> /\ ToWrite(c) = 0 /\ Len(v) = 1 /\ Verdict(v[1])
BY DEF Uploading

LEMMA PutOpenStep ==
  ASSUME TransferInv, PutOpen
  PROVE  TransferInv'
<1> DEFINE e == [client EXCEPT !.pc = "send", !.left = ToInt(client.size)]
<1>1. /\ client.pc = "answer" /\ client.method = "PUT" /\ client.ans.kind = "OK"
      /\ UNCHANGED <<toServer, toClient, linked, session>>
      /\ client' = e \/ client' = Dropped
  BY DEF PutOpen, Answered
<1>2. CASE client' = Dropped
  BY <1>1, <1>2, DroppedStep
<1>3. CASE client' = e
  <2>1. client \in ClientRecord /\ client.size \in Nat /\ ToInt(client.size) \in Int
    BY Now, ToIntFacts DEF ClientRecord
  <2>2. /\ client' \in ClientRecord /\ client'.pc = "send" /\ client'.left = ToInt(client.size)
        /\ client'.method = "PUT" /\ client'.buf = client.buf /\ client'.size = client.size
        /\ client'.connected = client.connected /\ client'.astray = client.astray
    BY <1>1, <1>3, <2>1 DEF ClientRecord
  <2>3. ToWrite(client) = Yet(ToInt(client.size)) /\ ToWrite(client') = Yet(ToInt(client.size))
    BY <1>1, <2>2 DEF ToWrite
  <2>4. ASSUME Linked, ~client.astray PROVE Talk(toServer', toClient', client', session)
    <3>1. Uploading(toServer, client, session, client.buf \o toClient)
      BY <1>1, <2>4, AnsweredFacts DEF After, Plain, Bodied
    <3>2. Uploading(toServer, client', session, client.buf \o toClient)
      BY <2>3, <3>1, UploadingSame
    <3>3. ASSUME client.buf # <<>> PROVE ToInt(client.size) <= 0
      <4>1. client.buf \o toClient # <<>>
        BY <1>1, <2>4, <3>3, AnsweredFacts
      <4>2. Yet(ToInt(client.size)) = 0
        BY <2>3, <3>1, <4>1, VerdictFacts
      <4>. QED BY <2>1, <4>2 DEF Yet
    <3>. QED BY <1>1, <2>2, <3>2, <3>3 DEF Talk
  <2>5. LineUp(toServer') /\ LineDown(toClient') /\ Engaged(client')
    BY <1>1, <2>2, Now DEF Engaged
  <2>. QED BY <1>1, <2>2, <2>4, <2>5, ClientKeeps
<1>. QED BY <1>1, <1>2, <1>3

LEMMA SendSomeStep ==
  ASSUME TransferInv, SendSome
  PROVE  TransferInv'
<1> DEFINE c == Least({client.left, Buff})
<1>2. client.pc = "send" /\ client.left > 0 /\ UNCHANGED <<toClient, linked, session>>
  BY DEF SendSome
<1>3. client \in ClientRecord /\ client.left \in Nat /\ Buff \in Nat /\ Buff >= 2 /\ Window \in Nat
  BY <1>2, Now, TransferAssumption DEF TransferAssumption, ClientRecord
<1>4. c \in Nat /\ c <= client.left /\ (IF Short THEN 1..c ELSE {c}) \subseteq 1..c
  BY <1>2, <1>3, LeastOfTwo
<1>1. PICK r \in 1..c :
        /\ Live => Len(toServer) + r <= Window
        /\ Put(SubSeq(Chunk(c), 1, r))
        /\ client' = [client EXCEPT !.left = @ - r, !.pos = @ + c, !.short = @ \/ r < c]
  BY <1>4 DEF SendSome
<1> DEFINE x == SubSeq(Chunk(c), 1, r)
           t == client.short \/ r < c
<1>5. x \in Seq(Up) /\ Len(x) = r /\ AllData(x)
  BY <1>1, <1>3, <1>4, ChunkFacts
<1>6. client' = [client EXCEPT !.left = client.left - r, !.pos = client.pos + c, !.short = t]
  BY <1>1
<1>7. toServer' = IF Live THEN toServer \o x ELSE toServer
  BY <1>1 DEF Put
<1>8. c \in Nat /\ r \in 1..c /\ t \in BOOLEAN /\ (Live => Len(toServer) + r <= Window)
  BY <1>1, <1>3, <1>4 DEF ClientRecord
<1>. HIDE DEF c, x, t
<1>9. /\ client' \in ClientRecord /\ client'.pc = "send" /\ client'.left = client.left - r
      /\ client'.method = client.method /\ client'.buf = client.buf /\ client'.size = client.size
      /\ client'.connected = client.connected /\ client'.astray = client.astray
  <2>1. client.left - r \in Int /\ client.pos + c \in Nat
    BY <1>3, <1>8 DEF ClientRecord
  <2>. QED BY <1>2, <1>3, <1>6, <1>8, <2>1 DEF ClientRecord
<1>10. LineUp(toServer')
  <2>1. toServer \o x \in Seq(Up) /\ Len(toServer \o x) = Len(toServer) + r
    BY <1>5, Now, MoreFacts DEF LineUp
  <2>. QED BY <1>7, <1>8, <2>1, Now DEF LineUp
<1>11. ASSUME Linked, ~client.astray PROVE Talk(toServer', toClient', client', session)
  <2>1. /\ client.method = "PUT" /\ Uploading(toServer, client, session, client.buf \o toClient)
        /\ client.buf # <<>> => ToInt(client.size) <= 0
    BY <1>2, <1>11, Now DEF Talk
  <2>2. ToWrite(client) = client.left
    BY <1>2, <1>3 DEF ToWrite, Yet
  <2>3. ToWrite(client') = client.left - r
    <3>1. client.left - r \in Nat
      BY <1>3, <1>4, <1>8 DEF c
    <3>. QED BY <1>9, <3>1 DEF ToWrite, Yet
  <2>4. /\ session.pc = "recv" /\ AllData(toServer) /\ client.buf \o toClient = <<>>
        /\ Yet(session.left) = Len(toServer) + client.left
    BY <1>2, <1>3, <2>1, <2>2 DEF Uploading
  <2>5. toServer' = toServer \o x
    BY <1>7, <1>11 DEF Linked, Live
  <2>6. Len(toServer') = Len(toServer) + r /\ AllData(toServer') /\ Len(toServer) \in Nat
    <3>1. toServer \in Seq(Up) /\ x \in Seq(Up) /\ Len(x) = r /\ AllData(x)
      BY <1>5, Now DEF LineUp
    <3>2. /\ Len(toServer \o x) = Len(toServer) + Len(x)
          /\ AllData(toServer) /\ AllData(x) => AllData(toServer \o x)
      BY <3>1, MoreFacts
    <3>. QED BY <2>4, <2>5, <3>1, <3>2
  <2>7. Yet(session.left) = Len(toServer') + ToWrite(client')
    BY <1>3, <1>8, <2>3, <2>4, <2>6
  <2>8. Uploading(toServer', client', session, client.buf \o toClient)
    BY <2>4, <2>6, <2>7 DEF Uploading
  <2>. QED BY <1>2, <1>9, <2>1, <2>8 DEF Talk
<1>12. LineDown(toClient') /\ Engaged(client')
  BY <1>2, <1>9, Now DEF Engaged
<1>. QED BY <1>2, <1>9, <1>10, <1>11, <1>12, ClientKeeps

LEMMA SendEndStep ==
  ASSUME TransferInv, SendEnd
  PROVE  TransferInv'
<1>1. /\ client.pc = "send" /\ client.left <= 0 /\ client' = Awaiting(client, "wait2")
      /\ UNCHANGED <<toServer, toClient, linked, session>>
  BY DEF SendEnd
<1>2. client \in ClientRecord /\ client.buf \in Seq(Block) /\ toClient \in Seq(Block)
  BY Now, Blocks DEF ClientRecord, LineDown
<1>3. /\ client' \in ClientRecord /\ client'.pc = "wait2" /\ client'.connected = client.connected
      /\ client'.method = client.method /\ client'.size = client.size
      /\ client'.astray = client.astray /\ client'.lost = (Headers(client.buf) # {})
  BY <1>1, <1>2, AwaitingFacts
<1>4. ToWrite(client) = 0 /\ ToWrite(client') = 0
  BY <1>1, <1>2, <1>3 DEF ToWrite, Yet, ClientRecord
<1>5. ASSUME Linked, ~client.astray PROVE Talk(toServer', toClient', client', session)
  <2>1. /\ client.method = "PUT" /\ Uploading(toServer, client, session, client.buf \o toClient)
        /\ client.buf # <<>> => ToInt(client.size) <= 0
    BY <1>1, <1>5, Now DEF Talk
  <2>2. CASE client.buf = <<>>
    <3>1. client.buf \o toClient = toClient
      BY <1>2, <2>2
    <3>2. Uploading(toServer, client', session, toClient)
      BY <1>4, <2>1, <3>1, UploadingSame
    <3>. QED BY <1>1, <1>3, <2>1, <3>2 DEF Talk
  <2>3. CASE client.buf # <<>>
    <3>1. client.buf \o toClient # <<>>
      BY <1>2, <2>3, ConcatEqualIffEmpty
    <3>2. /\ session.pc = "read" /\ toServer = <<>> /\ Len(client.buf \o toClient) = 1
          /\ Verdict((client.buf \o toClient)[1])
      BY <2>1, <3>1, VerdictFacts
    <3>3. Len(client.buf) = 1 /\ toClient = <<>> /\ (client.buf \o toClient)[1] = client.buf[1]
      <4>1. Len(client.buf \o toClient) = Len(client.buf) + Len(toClient)
        BY <1>2
      <4>2. Len(client.buf) \in Nat \ {0} /\ Len(toClient) \in Nat
        BY <1>2, <2>3
      <4>3. Len(client.buf) + Len(toClient) = 1
        BY <3>2, <4>1
      <4>4. Len(client.buf) = 1 /\ Len(toClient) = 0
        BY <4>2, <4>3, SumIsOne
      <4>. QED BY <1>2, <4>4
    <3>4. 1 \in Headers(client.buf)
      BY <3>2, <3>3 DEF Headers, Verdict
    <3>5. Unheard(toServer, toClient, client', session)
      BY <1>3, <2>1, <2>3, <3>2, <3>3, <3>4 DEF Unheard
    <3>. QED BY <1>1, <1>3, <2>1, <3>5 DEF Talk
  <2>. QED BY <2>2, <2>3
<1>6. LineUp(toServer') /\ LineDown(toClient') /\ Engaged(client')
  BY <1>1, <1>3, Now DEF Engaged
<1>. QED BY <1>1, <1>3, <1>5, <1>6, ClientKeeps

LEMMA PutAnsweredStep ==
  ASSUME TransferInv, PutAnswered
  PROVE  TransferInv'
<1>1. /\ client.pc = "answer2" /\ UNCHANGED <<toServer, toClient, linked, session>> /\ client' = Done
  BY DEF PutAnswered
<1>2. client.connected
  BY <1>1, Now DEF Engaged
<1>3. ASSUME Linked, ~client.astray PROVE toServer = <<>> /\ toClient = <<>> /\ AtRest(session)
  BY <1>1, <1>3, Now DEF Talk, AtRest
<1>. QED BY <1>1, <1>2, <1>3, DoneStep

LEMMA GivenUpStep ==
  ASSUME TransferInv, SendThrows \/ (ListRefused /\ client' = Dropped)
  PROVE  TransferInv'
BY DroppedStep DEF SendThrows, ListRefused, Answered

LEMMA StartedFacts ==
  ASSUME TransferInv, NEW l \in {"idle", "fetch", "list"}
  PROVE  LET e == Started(l)
         IN /\ e \in ClientRecord /\ e.pc = l /\ e.connected = client.connected
            /\ e.astray = client.astray /\ e.left = ToInt(client.ans.n) - Len(client.buf)
<1>1. client \in ClientRecord /\ client.ans.n \in Nat /\ client.buf \in Seq(Block)
  BY Now DEF ClientRecord, Response
<1>2. ToInt(client.ans.n) \in Int /\ Len(client.buf) \in Nat
  BY <1>1, ToIntFacts
<1>3. ToInt(client.ans.n) - Len(client.buf) \in Int
  BY <1>2
<1>. QED BY <1>1, <1>3 DEF Started, ClientRecord

\* What an answer with a body says, when all of it that was read is in the buffer.
LEMMA BodyFacts ==
  ASSUME TransferInv, client.pc = "answer", Linked, ~client.astray,
         client.ans.kind \in {"LENGTH", "LIST"}
  PROVE  /\ session.pc \in {"send", "read"} /\ toServer = <<>> /\ AllData(toClient)
         /\ ToInt(client.ans.n) - Len(client.buf) = Len(toClient) + Owed(session)
<1>1. /\ client.buf \in Seq(Block) /\ toClient \in Seq(Block)
      /\ session.pc \in {"send", "read"} /\ toServer = <<>> /\ AllData(client.buf \o toClient)
      /\ client.ans.n = Len(client.buf \o toClient) + Owed(session) /\ client.ans.n <= MaxInt
  BY AnsweredFacts DEF After, Plain, Bodied
<1>2. Len(client.buf \o toClient) = Len(client.buf) + Len(toClient)
  BY <1>1
<1>3. AllData(toClient)
  <2>1. ASSUME NEW i \in 1..Len(toClient) PROVE toClient[i].kind = "data"
    <3>1. Len(client.buf) \in Nat /\ Len(toClient) \in Nat
      BY <1>1
    <3>2. Len(client.buf) + i \in 1..(Len(client.buf) + Len(toClient))
      BY <3>1
    <3>3. (client.buf \o toClient)[Len(client.buf) + i] = toClient[i]
      BY <1>1
    <3>. QED BY <1>1, <1>2, <3>2, <3>3 DEF AllData
  <2>. QED BY <2>1 DEF AllData
<1>4. client.ans.n \in Nat /\ Owed(session) \in Int /\ Len(client.buf) \in Nat /\ Len(toClient) \in Nat
  BY <1>1, Now DEF Owed, SessionRecord, ClientRecord, Response
<1>5. ToInt(client.ans.n) = client.ans.n
  BY <1>1, <1>4, ToIntFacts
<1>. QED BY <1>1, <1>2, <1>3, <1>4, <1>5

LEMMA StartedStep ==
  ASSUME TransferInv, UNCHANGED <<toServer, toClient, linked, session>>, client.pc = "answer",
         client.ans.kind \in {"LENGTH", "LIST"}, NEW l \in {"fetch", "list"}, client' = Started(l)
  PROVE  TransferInv'
<1>1. /\ client' \in ClientRecord /\ client'.pc = l /\ client'.connected = client.connected
      /\ client'.astray = client.astray /\ client'.left = ToInt(client.ans.n) - Len(client.buf)
  BY StartedFacts
<1>2. ASSUME Linked, ~client.astray PROVE Talk(toServer', toClient', client', session)
  BY <1>1, <1>2, BodyFacts DEF Talk, Downloading
<1>3. LineUp(toServer') /\ LineDown(toClient') /\ Engaged(client')
  BY <1>1, Now DEF Engaged
<1>. QED BY <1>1, <1>2, <1>3, ClientKeeps

\* What the session owes is no less than nothing.
LEMMA OwedFacts ==
  ASSUME TransferInv
  PROVE  Owed(session) \in Nat /\ (session.pc \in {"send", "read"} /\ Owed(session) = 0 => AtRest(session))
BY Now DEF Owed, AtRest, Prepared, SessionRecord

\* When nothing more is to come, nothing is under way.
LEMMA NoneLeft ==
  ASSUME TransferInv, session.pc \in {"send", "read"}, Len(toClient) + Owed(session) <= 0
  PROVE  toClient = <<>> /\ AtRest(session)
<1>1. toClient \in Seq(Down) /\ Len(toClient) \in Nat /\ Owed(session) \in Nat
  BY Now, OwedFacts DEF LineDown
<1>2. Len(toClient) = 0 /\ Owed(session) = 0
  BY <1>1
<1>. QED BY <1>1, <1>2, OwedFacts

LEMMA GetOpenStep ==
  ASSUME TransferInv, GetOpen
  PROVE  TransferInv'
<1> DEFINE t == client.astray \/ Started("idle").left > 0
           e == [Done EXCEPT !.astray = t]
<1>1. /\ client.pc = "answer" /\ client.ans.kind = "LENGTH"
      /\ UNCHANGED <<toServer, toClient, linked, session>>
      /\ client' = Started("fetch") \/ client' = [Done EXCEPT !.astray = @ \/ Started("idle").left > 0]
  BY DEF GetOpen, Answered
<1>2. CASE client' = Started("fetch")
  BY <1>1, <1>2, StartedStep
<1>3. CASE client' = [Done EXCEPT !.astray = @ \/ Started("idle").left > 0]
  <2>1. client \in ClientRecord
    BY Now
  <2>2. /\ Done \in ClientRecord /\ Done.pc = "idle" /\ Done.connected = TRUE
        /\ Done.astray = client.astray
    BY <2>1, DoneFacts
  <2>3. client' = e
    BY <1>3, <2>2
  <2>4. t \in BOOLEAN /\ (client.astray => t)
    BY <2>1 DEF ClientRecord
  <2>5. ASSUME Linked, ~client.astray, ~t PROVE toServer = <<>> /\ toClient = <<>> /\ AtRest(session)
    <3>1. /\ session.pc \in {"send", "read"} /\ toServer = <<>>
          /\ ToInt(client.ans.n) - Len(client.buf) = Len(toClient) + Owed(session)
      BY <1>1, <2>5, BodyFacts
    <3>2. Started("idle").left = Len(toClient) + Owed(session)
      BY <3>1, StartedFacts
    <3>3. Len(toClient) \in Nat /\ Owed(session) \in Nat
      BY Now, OwedFacts DEF LineDown
    <3>4. Len(toClient) + Owed(session) <= 0
      BY <2>5, <3>2, <3>3
    <3>. QED BY <3>1, <3>4, NoneLeft
  <2>. HIDE DEF t
  <2>6. client' \in ClientRecord /\ client'.pc = "idle" /\ client'.astray = t /\ client'.connected = TRUE
    BY <2>2, <2>3, <2>4 DEF ClientRecord
  <2>7. client.connected
    BY <1>1, Now DEF Engaged
  <2>8. LineUp(toServer') /\ LineDown(toClient') /\ Engaged(client')
    BY <1>1, <2>6, Now DEF Engaged
  <2>9. ASSUME Linked, ~client.astray, ~client'.astray
        PROVE  Talk(toServer', toClient', client', session)
    BY <1>1, <2>5, <2>6, <2>9 DEF Talk
  <2>. QED BY <1>1, <2>4, <2>6, <2>7, <2>8, <2>9, ClientKeeps
<1>. QED BY <1>1, <1>2, <1>3

LEMMA ListOpenStep ==
  ASSUME TransferInv, ListOpen
  PROVE  TransferInv'
<1>1. /\ client.pc = "answer" /\ client.ans.kind = "LIST" /\ client' = Started("list")
      /\ UNCHANGED <<toServer, toClient, linked, session>>
  BY DEF ListOpen, Answered
<1>. QED BY <1>1, StartedStep

LEMMA ReadingFacts ==
  ASSUME TransferInv, NEW r \in Reading
  PROVE  r \in 0..Len(toClient) /\ client.got \in Seq(Block) /\ toClient \in Seq(Block)
<1>1. Buff \in Nat /\ toClient \in Seq(Down) /\ Len(toClient) \in Nat /\ client \in ClientRecord
  BY Now, TransferAssumption DEF TransferAssumption, LineDown
<1>2. Least({Buff, Len(toClient)}) = IF Buff <= Len(toClient) THEN Buff ELSE Len(toClient)
  BY <1>1, LeastOfTwo
<1>3. r \in 0..Len(toClient)
  BY <1>1, <1>2 DEF Reading
<1>. QED BY <1>1, <1>3, Blocks DEF ClientRecord

\* One read of a body.
LEMMA TakesStep ==
  ASSUME TransferInv, client.pc \in {"fetch", "list"}, UNCHANGED <<toServer, linked, session>>,
         NEW r \in Reading, toClient' = Rest(toClient, r),
         NEW more \in Seq(Block), client' = [client EXCEPT !.left = @ - r, !.got = more]
  PROVE  TransferInv'
<1>1. client \in ClientRecord /\ client.left \in Int /\ toClient \in Seq(Down) /\ Len(toClient) \in Nat
  BY Now DEF ClientRecord, LineDown
<1>2. r \in 0..Len(toClient)
  BY ReadingFacts
<1>3. /\ Rest(toClient, r) \in Seq(Down) /\ Len(Rest(toClient, r)) = Len(toClient) - r
      /\ AllData(toClient) => AllData(Rest(toClient, r))
  BY <1>1, <1>2, TakenFacts
<1>4. client' = [client EXCEPT !.left = client.left - r, !.got = more] /\ client.left - r \in Int
  BY <1>1, <1>2
<1>5. /\ client' \in ClientRecord /\ client'.pc = client.pc /\ client'.left = client.left - r
      /\ client'.connected = client.connected /\ client'.astray = client.astray
  BY <1>1, <1>4 DEF ClientRecord
<1>6. LineUp(toServer') /\ LineDown(toClient') /\ Engaged(client')
  <2>1. Len(Rest(toClient, r)) <= Window
    <3>1. Len(toClient) <= Window /\ Window \in Nat
      BY Now, TransferAssumption DEF LineDown, TransferAssumption
    <3>. QED BY <1>1, <1>2, <1>3, <3>1
  <2>. QED BY <1>3, <1>5, <2>1, Now DEF Engaged, LineDown
<1>7. ASSUME Linked, ~client.astray PROVE Talk(toServer', toClient', client', session)
  <2>1. Downloading(toServer, toClient, client, session)
    BY <1>7, Now DEF Talk
  <2>2. client'.left = Len(toClient') + Owed(session)
    <3>1. client.left = Len(toClient) + Owed(session) /\ Owed(session) \in Nat
      BY <2>1, OwedFacts DEF Downloading
    <3>. QED BY <1>1, <1>2, <1>3, <1>5, <3>1
  <2>3. Downloading(toServer', toClient', client', session)
    BY <1>3, <2>1, <2>2 DEF Downloading
  <2>. QED BY <1>5, <2>3 DEF Talk
<1>. QED BY <1>5, <1>6, <1>7, ClientKeeps

LEMMA FetchStep ==
  ASSUME TransferInv, Fetch
  PROVE  TransferInv'
<1>1. PICK r \in Reading :
        /\ Takes("fetch", Least({client.left, Buff}), r)
        /\ client' = [client EXCEPT !.left = @ - r, !.got = @ \o SubSeq(toClient, 1, r)]
  BY DEF Fetch
<1> DEFINE more == client.got \o SubSeq(toClient, 1, r)
<1>2. more \in Seq(Block)
  <2>1. r \in 0..Len(toClient) /\ client.got \in Seq(Block) /\ toClient \in Seq(Block)
    BY ReadingFacts
  <2>2. SubSeq(toClient, 1, r) \in Seq(Block)
    BY <2>1, TakenFacts
  <2>. QED BY <2>1, <2>2
<1>3. client' = [client EXCEPT !.left = @ - r, !.got = more]
  BY <1>1
<1>4. client.pc = "fetch" /\ toClient' = Rest(toClient, r) /\ UNCHANGED <<toServer, linked, session>>
  BY <1>1 DEF Takes
<1>. HIDE DEF more
<1>. QED BY <1>2, <1>3, <1>4, TakesStep

LEMMA ListReadStep ==
  ASSUME TransferInv, ListRead
  PROVE  TransferInv'
<1>1. PICK r \in Reading, stray \in UNION {Stray(n) : n \in Reading} :
        /\ Takes("list", IF client.left > Buff THEN Buff - 1 ELSE client.left, r)
        /\ client' = [client EXCEPT !.left = @ - r, !.got = @ \o SubSeq(toClient, 1, r) \o stray]
  BY DEF ListRead
<1> DEFINE more == client.got \o SubSeq(toClient, 1, r) \o stray
<1>2. more \in Seq(Block)
  <2>1. r \in 0..Len(toClient) /\ client.got \in Seq(Block) /\ toClient \in Seq(Block)
    BY ReadingFacts
  <2>2. SubSeq(toClient, 1, r) \in Seq(Block)
    BY <2>1, TakenFacts
  <2>3. stray \in Seq(Block)
    <3>1. stray = <<>> \/ stray = <<Garbage>>
      BY DEF Stray
    <3>2. <<>> \in Seq(Block) /\ <<Garbage>> \in Seq(Block)
      BY Blocks
    <3>. QED BY <3>1, <3>2
  <2>4. client.got \o SubSeq(toClient, 1, r) \in Seq(Block)
    BY <2>1, <2>2
  <2>. QED BY <2>3, <2>4
<1>3. client' = [client EXCEPT !.left = @ - r, !.got = more]
  BY <1>1
<1>4. client.pc = "list" /\ toClient' = Rest(toClient, r) /\ UNCHANGED <<toServer, linked, session>>
  BY <1>1 DEF Takes
<1>. HIDE DEF more
<1>. QED BY <1>2, <1>3, <1>4, TakesStep

LEMMA BodyEndStep ==
  ASSUME TransferInv, FetchEnd \/ ListEnd \/ ListThrows
  PROVE  TransferInv'
<1>1. /\ client.pc \in {"fetch", "list"} /\ UNCHANGED <<toServer, toClient, linked, session>>
      /\ client' = Done /\ (client.left <= 0 \/ ~Live)
  BY DEF FetchEnd, ListEnd, ListThrows
<1>2. client.connected
  BY <1>1, Now DEF Engaged
<1>3. ASSUME Linked, ~client.astray PROVE toServer = <<>> /\ toClient = <<>> /\ AtRest(session)
  <2>1. Downloading(toServer, toClient, client, session) /\ client.left <= 0
    BY <1>1, <1>3, Now DEF Talk, Linked, Live
  <2>. QED BY <2>1, NoneLeft DEF Downloading
<1>. QED BY <1>1, <1>2, <1>3, DoneStep

-----------------------------------------------------------------------------
(* The session *)

\* The outcomes, one by one.
LEMMA OutcomeCases ==
  ASSUME NEW s, NEW q, NEW t \in Outcomes(s, q)
  PROVE  \/ \E l \in {"read", "gone"} : t = Refusal(s, l)
         \/ q.kind = "LOGIN" /\ t = Replies([s EXCEPT !.logged = TRUE], Header("OK", 0), "read")
         \/ q.kind = "DELETE" /\ t = Replies(s, Header("OK", 0), "read")
         \/ q.kind = "PUT" /\ t = Replies([s EXCEPT !.size = q.n, !.left = ToInt(q.n)], Header("OK", 0), "recv")
         \/ q.kind = "GET" /\ \E n \in 0..Least({MaxInt, MaxSize}) :
               t = Replies([s EXCEPT !.left = n], Header("LENGTH", n), "send")
         \/ q.kind = "SNAPSHOT" /\ \E n \in 0..MaxList :
               t = Replies([s EXCEPT !.left = n], Header("LIST", n), "send")
<1>1. CASE q.kind = "LOGIN"
  BY <1>1 DEF Outcomes
<1>2. CASE q.kind # "LOGIN" /\ (q.kind \notin Requests \/ ~s.logged)
  BY <1>2 DEF Outcomes
<1>3. CASE q.kind \in Requests \ {"LOGIN"} /\ s.logged
  <2>1. CASE q.kind = "DELETE"
    BY <1>3, <2>1 DEF Outcomes
  <2>2. CASE q.kind = "PUT"
    BY <1>3, <2>2 DEF Outcomes
  <2>3. CASE q.kind = "GET"
    BY <1>3, <2>3 DEF Outcomes
  <2>4. CASE q.kind = "SNAPSHOT"
    BY <1>3, <2>4 DEF Outcomes
  <2>. QED BY <1>3, <2>1, <2>2, <2>3, <2>4 DEF Requests
<1>. QED BY <1>1, <1>2, <1>3

\* Whatever a session decides of a request, its client will know what to make of it.
LEMMA OutcomeFacts ==
  ASSUME NEW s \in SessionRecord, NEW q \in Block, NEW t \in Outcomes(s, q)
  PROVE  /\ t \in SessionRecord /\ t.pc = "reply" /\ t.ans.kind # "garbage"
         /\ t.next = "send" => t.left >= 0
         /\ \A c : c.method = q.kind /\ c.size = q.n /\ q.kind \in Requests => Decided(c, t)
<1>1. \A l \in {"read", "gone"} : t = Refusal(s, l) =>
        /\ t \in SessionRecord /\ t.pc = "reply" /\ t.ans.kind = "ERROR" /\ t.next = l
  BY RefusalFacts
<1>2. CASE \E l \in {"read", "gone"} : t = Refusal(s, l)
  BY <1>1, <1>2 DEF Decided, Plain
<1>3. ASSUME NEW e \in SessionRecord, NEW l \in {"read", "recv", "send"},
             NEW k \in Answers, NEW n \in Nat, t = Replies(e, Header(k, n), l)
      PROVE  /\ t \in SessionRecord /\ t.pc = "reply" /\ t.ans.kind # "garbage"
             /\ t.ans.kind = k /\ t.ans.n = n /\ t.next = l /\ t.left = e.left
  <2> DEFINE a == Header(k, n)
  <2>1. a \in Response /\ a.kind = k /\ a.n = n /\ a.kind # "garbage"
    BY DEF Header, Response, Answers
  <2>2. t = Replies(e, a, l) /\ l \in {"read", "recv", "send", "gone"}
    BY <1>3
  <2>. HIDE DEF a
  <2>3. /\ t \in SessionRecord /\ t.pc = "reply" /\ t.ans = a /\ t.next = l /\ t.left = e.left
    BY <2>1, <2>2 DEF Replies, SessionRecord
  <2>. QED BY <2>1, <2>3
<1>4. CASE q.kind = "LOGIN" /\ t = Replies([s EXCEPT !.logged = TRUE], Header("OK", 0), "read")
  <2> DEFINE e == [s EXCEPT !.logged = TRUE]
  <2>1. e \in SessionRecord
    BY DEF SessionRecord
  <2>. HIDE DEF e
  <2>2. t = Replies(e, Header("OK", 0), "read") /\ "OK" \in Answers
    BY <1>4 DEF e, Answers
  <2>. QED BY <1>3, <1>4, <2>1, <2>2 DEF Decided, Plain
<1>5. CASE q.kind = "DELETE" /\ t = Replies(s, Header("OK", 0), "read")
  <2>1. "OK" \in Answers
    BY DEF Answers
  <2>. QED BY <1>3, <1>5, <2>1 DEF Decided, Plain
<1>6. CASE q.kind = "PUT" /\ t = Replies([s EXCEPT !.size = q.n, !.left = ToInt(q.n)], Header("OK", 0), "recv")
  <2> DEFINE e == [s EXCEPT !.size = q.n, !.left = ToInt(q.n)]
  <2>1. q.n \in Nat /\ ToInt(q.n) \in Int
    BY ToIntFacts DEF Block
  <2>2. e \in SessionRecord /\ e.left = ToInt(q.n)
    BY <2>1 DEF SessionRecord
  <2>. HIDE DEF e
  <2>3. t = Replies(e, Header("OK", 0), "recv") /\ "OK" \in Answers
    BY <1>6 DEF e, Answers
  <2>. QED BY <1>3, <1>6, <2>2, <2>3 DEF Decided
<1>7. ASSUME NEW n \in Nat, n <= MaxInt,
             \/ q.kind = "GET" /\ t = Replies([s EXCEPT !.left = n], Header("LENGTH", n), "send")
             \/ q.kind = "SNAPSHOT" /\ t = Replies([s EXCEPT !.left = n], Header("LIST", n), "send")
      PROVE  /\ t \in SessionRecord /\ t.pc = "reply" /\ t.ans.kind # "garbage" /\ t.left >= 0
             /\ \A c : c.method = q.kind => Decided(c, t)
  <2> DEFINE e == [s EXCEPT !.left = n]
  <2>1. e \in SessionRecord /\ e.left = n
    BY DEF SessionRecord
  <2>. HIDE DEF e
  <2>2. \/ q.kind = "GET" /\ t = Replies(e, Header("LENGTH", n), "send")
        \/ q.kind = "SNAPSHOT" /\ t = Replies(e, Header("LIST", n), "send")
    BY <1>7 DEF e
  <2>3. "LENGTH" \in Answers /\ "LIST" \in Answers
    BY DEF Answers
  <2>4. /\ t \in SessionRecord /\ t.pc = "reply" /\ t.ans.kind # "garbage" /\ t.left = n /\ t.next = "send"
        /\ t.ans.n = n
        /\ \/ q.kind = "GET" /\ t.ans.kind = "LENGTH"
           \/ q.kind = "SNAPSHOT" /\ t.ans.kind = "LIST"
    BY <1>3, <2>1, <2>2, <2>3
  <2>. QED BY <1>7, <2>4 DEF Decided, Bodied
<1>8. CASE \E n \in Nat : /\ n <= MaxInt
                          /\ \/ q.kind = "GET" /\ t = Replies([s EXCEPT !.left = n], Header("LENGTH", n), "send")
                             \/ q.kind = "SNAPSHOT" /\ t = Replies([s EXCEPT !.left = n], Header("LIST", n), "send")
  BY <1>7, <1>8
<1>9. \/ \E l \in {"read", "gone"} : t = Refusal(s, l)
      \/ q.kind = "LOGIN" /\ t = Replies([s EXCEPT !.logged = TRUE], Header("OK", 0), "read")
      \/ q.kind = "DELETE" /\ t = Replies(s, Header("OK", 0), "read")
      \/ q.kind = "PUT" /\ t = Replies([s EXCEPT !.size = q.n, !.left = ToInt(q.n)], Header("OK", 0), "recv")
      \/ q.kind = "GET" /\ \E n \in 0..Least({MaxInt, MaxSize}) :
            t = Replies([s EXCEPT !.left = n], Header("LENGTH", n), "send")
      \/ q.kind = "SNAPSHOT" /\ \E n \in 0..MaxList :
            t = Replies([s EXCEPT !.left = n], Header("LIST", n), "send")
  BY OutcomeCases
<1>10. /\ \A n \in 0..Least({MaxInt, MaxSize}) : n \in Nat /\ n <= MaxInt
       /\ \A n \in 0..MaxList : n \in Nat /\ n <= MaxInt
  <2>1. MaxInt \in Nat /\ MaxSize \in Nat /\ MaxList \in 0..MaxInt
    BY TransferAssumption DEF TransferAssumption
  <2>2. Least({MaxInt, MaxSize}) = IF MaxInt <= MaxSize THEN MaxInt ELSE MaxSize
    BY <2>1, LeastOfTwo
  <2>. QED BY <2>1, <2>2
<1>. QED BY <1>2, <1>4, <1>5, <1>6, <1>8, <1>9, <1>10

\* A header can only be on its way to the server when it is all there is on the line.
LEMMA HeaderFacts ==
  ASSUME TransferInv, Linked, ~client.astray, Headers(toServer) # {}
  PROVE  client.pc = "dead" \/ /\ client.pc = "wait" /\ toClient = <<>>
                               /\ toServer = <<Header(client.method, client.size)>>
<1>1. ~AllData(toServer) /\ toServer # <<>>
  BY DEF Headers, AllData
<1>2. Talk(toServer, toClient, client, session) /\ client \in ClientRecord
  BY Now
<1>3. \A v : ~Uploading(toServer, client, session, v)
  BY <1>1 DEF Uploading
<1>4. \A a, v : ~After(toServer, client, session, a, v)
  BY <1>1, <1>3 DEF After
<1>5. client.pc \in {"dead", "wait"}
  BY <1>1, <1>2, <1>3, <1>4 DEF Talk, Downloading, Unheard, ClientRecord
<1>. QED BY <1>1, <1>2, <1>4, <1>5 DEF Talk, Waiting

LEMMA ReadRequestStep ==
  ASSUME TransferInv, ReadRequest
  PROVE  TransferInv'
<1>1. PICK k \in Pulls(toServer) :
        toServer' = Rest(toServer, k) /\ session' \in Outcomes(Ready, Parsed(toServer))
  BY DEF ReadRequest
<1>2. /\ session.pc = "read" /\ Headers(toServer) # {} /\ UNCHANGED <<linked, client, toClient>>
      /\ toServer \in Seq(Up) /\ Len(toServer) <= Window /\ session \in SessionRecord
  BY Now DEF ReadRequest, Serving, LineUp
<1>3. /\ k \in 1..Len(toServer) /\ Rest(toServer, k) \in Seq(Up)
      /\ Len(Rest(toServer, k)) = Len(toServer) - k
      /\ Parsed(toServer) = Garbage \/ (Parsed(toServer) = toServer[1] /\ toServer[1].kind # "data")
  BY <1>1, <1>2, PullFacts
<1>4. Parsed(toServer) \in Block /\ Ready \in SessionRecord
  <2>1. toServer[1] \in Up
    BY <1>2, <1>3
  <2>. QED BY <1>2, <1>3, <2>1, Blocks, ReadyFacts
<1>5. /\ session' \in SessionRecord /\ session'.pc = "reply" /\ session'.ans.kind # "garbage"
      /\ session'.next = "send" => session'.left >= 0
      /\ client.method = Parsed(toServer).kind /\ client.size = Parsed(toServer).n
           /\ Parsed(toServer).kind \in Requests => Decided(client, session')
  BY <1>1, <1>4, OutcomeFacts
<1>6. LineUp(toServer') /\ LineDown(toClient') /\ Prepared(session')
  <2>1. Len(toServer) \in Nat /\ Window \in Nat /\ k >= 1
    BY <1>2, <1>3, TransferAssumption DEF TransferAssumption
  <2>2. Len(toServer') <= Window
    BY <1>1, <1>2, <1>3, <2>1
  <2>. QED BY <1>1, <1>2, <1>3, <1>5, <2>2, Now DEF LineUp, Prepared
<1>7. ASSUME Linked, ~client.astray PROVE Talk(toServer', toClient', client, session')
  <2>1. CASE client.pc = "dead"
    BY <2>1 DEF Talk
  <2>2. CASE client.pc = "wait" /\ toClient = <<>> /\ toServer = <<Header(client.method, client.size)>>
    <3>1. toServer # <<>> /\ toServer[1] = Header(client.method, client.size) /\ Len(toServer) = 1
      BY <2>2
    <3>2. client.method \in Requests
      BY Now DEF ClientRecord
    <3>3. toServer[1].kind # "data" /\ Header(client.method, client.size).kind = client.method
          /\ Header(client.method, client.size).n = client.size
      BY <3>1, <3>2 DEF Header, Requests
    <3>4. Parsed(toServer) = toServer[1]
      BY <1>1, <1>2, <3>1, <3>3, LedFacts
    <3>5. toServer' = <<>>
      BY <1>1, <1>3, <3>1
    <3>. QED BY <1>2, <1>5, <2>2, <3>1, <3>2, <3>3, <3>4, <3>5 DEF Talk, Waiting
  <2>. QED BY <1>2, <1>7, <2>1, <2>2, HeaderFacts
<1>. QED BY <1>2, <1>5, <1>6, <1>7, SessionKeeps

LEMMA OnwardFacts ==
  ASSUME TransferInv, session.pc = "reply"
  PROVE  /\ Onward \in SessionRecord /\ Prepared(Onward)
         /\ session.next = "gone" => Onward.pc = "gone"
         /\ session.next = "read" => Onward.pc = "read"
         /\ session.next \in {"recv", "send"} => Onward.pc = session.next /\ Onward.left = session.left
<1>1. /\ session \in SessionRecord /\ Garbage \in Response /\ session.next \in {"read", "recv", "send", "gone"}
      /\ session.next = "send" => session.left >= 0
  BY Now, Blocks DEF SessionRecord, Prepared
<1>2. CASE session.next = "gone"
  BY <1>2, Consts DEF Onward, Prepared
<1>3. CASE session.next = "read"
  <2>1. Onward = Ready
    BY <1>3 DEF Onward
  <2>. QED BY <1>1, <1>3, <2>1, ReadyFacts DEF Prepared
<1>4. CASE session.next \in {"recv", "send"}
  <2>1. Onward = [session EXCEPT !.pc = session.next, !.ans = Garbage]
    BY <1>4 DEF Onward
  <2>2. Onward \in SessionRecord /\ Onward.pc = session.next /\ Onward.left = session.left
    BY <1>1, <1>4, <2>1 DEF SessionRecord
  <2>. QED BY <1>1, <1>4, <2>2 DEF Prepared
<1>. QED BY <1>1, <1>2, <1>3, <1>4

\* When the session has an answer to give the line is empty.
LEMMA ReplyFacts ==
  ASSUME TransferInv, Linked, ~client.astray, session.pc = "reply", client.pc # "dead"
  PROVE  \/ client.pc = "wait" /\ toServer = <<>> /\ toClient = <<>> /\ Decided(client, session)
         \/ /\ client.pc = "wait" /\ toClient # <<>> /\ Tail(toClient) = <<>>
            /\ toClient[1].kind = "OK" /\ client.method = "PUT"
            /\ Uploading(toServer, client, session, <<>>)
         \/ /\ client.pc = "answer" /\ client.buf \o toClient = <<>>
            /\ client.ans.kind = "OK" /\ client.method = "PUT"
            /\ Uploading(toServer, client, session, <<>>)
         \/ /\ client.pc = "send" /\ client.buf \o toClient = <<>> /\ client.method = "PUT"
            /\ Uploading(toServer, client, session, <<>>)
         \/ /\ client.pc = "wait2" /\ toClient = <<>> /\ client.method = "PUT"
            /\ Uploading(toServer, client, session, <<>>)
<1>1. Talk(toServer, toClient, client, session) /\ client \in ClientRecord
  BY Now
<1>2. \A v : Uploading(toServer, client, session, v) => v = <<>>
  BY DEF Uploading
<1>3. ASSUME NEW a, NEW v, After(toServer, client, session, a, v)
      PROVE  /\ a.kind = "OK" /\ client.method = "PUT" /\ v = <<>>
             /\ Uploading(toServer, client, session, <<>>)
  BY <1>2, <1>3 DEF After
<1>4. CASE client.pc = "wait"
  BY <1>1, <1>3, <1>4 DEF Talk, Waiting, AtRest
<1>5. CASE client.pc = "answer"
  <2>1. After(toServer, client, session, client.ans, client.buf \o toClient)
    BY <1>1, <1>5 DEF Talk
  <2> DEFINE v == client.buf \o toClient
  <2>2. After(toServer, client, session, client.ans, v)
    BY <2>1
  <2>. HIDE DEF v
  <2>3. /\ client.ans.kind = "OK" /\ client.method = "PUT" /\ v = <<>>
        /\ Uploading(toServer, client, session, <<>>)
    BY <1>3, <2>2
  <2>. QED BY <1>5, <2>3 DEF v
<1>6. CASE client.pc = "send"
  BY <1>1, <1>2, <1>6 DEF Talk
<1>7. CASE client.pc = "wait2"
  BY <1>1, <1>2, <1>7 DEF Talk, Unheard
<1>8. client.pc \notin {"idle", "answer2", "fetch", "list"}
  BY <1>1 DEF Talk, AtRest, Downloading
<1>. QED BY <1>1, <1>4, <1>5, <1>6, <1>7, <1>8 DEF ClientRecord

\* A line with one more answer.
LEMMA AppendFacts ==
  ASSUME NEW q \in Seq(Block), NEW a \in Block
  PROVE  /\ Append(q, a) # <<>> /\ Len(Append(q, a)) = Len(q) + 1
         /\ q = <<>> => Append(q, a)[1] = a /\ Tail(Append(q, a)) = <<>>
         /\ q # <<>> /\ Tail(q) = <<>> => Append(q, a)[1] = q[1] /\ Tail(Append(q, a)) = <<a>>
<1>1. Len(q) \in Nat /\ Append(q, a) \in Seq(Block) /\ Len(Append(q, a)) = Len(q) + 1
  OBVIOUS
<1>2. Append(q, a) # <<>>
  BY <1>1
<1>3. /\ Head(Append(q, a)) = IF q = <<>> THEN a ELSE Head(q)
      /\ Tail(Append(q, a)) = IF q = <<>> THEN <<>> ELSE Append(Tail(q), a)
  BY HeadTailAppend
<1>4. Append(<<>>, a) = <<a>>
  OBVIOUS
<1>5. Head(Append(q, a)) = Append(q, a)[1] /\ Head(q) = q[1]
  OBVIOUS
<1>6. q # <<>> /\ Tail(q) = <<>> => Tail(Append(q, a)) = <<a>>
  BY <1>3, <1>4
<1>. QED BY <1>1, <1>2, <1>3, <1>5, <1>6

LEMMA RespondStep ==
  ASSUME TransferInv, Respond
  PROVE  TransferInv'
<1> DEFINE a == session.ans
<1>1. /\ session.pc = "reply" /\ UNCHANGED <<linked, client, toServer>>
      /\ \/ Heard /\ Len(toClient) < Window /\ toClient' = Append(toClient, a) /\ session' = Onward
         \/ ~Heard /\ session' \in {Onward, Gone} /\ toClient' = toClient
  BY DEF Respond, Serving
<1>2. session' \in SessionRecord /\ Prepared(session')
  BY <1>1, OnwardFacts, Consts DEF Prepared
<1>3. a \in Down /\ a \in Block
  <2>1. a \in Response /\ a.kind # "garbage"
    BY <1>1, Now DEF SessionRecord, Prepared
  <2>. QED BY <2>1, Blocks
<1>4. LineUp(toServer') /\ LineDown(toClient')
  <2>1. toClient \in Seq(Down) /\ Len(toClient) \in Nat /\ Window \in Nat
    BY Now, TransferAssumption DEF LineDown, TransferAssumption
  <2>2. Append(toClient, a) \in Seq(Down) /\ Len(Append(toClient, a)) = Len(toClient) + 1
    BY <1>3, <2>1
  <2>3. Len(toClient) < Window => Len(toClient) + 1 <= Window
    BY <2>1
  <2>. QED BY <1>1, <2>2, <2>3, Now DEF LineDown
<1>5. ASSUME Linked, ~client.astray, session'.pc # "gone"
      PROVE  Talk(toServer', toClient', client, session')
  <2>1. /\ toClient' = Append(toClient, a) /\ session' = Onward /\ toServer' = toServer
        /\ toClient \in Seq(Block) /\ client.buf \in Seq(Block)
    BY <1>1, <1>5, Now, Blocks DEF Linked, Heard, LineDown, ClientRecord
  <2>2. CASE client.pc = "dead"
    BY <2>2 DEF Talk
  <2>3. CASE client.pc = "wait" /\ toServer = <<>> /\ toClient = <<>> /\ Decided(client, session)
    <3>1. toClient' # <<>> /\ toClient'[1] = a /\ Tail(toClient') = <<>>
      BY <1>3, <2>1, <2>3, AppendFacts
    <3>2. CASE session.next = "read" /\ Plain(client, a)
      BY <1>1, <2>1, <2>3, <3>1, <3>2, OnwardFacts DEF Talk, Waiting, After
    <3>3. CASE /\ session.next = "recv" /\ a.kind = "OK" /\ client.method = "PUT"
               /\ session.left = ToInt(client.size)
      <4>1. session'.pc = "recv" /\ session'.left = ToInt(client.size)
        BY <1>1, <2>1, <3>3, OnwardFacts
      <4>2. ToWrite(client) = Yet(ToInt(client.size)) /\ Yet(ToInt(client.size)) \in Nat
        <5>1. ToInt(client.size) \in Int
          BY Now, ToIntFacts DEF ClientRecord
        <5>. QED BY <2>3, <5>1, YetFacts DEF ToWrite
      <4>3. Len(toServer) = 0 /\ AllData(toServer)
        BY <2>3 DEF AllData
      <4>4. Uploading(toServer', client, session', <<>>)
        BY <2>1, <4>1, <4>2, <4>3 DEF Uploading
      <4>. QED BY <2>1, <2>3, <3>1, <3>3, <4>4 DEF Talk, Waiting, After
    <3>4. CASE session.next = "send" /\ Bodied(client, a) /\ a.n = session.left /\ session.left <= MaxInt
      <4>1. session'.pc = "send" /\ session'.left = session.left /\ session.left \in Int
        BY <1>1, <2>1, <3>4, Now, OnwardFacts DEF SessionRecord
      <4>2. a.n = 0 + Owed(session') /\ AllData(<<>>)
        BY <3>4, <4>1 DEF Owed, AllData
      <4>3. After(toServer', client, session', a, <<>>)
        BY <2>1, <2>3, <3>4, <4>1, <4>2 DEF After
      <4>. QED BY <2>3, <3>1, <4>3 DEF Talk, Waiting
    <3>. QED BY <1>1, <1>5, <2>1, <2>3, <3>2, <3>3, <3>4, OnwardFacts DEF Decided
  <2>4. CASE Uploading(toServer, client, session, <<>>)
    <3>1. Verdict(a) /\ session.next = "read" /\ toServer = <<>> /\ ToWrite(client) = 0
      BY <1>1, <2>4 DEF Uploading
    <3>2. session'.pc = "read"
      BY <1>1, <2>1, <3>1, OnwardFacts
    <3> DEFINE v == <<a>>
    <3>3. Len(v) = 1 /\ v[1] = a
      OBVIOUS
    <3>4. Append(<<>>, a) = v
      OBVIOUS
    <3>. HIDE DEF v
    <3>5. Uploading(toServer', client, session', v)
      BY <2>1, <3>1, <3>2, <3>3 DEF Uploading
    <3>6. CASE /\ client.pc = "wait" /\ toClient # <<>> /\ Tail(toClient) = <<>>
               /\ toClient[1].kind = "OK" /\ client.method = "PUT"
      <4>1. toClient' # <<>> /\ toClient'[1] = toClient[1] /\ Tail(toClient') = v
        BY <1>3, <2>1, <3>6, AppendFacts DEF v
      <4>. QED BY <3>5, <3>6, <4>1 DEF Talk, Waiting, After
    <3>7. CASE client.pc \in {"answer", "send"} /\ client.buf \o toClient = <<>> /\ client.method = "PUT"
               /\ (client.pc = "answer" => client.ans.kind = "OK")
      <4>1. client.buf = <<>> /\ toClient = <<>>
        BY <2>1, <3>7, ConcatEqualIffEmpty
      <4>2. toClient' = v
        BY <2>1, <3>4, <4>1
      <4>3. v \in Seq(Block)
        BY <1>3 DEF v
      <4>4. client.buf \o toClient' = v
        BY <4>1, <4>2, <4>3
      <4>. QED BY <3>5, <3>7, <4>1, <4>4 DEF Talk, After
    <3>8. CASE client.pc = "wait2" /\ toClient = <<>> /\ client.method = "PUT"
      <4>1. toClient' = v
        BY <2>1, <3>4, <3>8
      <4>. QED BY <3>5, <3>8, <4>1 DEF Talk
    <3>9. client.pc \in {"wait", "answer", "send", "wait2"} =>
            \/ client.pc = "wait" /\ toServer = <<>> /\ toClient = <<>> /\ Decided(client, session)
            \/ /\ client.pc = "wait" /\ toClient # <<>> /\ Tail(toClient) = <<>>
               /\ toClient[1].kind = "OK" /\ client.method = "PUT"
            \/ /\ client.pc \in {"answer", "send"} /\ client.buf \o toClient = <<>> /\ client.method = "PUT"
               /\ (client.pc = "answer" => client.ans.kind = "OK")
            \/ client.pc = "wait2" /\ toClient = <<>> /\ client.method = "PUT"
      BY <1>1, <1>5, ReplyFacts
    <3>10. client.pc \in {"wait", "answer", "send", "wait2"} \/ client.pc = "dead"
      BY <1>1, <1>5, ReplyFacts
    <3>. QED BY <2>2, <2>3, <3>6, <3>7, <3>8, <3>9, <3>10
  <2>. QED BY <1>1, <1>5, <2>2, <2>3, <2>4, ReplyFacts
<1>. QED BY <1>1, <1>2, <1>4, <1>5, SessionKeeps

\* A session that receives a file, and goes on receiving or has its verdict.
LEMMA UploadStep ==
  ASSUME TransferInv, Linked, ~client.astray, session.pc = "recv", NEW u, NEW s,
         Uploading(toServer, client, session, <<>>) => Uploading(u, client, s, <<>>)
  PROVE  Talk(u, toClient, client, s)
<1>1. Talk(toServer, toClient, client, session) /\ client \in ClientRecord
  BY Now
<1>2. ASSUME NEW v, Uploading(toServer, client, session, v)
      PROVE  v = <<>> /\ Uploading(u, client, s, v)
  BY <1>2 DEF Uploading
<1>3. ASSUME NEW a, NEW v, After(toServer, client, session, a, v)
      PROVE  After(u, client, s, a, v)
  BY <1>2, <1>3 DEF After
<1>4. CASE client.pc = "wait"
  <2>1. toClient # <<>> /\ After(toServer, client, session, toClient[1], Tail(toClient))
    BY <1>1, <1>4 DEF Talk, Waiting, AtRest
  <2>. QED BY <1>3, <1>4, <2>1 DEF Talk, Waiting
<1>5. CASE client.pc = "answer"
  <2>1. After(toServer, client, session, client.ans, client.buf \o toClient)
    BY <1>1, <1>5 DEF Talk
  <2>2. After(u, client, s, client.ans, client.buf \o toClient)
    BY <1>3, <2>1
  <2>. QED BY <1>5, <2>2 DEF Talk
<1>6. CASE client.pc = "send"
  <2>1. Uploading(toServer, client, session, client.buf \o toClient)
    BY <1>1, <1>6 DEF Talk
  <2>2. Uploading(u, client, s, client.buf \o toClient)
    BY <1>2, <2>1
  <2>. QED BY <1>1, <1>6, <2>2 DEF Talk
<1>7. CASE client.pc = "wait2"
  <2>1. client.method = "PUT" /\ Uploading(toServer, client, session, toClient)
    BY <1>1, <1>7 DEF Talk, Unheard
  <2>2. Uploading(u, client, s, toClient)
    BY <1>2, <2>1
  <2>. QED BY <1>7, <2>1, <2>2 DEF Talk
<1>8. client.pc \notin {"idle", "answer2", "fetch", "list"}
  BY <1>1 DEF Talk, AtRest, Downloading
<1>. QED BY <1>1, <1>4, <1>5, <1>6, <1>7, <1>8 DEF ClientRecord, Talk

LEMMA ToWriteFacts ==
  ASSUME client \in ClientRecord
  PROVE  ToWrite(client) \in Nat
BY ToIntFacts, YetFacts DEF ToWrite, ClientRecord

LEMMA ReceiveStep ==
  ASSUME TransferInv, Receive
  PROVE  TransferInv'
<1>1. PICK r \in 1..Least({session.left, Buff, Len(toServer)}) :
        /\ session' = [session EXCEPT !.left = @ - r, !.got = @ \o SubSeq(toServer, 1, r)]
        /\ toServer' = Rest(toServer, r)
  BY DEF Receive
<1>2. /\ session.pc = "recv" /\ session.left > 0 /\ UNCHANGED <<linked, client, toClient>>
      /\ session \in SessionRecord /\ session.left \in Nat /\ Len(toServer) \in Nat
      /\ toServer \in Seq(Up) /\ toServer \in Seq(Block)
  BY Now, Blocks DEF Receive, Serving, SessionRecord, LineUp
<1>3. r \in 0..Len(toServer) /\ r \in 1..session.left
  <2>1. Buff \in Nat
    BY TransferAssumption DEF TransferAssumption
  <2> DEFINE m == Least({session.left, Buff, Len(toServer)})
  <2>2. m \in Nat /\ m <= session.left /\ m <= Len(toServer)
    BY <1>2, <2>1, LeastOfThree
  <2>. QED BY <1>2, <2>2
<1>4. /\ SubSeq(toServer, 1, r) \in Seq(Block)
      /\ Rest(toServer, r) \in Seq(Up) /\ Len(Rest(toServer, r)) = Len(toServer) - r
      /\ AllData(toServer) => AllData(Rest(toServer, r))
  BY <1>2, <1>3, TakenFacts
<1> DEFINE more == session.got \o SubSeq(toServer, 1, r)
<1>5. more \in Seq(Block) /\ session' = [session EXCEPT !.left = session.left - r, !.got = more]
      /\ session.left - r \in Nat
  BY <1>1, <1>2, <1>3, <1>4 DEF SessionRecord
<1>. HIDE DEF more
<1>6. session' \in SessionRecord /\ session'.pc = "recv" /\ session'.left = session.left - r
  <2> DEFINE n == session.left - r
  <2>1. n \in Int /\ session' = [session EXCEPT !.left = n, !.got = more]
    BY <1>5
  <2>2. session \in SessionRecord /\ more \in Seq(Block) /\ session.pc = "recv"
    BY <1>2, <1>5
  <2>. HIDE DEF n
  <2>3. /\ [session EXCEPT !.left = n, !.got = more] \in SessionRecord
        /\ [session EXCEPT !.left = n, !.got = more].pc = session.pc
        /\ [session EXCEPT !.left = n, !.got = more].left = n
    BY <2>1, <2>2 DEF SessionRecord
  <2>. QED BY <2>1, <2>2, <2>3 DEF n
<1>7. LineUp(toServer') /\ LineDown(toClient') /\ Prepared(session')
  <2>1. Len(Rest(toServer, r)) <= Window
    <3>1. Len(toServer) <= Window /\ Window \in Nat
      BY Now, TransferAssumption DEF LineUp, TransferAssumption
    <3>. QED BY <1>2, <1>3, <1>4, <3>1
  <2>. QED BY <1>1, <1>2, <1>4, <1>6, <2>1, Now DEF LineUp, Prepared
<1>8. ASSUME Linked, ~client.astray PROVE Talk(toServer', toClient', client, session')
  <2>1. ASSUME Uploading(toServer, client, session, <<>>)
        PROVE  Uploading(toServer', client, session', <<>>)
    <3>1. AllData(toServer) /\ Yet(session.left) = Len(toServer) + ToWrite(client)
      BY <1>2, <2>1 DEF Uploading
    <3>2. Yet(session.left) = session.left /\ Yet(session'.left) = session.left - r
      BY <1>2, <1>5, <1>6, YetFacts
    <3>3. ToWrite(client) \in Nat
      BY Now, ToWriteFacts
    <3>4. Yet(session'.left) = Len(toServer') + ToWrite(client)
      BY <1>1, <1>2, <1>3, <1>4, <3>1, <3>2, <3>3
    <3>. QED BY <1>1, <1>4, <1>6, <3>1, <3>4 DEF Uploading
  <2>. QED BY <1>2, <1>8, <2>1, UploadStep
<1>. QED BY <1>2, <1>6, <1>7, <1>8, SessionKeeps

LEMMA VerifyStep ==
  ASSUME TransferInv, Verify
  PROVE  TransferInv'
<1>1. /\ session.pc = "recv" /\ session.left <= 0 /\ UNCHANGED <<linked, client, toServer, toClient>>
      /\ \/ session' = [Ready EXCEPT !.silent = TRUE]
         \/ session' = Replies(session, Header("STORED", 0), "read")
         \/ session' = Refusal(session, "read")
  BY DEF Verify, Serving
<1>2. /\ session \in SessionRecord /\ Ready \in SessionRecord /\ Ready.pc = "read"
  BY Now, ReadyFacts
<1>3. /\ session' \in SessionRecord
      /\ \/ session'.pc = "read" /\ session'.silent
         \/ session'.pc = "reply" /\ Verdict(session'.ans) /\ session'.next = "read"
  <2>1. CASE session' = [Ready EXCEPT !.silent = TRUE]
    BY <1>2, <2>1 DEF SessionRecord
  <2>2. CASE session' = Replies(session, Header("STORED", 0), "read")
    <3> DEFINE a == Header("STORED", 0)
    <3>1. a \in Response /\ a.kind = "STORED"
      BY DEF Header, Response, Answers
    <3>2. session' = Replies(session, a, "read")
      BY <2>2
    <3>. HIDE DEF a
    <3>. QED BY <1>2, <3>1, <3>2 DEF Replies, SessionRecord, Verdict
  <2>3. CASE session' = Refusal(session, "read")
    BY <1>2, <2>3, RefusalFacts DEF Verdict
  <2>. QED BY <1>1, <2>1, <2>2, <2>3
<1>4. LineUp(toServer') /\ LineDown(toClient') /\ Prepared(session')
  BY <1>1, <1>3, Now DEF Prepared, Verdict
<1>5. ASSUME Linked, ~client.astray PROVE Talk(toServer', toClient', client, session')
  <2>1. ASSUME Uploading(toServer, client, session, <<>>)
        PROVE  Uploading(toServer, client, session', <<>>)
    <3>1. Yet(session.left) = Len(toServer) + ToWrite(client) /\ Yet(session.left) = 0
      BY <1>1, <1>2, <2>1, YetFacts DEF Uploading, SessionRecord
    <3>2. ToWrite(client) \in Nat /\ toServer \in Seq(Up) /\ Len(toServer) \in Nat
      BY Now, ToWriteFacts DEF LineUp
    <3>3. ToWrite(client) = 0 /\ Len(toServer) = 0
      BY <3>1, <3>2
    <3>. QED BY <1>3, <3>2, <3>3 DEF Uploading
  <2>. QED BY <1>1, <1>5, <2>1, UploadStep
<1>. QED BY <1>1, <1>3, <1>4, <1>5, SessionKeeps

LEMMA Associative ==
  ASSUME NEW p \in Seq(Block), NEW q \in Seq(Block), NEW x \in Seq(Block)
  PROVE  (p \o q) \o x = p \o (q \o x)
OBVIOUS

LEMMA TailOfMore ==
  ASSUME NEW T, NEW q \in Seq(T), q # <<>>, NEW x \in Seq(T)
  PROVE  q \o x # <<>> /\ (q \o x)[1] = q[1] /\ Tail(q \o x) = Tail(q) \o x
<1>1. Len(q) \in Nat \ {0} /\ Len(x) \in Nat /\ q \o x \in Seq(T) /\ Len(q \o x) = Len(q) + Len(x)
  OBVIOUS
<1>2. q \o x # <<>> /\ (q \o x)[1] = q[1]
  BY <1>1
<1>3. /\ Tail(q \o x) \in Seq(T) /\ Len(Tail(q \o x)) = Len(q) + Len(x) - 1
      /\ Tail(q) \o x \in Seq(T) /\ Len(Tail(q) \o x) = Len(q) - 1 + Len(x)
  BY <1>1, <1>2
<1>4. ASSUME NEW i \in 1..(Len(q) + Len(x) - 1) PROVE Tail(q \o x)[i] = (Tail(q) \o x)[i]
  <2>1. Tail(q \o x)[i] = (q \o x)[i + 1]
    BY <1>1, <1>2
  <2>2. CASE i <= Len(q) - 1
    BY <1>1, <2>1, <2>2
  <2>3. CASE i > Len(q) - 1
    BY <1>1, <2>1, <2>3
  <2>. QED BY <1>1, <2>2, <2>3
<1>5. Len(Tail(q \o x)) = Len(Tail(q) \o x)
  BY <1>1, <1>3
<1>6. Tail(q \o x) = Tail(q) \o x
  BY <1>1, <1>3, <1>4, <1>5, SeqEqual
<1>. QED BY <1>2, <1>6

\* More of a body, or its end.
LEMMA BodyGoesOn ==
  ASSUME TransferInv, Linked, ~client.astray, session.pc = "send", NEW x \in Seq(Down), AllData(x),
         NEW s, s.pc \in {"send", "read"},
         Owed(s) \in Nat, Owed(session) = Len(x) + Owed(s),
         AtRest(session) => AtRest(s) /\ x = <<>>
  PROVE  Talk(toServer, toClient \o x, client, s)
<1>1. /\ Talk(toServer, toClient, client, session) /\ client \in ClientRecord
      /\ toClient \in Seq(Block) /\ x \in Seq(Block) /\ client.buf \in Seq(Block)
  BY Now, Blocks DEF LineDown, ClientRecord
<1>2. ASSUME NEW q \in Seq(Block) PROVE Len(q \o x) = Len(q) + Len(x) /\ (AllData(q) => AllData(q \o x))
  BY <1>1, MoreFacts
<1>3. ASSUME NEW a, NEW v \in Seq(Block), After(toServer, client, session, a, v)
      PROVE  After(toServer, client, s, a, v \o x)
  <2>1. /\ Bodied(client, a) /\ toServer = <<>> /\ AllData(v) /\ a.n = Len(v) + Owed(session)
        /\ a.n <= MaxInt
    BY <1>3 DEF After, Uploading
  <2>2. Len(v \o x) = Len(v) + Len(x) /\ AllData(v \o x)
    BY <1>2, <2>1
  <2>3. Len(v) \in Nat /\ Len(x) \in Nat
    BY <1>1
  <2>4. a.n = Len(v \o x) + Owed(s)
    BY <2>1, <2>2, <2>3
  <2>. QED BY <2>1, <2>2, <2>4 DEF After
<1>4. CASE client.pc = "idle"
  <2>1. x = <<>> /\ toServer = <<>> /\ toClient = <<>> /\ AtRest(s)
    BY <1>1, <1>4 DEF Talk
  <2>2. toClient \o x = <<>>
    BY <2>1
  <2>. QED BY <1>4, <2>1, <2>2 DEF Talk
<1>5. CASE client.pc = "wait"
  <2>1. CASE toServer = <<Header(client.method, client.size)>> /\ toClient = <<>> /\ AtRest(session)
    <3>1. toClient \o x = <<>>
      BY <2>1
    <3>. QED BY <1>5, <2>1, <3>1 DEF Talk, Waiting
  <2>2. CASE toClient # <<>> /\ After(toServer, client, session, toClient[1], Tail(toClient))
    <3> DEFINE h == toClient[1]
               v == Tail(toClient)
               d == toClient \o x
    <3>1. v \in Seq(Block) /\ After(toServer, client, session, h, v)
      BY <1>1, <2>2
    <3>2. After(toServer, client, s, h, v \o x)
      <4>. HIDE DEF v, h
      <4>. QED BY <1>3, <3>1
    <3>3. d # <<>> /\ d[1] = h /\ Tail(d) = v \o x
      BY <1>1, <2>2, TailOfMore
    <3>4. After(toServer, client, s, d[1], Tail(d)) /\ d # <<>>
      BY <3>2, <3>3
    <3>. HIDE DEF v, h, d
    <3>5. Talk(toServer, d, client, s)
      BY <1>5, <3>4 DEF Talk, Waiting
    <3>. QED BY <3>5 DEF d
  <2>. QED BY <1>1, <1>5, <2>1, <2>2 DEF Talk, Waiting
<1>6. CASE client.pc = "answer"
  <2> DEFINE v == client.buf \o toClient
             w == client.buf \o (toClient \o x)
  <2>1. v \in Seq(Block) /\ After(toServer, client, session, client.ans, v)
    BY <1>1, <1>6 DEF Talk
  <2>2. w = v \o x
    <3>1. client.buf \in Seq(Block) /\ toClient \in Seq(Block) /\ x \in Seq(Block)
      BY <1>1
    <3>2. (client.buf \o toClient) \o x = client.buf \o (toClient \o x)
      BY <3>1, Associative
    <3>. QED BY <3>2
  <2>. HIDE DEF v
  <2>3. After(toServer, client, s, client.ans, v \o x)
    BY <1>3, <2>1
  <2>4. After(toServer, client, s, client.ans, w)
    BY <2>2, <2>3
  <2>. QED BY <1>6, <2>4 DEF Talk
<1>7. CASE client.pc \in {"fetch", "list"}
  <2>1. toServer = <<>> /\ AllData(toClient) /\ client.left = Len(toClient) + Owed(session)
    BY <1>1, <1>7 DEF Talk, Downloading
  <2>2. Len(toClient \o x) = Len(toClient) + Len(x) /\ AllData(toClient \o x)
    BY <1>1, <1>2, <2>1
  <2>3. Len(toClient) \in Nat /\ Len(x) \in Nat
    BY <1>1
  <2>4. client.left = Len(toClient \o x) + Owed(s)
    BY <2>1, <2>2, <2>3
  <2>. QED BY <1>7, <2>1, <2>2, <2>4 DEF Talk, Downloading
<1>8. client.pc \notin {"send", "wait2", "answer2"}
  BY <1>1 DEF Talk, Uploading, Unheard
<1>. QED BY <1>1, <1>4, <1>5, <1>6, <1>7, <1>8 DEF ClientRecord, Talk

LEMMA SendStep ==
  ASSUME TransferInv, Send
  PROVE  TransferInv'
<1> DEFINE c == Least({session.left, Buff})
           n == Len(session.got)
           x == [i \in 1..c |-> Data(n + i)]
           more == session.got \o x
           l == session.left - c
<1>1. /\ session.pc = "send" /\ session.left > 0 /\ Len(toClient) + c <= Window
      /\ toClient' = toClient \o x /\ UNCHANGED <<linked, client, toServer>>
      /\ session' = [session EXCEPT !.left = l, !.got = more]
  BY DEF Send, Serving
<1>2. /\ session \in SessionRecord /\ session.left \in Nat /\ session.got \in Seq(Block) /\ n \in Nat
      /\ toClient \in Seq(Down) /\ Len(toClient) \in Nat
  BY <1>1, Now DEF SessionRecord, LineDown
<1>3. c \in Nat /\ c <= session.left /\ l \in Nat /\ session.left = c + l
  <2>1. Buff \in Nat
    BY TransferAssumption DEF TransferAssumption
  <2>2. c \in Nat /\ c <= session.left
    BY <1>2, <2>1, LeastOfTwo
  <2>. HIDE DEF c
  <2>. QED BY <1>2, <2>2
<1>. HIDE DEF c, l
<1>4. x \in Seq(Down) /\ Len(x) = c /\ AllData(x)
  <2>. HIDE DEF n
  <2>. QED BY <1>2, <1>3, FileFacts
<1>. HIDE DEF x
<1>5. more \in Seq(Block)
  <2>1. x \in Seq(Block)
    BY <1>4, Blocks
  <2>. QED BY <1>2, <2>1
<1>. HIDE DEF more
<1>6. session' \in SessionRecord /\ session'.pc = "send" /\ session'.left = l
  <2>1. l \in Int /\ more \in Seq(Block) /\ session \in SessionRecord
    BY <1>2, <1>3, <1>5
  <2>2. /\ [session EXCEPT !.left = l, !.got = more] \in SessionRecord
        /\ [session EXCEPT !.left = l, !.got = more].pc = session.pc
        /\ [session EXCEPT !.left = l, !.got = more].left = l
    BY <2>1 DEF SessionRecord
  <2>. QED BY <1>1, <2>2
<1>7. LineUp(toServer') /\ LineDown(toClient') /\ Prepared(session')
  <2>1. toClient \o x \in Seq(Down) /\ Len(toClient \o x) = Len(toClient) + c
    BY <1>2, <1>4, MoreFacts
  <2>. QED BY <1>1, <1>3, <1>6, <2>1, Now DEF LineDown, Prepared
<1>8. ASSUME Linked, ~client.astray PROVE Talk(toServer', toClient', client', session')
  <2>1. Owed(session) = session.left /\ Owed(session') = l
    BY <1>1, <1>6 DEF Owed
  <2>2. ~AtRest(session)
    BY <1>1, <1>2 DEF AtRest
  <2>3. Talk(toServer, toClient \o x, client, session')
    <3>1. Owed(session') \in Nat /\ Owed(session) = Len(x) + Owed(session')
      BY <1>3, <1>4, <2>1
    <3>2. /\ session.pc = "send" /\ x \in Seq(Down) /\ AllData(x) /\ session'.pc \in {"send", "read"}
          /\ AtRest(session) => AtRest(session') /\ x = <<>>
      BY <1>1, <1>4, <1>6, <2>2
    <3>. QED BY <1>8, <3>1, <3>2, BodyGoesOn
  <2>. QED BY <1>1, <2>3
<1>. QED BY <1>1, <1>6, <1>7, <1>8, SessionKeeps

LEMMA SendDoneStep ==
  ASSUME TransferInv, SendDone
  PROVE  TransferInv'
<1>1. /\ session.pc = "send" /\ session.left <= 0 /\ session' = Ready
      /\ UNCHANGED <<linked, client, toServer, toClient>>
  BY DEF SendDone, Serving
<1>2. session' \in SessionRecord /\ session'.pc = "read"
  BY <1>1, Now, ReadyFacts
<1>3. LineUp(toServer') /\ LineDown(toClient') /\ Prepared(session')
  BY <1>1, <1>2, Now DEF Prepared
<1>4. ASSUME Linked, ~client.astray PROVE Talk(toServer', toClient', client', session')
  <2>1. Owed(session) = 0 /\ Owed(session') = 0 /\ AtRest(session')
    BY <1>1, <1>2, Now DEF Owed, AtRest, Prepared, SessionRecord
  <2> DEFINE x == <<>>
  <2>2. /\ x \in Seq(Down) /\ Len(x) = 0 /\ AllData(x) /\ toClient \o x = toClient /\ x = <<>>
    BY Now DEF AllData, LineDown
  <2>. HIDE DEF x
  <2>3. Owed(session) = Len(x) + Owed(session') /\ Owed(session') \in Nat
    BY <2>1, <2>2
  <2>4. Talk(toServer, toClient \o x, client, session')
    <3>1. /\ session.pc = "send" /\ x \in Seq(Down) /\ AllData(x) /\ session'.pc \in {"send", "read"}
          /\ AtRest(session) => AtRest(session') /\ x = <<>>
      BY <1>1, <1>2, <2>1, <2>2
    <3>. QED BY <1>4, <2>3, <3>1, BodyGoesOn
  <2>. QED BY <1>1, <2>2, <2>4
<1>. QED BY <1>1, <1>2, <1>3, <1>4, SessionKeeps

LEMMA HangUpStep ==
  ASSUME TransferInv, HangUp
  PROVE  TransferInv'
<1>1. /\ session.pc # "gone" /\ session' = Gone /\ UNCHANGED <<linked, client, toServer, toClient>>
  BY DEF HangUp, Serving
<1>2. session' \in SessionRecord /\ session'.pc = "gone" /\ Prepared(session')
  BY <1>1, Consts DEF Prepared
<1>3. LineUp(toServer') /\ LineDown(toClient')
  BY <1>1, Now
<1>. QED BY <1>1, <1>2, <1>3, SessionKeeps

LEMMA BreakStep ==
  ASSUME TransferInv, Break
  PROVE  TransferInv'
<1>1. PICK i \in 0..Len(toServer), j \in 0..Len(toClient) :
        toServer' = SubSeq(toServer, 1, i) /\ toClient' = SubSeq(toClient, 1, j)
  BY DEF Break
<1>2. linked' = FALSE /\ UNCHANGED <<client, session>>
  BY DEF Break
<1>3. LineUp(toServer')
  <2>1. toServer \in Seq(Up) /\ Len(toServer) <= Window /\ Len(toServer) \in Nat /\ Window \in Nat
    BY Now, TransferAssumption DEF LineUp, TransferAssumption
  <2>2. SubSeq(toServer, 1, i) \in Seq(Up) /\ Len(SubSeq(toServer, 1, i)) = i
    BY <2>1, TakenFacts
  <2>. QED BY <1>1, <2>1, <2>2 DEF LineUp
<1>4. LineDown(toClient')
  <2>1. toClient \in Seq(Down) /\ Len(toClient) <= Window /\ Len(toClient) \in Nat /\ Window \in Nat
    BY Now, TransferAssumption DEF LineDown, TransferAssumption
  <2>2. SubSeq(toClient, 1, j) \in Seq(Down) /\ Len(SubSeq(toClient, 1, j)) = j
    BY <2>1, TakenFacts
  <2>. QED BY <1>1, <2>1, <2>2 DEF LineDown
<1>5. linked' \in BOOLEAN /\ ~Linked'
  BY <1>2 DEF Linked
<1>6. /\ client' \in ClientRecord /\ session' \in SessionRecord /\ Prepared(session') /\ Engaged(client')
  BY <1>2, Now
<1>. QED BY <1>3, <1>4, <1>5, <1>6, Then

-----------------------------------------------------------------------------
(* The theorems *)

LEMMA InitTransfer == Init => TransferInv
<1>. SUFFICES ASSUME Init PROVE TransferInv
  OBVIOUS
<1>1. /\ toServer = <<>> /\ toClient = <<>> /\ linked = FALSE
      /\ client = Unconnected /\ session = Gone
  BY DEF Init
<1>2. LineUp(toServer) /\ LineDown(toClient)
  BY <1>1, TransferAssumption DEF LineUp, LineDown, TransferAssumption
<1>3. TypeOK
  BY <1>1, <1>2, Consts, TypeGroups
<1>4. Prepared(session) /\ Engaged(client) /\ ~Joined
  BY <1>1, Consts DEF Prepared, Engaged, Joined, Live
<1>. QED BY <1>3, <1>4 DEF TransferInv

LEMMA NextTransfer == TransferInv /\ [Next]_vars => TransferInv'
<1>. SUFFICES ASSUME TransferInv, [Next]_vars PROVE TransferInv'
  OBVIOUS
<1>1. CASE AskAny
  <2>1. PICK m \in Requests \ {"LOGIN"}, n \in 0..MaxSize, same \in BOOLEAN : Ask(m, n, same)
    BY <1>1 DEF AskAny
  <2>. QED BY <2>1, AskStep
<1>2. CASE IoThread
  <2>1. CASE Connect \/ ReadHeader \/ ReadThrows
    BY <2>1, ConnectStep, ReadHeaderStep, ReadThrowsStep
  <2>2. CASE Told \/ PutRefused \/ GetRefused
    BY <2>2, RefusedStep
  <2>3. CASE ListRefused
    <3>1. client' = Done \/ client' = Dropped
      BY <2>3 DEF ListRefused
    <3>. QED BY <2>3, <3>1, RefusedStep, GivenUpStep
  <2>4. CASE PutOpen \/ SendSome \/ SendThrows \/ SendEnd \/ PutAnswered
    BY <2>4, PutOpenStep, SendSomeStep, GivenUpStep, SendEndStep, PutAnsweredStep
  <2>5. CASE GetOpen \/ Fetch \/ ListOpen \/ ListRead
    BY <2>5, GetOpenStep, FetchStep, ListOpenStep, ListReadStep
  <2>6. CASE FetchEnd \/ ListEnd \/ ListThrows
    BY <2>6, BodyEndStep
  <2>. QED BY <1>2, <2>1, <2>2, <2>3, <2>4, <2>5, <2>6 DEF IoThread
<1>3. CASE Handler
  BY <1>3, ReadRequestStep, RespondStep, ReceiveStep, VerifyStep, SendStep, SendDoneStep, HangUpStep
     DEF Handler
<1>4. CASE Break
  BY <1>4, BreakStep
<1>5. CASE UNCHANGED vars
  <2>1. UNCHANGED <<toServer, toClient, linked, client, session>>
    BY <1>5 DEF vars
  <2>2. /\ LineUp(toServer') /\ LineDown(toClient') /\ linked' \in BOOLEAN
        /\ client' \in ClientRecord /\ session' \in SessionRecord /\ Prepared(session')
        /\ Engaged(client')
    BY <2>1, Now
  <2>3. Linked' /\ ~client'.astray => Talk(toServer', toClient', client', session')
    BY <2>1, Now DEF Linked
  <2>. QED BY <2>2, <2>3, Then
<1>. QED BY <1>1, <1>2, <1>3, <1>4, <1>5 DEF Next

\* Where the two ends of a connection and the two streams can stand together, through
\* every request, refusal, broken connection and failure to open or close a file
\* (client.cpp:82-237, session.cpp:25-99): TransferInv.
THEOREM TransferInvariance == Spec => []TransferInv
<1>1. Init => TransferInv
  BY InitTransfer
<1>2. TransferInv /\ [Next]_vars => TransferInv'
  BY NextTransfer
<1>. QED BY <1>1, <1>2, PTL DEF Spec

\* The types of the variables, whatever lengths the other end announces.
THEOREM TransferTypeCorrect == Spec => []TypeOK
<1>1. TransferInv => TypeOK
  BY DEF TransferInv
<1>. QED BY <1>1, TransferInvariance, PTL

\* Between two requests nothing is left in either stream (client.cpp:82-237,
\* session.cpp:25-43), for every size of the buffers, of the network, of an int and
\* of the files.
THEOREM InStepHolds == Spec => []InStep
<1>1. TransferInv => InStep
  <2>. SUFFICES ASSUME TransferInv, Joined, client.pc = "idle", ~client.astray
                PROVE  /\ toServer = <<>> /\ toClient = <<>>
                       /\ session.pc = "read" \/ (session.pc = "send" /\ session.left <= 0)
    BY DEF InStep
  <2>1. Talk(toServer, toClient, client, session)
    BY DEF TransferInv
  <2>. QED BY <2>1 DEF Talk, AtRest
<1>. QED BY <1>1, TransferInvariance, PTL

\* What one end has yet to read is under way or what the other has yet to write
\* (session.cpp:57-73 and client.cpp:268-278, session.cpp:481-497 and
\* client.cpp:363-378), for a length that an int cannot hold too.
THEOREM SameCountHolds == Spec => []SameCount
<1>1. TransferInv => SameCount
  <2>. SUFFICES ASSUME TransferInv, Joined, ~client.astray
                PROVE  /\ session.pc = "recv" => Yet(session.left) = Len(toServer) + ToWrite(client)
                       /\ client.pc \in {"fetch", "list"} =>
                            Yet(client.left) = Len(toClient) +
                              IF session.pc = "send" THEN Yet(session.left) ELSE 0
    BY DEF SameCount, ToWrite
  <2>1. Linked
    BY DEF Joined, Live, Heard, Linked
  <2>2. ASSUME session.pc = "recv"
        PROVE  Yet(session.left) = Len(toServer) + ToWrite(client)
    <3>1. Talk(toServer, toClient, client, session) /\ client \in ClientRecord /\ client.pc # "dead"
      BY <2>1, Now DEF Linked, Engaged
    <3>2. ASSUME NEW v, Uploading(toServer, client, session, v)
          PROVE  Yet(session.left) = Len(toServer) + ToWrite(client)
      BY <2>2, <3>2 DEF Uploading
    <3>3. ASSUME NEW a, NEW v, After(toServer, client, session, a, v)
          PROVE  Yet(session.left) = Len(toServer) + ToWrite(client)
      BY <2>2, <3>2, <3>3 DEF After
    <3>4. CASE client.pc = "wait"
      BY <2>2, <3>1, <3>3, <3>4 DEF Talk, Waiting, AtRest
    <3>5. CASE client.pc = "answer"
      <4>1. After(toServer, client, session, client.ans, client.buf \o toClient)
        BY <3>1, <3>5 DEF Talk
      <4>. QED BY <3>3, <4>1
    <3>6. CASE client.pc = "send"
      <4>1. Uploading(toServer, client, session, client.buf \o toClient)
        BY <3>1, <3>6 DEF Talk
      <4>. QED BY <3>2, <4>1
    <3>7. CASE client.pc = "wait2"
      <4>1. Uploading(toServer, client, session, toClient)
        BY <2>2, <3>1, <3>7 DEF Talk, Unheard
      <4>. QED BY <3>2, <4>1
    <3>8. client.pc \notin {"idle", "answer2", "fetch", "list"}
      BY <2>2, <3>1 DEF Talk, AtRest, Downloading
    <3>. QED BY <3>1, <3>4, <3>5, <3>6, <3>7, <3>8 DEF ClientRecord
  <2>3. ASSUME client.pc \in {"fetch", "list"}
        PROVE  Yet(client.left) = Len(toClient) + IF session.pc = "send" THEN Yet(session.left) ELSE 0
    <3>1. client.left = Len(toClient) + Owed(session)
      BY <2>1, <2>3, Now DEF Talk, Downloading
    <3>2. Len(toClient) \in Nat /\ Owed(session) \in Nat
      BY Now, OwedFacts DEF LineDown
    <3>3. Owed(session) = IF session.pc = "send" THEN Yet(session.left) ELSE 0
      BY <3>2 DEF Owed, Yet
    <3>4. Yet(client.left) = client.left
      BY <3>1, <3>2, YetFacts
    <3>. QED BY <3>1, <3>3, <3>4
  <2>. QED BY <2>2, <2>3
<1>. QED BY <1>1, TransferInvariance, PTL

\* Neither end waits for the other for ever but for the two reasons (client.cpp:22,
\* session.cpp:78).
THEOREM WaitsHolds == Spec => []WaitsForAReason
<1>1. TransferInv => WaitsForAReason
  <2>. SUFFICES ASSUME TransferInv, Joined, client.pc \in {"wait", "wait2"}, session.pc = "read",
                       toServer = <<>>, toClient = <<>>, ~client.astray
                PROVE  client.pc = "wait2" /\ (session.silent \/ (client.lost /\ ToInt(client.size) <= 0))
    BY DEF WaitsForAReason, BothWait
  <2>1. Talk(toServer, toClient, client, session)
    BY DEF TransferInv
  <2>2. client.pc # "wait"
    BY <2>1 DEF Talk, Waiting
  <2>3. Len(toClient) = 0
    OBVIOUS
  <2>. QED BY <2>1, <2>2, <2>3 DEF Talk, Uploading, Unheard
<1>. QED BY <1>1, TransferInvariance, PTL

-----------------------------------------------------------------------------
(* What the blocks are                                                     *)

LEMMA NowWhole ==
  ASSUME WholeInv, client.connected, ~client.astray
  PROVE  /\ Poised(session) /\ Stands(toClient, client, session)
         /\ Begun(toClient, client) => Fed(toServer, client, session)
         /\ linked /\ session.pc # "gone" => Supplies(toClient, client, session)
BY DEF WholeInv, Live

LEMMA ThenWhole ==
  ASSUME Poised(session'),
         client'.connected /\ ~client'.astray =>
           /\ Stands(toClient', client', session')
           /\ Begun(toClient', client') => Fed(toServer', client', session')
           /\ linked' /\ session'.pc # "gone" => Supplies(toClient', client', session')
  PROVE  WholeInv'
BY DEF WholeInv, Live, Poised, Stands, Begun, Fed, Supplies, Behind, Tells, Bodied, Brought, Numbered,
       Paced, Sent, Carries, Announced, AllData

\* A client that is not downloading has a session with nothing to supply.
LEMMA NoSupplies ==
  ASSUME NEW u, NEW d, NEW c, NEW s, Talk(u, d, c, s), c.pc \in {"idle", "send", "wait2", "answer2"}
  PROVE  Supplies(d, c, s)
<1>1. CASE c.pc = "idle"
  BY <1>1 DEF Talk, AtRest, Supplies
<1>2. ASSUME NEW v, Uploading(u, c, s, v) PROVE Supplies(d, c, s)
  BY <1>2 DEF Uploading, Supplies
<1>3. CASE c.pc = "send"
  <2>1. Uploading(u, c, s, c.buf \o d)
    BY <1>3 DEF Talk
  <2>. QED BY <1>2, <2>1
<1>4. CASE c.pc = "wait2"
  BY <1>2, <1>4 DEF Talk, Unheard, Supplies
<1>5. CASE c.pc = "answer2"
  BY <1>5 DEF Talk, Supplies
<1>. QED BY <1>1, <1>3, <1>4, <1>5

\* A step of the client, which leaves the network and the session as they are.
LEMMA ClientWhole ==
  ASSUME WholeInv, TransferInv', UNCHANGED <<linked, session>>,
         client'.connected /\ ~client'.astray =>
           /\ Stands(toClient', client', session)
           /\ Begun(toClient', client') => Fed(toServer', client', session)
           /\ \/ client'.pc \in {"idle", "send", "wait2", "answer2"}
              \/ linked /\ session.pc # "gone" => Supplies(toClient', client', session)
  PROVE  WholeInv'
<1>1. Poised(session')
  BY DEF WholeInv, Poised
<1>2. ASSUME client'.connected, ~client'.astray
      PROVE  /\ Stands(toClient', client', session')
             /\ Begun(toClient', client') => Fed(toServer', client', session')
  BY <1>2
<1>3. ASSUME client'.connected, ~client'.astray, linked', session'.pc # "gone"
      PROVE  Supplies(toClient', client', session')
  <2>1. Talk(toServer', toClient', client', session')
    BY <1>3 DEF TransferInv, Joined, Live, Heard, Talk, Waiting, After, Uploading, Downloading, Unheard,
                AtRest, Decided, Plain, Bodied, Owed, ToWrite, Verdict, AllData
  <2>. QED BY <1>3, <2>1, NoSupplies
<1>. QED BY <1>1, <1>2, <1>3, ThenWhole

\* The client gives up the connection.
LEMMA DroppedWhole ==
  ASSUME WholeInv, TransferInv', UNCHANGED <<linked, session>>, ~client'.connected
  PROVE  WholeInv'
BY ClientWhole

\* The client is done with a request, and nothing more comes.
LEMMA DoneWhole ==
  ASSUME WholeInv, TransferInv', UNCHANGED <<toClient, linked, session>>, client'.pc = "idle",
         client'.connected /\ ~client'.astray => toClient = <<>>
  PROVE  WholeInv'
<1>1. client'.connected /\ ~client'.astray => Stands(toClient', client', session)
  BY DEF Stands
<1>2. ~Begun(toClient', client')
  BY DEF Begun
<1>. QED BY <1>1, <1>2, ClientWhole

\* What a client that begins a request knows of it.
LEMMA FirstFacts ==
  ASSUME NEW c \in ClientRecord, NEW l \in {"wait", "wait2"}
  PROVE  LET a == Awaiting(c, l)
         IN /\ a.pos = c.pos /\ a.short = c.short /\ a.left = c.left /\ a.same = c.same
            /\ a.got = c.got
BY DEF Awaiting, ClientRecord

LEMMA ConnectWhole ==
  ASSUME TransferInv, TransferInv', WholeInv, Connect
  PROVE  WholeInv'
<1> DEFINE c == [Unconnected EXCEPT !.connected = TRUE]
<1>1. client' = Awaiting(c, "wait") /\ toClient' = <<>> /\ session' = Fresh
  BY DEF Connect
<1>2. c \in ClientRecord /\ c.pos = 0 /\ c.short = FALSE
  <2>1. c \in ClientRecord
    BY Consts DEF ClientRecord
  <2>2. c.pos = 0 /\ c.short = FALSE
    BY DEF Unconnected
  <2>. QED BY <2>1, <2>2
<1>. HIDE DEF c
<1>3. client'.pc = "wait" /\ client'.pos = 0 /\ client'.short = FALSE
  BY <1>1, <1>2, AwaitingFacts, FirstFacts
<1>4. session'.pc = "read"
  BY <1>1, Consts
<1>5. Stands(toClient', client', session') /\ ~Begun(toClient', client') /\ Poised(session')
      /\ Supplies(toClient', client', session')
  BY <1>1, <1>3, <1>4 DEF Stands, Begun, Poised, Supplies
<1>. QED BY <1>5, ThenWhole

LEMMA AskWhole ==
  ASSUME TransferInv, TransferInv', WholeInv, NEW m \in Requests, NEW n \in 0..MaxSize, NEW same \in BOOLEAN,
         Ask(m, n, same)
  PROVE  WholeInv'
<1> DEFINE c == [Done EXCEPT !.method = m, !.size = n, !.same = same]
<1>1. /\ client' = Awaiting(c, "wait") /\ UNCHANGED <<toClient, linked, session>>
      /\ client.pc = "idle" /\ client.connected
  BY DEF Ask
<1>2. c \in ClientRecord /\ c.pos = 0 /\ c.short = FALSE /\ c.astray = client.astray
  <2>1. n \in Nat
    BY TransferAssumption DEF TransferAssumption
  <2>2. Done \in ClientRecord /\ Done.astray = client.astray
    BY Now, DoneFacts
  <2>3. Done.pos = 0 /\ Done.short = FALSE
    BY DEF Done, Unconnected
  <2>. QED BY <2>1, <2>2, <2>3 DEF ClientRecord
<1>. HIDE DEF c
<1>3. client'.pc = "wait" /\ client'.pos = 0 /\ client'.short = FALSE /\ client'.astray = client.astray
  BY <1>1, <1>2, AwaitingFacts, FirstFacts
<1>4. ASSUME ~client.astray
      PROVE  /\ Stands(toClient', client', session) /\ ~Begun(toClient', client')
             /\ linked /\ session.pc # "gone" => Supplies(toClient', client', session)
  <2>1. toClient' = <<>>
    BY <1>1, <1>4, NowWhole DEF Stands
  <2>2. linked /\ session.pc # "gone" => AtRest(session)
    BY <1>1, <1>4, Now DEF Linked, Talk
  <2>. QED BY <1>3, <2>1, <2>2 DEF Stands, Begun, Supplies, AtRest
<1>. QED BY <1>1, <1>3, <1>4, ClientWhole

\* An answer that was read is the one that was under way.
LEMMA ReadHeaderWhole ==
  ASSUME TransferInv, TransferInv', WholeInv, ReadHeader
  PROVE  WholeInv'
<1> DEFINE l == IF client.pc = "wait" THEN "answer" ELSE "answer2"
<1>1. PICK k \in Pulls(toClient) :
        /\ client' = [client EXCEPT !.pc = l, !.ans = Parsed(toClient), !.buf = Residue(toClient, k)]
        /\ toClient' = Rest(toClient, k)
  BY DEF ReadHeader
<1>2. /\ client.pc \in {"wait", "wait2"} /\ Headers(toClient) # {}
      /\ UNCHANGED <<toServer, linked, session>>
      /\ client \in ClientRecord /\ toClient \in Seq(Down)
  BY Now DEF ReadHeader, LineDown
<1>3. /\ k \in 1..Len(toClient) /\ Len(Rest(toClient, k)) = Len(toClient) - k
      /\ Rest(toClient, k) \in Seq(Down) /\ Len(toClient) \in Nat
  BY <1>1, <1>2, PullFacts
<1>4. /\ client'.pc = l /\ client'.connected = client.connected /\ client'.astray = client.astray
      /\ client'.ans = Parsed(toClient) /\ client'.buf = Residue(toClient, k)
      /\ client'.method = client.method /\ client'.size = client.size /\ client'.pos = client.pos
      /\ client'.short = client.short /\ client'.same = client.same /\ client'.left = client.left
  BY <1>1, <1>2 DEF ClientRecord
<1>5. toClient # <<>> /\ Begun(toClient, client)
  BY <1>2, <1>3 DEF Begun
<1>6. ASSUME client'.connected, ~client'.astray, client.pc = "wait"
      PROVE  /\ Stands(toClient', client', session) /\ Fed(toServer', client', session)
             /\ linked /\ session.pc # "gone" => Supplies(toClient', client', session)
  <2>1. /\ toClient[1].kind # "data" /\ Behind(client, session, toClient[1], Tail(toClient))
        /\ client.pos = 0 /\ ~client.short /\ Fed(toServer, client, session)
        /\ linked /\ session.pc # "gone" => Supplies(toClient, client, session)
    BY <1>4, <1>5, <1>6, NowWhole DEF Stands
  <2>2. Parsed(toClient) = toClient[1] /\ Residue(toClient, k) \o Rest(toClient, k) = Tail(toClient)
    BY <1>1, <1>2, <1>5, <2>1, LedFacts
  <2>3. client'.pc = "answer" /\ client'.ans = toClient[1] /\ client'.buf \o toClient' = Tail(toClient)
    BY <1>1, <1>4, <1>6, <2>2
  <2>4. Behind(client', session, client'.ans, client'.buf \o toClient')
    BY <1>4, <2>1, <2>3 DEF Behind, Bodied
  <2>5. Stands(toClient', client', session)
    BY <1>4, <2>1, <2>3, <2>4 DEF Stands
  <2>6. Fed(toServer', client', session)
    BY <1>2, <1>4, <1>6, <2>1, <2>3 DEF Fed, Carries, Sent
  <2>7. linked /\ session.pc # "gone" => Supplies(toClient', client', session)
    BY <1>4, <1>6, <2>1, <2>3 DEF Supplies, Announced
  <2>. QED BY <2>5, <2>6, <2>7
<1>7. ASSUME client'.connected, ~client'.astray, client.pc = "wait2"
      PROVE  client'.pc = "answer2" /\ Stands(toClient', client', session) /\ Fed(toServer', client', session)
  <2>1. Tells(session, toClient) /\ Fed(toServer, client, session)
    BY <1>4, <1>5, <1>7, NowWhole DEF Stands
  <2>2. Len(toClient) = 1 /\ session.pc # "recv"
    BY <1>5, <2>1 DEF Tells
  <2>3. toClient' = <<>>
    BY <1>1, <1>3, <2>2
  <2>4. client'.pc = "answer2"
    BY <1>4, <1>7
  <2>. QED BY <1>2, <2>1, <2>2, <2>3, <2>4 DEF Stands, Fed
<1>. QED BY <1>2, <1>6, <1>7, ClientWhole

\* What a client that looks at an answer knows, whether the connection holds or not.
LEMMA AnswerWhole ==
  ASSUME TransferInv, WholeInv, client.pc = "answer", client.connected, ~client.astray
  PROVE  /\ Behind(client, session, client.ans, client.buf \o toClient)
         /\ client.pos = 0 /\ ~client.short /\ Fed(toServer, client, session)
         /\ client.buf \in Seq(Block) /\ toClient \in Seq(Block) /\ client.buf \o toClient \in Seq(Block)
         /\ client.buf \o toClient = <<>> => toClient = <<>>
         /\ linked /\ session.pc # "gone" => Supplies(toClient, client, session)
<1>1. Stands(toClient, client, session) /\ Fed(toServer, client, session)
  BY NowWhole DEF Begun
<1>2. client.buf \in Seq(Block) /\ toClient \in Seq(Block)
  BY Now, Blocks DEF ClientRecord, LineDown
<1>3. client.buf \o toClient \in Seq(Block) /\ (client.buf \o toClient = <<>> => toClient = <<>>)
  BY <1>2, ConcatEqualIffEmpty
<1>. QED BY <1>1, <1>2, <1>3, NowWhole DEF Stands

LEMMA RefusedWhole ==
  ASSUME TransferInv, TransferInv', WholeInv,
         Told \/ PutRefused \/ GetRefused \/ (ListRefused /\ client' = Done)
  PROVE  WholeInv'
<1>1. /\ client.pc = "answer" /\ UNCHANGED <<toServer, toClient, linked, session>> /\ client' = Done
      /\ \/ client.method \in {"LOGIN", "DELETE"}
         \/ client.method = "PUT" /\ client.ans.kind # "OK"
         \/ client.method = "GET" /\ client.ans.kind # "LENGTH"
         \/ client.method = "SNAPSHOT" /\ client.ans.kind # "LIST"
  BY DEF Told, PutRefused, GetRefused, ListRefused, Answered
<1>2. client.connected /\ client'.pc = "idle" /\ client'.astray = client.astray
  BY <1>1, Now, DoneFacts DEF Engaged
<1>3. ASSUME ~client.astray PROVE toClient = <<>>
  <2>1. Behind(client, session, client.ans, client.buf \o toClient)
    BY <1>1, <1>2, <1>3, AnswerWhole
  <2>2. client.buf \o toClient = <<>>
    BY <1>1, <2>1 DEF Behind, Bodied
  <2>. QED BY <1>1, <1>2, <1>3, <2>2, AnswerWhole
<1>. QED BY <1>1, <1>2, <1>3, DoneWhole

LEMMA PutOpenWhole ==
  ASSUME TransferInv, TransferInv', WholeInv, PutOpen
  PROVE  WholeInv'
<1> DEFINE e == [client EXCEPT !.pc = "send", !.left = ToInt(client.size)]
<1>1. /\ client.pc = "answer" /\ client.method = "PUT" /\ client.ans.kind = "OK"
      /\ UNCHANGED <<toServer, toClient, linked, session>>
      /\ client' = e \/ client' = Dropped
  BY DEF PutOpen, Answered
<1>2. CASE client' = Dropped
  BY <1>1, <1>2, DroppedWhole, Consts DEF Dropped
<1>3. CASE client' = e
  <2>1. client \in ClientRecord /\ client.size \in Nat /\ ToInt(client.size) \in Int
    BY Now, ToIntFacts DEF ClientRecord
  <2>2. /\ client'.pc = "send" /\ client'.left = ToInt(client.size)
        /\ client'.method = "PUT" /\ client'.buf = client.buf /\ client'.size = client.size
        /\ client'.connected = client.connected /\ client'.astray = client.astray
        /\ client'.pos = client.pos /\ client'.short = client.short /\ client'.same = client.same
    BY <1>1, <1>3, <2>1 DEF ClientRecord
  <2>3. ASSUME client'.connected, ~client'.astray
        PROVE  Stands(toClient', client', session) /\ Fed(toServer', client', session)
    <3>1. /\ Behind(client, session, client.ans, client.buf \o toClient)
          /\ client.pos = 0 /\ ~client.short /\ Fed(toServer, client, session)
      BY <1>1, <2>2, <2>3, AnswerWhole
    <3>2. Tells(session, client'.buf \o toClient')
      BY <1>1, <2>2, <3>1 DEF Behind, Tells
    <3>3. Sent(client') = 0 /\ Sent(client) = 0
      BY <1>1, <2>1, <2>2 DEF Sent
    <3>4. Paced(client')
      BY <2>1, <2>2, <3>1, <3>3, YetFacts DEF Paced
    <3>5. Fed(toServer', client', session)
      BY <1>1, <2>2, <3>1, <3>3 DEF Fed, Carries
    <3>. QED BY <2>2, <3>2, <3>4, <3>5 DEF Stands
  <2>. QED BY <1>1, <2>2, <2>3, ClientWhole
<1>. QED BY <1>1, <1>2, <1>3

LEMMA SendEndWhole ==
  ASSUME TransferInv, TransferInv', WholeInv, SendEnd
  PROVE  WholeInv'
<1>1. /\ client.pc = "send" /\ client' = Awaiting(client, "wait2")
      /\ UNCHANGED <<toServer, toClient, linked, session>>
  BY DEF SendEnd
<1>2. client \in ClientRecord /\ client.buf \in Seq(Block) /\ toClient \in Seq(Block)
  BY Now, Blocks DEF ClientRecord, LineDown
<1>3. /\ client'.pc = "wait2" /\ client'.connected = client.connected
      /\ client'.method = client.method /\ client'.size = client.size
      /\ client'.astray = client.astray /\ client'.left = client.left /\ client'.same = client.same
      /\ client'.pos = client.pos /\ client'.short = client.short
  BY <1>1, <1>2, AwaitingFacts, FirstFacts
<1>4. ASSUME client'.connected, ~client'.astray
      PROVE  Stands(toClient', client', session) /\ Fed(toServer', client', session)
  <2>1. /\ client.method = "PUT" /\ Tells(session, client.buf \o toClient) /\ Paced(client)
        /\ Fed(toServer, client, session)
    BY <1>1, <1>3, <1>4, NowWhole DEF Stands, Begun
  <2>2. Tells(session, toClient)
    <3>. SUFFICES ASSUME toClient # <<>> PROVE Len(toClient) = 1 /\ session.pc # "recv"
      BY DEF Tells
    <3>1. client.buf \o toClient # <<>>
      BY <1>2, ConcatEqualIffEmpty
    <3>2. Len(client.buf \o toClient) = 1 /\ session.pc # "recv"
      BY <2>1, <3>1 DEF Tells
    <3>3. /\ Len(client.buf \o toClient) = Len(client.buf) + Len(toClient)
          /\ Len(client.buf) \in Nat /\ Len(toClient) \in Nat \ {0}
      BY <1>2
    <3>4. Len(toClient) + Len(client.buf) = 1
      BY <3>2, <3>3
    <3>5. Len(toClient) = 1
      BY <3>3, <3>4, SumIsOne
    <3>. QED BY <3>2, <3>5
  <2>3. Sent(client') = Sent(client)
    BY <1>1, <1>3 DEF Sent
  <2>4. Paced(client')
    BY <1>3, <2>1, <2>3 DEF Paced
  <2>5. Fed(toServer', client', session)
    BY <1>1, <1>3, <2>1, <2>3 DEF Fed, Carries
  <2>. QED BY <1>1, <1>3, <2>1, <2>2, <2>4, <2>5 DEF Stands
<1>. QED BY <1>1, <1>3, <1>4, ClientWhole

LEMMA PutAnsweredWhole ==
  ASSUME TransferInv, TransferInv', WholeInv, PutAnswered
  PROVE  WholeInv'
<1>1. /\ client.pc = "answer2" /\ UNCHANGED <<toServer, toClient, linked, session>> /\ client' = Done
  BY DEF PutAnswered
<1>2. client.connected /\ client'.pc = "idle" /\ client'.astray = client.astray
  BY <1>1, Now, DoneFacts DEF Engaged
<1>3. ~client.astray => toClient = <<>>
  BY <1>1, <1>2, NowWhole DEF Stands
<1>. QED BY <1>1, <1>2, <1>3, DoneWhole

\* What comes behind an announced length is the body from its first block on.
LEMMA BodyWhole ==
  ASSUME TransferInv, WholeInv, client.pc = "answer", client.connected, ~client.astray,
         client.ans.kind \in {"LENGTH", "LIST"}
  PROVE  /\ Bodied(client, client.ans) /\ ToInt(client.ans.n) = client.ans.n
         /\ Len(client.buf) + Len(toClient) <= client.ans.n
         /\ Numbered(client.buf, 0) /\ Numbered(toClient, Len(client.buf))
<1> DEFINE v == client.buf \o toClient
<1>1. Bodied(client, client.ans) /\ client.ans.n <= MaxInt /\ Len(v) <= client.ans.n /\ Numbered(v, 0)
  BY AnswerWhole DEF Behind
<1>2. client.ans.n \in Nat /\ client.buf \in Seq(Block) /\ toClient \in Seq(Block)
  BY Now, AnswerWhole DEF ClientRecord, Response
<1>3. Len(v) = Len(client.buf) + Len(toClient) /\ Len(client.buf) \in Nat /\ Len(toClient) \in Nat
  BY <1>2
<1>4. Numbered(client.buf, 0)
  <2>. SUFFICES ASSUME NEW i \in 1..Len(client.buf) PROVE client.buf[i] = Data(0 + i)
    BY DEF Numbered
  <2>1. v[i] = client.buf[i] /\ i \in 1..Len(v)
    BY <1>2, <1>3
  <2>. QED BY <1>1, <2>1 DEF Numbered
<1>5. Numbered(toClient, Len(client.buf))
  <2>. SUFFICES ASSUME NEW i \in 1..Len(toClient) PROVE toClient[i] = Data(Len(client.buf) + i)
    BY DEF Numbered
  <2> DEFINE j == Len(client.buf) + i
  <2>1. v[j] = toClient[i] /\ j \in 1..Len(v) /\ 0 + j = j
    BY <1>2, <1>3
  <2>2. v[j] = Data(0 + j)
    BY <1>1, <2>1 DEF Numbered
  <2>. QED BY <2>1, <2>2
<1>6. ToInt(client.ans.n) = client.ans.n
  BY <1>1, <1>2, ToIntFacts
<1>. QED BY <1>1, <1>3, <1>4, <1>5, <1>6

LEMMA StartedWhole ==
  ASSUME TransferInv, TransferInv', WholeInv, UNCHANGED <<toServer, toClient, linked, session>>,
         client.pc = "answer", client.ans.kind \in {"LENGTH", "LIST"}, client.method # "PUT",
         NEW l \in {"fetch", "list"}, client' = Started(l)
  PROVE  WholeInv'
<1>1. /\ client'.pc = l /\ client'.connected = client.connected
      /\ client'.astray = client.astray /\ client'.left = ToInt(client.ans.n) - Len(client.buf)
  BY StartedFacts
<1>2. client'.got = client.buf /\ client'.size = client.ans.n /\ client'.method = client.method
  BY Now DEF Started, ClientRecord
<1>3. ASSUME client'.connected, ~client'.astray
      PROVE  /\ Stands(toClient', client', session) /\ Fed(toServer', client', session)
             /\ linked /\ session.pc # "gone" => Supplies(toClient', client', session)
  <2>1. /\ ToInt(client.ans.n) = client.ans.n /\ Len(client.buf) + Len(toClient) <= client.ans.n
        /\ Numbered(client.buf, 0) /\ Numbered(toClient, Len(client.buf))
    BY <1>1, <1>3, BodyWhole
  <2>2. client.ans.n \in Nat /\ Len(client.buf) \in Nat /\ Len(toClient) \in Nat
    BY Now DEF ClientRecord, Response, LineDown
  <2>3. client'.size - client'.left = Len(client.buf) /\ client'.left = client.ans.n - Len(client.buf)
    BY <1>1, <1>2, <2>1, <2>2
  <2>4. Brought(toClient', client')
    <3>1. Len(toClient) <= client'.left /\ client'.left <= client'.size
      BY <1>2, <2>1, <2>2, <2>3
    <3>2. \A i \in 1..Len(client.buf) : client.buf[i] = Data(i)
      BY <2>1, <2>2 DEF Numbered
    <3>3. Numbered(toClient', client'.size - client'.left)
      BY <2>1, <2>3
    <3>4. Len(client'.got) = client'.size - client'.left /\ Len(client'.got) >= client'.size - client'.left
      BY <1>2, <2>2, <2>3
    <3>5. \A i \in 1..client'.size - client'.left : client'.got[i] = Data(i)
      BY <1>2, <2>3, <3>2
    <3>. QED BY <3>1, <3>3, <3>4, <3>5 DEF Brought
  <2>5. Stands(toClient', client', session)
    BY <1>1, <2>4 DEF Stands
  <2>6. Fed(toServer', client', session)
    BY <1>1, <1>3, AnswerWhole DEF Fed
  <2>7. linked /\ session.pc # "gone" => Supplies(toClient', client', session)
    <3>1. linked /\ session.pc # "gone" => Supplies(toClient, client, session)
      BY <1>1, <1>3, AnswerWhole
    <3>2. Fed(toServer, client, session)
      BY <1>1, <1>3, AnswerWhole
    <3>. QED BY <1>1, <1>2, <3>1, <3>2 DEF Supplies, Announced, Fed
  <2>. QED BY <2>5, <2>6, <2>7
<1>. QED BY <1>3, ClientWhole

LEMMA GetOpenWhole ==
  ASSUME TransferInv, TransferInv', WholeInv, GetOpen
  PROVE  WholeInv'
<1> DEFINE t == client.astray \/ Started("idle").left > 0
<1>1. /\ client.pc = "answer" /\ client.method = "GET" /\ client.ans.kind = "LENGTH"
      /\ UNCHANGED <<toServer, toClient, linked, session>>
      /\ client' = Started("fetch") \/ client' = [Done EXCEPT !.astray = @ \/ Started("idle").left > 0]
  BY DEF GetOpen, Answered
<1>2. CASE client' = Started("fetch")
  BY <1>1, <1>2, StartedWhole
<1>3. CASE client' = [Done EXCEPT !.astray = @ \/ Started("idle").left > 0]
  <2>1. client'.pc = "idle" /\ client'.astray = t
    BY <1>3, Now, DoneFacts DEF ClientRecord
  <2>2. client.connected
    BY <1>1, Now DEF Engaged
  <2>3. ASSUME ~t PROVE toClient = <<>>
    <3>1. ~client.astray /\ ~(Started("idle").left > 0)
      BY <2>3
    <3>2. /\ ToInt(client.ans.n) = client.ans.n /\ Len(client.buf) + Len(toClient) <= client.ans.n
      BY <1>1, <2>2, <3>1, BodyWhole
    <3>3. Started("idle").left = ToInt(client.ans.n) - Len(client.buf)
      BY StartedFacts
    <3>4. client.ans.n \in Nat /\ Len(client.buf) \in Nat /\ Len(toClient) \in Nat /\ toClient \in Seq(Down)
      BY Now DEF ClientRecord, Response, LineDown
    <3>5. Len(toClient) = 0
      BY <3>1, <3>2, <3>3, <3>4
    <3>. QED BY <3>4, <3>5
  <2>. HIDE DEF t
  <2>. QED BY <1>1, <2>1, <2>3, DoneWhole
<1>. QED BY <1>1, <1>2, <1>3

LEMMA ListOpenWhole ==
  ASSUME TransferInv, TransferInv', WholeInv, ListOpen
  PROVE  WholeInv'
<1>1. /\ client.pc = "answer" /\ client.method = "SNAPSHOT" /\ client.ans.kind = "LIST"
      /\ client' = Started("list") /\ UNCHANGED <<toServer, toClient, linked, session>>
  BY DEF ListOpen, Answered
<1>. QED BY <1>1, StartedWhole

LEMMA BodyEndWhole ==
  ASSUME TransferInv, TransferInv', WholeInv, FetchEnd \/ ListEnd \/ ListThrows
  PROVE  WholeInv'
<1>1. /\ client.pc \in {"fetch", "list"} /\ UNCHANGED <<toServer, toClient, linked, session>>
      /\ client' = Done /\ (client.left <= 0 \/ toClient = <<>>)
  BY DEF FetchEnd, ListEnd, ListThrows
<1>2. client.connected /\ client'.pc = "idle" /\ client'.astray = client.astray
  BY <1>1, Now, DoneFacts DEF Engaged
<1>3. ASSUME ~client.astray PROVE toClient = <<>>
  <2>1. Len(toClient) <= client.left
    BY <1>1, <1>2, <1>3, NowWhole DEF Stands, Brought
  <2>2. toClient \in Seq(Down) /\ Len(toClient) \in Nat /\ client.left \in Int
    BY Now DEF LineDown, ClientRecord
  <2>3. client.left <= 0 => Len(toClient) = 0
    BY <2>1, <2>2
  <2>. QED BY <1>1, <2>2, <2>3
<1>. QED BY <1>1, <1>2, <1>3, DoneWhole

\* Two lines, place by place.
LEMMA JoinFacts ==
  ASSUME NEW T, NEW p \in Seq(T), NEW q \in Seq(T)
  PROVE  /\ p \o q \in Seq(T) /\ Len(p) \in Nat /\ Len(q) \in Nat /\ Len(p \o q) = Len(p) + Len(q)
         /\ \A i \in 1..Len(p) : (p \o q)[i] = p[i]
         /\ \A i \in 1..Len(q) : (p \o q)[Len(p) + i] = q[i]
OBVIOUS

\* One read of a body: the blocks go on where they ended, and what a full buffer adds to the
\* lines of a list comes behind the last of them.
LEMMA BroughtOn ==
  ASSUME NEW c \in ClientRecord, NEW d \in Seq(Block), NEW r \in 1..Len(d), NEW stray \in Seq(Block),
         Brought(d, c), c.left > 0,
         stray = <<>> \/ (c.pc = "list" /\ r = c.left),
         NEW e, e.pc = c.pc, e.size = c.size, e.left = c.left - r,
         e.got = c.got \o SubSeq(d, 1, r) \o stray
  PROVE  Brought(Rest(d, r), e)
<1> DEFINE x == SubSeq(d, 1, r)
           y == Rest(d, r)
           n == c.size - c.left
<1>1. /\ c.left \in Int /\ c.size \in Nat /\ c.got \in Seq(Block) /\ Len(c.got) \in Nat
      /\ Len(d) \in Nat /\ r \in Nat /\ r >= 1 /\ r <= Len(d) /\ Len(stray) \in Nat
  BY DEF ClientRecord
<1>2. Len(d) <= c.left /\ c.left <= c.size /\ n \in Nat /\ Len(c.got) = n
  BY <1>1 DEF Brought
<1>3. /\ \A i \in 1..Len(d) : d[i] = Data(n + i)
      /\ \A i \in 1..n : c.got[i] = Data(i)
  BY DEF Brought, Numbered
<1>4. x \in Seq(Block) /\ Len(x) = r /\ y \in Seq(Block) /\ Len(y) = Len(d) - r
  BY <1>1 DEF Rest
<1>5. /\ \A i \in 1..r : x[i] = d[i]
      /\ \A i \in 1..Len(d) - r : y[i] = d[r + i]
  BY <1>1 DEF Rest
<1>. HIDE DEF x, y
<1>6. e.size - e.left = n + r /\ e.left \in Int /\ Len(y) <= e.left /\ e.left <= e.size
  <2>1. e.size = c.size /\ e.left = c.left - r
    OBVIOUS
  <2>2. e.left \in Int /\ e.size - e.left = n + r
    BY <1>1, <2>1
  <2>3. Len(y) <= e.left /\ e.left <= e.size
    BY <1>1, <1>2, <1>4, <2>1
  <2>. QED BY <2>2, <2>3
<1>. HIDE DEF n
<1> DEFINE g == c.got \o x
<1>7. g \in Seq(Block) /\ Len(g) = n + r
  BY <1>1, <1>2, <1>4, JoinFacts
<1>8. \A i \in 1..n : g[i] = Data(i)
  <2>1. \A i \in 1..Len(c.got) : g[i] = c.got[i]
    BY <1>1, <1>4, JoinFacts
  <2>. QED BY <1>2, <1>3, <2>1
<1>9. \A j \in 1..r : g[n + j] = Data(n + j)
  <2>1. \A j \in 1..Len(x) : g[Len(c.got) + j] = x[j]
    BY <1>1, <1>4, JoinFacts
  <2>2. ASSUME NEW j \in 1..r PROVE g[n + j] = Data(n + j)
    <3>1. j \in 1..Len(d)
      BY <1>1
    <3>2. g[n + j] = x[j]
      BY <1>2, <1>4, <2>1
    <3>3. x[j] = d[j] /\ d[j] = Data(n + j)
      BY <1>3, <1>5, <3>1
    <3>. QED BY <3>2, <3>3
  <2>. QED BY <2>2
<1>10. e.got = g \o stray
  BY DEF x
<1>. HIDE DEF g
<1>11. ASSUME NEW i \in 1..n+r PROVE g[i] = Data(i)
  <2>1. CASE i <= n
    <3>1. i \in 1..n
      BY <1>2, <2>1
    <3>. QED BY <1>8, <3>1
  <2>2. CASE i > n
    <3>1. PICK j \in 1..r : i = n + j
      <4>1. i - n \in 1..r /\ i = n + (i - n)
        BY <1>1, <1>2, <2>2
      <4>. QED BY <4>1
    <3>. QED BY <1>9, <3>1
  <2>3. i \in Int /\ n \in Int
    BY <1>1, <1>2
  <2>. QED BY <2>1, <2>2, <2>3
<1>12. Len(g \o stray) = n + r + Len(stray)
  <2>1. Len(g \o stray) = Len(g) + Len(stray)
    BY <1>7, JoinFacts
  <2>. QED BY <1>7, <2>1
<1>13. \A i \in 1..n+r : (g \o stray)[i] = g[i]
  <2>1. \A i \in 1..Len(g) : (g \o stray)[i] = g[i]
    BY <1>7, JoinFacts
  <2>. QED BY <1>7, <2>1
<1>14. \A i \in 1..e.size - e.left : e.got[i] = Data(i)
  <2>. SUFFICES ASSUME NEW i \in 1..n+r PROVE e.got[i] = Data(i)
    BY <1>6
  <2>. QED BY <1>10, <1>11, <1>13
<1>15. Len(e.got) >= e.size - e.left /\ (e.pc = "fetch" \/ e.left > 0 => Len(e.got) = e.size - e.left)
  <2>1. Len(e.got) = n + r + Len(stray)
    BY <1>10, <1>12
  <2>2. e.pc = "fetch" \/ e.left > 0 => Len(stray) = 0
    BY <1>1
  <2>3. n + r \in Nat /\ Len(stray) \in Nat
    BY <1>1, <1>2
  <2>4. Len(e.got) >= n + r /\ (Len(stray) = 0 => Len(e.got) = n + r)
    BY <2>1, <2>3
  <2>. QED BY <1>6, <2>2, <2>4
<1>16. Numbered(y, e.size - e.left)
  <2>. SUFFICES ASSUME NEW i \in 1..Len(y) PROVE y[i] = Data(n + r + i)
    BY <1>6 DEF Numbered
  <2>1. r + i \in 1..Len(d) /\ i \in 1..Len(d) - r /\ n + (r + i) = n + r + i
    BY <1>1, <1>2, <1>4
  <2>2. y[i] = d[r + i] /\ d[r + i] = Data(n + (r + i))
    BY <1>3, <1>5, <2>1
  <2>. QED BY <2>1, <2>2
<1>17. Brought(y, e)
  BY <1>6, <1>14, <1>15, <1>16 DEF Brought
<1>. QED BY <1>17 DEF y

LEMMA TakesWhole ==
  ASSUME TransferInv, TransferInv', WholeInv, client.pc \in {"fetch", "list"}, client.left > 0,
         UNCHANGED <<toServer, linked, session>>,
         NEW r \in 1..Len(toClient), toClient' = Rest(toClient, r),
         NEW stray \in Seq(Block), stray = <<>> \/ (client.pc = "list" /\ r = client.left),
         client' = [client EXCEPT !.left = @ - r, !.got = @ \o SubSeq(toClient, 1, r) \o stray]
  PROVE  WholeInv'
<1>1. client \in ClientRecord /\ toClient \in Seq(Block)
  BY Now, Blocks DEF LineDown
<1>2. /\ client'.pc = client.pc /\ client'.size = client.size /\ client'.left = client.left - r
      /\ client'.got = client.got \o SubSeq(toClient, 1, r) \o stray
      /\ client'.connected = client.connected /\ client'.astray = client.astray
      /\ client'.method = client.method
  BY <1>1 DEF ClientRecord
<1>3. ASSUME client'.connected, ~client'.astray
      PROVE  /\ Stands(toClient', client', session) /\ Fed(toServer', client', session)
             /\ linked /\ session.pc # "gone" => Supplies(toClient', client', session)
  <2>1. /\ Brought(toClient, client) /\ Fed(toServer, client, session)
        /\ linked /\ session.pc # "gone" => Supplies(toClient, client, session)
    BY <1>2, <1>3, NowWhole DEF Stands, Begun
  <2>2. Brought(toClient', client')
    <3>1. PICK e : e = client'
      OBVIOUS
    <3>2. /\ e.pc = client.pc /\ e.size = client.size /\ e.left = client.left - r
          /\ e.got = client.got \o SubSeq(toClient, 1, r) \o stray
      BY <1>2, <3>1
    <3>3. Brought(Rest(toClient, r), e)
      BY <1>1, <2>1, <3>2, BroughtOn
    <3>. QED BY <3>1, <3>3
  <2>3. Stands(toClient', client', session)
    BY <1>2, <2>2 DEF Stands
  <2>4. Fed(toServer', client', session)
    BY <1>2, <2>1 DEF Fed
  <2>. QED BY <1>2, <2>1, <2>3, <2>4 DEF Supplies, Announced
<1>. QED BY <1>3, ClientWhole

LEMMA FetchWhole ==
  ASSUME TransferInv, TransferInv', WholeInv, Fetch
  PROVE  WholeInv'
<1>1. PICK r \in Reading :
        /\ Takes("fetch", Least({client.left, Buff}), r)
        /\ client' = [client EXCEPT !.left = @ - r, !.got = @ \o SubSeq(toClient, 1, r)]
  BY DEF Fetch
<1>2. /\ r \in 1..Len(toClient) /\ client.got \in Seq(Block) /\ toClient \in Seq(Block)
  <2>1. r \in 0..Len(toClient) /\ client.got \in Seq(Block) /\ toClient \in Seq(Block)
    BY ReadingFacts
  <2>2. r >= 1
    BY DEF Reading
  <2>. QED BY <2>1, <2>2
<1>3. SubSeq(toClient, 1, r) \in Seq(Block)
  BY <1>2, TakenFacts
<1> DEFINE none == <<>>
<1>4. none \in Seq(Block) /\ none = <<>>
  OBVIOUS
<1>5. client.got \o SubSeq(toClient, 1, r) \o none = client.got \o SubSeq(toClient, 1, r)
  BY <1>2, <1>3
<1>. HIDE DEF none
<1>6. client' = [client EXCEPT !.left = @ - r, !.got = @ \o SubSeq(toClient, 1, r) \o none]
  BY <1>1, <1>5
<1>7. /\ client.pc = "fetch" /\ client.left > 0 /\ toClient' = Rest(toClient, r)
      /\ UNCHANGED <<toServer, linked, session>>
  BY <1>1 DEF Takes
<1>. QED BY <1>2, <1>4, <1>6, <1>7, TakesWhole

\* A read fills the buffer only when it is the last.
LEMMA ListReadWhole ==
  ASSUME TransferInv, TransferInv', WholeInv, ListRead
  PROVE  WholeInv'
<1>1. PICK r \in Reading : \E stray \in Stray(r) :
        /\ Takes("list", IF client.left > Buff THEN Buff - 1 ELSE client.left, r)
        /\ client' = [client EXCEPT !.left = @ - r, !.got = @ \o SubSeq(toClient, 1, r) \o stray]
  BY DEF ListRead
<1>2. PICK stray \in Stray(r) :
        /\ Takes("list", IF client.left > Buff THEN Buff - 1 ELSE client.left, r)
        /\ client' = [client EXCEPT !.left = @ - r, !.got = @ \o SubSeq(toClient, 1, r) \o stray]
  BY <1>1
<1> DEFINE m == IF client.left > Buff THEN Buff - 1 ELSE client.left
<1>3. /\ client.pc = "list" /\ client.left > 0 /\ toClient' = Rest(toClient, r)
      /\ UNCHANGED <<toServer, linked, session>> /\ r \in 1..Least({m, Len(toClient)})
  BY <1>2 DEF Takes
<1>4. Buff \in Nat /\ Buff >= 2 /\ client.left \in Int /\ Len(toClient) \in Nat
  BY Now, TransferAssumption DEF TransferAssumption, ClientRecord, LineDown
<1>5. m \in Int
  BY <1>4
<1>6. r \in Int /\ 1 <= r /\ r <= m /\ r <= Len(toClient)
  <2>. HIDE DEF m
  <2>1. Least({m, Len(toClient)}) = IF m <= Len(toClient) THEN m ELSE Len(toClient)
    BY <1>4, <1>5, LeastOfTwo
  <2>. QED BY <1>3, <1>4, <1>5, <2>1
<1>7. r \in 1..Len(toClient) /\ (r = Buff => r = client.left)
  BY <1>4, <1>6
<1>8. stray \in Seq(Block)
  <2>1. stray = <<>> \/ stray = <<Garbage>>
    BY DEF Stray
  <2>2. <<>> \in Seq(Block) /\ <<Garbage>> \in Seq(Block)
    BY Blocks
  <2>. QED BY <2>1, <2>2
<1>9. stray = <<>> \/ r = client.left
  BY <1>7 DEF Stray
<1>. QED BY <1>2, <1>3, <1>7, <1>8, <1>9, TakesWhole

\* Numbers of a client that writes a file: w is what it has written, t what it is going to.
LEMMA SendFacts ==
  ASSUME NEW c \in ClientRecord, c.pc = "send", c.left > 0, Paced(c)
  PROVE  LET w == Sent(c)  t == ToInt(c.size)
         IN /\ w \in Nat /\ t \in Nat /\ w + c.left = t /\ t <= c.size /\ c.left \in Nat /\ c.pos \in Nat
            /\ c.short => c.pos > w
            /\ ~c.short => c.pos = w
            /\ c.size \in Nat /\ c.short \in BOOLEAN /\ c.same \in BOOLEAN
<1> DEFINE t == ToInt(c.size)
<1>1. /\ c.size \in Nat /\ c.left \in Int /\ c.pos \in Nat /\ c.short \in BOOLEAN /\ c.same \in BOOLEAN
  BY DEF ClientRecord
<1>2. t \in Int /\ t <= MaxInt /\ MaxInt \in Nat /\ (c.size <= MaxInt => t = c.size)
  BY <1>1, ToIntFacts, TransferAssumption DEF TransferAssumption
<1>. HIDE DEF t
<1>3. Sent(c) = t - c.left
  BY DEF Sent, t
<1>4. Sent(c) >= 0 /\ (c.short => c.pos > Sent(c)) /\ (~c.short => c.pos = Sent(c))
  BY DEF Paced
<1>5. Sent(c) \in Nat /\ t \in Nat /\ Sent(c) + c.left = t /\ t <= c.size /\ c.left \in Nat
  BY <1>1, <1>2, <1>3, <1>4
<1>. QED BY <1>1, <1>4, <1>5 DEF t

\* One write of a client: e is the client afterwards, k what it has read, r what was taken of it.
LEMMA PacedOn ==
  ASSUME NEW c \in ClientRecord, c.pc = "send", c.left > 0, Paced(c),
         NEW k \in Nat, k <= c.left, NEW r \in 1..k,
         NEW e, e.pc = "send", e.size = c.size, e.left = c.left - r, e.pos = c.pos + k,
         e.short = (c.short \/ r < k)
  PROVE  Paced(e) /\ Sent(e) = Sent(c) + r
<1> DEFINE w == Sent(c)
           t == ToInt(c.size)
<1>1. /\ w \in Nat /\ t \in Nat /\ w + c.left = t /\ c.left \in Nat /\ c.pos \in Nat
      /\ c.short => c.pos > w
      /\ ~c.short => c.pos = w
      /\ c.short \in BOOLEAN
  BY SendFacts
<1>2. Sent(e) = t - e.left
  BY DEF Sent
<1>. HIDE DEF w, t
<1>3. Sent(e) = w + r /\ w + r <= t
  BY <1>1, <1>2
<1>4. Yet(ToInt(e.size)) = t
  BY <1>1, YetFacts DEF t
<1>5. e.short => e.pos > w + r
  <2>1. CASE c.short
    BY <1>1, <2>1
  <2>2. CASE ~c.short /\ r < k
    BY <1>1, <2>2
  <2>. QED BY <2>1, <2>2
<1>6. ASSUME ~e.short PROVE e.pos = w + r
  <2>1. ~c.short /\ ~(r < k)
    BY <1>6
  <2>2. r = k /\ c.pos = w
    BY <1>1, <2>1
  <2>. QED BY <2>2
<1>7. w + r >= 0
  BY <1>1
<1>. QED BY <1>3, <1>4, <1>5, <1>6, <1>7 DEF Paced, w

LEMMA CarriesOn ==
  ASSUME NEW c \in ClientRecord, c.pc = "send", c.left > 0, Paced(c),
         NEW k \in Nat, k <= c.left, NEW r \in 1..k,
         NEW e, e.pc = "send", e.size = c.size, e.same = c.same, e.left = c.left - r, e.pos = c.pos + k,
         e.short = (c.short \/ r < k),
         NEW s, NEW b \in Seq(Block), NEW x \in Seq(Block), Carries(c, s, b),
         \/ x = <<>>
         \/ /\ Len(b) = Sent(c) /\ Len(x) = r
            /\ \A i \in 1..r : x[i] = IF c.same /\ c.pos + i <= c.size THEN Data(c.pos + i) ELSE Data(0)
  PROVE  Carries(e, s, b \o x)
<1> DEFINE w == Sent(c)
           t == ToInt(c.size)
<1>1. /\ w \in Nat /\ t \in Nat /\ w + c.left = t /\ t <= c.size /\ c.left \in Nat /\ c.pos \in Nat
      /\ c.short => c.pos > w
      /\ ~c.short => c.pos = w
      /\ c.size \in Nat /\ c.short \in BOOLEAN
  BY SendFacts
<1>2. Sent(e) = w + r
  BY PacedOn
<1>3. /\ s.size = c.size /\ s.left = t - Len(s.got) /\ Len(b) <= w
      /\ ~c.same => \A i \in 1..Len(b) : b[i] = Data(0)
      /\ c.same /\ ~c.short => Numbered(b, 0)
      /\ c.short => Len(b) < t \/ ~Numbered(b, 0)
  BY DEF Carries
<1>4. s.size = e.size /\ s.left = ToInt(e.size) - Len(s.got) /\ ToInt(e.size) = t
  BY <1>3
<1>5. ASSUME ~c.short, r < k PROVE w + r < t
  BY <1>1, <1>5
<1>. HIDE DEF w, t
<1>6. CASE x = <<>>
  <2>1. b \o x = b /\ Len(b) \in Nat
    BY <1>6
  <2>2. Len(b) <= w + r
    BY <1>1, <1>3, <2>1
  <2>3. e.short => Len(b) < t \/ ~Numbered(b, 0)
    BY <1>1, <1>3, <1>5, <2>1, <2>2
  <2>4. ~e.same => \A i \in 1..Len(b) : b[i] = Data(0)
    BY <1>3
  <2>5. e.same /\ ~e.short => Numbered(b, 0)
    BY <1>3
  <2>6. Carries(e, s, b)
    BY <1>2, <1>4, <2>2, <2>3, <2>4, <2>5 DEF Carries
  <2>. QED BY <2>1, <2>6
<1>7. CASE /\ Len(b) = w /\ Len(x) = r
           /\ \A i \in 1..r : x[i] = IF c.same /\ c.pos + i <= c.size THEN Data(c.pos + i) ELSE Data(0)
  <2> DEFINE g == b \o x
  <2>1. Len(g) = w + r
    BY <1>7, JoinFacts
  <2>2. \A i \in 1..w : g[i] = b[i]
    BY <1>7, JoinFacts
  <2>3. \A j \in 1..r : g[w + j] = x[j]
    BY <1>7, JoinFacts
  <2>. HIDE DEF g
  <2>4. ASSUME NEW i \in 1..w+r
        PROVE  i \in 1..w \/ \E j \in 1..r : i = w + j
    <3>1. CASE i <= w
      BY <1>1, <3>1
    <3>2. CASE i > w
      <4>1. i - w \in 1..r /\ i = w + (i - w)
        BY <1>1, <3>2
      <4>. QED BY <4>1
    <3>. QED BY <1>1, <3>1, <3>2
  <2>5. ASSUME ~e.same, NEW i \in 1..Len(g) PROVE g[i] = Data(0)
    <3>1. CASE i \in 1..w
      BY <1>3, <1>7, <2>2, <2>5, <3>1
    <3>2. ASSUME NEW j \in 1..r, i = w + j PROVE g[i] = Data(0)
      BY <1>7, <2>3, <2>5, <3>2
    <3>. QED BY <2>1, <2>4, <3>1, <3>2
  <2>6. ASSUME e.same, ~e.short PROVE Numbered(g, 0)
    <3>1. c.same /\ ~c.short /\ c.pos = w /\ Numbered(b, 0)
      BY <1>1, <1>3, <2>6
    <3>2. ASSUME NEW i \in 1..w PROVE g[i] = Data(i)
      <4>1. b[i] = Data(0 + i) /\ 0 + i = i
        BY <1>7, <3>1 DEF Numbered
      <4>. QED BY <2>2, <4>1
    <3>3. ASSUME NEW j \in 1..r PROVE g[w + j] = Data(w + j)
      <4>1. w + j <= c.size
        BY <1>1
      <4>2. x[j] = Data(w + j)
        BY <1>7, <3>1, <4>1
      <4>. QED BY <2>3, <4>2
    <3>4. ASSUME NEW i \in 1..Len(g) PROVE g[i] = Data(0 + i)
      <4>1. i \in 1..w+r /\ 0 + i = i
        BY <2>1
      <4>. QED BY <2>4, <3>2, <3>3, <4>1
    <3>. QED BY <3>4 DEF Numbered
  <2>7. ASSUME c.short PROVE ~Numbered(g, 0)
    <3>1. x[1] \in {Data(c.pos + 1), Data(0)} /\ g[w + 1] = x[1]
      BY <1>7, <2>3
    <3>2. Data(c.pos + 1) # Data(w + 1) /\ Data(0) # Data(w + 1)
      <4>1. c.pos + 1 # w + 1 /\ 0 # w + 1
        BY <1>1, <2>7
      <4>. QED BY <4>1 DEF Data
    <3>3. w + 1 \in 1..Len(g) /\ 0 + (w + 1) = w + 1
      BY <1>1, <2>1
    <3>. QED BY <3>1, <3>2, <3>3 DEF Numbered
  <2>8. e.short => Len(g) < t \/ ~Numbered(g, 0)
    BY <1>5, <2>1, <2>7
  <2>9. Len(g) <= Sent(e)
    BY <1>1, <1>2, <2>1
  <2>10. Carries(e, s, g)
    BY <1>4, <2>5, <2>6, <2>8, <2>9 DEF Carries
  <2>. QED BY <2>10 DEF g
<1>. QED BY <1>6, <1>7 DEF w

LEMMA SendSomeWhole ==
  ASSUME TransferInv, TransferInv', WholeInv, SendSome
  PROVE  WholeInv'
<1> DEFINE c == Least({client.left, Buff})
<1>1. client.pc = "send" /\ client.left > 0 /\ UNCHANGED <<toClient, linked, session>>
  BY DEF SendSome
<1>2. client \in ClientRecord /\ client.left \in Nat /\ Buff \in Nat /\ Buff >= 2
  BY <1>1, Now, TransferAssumption DEF TransferAssumption, ClientRecord
<1>3. c \in Nat /\ c <= client.left /\ (IF Short THEN 1..c ELSE {c}) \subseteq 1..c
  BY <1>1, <1>2, LeastOfTwo
<1>4. PICK r \in 1..c :
        /\ Put(SubSeq(Chunk(c), 1, r))
        /\ client' = [client EXCEPT !.left = @ - r, !.pos = @ + c, !.short = @ \/ r < c]
  BY <1>3 DEF SendSome
<1> DEFINE x == SubSeq(Chunk(c), 1, r)
<1>5. x \in Seq(Up) /\ Len(x) = r /\ AllData(x)
  BY <1>2, <1>3, <1>4, ChunkFacts
<1>6. \A i \in 1..r : x[i] = IF client.same /\ client.pos + i <= client.size
                             THEN Data(client.pos + i) ELSE Data(0)
  <2> DEFINE y == Chunk(c)
  <2>1. \A i \in 1..c : y[i] = IF client.same /\ client.pos + i <= client.size
                               THEN Data(client.pos + i) ELSE Data(0)
    BY <1>3 DEF Chunk
  <2>2. y \in Seq(Block) /\ Len(y) = c
    <3>1. \A i \in 1..c : (IF client.same /\ client.pos + i <= client.size
                           THEN Data(client.pos + i) ELSE Data(0)) \in Block
      BY <1>2, <1>3 DEF Data, Block, ClientRecord
    <3>. HIDE DEF c
    <3>. QED BY <1>3, <3>1 DEF Chunk
  <2>. HIDE DEF y, c
  <2>3. SubSeq(y, 1, r) \in Seq(Block) /\ \A i \in 1..r : SubSeq(y, 1, r)[i] = y[i]
    BY <1>3, <2>2
  <2>. QED BY <1>3, <2>1, <2>3 DEF y
<1>. HIDE DEF c, x
<1>7. toServer' = IF Live THEN toServer \o x ELSE toServer
  BY <1>4 DEF Put, x
<1>8. /\ client'.pc = "send" /\ client'.left = client.left - r /\ client'.pos = client.pos + c
      /\ client'.short = (client.short \/ r < c) /\ client'.same = client.same
      /\ client'.method = client.method /\ client'.buf = client.buf /\ client'.size = client.size
      /\ client'.connected = client.connected /\ client'.astray = client.astray
  BY <1>1, <1>2, <1>4 DEF ClientRecord
<1>9. ASSUME client'.connected, ~client'.astray
      PROVE  Stands(toClient', client', session) /\ Fed(toServer', client', session)
  <2>1. /\ client.method = "PUT" /\ Tells(session, client.buf \o toClient) /\ Paced(client)
        /\ Fed(toServer, client, session)
    BY <1>1, <1>8, <1>9, NowWhole DEF Stands, Begun
  <2>2. toServer \in Seq(Up) /\ toServer \in Seq(Block) /\ x \in Seq(Block) /\ session.got \in Seq(Block)
        /\ session \in SessionRecord /\ Len(toServer) \in Nat /\ Len(session.got) \in Nat
    BY <1>5, Now, Blocks DEF LineUp, SessionRecord
  <2>3. PICK e : e = client'
    OBVIOUS
  <2>4. Paced(e)
    BY <1>1, <1>2, <1>3, <1>8, <2>1, <2>3, PacedOn
  <2>5. AllData(toServer')
    <3>1. AllData(toServer)
      BY <2>1 DEF Fed
    <3>2. AllData(toServer \o x)
      BY <1>5, <2>2, <3>1, MoreFacts
    <3>. QED BY <1>7, <3>1, <3>2
  <2>6. ASSUME session.pc = "recv" PROVE Carries(e, session, session.got \o toServer')
    <3> DEFINE b == session.got \o toServer
    <3>1. Carries(client, session, b)
      BY <2>1, <2>6 DEF Fed
    <3>2. b \in Seq(Block) /\ Len(b) = Len(session.got) + Len(toServer)
      BY <2>2, JoinFacts
    <3>3. CASE Live
      <4>1. Yet(session.left) = Len(toServer) + client.left
        <5>1. Talk(toServer, toClient, client, session)
          BY <1>8, <1>9, <3>3, Now DEF Linked, Live
        <5>2. Uploading(toServer, client, session, client.buf \o toClient)
          BY <1>1, <5>1 DEF Talk
        <5>3. ToWrite(client) = client.left
          BY <1>1, <1>2 DEF ToWrite, Yet
        <5>. QED BY <2>6, <5>2, <5>3 DEF Uploading
      <4>2. session.left = Len(toServer) + client.left
        <5>1. session.left \in Int
          BY <2>2 DEF SessionRecord
        <5>. QED BY <1>1, <1>2, <2>2, <4>1, <5>1 DEF Yet
      <4>3. Len(b) = Sent(client)
        <5> DEFINE w == Sent(client)
                   t == ToInt(client.size)
        <5>1. w \in Nat /\ t \in Nat /\ w + client.left = t
          BY <1>1, <1>2, <2>1, SendFacts
        <5>2. session.left = t - Len(session.got)
          BY <3>1 DEF Carries
        <5>. HIDE DEF w, t, b
        <5>3. /\ Len(session.got) \in Nat /\ Len(toServer) \in Nat
              /\ Len(b) = Len(session.got) + Len(toServer)
          BY <2>2, <3>2
        <5>4. ASSUME NEW g \in Nat, NEW q \in Nat, NEW k \in Nat, t - g = q + k, w + k = t
              PROVE  g + q = w
          BY <5>1, <5>4
        <5>5. t - Len(session.got) = Len(toServer) + client.left
          BY <4>2, <5>2
        <5>6. Len(session.got) + Len(toServer) = w
          BY <1>2, <5>1, <5>3, <5>4, <5>5
        <5>7. Len(b) = w
          BY <5>3, <5>6
        <5>. QED BY <5>7 DEF w
      <4>4. session.got \o toServer' = b \o x
        <5>1. toServer' = toServer \o x
          BY <1>7, <3>3
        <5>. QED BY <2>2, <5>1, Associative
      <4>. HIDE DEF b
      <4>5. Carries(e, session, b \o x)
        BY <1>1, <1>2, <1>3, <1>5, <1>6, <1>8, <2>1, <2>2, <2>3, <3>1, <3>2, <4>3, CarriesOn
      <4>. QED BY <4>4, <4>5
    <3>4. CASE ~Live
      <4> DEFINE none == <<>>
      <4>1. none \in Seq(Block) /\ b \o none = b /\ none = <<>>
        BY <3>2
      <4>. HIDE DEF b, none
      <4>2. Carries(e, session, b \o none)
        BY <1>1, <1>2, <1>3, <1>8, <2>1, <2>3, <3>1, <3>2, <4>1, CarriesOn
      <4>3. Carries(e, session, b)
        BY <4>1, <4>2
      <4>. QED BY <1>7, <3>4, <4>3 DEF b
    <3>. QED BY <3>3, <3>4
  <2>7. Fed(toServer', client', session)
    BY <1>8, <2>1, <2>3, <2>5, <2>6 DEF Fed
  <2>8. Stands(toClient', client', session)
    BY <1>1, <1>8, <2>1, <2>3, <2>4 DEF Stands
  <2>. QED BY <2>7, <2>8
<1>. QED BY <1>1, <1>8, <1>9, ClientWhole

\* The client gives up the connection.
LEMMA GivenUpWhole ==
  ASSUME TransferInv, TransferInv', WholeInv, ReadThrows \/ SendThrows \/ (ListRefused /\ client' = Dropped)
  PROVE  WholeInv'
<1>1. UNCHANGED <<linked, session>>
  BY DEF ReadThrows, SendThrows, ListRefused, Answered
<1>2. client' = Dropped \/ client' = [Unconnected EXCEPT !.pc = "dead"]
  BY DEF ReadThrows, SendThrows
<1>3. ~client'.connected
  BY <1>2, Consts DEF Dropped, ClientRecord
<1>. QED BY <1>1, <1>3, DroppedWhole

\* A step of the session, which leaves the network and the client as they are.
LEMMA SessionWhole ==
  ASSUME WholeInv, UNCHANGED <<linked, client>>, Poised(session'),
         client.connected /\ ~client.astray =>
           /\ Stands(toClient', client, session')
           /\ Begun(toClient', client) => Fed(toServer', client, session')
           /\ linked /\ session'.pc # "gone" => Supplies(toClient', client, session')
  PROVE  WholeInv'
BY ThenWhole

\* A session that does not begin to receive changes nothing for what the client has to read, and
\* none does for a client whose request is not answered.
LEMMA StandsOn ==
  ASSUME NEW d, NEW c, NEW s, Stands(d, c, s), NEW t, t.pc = "recv" => s.pc = "recv" \/ ~Begun(d, c)
  PROVE  Stands(d, c, t)
<1>1. CASE ~Begun(d, c)
  BY <1>1 DEF Stands, Begun
<1>2. CASE t.pc = "recv" => s.pc = "recv"
  <2>1. ASSUME NEW v, Tells(s, v) PROVE Tells(t, v)
    BY <1>2, <2>1 DEF Tells
  <2>2. ASSUME NEW a, NEW v, Behind(c, s, a, v) PROVE Behind(c, t, a, v)
    BY <2>1, <2>2 DEF Behind
  <2>3. c.pc = "wait" /\ d # <<>> => d[1].kind # "data" /\ Behind(c, t, d[1], Tail(d))
    BY <2>2 DEF Stands
  <2>4. c.pc = "answer" => Behind(c, t, c.ans, c.buf \o d)
    BY <2>2 DEF Stands
  <2>5. c.pc = "send" => c.method = "PUT" /\ Tells(t, c.buf \o d)
    BY <2>1 DEF Stands
  <2>6. c.pc = "wait2" => c.method = "PUT" /\ Tells(t, d)
    BY <2>1 DEF Stands
  <2>7. c.pc = "answer2" => d = <<>> /\ t.pc # "recv"
    BY <1>2 DEF Stands
  <2>. QED BY <2>3, <2>4, <2>5, <2>6, <2>7 DEF Stands
<1>. QED BY <1>1, <1>2

\* The session is done with a request, or refuses what it received.
LEMMA QuietWhole ==
  ASSUME WholeInv, UNCHANGED <<linked, client, toServer, toClient>>,
         session'.pc \in {"read", "gone"} \/ (session'.pc = "reply" /\ session'.next = "read")
  PROVE  WholeInv'
<1>1. Poised(session')
  BY DEF Poised
<1>2. ASSUME client.connected, ~client.astray
      PROVE  /\ Stands(toClient', client, session')
             /\ Begun(toClient', client) => Fed(toServer', client, session')
             /\ Supplies(toClient', client, session')
  <2>1. Stands(toClient, client, session) /\ (Begun(toClient, client) => Fed(toServer, client, session))
    BY <1>2, NowWhole
  <2>2. Stands(toClient, client, session')
    <3>1. PICK t : t = session'
      OBVIOUS
    <3>2. t.pc # "recv"
      BY <3>1
    <3>. QED BY <2>1, <3>1, <3>2, StandsOn
  <2>. QED BY <2>1, <2>2 DEF Fed, Supplies
<1>. QED BY <1>1, <1>2, SessionWhole

LEMMA SessionEndWhole ==
  ASSUME TransferInv, WholeInv, SendDone \/ HangUp \/ Verify
  PROVE  WholeInv'
<1>1. UNCHANGED <<linked, client, toServer, toClient>>
  BY DEF SendDone, HangUp, Verify, Serving
<1>2. session \in SessionRecord
  BY Now
<1>3. CASE SendDone \/ HangUp
  <2>1. session' = Ready \/ session' = Gone
    BY <1>3 DEF SendDone, HangUp
  <2>2. session'.pc \in {"read", "gone"}
    BY <1>2, <2>1, ReadyFacts, Consts
  <2>. QED BY <1>1, <2>2, QuietWhole
<1>4. CASE Verify
  <2>1. \/ session' = [Ready EXCEPT !.silent = TRUE]
        \/ session' = Replies(session, Header("STORED", 0), "read")
        \/ session' = Refusal(session, "read")
    BY <1>4 DEF Verify
  <2>2. \/ session'.pc = "read"
        \/ session'.pc = "reply" /\ session'.next = "read"
    <3>1. Ready \in SessionRecord /\ Ready.pc = "read"
      BY <1>2, ReadyFacts
    <3>2. [Ready EXCEPT !.silent = TRUE].pc = "read"
      BY <3>1 DEF SessionRecord
    <3>3. \A a : Replies(session, a, "read").pc = "reply" /\ Replies(session, a, "read").next = "read"
      BY <1>2 DEF Replies, SessionRecord
    <3>. QED BY <2>1, <3>2, <3>3 DEF Refusal
  <2>. QED BY <1>1, <2>2, QuietWhole
<1>. QED BY <1>3, <1>4

\* What an outcome leaves of the session, and the size of a file it accepts.
LEMMA OutcomeKeeps ==
  ASSUME NEW s \in SessionRecord, NEW q \in Block, NEW t \in Outcomes(s, q)
  PROVE  /\ t.got = s.got
         /\ t.next = "gone" => t.ans.kind = "ERROR"
         /\ t.next = "recv" => t.size = q.n
<1>1. ASSUME NEW e \in SessionRecord, NEW a, NEW l, t = Replies(e, a, l)
      PROVE  t.got = e.got /\ t.ans = a /\ t.next = l /\ t.size = e.size
  BY <1>1 DEF Replies, SessionRecord
<1>2. ASSUME NEW l \in {"read", "gone"}, t = Refusal(s, l)
      PROVE  t.got = s.got /\ t.ans.kind = "ERROR" /\ t.next # "recv"
  <2>1. t.got = s.got /\ t.ans = Header("ERROR", 0) /\ t.next = l
    BY <1>1, <1>2 DEF Refusal
  <2>. QED BY <2>1 DEF Header
<1>3. ASSUME t = Replies([s EXCEPT !.logged = TRUE], Header("OK", 0), "read")
      PROVE  t.got = s.got /\ t.next = "read"
  <2> DEFINE e == [s EXCEPT !.logged = TRUE]
  <2>1. e \in SessionRecord /\ e.got = s.got
    BY DEF SessionRecord
  <2>. HIDE DEF e
  <2>. QED BY <1>1, <1>3, <2>1 DEF e
<1>4. ASSUME t = Replies([s EXCEPT !.size = q.n, !.left = ToInt(q.n)], Header("OK", 0), "recv")
      PROVE  t.got = s.got /\ t.next = "recv" /\ t.size = q.n
  <2> DEFINE e == [s EXCEPT !.size = q.n, !.left = ToInt(q.n)]
  <2>1. q.n \in Nat /\ ToInt(q.n) \in Int
    BY ToIntFacts DEF Block
  <2>2. e \in SessionRecord /\ e.got = s.got /\ e.size = q.n
    BY <2>1 DEF SessionRecord
  <2>. HIDE DEF e
  <2>. QED BY <1>1, <1>4, <2>2 DEF e
<1>5. ASSUME NEW n \in Nat, NEW a, t = Replies([s EXCEPT !.left = n], a, "send")
      PROVE  t.got = s.got /\ t.next = "send"
  <2> DEFINE e == [s EXCEPT !.left = n]
  <2>1. e \in SessionRecord /\ e.got = s.got
    BY DEF SessionRecord
  <2>. HIDE DEF e
  <2>. QED BY <1>1, <1>5, <2>1 DEF e
<1>6. /\ \A n \in 0..Least({MaxInt, MaxSize}) : n \in Nat
      /\ \A n \in 0..MaxList : n \in Nat
  OBVIOUS
<1>7. t = Replies(s, Header("OK", 0), "read") => t.got = s.got /\ t.next = "read"
  BY <1>1
<1>8. CASE \E l \in {"read", "gone"} : t = Refusal(s, l)
  BY <1>2, <1>8
<1>9. CASE t = Replies([s EXCEPT !.logged = TRUE], Header("OK", 0), "read") \/ t = Replies(s, Header("OK", 0), "read")
  <2>1. t.got = s.got /\ t.next = "read"
    BY <1>3, <1>7, <1>9
  <2>. QED BY <2>1
<1>10. CASE t = Replies([s EXCEPT !.size = q.n, !.left = ToInt(q.n)], Header("OK", 0), "recv")
  <2>1. t.got = s.got /\ t.next = "recv" /\ t.size = q.n
    BY <1>4, <1>10
  <2>. QED BY <2>1
<1>11. CASE \/ \E n \in 0..Least({MaxInt, MaxSize}) :
                 t = Replies([s EXCEPT !.left = n], Header("LENGTH", n), "send")
            \/ \E n \in 0..MaxList : t = Replies([s EXCEPT !.left = n], Header("LIST", n), "send")
  <2>1. t.got = s.got /\ t.next = "send"
    BY <1>5, <1>6, <1>11
  <2>. QED BY <2>1
<1> DEFINE Goal == /\ t.got = s.got
                   /\ t.next = "gone" => t.ans.kind = "ERROR"
                   /\ t.next = "recv" => t.size = q.n
<1>12. /\ (\E l \in {"read", "gone"} : t = Refusal(s, l)) => Goal
       /\ t = Replies([s EXCEPT !.logged = TRUE], Header("OK", 0), "read") => Goal
       /\ t = Replies(s, Header("OK", 0), "read") => Goal
       /\ t = Replies([s EXCEPT !.size = q.n, !.left = ToInt(q.n)], Header("OK", 0), "recv") => Goal
       /\ (\E n \in 0..Least({MaxInt, MaxSize}) :
              t = Replies([s EXCEPT !.left = n], Header("LENGTH", n), "send")) => Goal
       /\ (\E n \in 0..MaxList : t = Replies([s EXCEPT !.left = n], Header("LIST", n), "send")) => Goal
  BY <1>8, <1>9, <1>10, <1>11
<1>. HIDE DEF Goal
<1>13. Goal
  BY <1>12, OutcomeCases
<1>. QED BY <1>13 DEF Goal

LEMMA ReadRequestWhole ==
  ASSUME TransferInv, TransferInv', WholeInv, ReadRequest
  PROVE  WholeInv'
<1>1. PICK k \in Pulls(toServer) : session' \in Outcomes(Ready, Parsed(toServer))
  BY DEF ReadRequest
<1>2. /\ session.pc = "read" /\ Headers(toServer) # {} /\ UNCHANGED <<linked, client, toClient>>
      /\ toServer \in Seq(Up) /\ session \in SessionRecord
  BY Now DEF ReadRequest, Serving, LineUp
<1>3. /\ k \in 1..Len(toServer)
      /\ Parsed(toServer) = Garbage \/ (Parsed(toServer) = toServer[1] /\ toServer[1].kind # "data")
  BY <1>1, <1>2, PullFacts
<1>4. Parsed(toServer) \in Block /\ Ready \in SessionRecord
  <2>1. toServer[1] \in Up
    BY <1>2, <1>3
  <2>. QED BY <1>2, <1>3, <2>1, Blocks, ReadyFacts
<1>5. Ready.got = <<>>
  BY DEF Ready, Fresh
<1>6. /\ session'.pc = "reply" /\ session'.got = <<>>
      /\ session'.next = "gone" => session'.ans.kind = "ERROR"
      /\ session'.next = "recv" => session'.size = Parsed(toServer).n
  BY <1>1, <1>4, <1>5, OutcomeFacts, OutcomeKeeps
<1>7. Poised(session')
  BY <1>6 DEF Poised
<1>8. ~AllData(toServer)
  BY <1>2 DEF Headers, AllData
<1>9. ASSUME client.connected, ~client.astray
      PROVE  /\ Stands(toClient', client, session') /\ ~Begun(toClient', client)
             /\ linked => Supplies(toClient', client, session')
  <2>1. Stands(toClient, client, session) /\ ~Begun(toClient, client)
    BY <1>8, <1>9, NowWhole DEF Fed
  <2>2. Stands(toClient, client, session')
    <3>1. PICK t : t = session'
      OBVIOUS
    <3>. QED BY <2>1, <3>1, StandsOn
  <2>3. ASSUME linked PROVE Supplies(toClient, client, session')
    <3>1. toServer = <<Header(client.method, client.size)>> /\ client.pc # "dead"
      BY <1>2, <1>9, <2>3, Now, HeaderFacts DEF Linked, Engaged
    <3>2. toServer # <<>> /\ toServer[1] = Header(client.method, client.size)
      BY <3>1
    <3>3. toServer[1].kind # "data" /\ toServer[1].n = client.size
      <4>1. client.method \in Requests
        BY Now DEF ClientRecord
      <4>. QED BY <3>2, <4>1 DEF Header, Requests
    <3>4. Parsed(toServer) = toServer[1]
      BY <1>1, <1>2, <3>2, <3>3, LedFacts
    <3>. QED BY <1>6, <3>3, <3>4 DEF Supplies
  <2>. QED BY <1>2, <2>1, <2>2, <2>3
<1>. QED BY <1>2, <1>7, <1>9, SessionWhole

LEMMA ReceiveWhole ==
  ASSUME TransferInv, TransferInv', WholeInv, Receive
  PROVE  WholeInv'
<1>1. PICK r \in 1..Least({session.left, Buff, Len(toServer)}) :
        /\ session' = [session EXCEPT !.left = @ - r, !.got = @ \o SubSeq(toServer, 1, r)]
        /\ toServer' = Rest(toServer, r)
  BY DEF Receive
<1>2. /\ session.pc = "recv" /\ session.left > 0 /\ UNCHANGED <<linked, client, toClient>>
      /\ session \in SessionRecord /\ session.left \in Nat /\ Len(toServer) \in Nat
      /\ toServer \in Seq(Block) /\ session.got \in Seq(Block)
  BY Now, Blocks DEF Receive, Serving, SessionRecord, LineUp
<1>3. r \in 0..Len(toServer) /\ r \in Nat
  <2>1. Buff \in Nat
    BY TransferAssumption DEF TransferAssumption
  <2> DEFINE m == Least({session.left, Buff, Len(toServer)})
  <2>2. m \in Nat /\ m <= Len(toServer)
    BY <1>2, <2>1, LeastOfThree
  <2>. QED BY <1>2, <2>2
<1> DEFINE x == SubSeq(toServer, 1, r)
           y == Rest(toServer, r)
<1>4. x \in Seq(Block) /\ Len(x) = r /\ y \in Seq(Block) /\ (AllData(toServer) => AllData(y))
  BY <1>2, <1>3, TakenFacts
<1>5. x \o y = toServer
  BY <1>2, <1>3, ConcatAdjacentSubSeq DEF Rest
<1>. HIDE DEF x, y
<1>6. /\ session'.pc = "recv" /\ session'.left = session.left - r /\ session'.got = session.got \o x
      /\ session'.size = session.size /\ toServer' = y
  BY <1>1, <1>2 DEF SessionRecord, x, y
<1>7. Len(session.got \o x) = Len(session.got) + r /\ Len(session.got) \in Nat
      /\ (session.got \o x) \o y = session.got \o toServer
  <2>1. (session.got \o x) \o y = session.got \o (x \o y)
    BY <1>2, <1>4, Associative
  <2>2. Len(session.got \o x) = Len(session.got) + Len(x) /\ Len(session.got) \in Nat
    BY <1>2, <1>4, JoinFacts
  <2>. QED BY <1>4, <1>5, <2>1, <2>2
<1>8. Poised(session')
  BY <1>6 DEF Poised
<1>9. ASSUME client.connected, ~client.astray
      PROVE  /\ Stands(toClient', client, session') /\ Supplies(toClient', client, session')
             /\ Begun(toClient', client) => Fed(toServer', client, session')
  <2>1. Stands(toClient, client, session)
    BY <1>9, NowWhole
  <2>2. Stands(toClient, client, session')
    <3>1. PICK t : t = session'
      OBVIOUS
    <3>. QED BY <1>2, <2>1, <3>1, StandsOn
  <2>3. ASSUME Begun(toClient, client) PROVE Fed(toServer', client, session')
    <3>1. Fed(toServer, client, session)
      BY <1>9, <2>3, NowWhole
    <3>2. AllData(y)
      BY <1>4, <3>1 DEF Fed
    <3>3. Carries(client, session, session.got \o toServer)
      BY <1>2, <3>1 DEF Fed
    <3>4. session.left = ToInt(client.size) - Len(session.got)
      BY <3>3 DEF Carries
    <3>5. session'.left = ToInt(client.size) - Len(session'.got)
      <4>1. ToInt(client.size) \in Int
        BY Now, ToIntFacts DEF ClientRecord
      <4>. QED BY <1>2, <1>3, <1>6, <1>7, <3>4, <4>1
    <3>6. session'.got \o toServer' = session.got \o toServer
      BY <1>6, <1>7
    <3>7. Carries(client, session', session.got \o toServer)
      BY <1>6, <3>3, <3>5 DEF Carries
    <3>. QED BY <1>2, <1>6, <3>1, <3>2, <3>6, <3>7 DEF Fed
  <2>. QED BY <1>2, <1>6, <2>2, <2>3 DEF Supplies
<1>. QED BY <1>2, <1>8, <1>9, SessionWhole

LEMMA OnwardKeeps ==
  ASSUME session \in SessionRecord, session.next \in {"recv", "send"}
  PROVE  Onward.got = session.got /\ Onward.size = session.size
<1>1. Onward = [session EXCEPT !.pc = session.next, !.ans = Garbage]
  BY DEF Onward
<1>. QED BY <1>1 DEF SessionRecord

\* The answer to a request goes out.
LEMMA AnswerOut ==
  ASSUME TransferInv, WholeInv, Linked, ~client.astray, session.pc = "reply", client.pc = "wait",
         toServer = <<>>, toClient = <<>>, Decided(client, session),
         NEW d, d # <<>>, d[1] = session.ans, Tail(d) = <<>>
  PROVE  /\ Stands(d, client, Onward) /\ Fed(toServer, client, Onward)
         /\ Supplies(d, client, Onward)
<1> DEFINE a == session.ans
           none == <<>>
<1>1. /\ client \in ClientRecord /\ session \in SessionRecord /\ a \in Response
      /\ session.next \in {"read", "recv", "send", "gone"}
  BY Now DEF SessionRecord
<1>2. /\ Onward.pc \in {"gone", "read", "recv", "send"}
      /\ Onward.pc = session.next
      /\ session.next \in {"recv", "send"} =>
           Onward.left = session.left /\ Onward.got = session.got /\ Onward.size = session.size
  BY <1>1, OnwardFacts, OnwardKeeps
<1>3. /\ session.next \in {"recv", "send"} => session.got = <<>>
      /\ session.next = "gone" => a.kind = "ERROR"
      /\ client.pos = 0 /\ ~client.short
      /\ session.next = "recv" => session.size = client.size
  <2>1. Poised(session) /\ Stands(toClient, client, session) /\ Supplies(toClient, client, session)
    BY NowWhole DEF Linked
  <2>. QED BY <2>1 DEF Poised, Stands, Supplies
<1>4. a.kind # "data"
  BY <1>1 DEF Response, Answers
<1>5. /\ session.next = "read" => Plain(client, a)
      /\ session.next = "recv" => a.kind = "OK" /\ client.method = "PUT" /\ session.left = ToInt(client.size)
      /\ session.next = "send" => Bodied(client, a) /\ a.n = session.left /\ session.left <= MaxInt
  BY DEF Decided
<1>6. Behind(client, Onward, a, none)
  <2>1. Len(none) = 0 /\ Numbered(none, 0) /\ a.n \in Nat
    BY <1>1 DEF Numbered, Response
  <2>2. a.kind \in {"LENGTH", "LIST"} => Bodied(client, a) /\ a.n <= MaxInt
    BY <1>1, <1>3, <1>5 DEF Plain
  <2>3. Len(none) <= a.n
    BY <2>1
  <2>. QED BY <2>1, <2>2, <2>3 DEF Behind
<1>7. Stands(d, client, Onward)
  BY <1>3, <1>4, <1>6 DEF Stands
<1>8. Supplies(d, client, Onward)
  <2>1. ASSUME Onward.pc = "send" PROVE Len(Onward.got) + Onward.left = Announced(d, client)
    <3>1. Announced(d, client) = a.n
      BY DEF Announced
    <3>2. Len(Onward.got) = 0 /\ Onward.left = a.n /\ a.n \in Nat
      BY <1>1, <1>2, <1>3, <1>5, <2>1 DEF Response
    <3>. QED BY <3>1, <3>2
  <2>. QED BY <1>2, <2>1 DEF Supplies
<1>9. Fed(toServer, client, Onward)
  <2>1. AllData(toServer)
    BY DEF AllData
  <2>2. ASSUME Onward.pc = "recv" PROVE Carries(client, Onward, Onward.got \o toServer)
    <3>1. Onward.got \o toServer = none /\ Len(none) = 0 /\ Onward.got = none
      BY <1>2, <1>3, <2>2
    <3>2. Onward.size = client.size /\ Onward.left = ToInt(client.size) - 0
      <4>1. ToInt(client.size) \in Int
        BY <1>1, ToIntFacts DEF ClientRecord
      <4>. QED BY <1>2, <1>3, <1>5, <2>2, <4>1
    <3>3. Sent(client) = 0
      BY DEF Sent
    <3>4. Carries(client, Onward, none)
      BY <1>3, <3>1, <3>2, <3>3 DEF Carries, Numbered
    <3>. QED BY <3>1, <3>4
  <2>3. Onward.pc = "recv" => client.method = "PUT"
    BY <1>2, <1>5
  <2>. QED BY <1>2, <2>1, <2>2, <2>3 DEF Fed
<1>. QED BY <1>7, <1>8, <1>9

\* The verdict on an upload goes out.
LEMMA VerdictOut ==
  ASSUME TransferInv, WholeInv, Linked, ~client.astray, NEW a \in Block,
         NEW v, v = <<a>>, Uploading(toServer, client, session, <<>>), session.pc = "reply",
         NEW d,
         \/ /\ client.pc = "wait" /\ toClient # <<>> /\ toClient[1].kind = "OK" /\ client.method = "PUT"
            /\ d # <<>> /\ d[1] = toClient[1] /\ Tail(d) = v
         \/ /\ client.pc = "answer" /\ client.ans.kind = "OK" /\ client.method = "PUT"
            /\ client.buf \o d = v
         \/ client.pc = "send" /\ client.method = "PUT" /\ client.buf \o d = v
         \/ client.pc = "wait2" /\ client.method = "PUT" /\ d = v
  PROVE  /\ Stands(d, client, Onward) /\ Fed(toServer, client, Onward)
         /\ Supplies(d, client, Onward)
<1>1. Onward.pc = "read"
  <2>1. session.next = "read"
    BY DEF Uploading
  <2>. QED BY <2>1, OnwardFacts
<1>2. Tells(Onward, v)
  <2>1. Len(v) = 1
    OBVIOUS
  <2>. QED BY <1>1, <2>1 DEF Tells
<1>3. \A b : b.kind = "OK" /\ client.method = "PUT" => Behind(client, Onward, b, v)
  BY <1>2 DEF Behind
<1>4. Stands(toClient, client, session)
  BY NowWhole DEF Linked
<1>5. Stands(d, client, Onward)
  <2>1. CASE /\ client.pc = "wait" /\ toClient # <<>> /\ toClient[1].kind = "OK" /\ client.method = "PUT"
             /\ d # <<>> /\ d[1] = toClient[1] /\ Tail(d) = v
    BY <1>3, <1>4, <2>1 DEF Stands
  <2>2. CASE client.pc = "answer" /\ client.ans.kind = "OK" /\ client.method = "PUT" /\ client.buf \o d = v
    BY <1>3, <1>4, <2>2 DEF Stands
  <2>3. CASE client.pc = "send" /\ client.method = "PUT" /\ client.buf \o d = v
    BY <1>2, <1>4, <2>3 DEF Stands
  <2>4. CASE client.pc = "wait2" /\ client.method = "PUT" /\ d = v
    BY <1>2, <1>4, <2>4 DEF Stands
  <2>. QED BY <2>1, <2>2, <2>3, <2>4
<1>6. toServer = <<>>
  BY DEF Uploading
<1>7. Fed(toServer, client, Onward)
  BY <1>1, <1>6 DEF Fed, AllData
<1>. QED BY <1>1, <1>5, <1>7 DEF Supplies

LEMMA RespondWhole ==
  ASSUME TransferInv, TransferInv', WholeInv, Respond
  PROVE  WholeInv'
<1> DEFINE a == session.ans
<1>1. /\ session.pc = "reply" /\ UNCHANGED <<linked, client, toServer>>
      /\ \/ Heard /\ toClient' = Append(toClient, a) /\ session' = Onward
         \/ ~Heard /\ session' \in {Onward, Gone} /\ toClient' = toClient
  BY DEF Respond, Serving
<1>2. /\ client \in ClientRecord /\ session \in SessionRecord /\ a \in Block /\ toClient \in Seq(Block)
      /\ client.buf \in Seq(Block) /\ session.next \in {"read", "recv", "send", "gone"}
      /\ client.connected => client.pc # "dead"
  <2>1. a \in Response /\ a.kind # "garbage"
    BY <1>1, Now DEF SessionRecord, Prepared
  <2>. QED BY <2>1, Now, Blocks DEF LineDown, ClientRecord, SessionRecord, Engaged
<1>3. /\ session'.pc \in {"read", "recv", "send", "gone"}
      /\ session'.pc = "recv" => session.next = "recv"
  <2>1. Onward.pc = session.next /\ Gone.pc = "gone"
    BY <1>1, <1>2, OnwardFacts, Consts
  <2>. QED BY <1>1, <1>2, <2>1
<1>4. Poised(session')
  BY <1>3 DEF Poised
<1>5. ASSUME client.connected, ~client.astray, ~linked
      PROVE  /\ Stands(toClient', client, session')
             /\ Begun(toClient', client) => Fed(toServer', client, session')
  <2>1. toClient' = toClient
    BY <1>1, <1>5 DEF Heard
  <2>2. /\ Stands(toClient, client, session)
        /\ Begun(toClient, client) => Fed(toServer, client, session)
    BY <1>5, NowWhole
  <2>3. session'.pc = "recv" => ~Begun(toClient, client)
    BY <1>1, <1>3, <2>2 DEF Fed
  <2>4. Stands(toClient, client, session')
    <3>1. PICK t : t = session'
      OBVIOUS
    <3>. QED BY <2>2, <2>3, <3>1, StandsOn
  <2>. QED BY <1>1, <1>3, <2>1, <2>2, <2>3, <2>4 DEF Fed
<1>6. ASSUME client.connected, ~client.astray, linked
      PROVE  /\ Stands(toClient', client, session')
             /\ Begun(toClient', client) => Fed(toServer', client, session')
             /\ Supplies(toClient', client, session')
  <2>1. Linked /\ toClient' = Append(toClient, a) /\ session' = Onward
    BY <1>1, <1>6 DEF Heard, Linked
  <2> DEFINE v == <<a>>
  <2>2. PICK d : d = Append(toClient, a)
    OBVIOUS
  <2>3. PICK w : w = v
    OBVIOUS
  <2>. SUFFICES /\ Stands(d, client, Onward) /\ Fed(toServer, client, Onward)
                /\ Supplies(d, client, Onward)
    BY <1>1, <2>1, <2>2
  <2>4. CASE client.pc = "wait" /\ toServer = <<>> /\ toClient = <<>> /\ Decided(client, session)
    <3>1. d # <<>> /\ d[1] = a /\ Tail(d) = <<>>
      BY <1>2, <2>2, <2>4, AppendFacts
    <3>. HIDE DEF a
    <3>. QED BY <1>1, <1>6, <2>1, <2>4, <3>1, AnswerOut DEF a
  <2>5. CASE /\ client.pc = "wait" /\ toClient # <<>> /\ Tail(toClient) = <<>>
             /\ toClient[1].kind = "OK" /\ client.method = "PUT"
             /\ Uploading(toServer, client, session, <<>>)
    <3>1. d # <<>> /\ d[1] = toClient[1] /\ Tail(d) = w
      BY <1>2, <2>2, <2>3, <2>5, AppendFacts
    <3>. QED BY <1>1, <1>2, <1>6, <2>1, <2>3, <2>5, <3>1, VerdictOut
  <2>6. Append(<<>>, a) = w /\ w \in Seq(Block)
    BY <1>2, <2>3
  <2>7. ASSUME client.buf \o toClient = <<>> PROVE client.buf \o d = w
    <3>1. client.buf = <<>> /\ toClient = <<>>
      BY <1>2, <2>7, ConcatEqualIffEmpty
    <3>. QED BY <2>2, <2>6, <3>1
  <2>8. CASE /\ client.pc = "answer" /\ client.buf \o toClient = <<>>
             /\ client.ans.kind = "OK" /\ client.method = "PUT"
             /\ Uploading(toServer, client, session, <<>>)
    BY <1>1, <1>2, <1>6, <2>1, <2>3, <2>7, <2>8, VerdictOut
  <2>9. CASE /\ client.pc = "send" /\ client.buf \o toClient = <<>> /\ client.method = "PUT"
             /\ Uploading(toServer, client, session, <<>>)
    BY <1>1, <1>2, <1>6, <2>1, <2>3, <2>7, <2>9, VerdictOut
  <2>10. CASE /\ client.pc = "wait2" /\ toClient = <<>> /\ client.method = "PUT"
              /\ Uploading(toServer, client, session, <<>>)
    <3>1. d = w
      BY <2>2, <2>6, <2>10
    <3>. QED BY <1>1, <1>2, <1>6, <2>1, <2>3, <2>10, <3>1, VerdictOut
  <2>. QED BY <1>1, <1>2, <1>6, <2>1, <2>4, <2>5, <2>8, <2>9, <2>10, ReplyFacts
<1>. QED BY <1>1, <1>4, <1>5, <1>6, SessionWhole

\* More of a file behind what there is of it.
LEMMA NumberedOn ==
  ASSUME NEW q \in Seq(Block), NEW x \in Seq(Block), NEW k \in Nat, Numbered(q, k),
         \A i \in 1..Len(x) : x[i] = Data(k + Len(q) + i)
  PROVE  Numbered(q \o x, k)
<1> DEFINE g == q \o x
<1>1. /\ Len(g) = Len(q) + Len(x) /\ Len(q) \in Nat /\ Len(x) \in Nat
      /\ \A i \in 1..Len(q) : g[i] = q[i]
      /\ \A j \in 1..Len(x) : g[Len(q) + j] = x[j]
  BY JoinFacts
<1>. HIDE DEF g
<1>2. ASSUME NEW i \in 1..Len(g) PROVE g[i] = Data(k + i)
  <2>1. CASE i <= Len(q)
    <3>1. i \in 1..Len(q)
      BY <1>1, <2>1
    <3>. QED BY <1>1, <3>1 DEF Numbered
  <2>2. CASE i > Len(q)
    <3>1. i - Len(q) \in 1..Len(x) /\ i = Len(q) + (i - Len(q)) /\ k + Len(q) + (i - Len(q)) = k + i
      BY <1>1, <2>2
    <3>2. g[Len(q) + (i - Len(q))] = x[i - Len(q)]
      BY <1>1, <3>1
    <3>. QED BY <3>1, <3>2
  <2>. QED BY <1>1, <2>1, <2>2
<1>. QED BY <1>2 DEF Numbered, g

LEMMA BehindOn ==
  ASSUME NEW c, NEW s, NEW t, NEW a, NEW v \in Seq(Block), NEW x \in Seq(Block),
         Behind(c, s, a, v), Bodied(c, a), Len(v) + Len(x) <= a.n,
         \A i \in 1..Len(x) : x[i] = Data(Len(v) + i)
  PROVE  Behind(c, t, a, v \o x)
<1>1. a.kind \in {"LENGTH", "LIST"}
  BY DEF Bodied
<1>2. a.n <= MaxInt /\ Numbered(v, 0)
  BY <1>1 DEF Behind
<1>3. Len(v) \in Nat /\ Len(v \o x) = Len(v) + Len(x)
  BY JoinFacts
<1>4. \A i \in 1..Len(x) : x[i] = Data(0 + Len(v) + i)
  BY <1>3
<1>5. Numbered(v \o x, 0)
  BY <1>2, <1>4, NumberedOn
<1>. QED BY <1>1, <1>2, <1>3, <1>5 DEF Behind

LEMMA BroughtMore ==
  ASSUME NEW c \in ClientRecord, NEW d \in Seq(Block), NEW x \in Seq(Block),
         Brought(d, c), Len(d) + Len(x) <= c.left,
         \A i \in 1..Len(x) : x[i] = Data((c.size - c.left) + Len(d) + i)
  PROVE  Brought(d \o x, c)
<1>1. c.left <= c.size /\ c.size \in Nat /\ c.left \in Int
  BY DEF Brought, ClientRecord
<1>2. c.size - c.left \in Nat
  BY <1>1
<1>3. Numbered(d, c.size - c.left)
  BY DEF Brought
<1>4. Numbered(d \o x, c.size - c.left)
  BY <1>2, <1>3, NumberedOn
<1>5. Len(d \o x) = Len(d) + Len(x)
  BY JoinFacts
<1>. QED BY <1>4, <1>5 DEF Brought

\* One write of a session: what it writes goes on where the last write ended.
LEMMA SendWhole ==
  ASSUME TransferInv, TransferInv', WholeInv, Send
  PROVE  WholeInv'
<1> DEFINE c == Least({session.left, Buff})
           n == Len(session.got)
           x == [i \in 1..c |-> Data(n + i)]
<1>1. /\ session.pc = "send" /\ session.left > 0 /\ linked /\ client.connected
      /\ toClient' = toClient \o x /\ UNCHANGED <<linked, client, toServer>>
      /\ session' = [session EXCEPT !.left = session.left - c, !.got = session.got \o x]
  BY DEF Send, Serving, Heard
<1>2. /\ session \in SessionRecord /\ session.left \in Nat /\ session.got \in Seq(Block) /\ n \in Nat
      /\ toClient \in Seq(Block) /\ client.buf \in Seq(Block) /\ client \in ClientRecord
      /\ client.pc # "dead"
  BY <1>1, Now, Blocks DEF SessionRecord, LineDown, ClientRecord, Engaged
<1>3. c \in Nat /\ c <= session.left
  <2>1. Buff \in Nat
    BY TransferAssumption DEF TransferAssumption
  <2>2. session.left \in Nat
    BY <1>2
  <2>. QED BY <2>1, <2>2, LeastOfTwo
<1>. HIDE DEF c
<1>4. x \in Seq(Block) /\ Len(x) = c /\ \A i \in 1..Len(x) : x[i] = Data(n + i)
  <2>. HIDE DEF n
  <2>1. x \in Seq(Down) /\ Len(x) = c
    BY <1>2, <1>3, FileFacts
  <2>2. \A i \in 1..c : x[i] = Data(n + i)
    OBVIOUS
  <2>. HIDE DEF x
  <2>3. x \in Seq(Block)
    BY <2>1, Blocks
  <2>4. \A i \in 1..Len(x) : x[i] = Data(n + i)
    BY <2>1, <2>2
  <2>. QED BY <2>1, <2>3, <2>4
<1>. HIDE DEF x
<1>5. /\ session'.pc = "send" /\ session'.left = session.left - c /\ session'.got = session.got \o x
  BY <1>1, <1>2 DEF SessionRecord
<1>6. Len(session'.got) = n + c
  <2>1. Len(session.got \o x) = Len(session.got) + Len(x)
    BY <1>2, <1>4, JoinFacts
  <2>. QED BY <1>4, <1>5, <2>1
<1>. HIDE DEF n
<1>7. Len(session'.got) + session'.left = n + session.left
  BY <1>2, <1>3, <1>5, <1>6
<1>8. Poised(session')
  BY <1>5 DEF Poised
<1>9. ASSUME ~client.astray
      PROVE  /\ Stands(toClient', client, session') /\ Supplies(toClient', client, session')
             /\ Begun(toClient', client) => Fed(toServer', client, session')
  <2>1. /\ Stands(toClient, client, session)
        /\ Begun(toClient, client) => Fed(toServer, client, session)
        /\ n + session.left = Announced(toClient, client)
    <3>1. Supplies(toClient, client, session)
      BY <1>1, <1>9, NowWhole
    <3>. QED BY <1>1, <1>9, <3>1, NowWhole DEF Supplies, n
  <2>2. Talk(toServer, toClient, client, session)
    BY <1>1, <1>9, Now DEF Linked
  <2>3. ASSUME NEW a, NEW v \in Seq(Block), After(toServer, client, session, a, v),
               Behind(client, session, a, v), n + session.left = a.n
        PROVE  Behind(client, session', a, v \o x)
    <3>1. Bodied(client, a) /\ a.n = Len(v) + session.left
      BY <1>1, <2>3 DEF After, Uploading, Owed
    <3>2. Len(v) \in Nat
      OBVIOUS
    <3>3. Len(v) = n /\ Len(v) + Len(x) <= a.n
      BY <1>2, <1>3, <1>4, <2>3, <3>1, <3>2
    <3>4. \A i \in 1..Len(x) : x[i] = Data(Len(v) + i)
      BY <1>4, <3>3
    <3>5. PICK t : t = session'
      OBVIOUS
    <3>6. Behind(client, t, a, v \o x)
      BY <1>4, <2>3, <3>1, <3>3, <3>4, BehindOn
    <3>. QED BY <3>5, <3>6
  <2>4. PICK d : d = toClient \o x
    OBVIOUS
  <2>. SUFFICES /\ Stands(d, client, session') /\ Supplies(d, client, session')
                /\ Begun(d, client) => Fed(toServer, client, session')
    BY <1>1, <2>4
  <2>5. client.pc \in {"wait", "answer", "fetch", "list"}
    BY <1>1, <1>2, <2>2 DEF Talk, AtRest, Uploading, Unheard, ClientRecord
  <2>6. Begun(toClient, client) => Fed(toServer, client, session')
    BY <1>1, <1>5, <2>1 DEF Fed
  <2>7. CASE client.pc = "wait"
    <3>1. toClient # <<>> /\ After(toServer, client, session, toClient[1], Tail(toClient))
      BY <1>1, <2>2, <2>7 DEF Talk, Waiting, AtRest
    <3>2. d # <<>> /\ d[1] = toClient[1] /\ Tail(d) = Tail(toClient) \o x /\ Tail(toClient) \in Seq(Block)
      BY <1>2, <1>4, <2>4, <3>1, TailOfMore
    <3>3. toClient[1].kind # "data" /\ Behind(client, session, toClient[1], Tail(toClient))
          /\ client.pos = 0 /\ ~client.short
      BY <2>1, <2>7, <3>1 DEF Stands
    <3>4. n + session.left = toClient[1].n
      BY <2>1, <2>7 DEF Announced
    <3>5. Behind(client, session', d[1], Tail(d))
      <4>1. Behind(client, session', toClient[1], Tail(toClient) \o x)
        BY <2>3, <3>1, <3>2, <3>3, <3>4
      <4>. QED BY <3>2, <4>1
    <3>6. Stands(d, client, session')
      BY <2>7, <3>2, <3>3, <3>5 DEF Stands
    <3>7. Supplies(d, client, session')
      BY <1>5, <1>7, <2>7, <3>2, <3>4 DEF Supplies, Announced
    <3>. QED BY <2>6, <2>7, <3>1, <3>6, <3>7 DEF Begun
  <2>8. CASE client.pc = "answer"
    <3> DEFINE v == client.buf \o toClient
    <3>1. v \in Seq(Block) /\ client.buf \o d = v \o x
      <4>1. (client.buf \o toClient) \o x = client.buf \o (toClient \o x)
        BY <1>2, <1>4, Associative
      <4>. QED BY <1>2, <2>4, <4>1
    <3>2. After(toServer, client, session, client.ans, v)
      BY <2>2, <2>8 DEF Talk
    <3>3. Behind(client, session, client.ans, v) /\ client.pos = 0 /\ ~client.short
      BY <2>1, <2>8 DEF Stands
    <3>4. n + session.left = client.ans.n
      BY <2>1, <2>8 DEF Announced
    <3>. HIDE DEF v
    <3>5. Behind(client, session', client.ans, client.buf \o d)
      BY <2>3, <3>1, <3>2, <3>3, <3>4
    <3>6. Stands(d, client, session')
      BY <2>8, <3>3, <3>5 DEF Stands
    <3>7. Supplies(d, client, session')
      BY <1>5, <1>7, <2>8, <3>4 DEF Supplies, Announced
    <3>. QED BY <2>6, <2>8, <3>6, <3>7 DEF Begun
  <2>9. CASE client.pc \in {"fetch", "list"}
    <3>1. Brought(toClient, client)
      BY <2>1, <2>9 DEF Stands
    <3>2. client.left = Len(toClient) + session.left
      BY <1>1, <2>2, <2>9 DEF Talk, Downloading, Owed
    <3>3. n + session.left = client.size
      BY <2>1, <2>9 DEF Announced
    <3>4. Len(toClient) \in Nat /\ client.size \in Nat /\ client.left \in Int
      BY <1>2 DEF ClientRecord
    <3>5. (client.size - client.left) + Len(toClient) = n /\ Len(toClient) + Len(x) <= client.left
      BY <1>2, <1>3, <1>4, <3>2, <3>3, <3>4
    <3>6. \A i \in 1..Len(x) : x[i] = Data((client.size - client.left) + Len(toClient) + i)
      BY <1>4, <3>5
    <3>7. Brought(d, client)
      BY <1>2, <1>4, <2>4, <3>1, <3>5, <3>6, BroughtMore
    <3>8. Stands(d, client, session')
      BY <2>9, <3>7 DEF Stands
    <3>9. Supplies(d, client, session')
      BY <1>5, <1>7, <2>9, <3>3 DEF Supplies, Announced
    <3>. QED BY <2>6, <2>9, <3>8, <3>9 DEF Begun
  <2>. QED BY <2>5, <2>7, <2>8, <2>9
<1>. QED BY <1>1, <1>8, <1>9, SessionWhole

\* What has arrived of a line whose rest is lost.
Cut(p, q) == /\ p \in Seq(Block) /\ q \in Seq(Block) /\ Len(p) <= Len(q)
             /\ \A i \in 1..Len(p) : p[i] = q[i]

LEMMA CutFacts ==
  ASSUME NEW q \in Seq(Block), NEW k \in 0..Len(q)
  PROVE  Cut(SubSeq(q, 1, k), q)
BY DEF Cut

LEMMA CutEmpty ==
  ASSUME NEW p, NEW q, Cut(p, q), q = <<>>
  PROVE  p = <<>>
<1>1. p \in Seq(Block) /\ Len(p) \in Nat /\ Len(p) <= 0
  BY DEF Cut
<1>. QED BY <1>1

LEMMA CutTail ==
  ASSUME NEW p, NEW q, Cut(p, q), p # <<>>
  PROVE  q # <<>> /\ p[1] = q[1] /\ Cut(Tail(p), Tail(q))
<1>1. p \in Seq(Block) /\ q \in Seq(Block) /\ Len(p) \in Nat \ {0} /\ Len(q) \in Nat /\ Len(p) <= Len(q)
  BY DEF Cut
<1>2. q # <<>> /\ Len(q) >= 1
  BY <1>1
<1>3. /\ Tail(p) \in Seq(Block) /\ Len(Tail(p)) = Len(p) - 1 /\ Tail(q) \in Seq(Block) /\ Len(Tail(q)) = Len(q) - 1
  BY <1>1, <1>2
<1>4. ASSUME NEW i \in 1..Len(p) - 1 PROVE Tail(p)[i] = Tail(q)[i]
  <2>1. Tail(p)[i] = p[i + 1] /\ Tail(q)[i] = q[i + 1]
    BY <1>1, <1>2
  <2>2. i + 1 \in 1..Len(p)
    BY <1>1
  <2>. QED BY <2>1, <2>2 DEF Cut
<1>5. p[1] = q[1]
  BY <1>1 DEF Cut
<1>6. Cut(Tail(p), Tail(q))
  BY <1>1, <1>3, <1>4 DEF Cut
<1>. QED BY <1>2, <1>5, <1>6

LEMMA CutJoin ==
  ASSUME NEW p, NEW q, Cut(p, q), NEW b \in Seq(Block)
  PROVE  Cut(b \o p, b \o q)
<1>1. p \in Seq(Block) /\ q \in Seq(Block) /\ Len(p) <= Len(q) /\ \A i \in 1..Len(p) : p[i] = q[i]
  BY DEF Cut
<1> DEFINE g == b \o p
           h == b \o q
<1>2. /\ g \in Seq(Block) /\ Len(g) = Len(b) + Len(p) /\ Len(b) \in Nat /\ Len(p) \in Nat
      /\ \A i \in 1..Len(b) : g[i] = b[i]
      /\ \A j \in 1..Len(p) : g[Len(b) + j] = p[j]
  BY <1>1, JoinFacts
<1>3. /\ h \in Seq(Block) /\ Len(h) = Len(b) + Len(q) /\ Len(q) \in Nat
      /\ \A i \in 1..Len(b) : h[i] = b[i]
      /\ \A j \in 1..Len(q) : h[Len(b) + j] = q[j]
  BY <1>1, JoinFacts
<1>. HIDE DEF g, h
<1>4. ASSUME NEW i \in 1..Len(g) PROVE g[i] = h[i]
  <2>1. CASE i <= Len(b)
    <3>1. i \in 1..Len(b)
      BY <1>2, <2>1
    <3>. QED BY <1>2, <1>3, <3>1
  <2>2. CASE i > Len(b)
    <3>1. PICK j \in 1..Len(p) : i = Len(b) + j
      <4>1. i - Len(b) \in 1..Len(p) /\ i = Len(b) + (i - Len(b))
        BY <1>2, <2>2
      <4>. QED BY <4>1
    <3>2. j \in 1..Len(q)
      BY <1>1, <1>2, <1>3
    <3>. QED BY <1>1, <1>2, <1>3, <3>1, <3>2
  <2>. QED BY <1>2, <2>1, <2>2
<1>5. Len(g) <= Len(h)
  BY <1>1, <1>2, <1>3
<1>6. Cut(g, h)
  BY <1>2, <1>3, <1>4, <1>5 DEF Cut
<1>. QED BY <1>6 DEF g, h

LEMMA CutBlocks ==
  ASSUME NEW p, NEW q, Cut(p, q)
  PROVE  /\ AllData(q) => AllData(p)
         /\ \A k : Numbered(q, k) => Numbered(p, k)
         /\ \A s : Tells(s, q) => Tells(s, p)
         /\ \A c, s, a : Behind(c, s, a, q) /\ (a.kind \in {"LENGTH", "LIST"} => a.n \in Nat) => Behind(c, s, a, p)
<1>1. /\ Len(p) \in Nat /\ Len(q) \in Nat /\ Len(p) <= Len(q)
      /\ \A i \in 1..Len(p) : p[i] = q[i] /\ i \in 1..Len(q)
  BY DEF Cut
<1>2. AllData(q) => AllData(p)
  BY <1>1 DEF AllData
<1>3. \A k : Numbered(q, k) => Numbered(p, k)
  BY <1>1 DEF Numbered
<1>4. ASSUME NEW s, Tells(s, q) PROVE Tells(s, p)
  <2>1. ASSUME p # <<>> PROVE Len(p) = 1 /\ s.pc # "recv"
    <3>1. q # <<>>
      BY <2>1, CutEmpty
    <3>2. Len(q) = 1 /\ s.pc # "recv"
      BY <1>4, <3>1 DEF Tells
    <3>3. p \in Seq(Block) /\ Len(p) # 0
      BY <2>1 DEF Cut
    <3>. QED BY <1>1, <3>2, <3>3
  <2>. QED BY <2>1 DEF Tells
<1>5. ASSUME NEW c, NEW s, NEW a, Behind(c, s, a, q), a.kind \in {"LENGTH", "LIST"} => a.n \in Nat
      PROVE  Behind(c, s, a, p)
  <2>1. a.kind \in {"LENGTH", "LIST"} => Bodied(c, a) /\ a.n <= MaxInt /\ Len(p) <= a.n /\ Numbered(p, 0)
    BY <1>1, <1>3, <1>5 DEF Behind
  <2>2. p # <<>> => q # <<>>
    BY CutEmpty
  <2>. QED BY <1>4, <1>5, <2>1, <2>2 DEF Behind
<1>. QED BY <1>2, <1>3, <1>4, <1>5

LEMMA CarriesCut ==
  ASSUME NEW c \in ClientRecord, NEW s, NEW p, NEW q, Cut(p, q), Carries(c, s, q),
         c.short => Sent(c) <= Yet(ToInt(c.size))
  PROVE  Carries(c, s, p)
<1> DEFINE t == ToInt(c.size)
<1>1. /\ Len(p) \in Nat /\ Len(q) \in Nat /\ Len(p) <= Len(q)
      /\ \A i \in 1..Len(p) : p[i] = q[i] /\ i \in 1..Len(q)
  BY DEF Cut
<1>2. t \in Int /\ Sent(c) \in Int
  <2>1. ToInt(c.size) \in Int /\ c.left \in Int
    BY ToIntFacts DEF ClientRecord
  <2>. QED BY <2>1 DEF Sent
<1>3. Len(q) <= Sent(c) /\ (c.short => Len(q) < t \/ ~Numbered(q, 0))
  BY DEF Carries
<1>4. ASSUME c.short PROVE Len(p) < t \/ ~Numbered(p, 0)
  <2>1. CASE Len(q) < t
    <3>. HIDE DEF t
    <3>. QED BY <1>1, <1>2, <2>1
  <2>2. CASE ~Numbered(q, 0)
    <3>1. PICK i \in 1..Len(q) : q[i] # Data(0 + i)
      BY <2>2 DEF Numbered
    <3>2. CASE i <= Len(p)
      <4>1. i \in 1..Len(p)
        BY <1>1, <3>2
      <4>2. p[i] # Data(0 + i)
        BY <1>1, <3>1, <4>1
      <4>. QED BY <4>1, <4>2 DEF Numbered
    <3>3. CASE i > Len(p)
      <4>1. Len(q) >= 1 /\ Len(p) < Len(q)
        BY <1>1, <3>3
      <4>2. Sent(c) <= Yet(t)
        BY <1>4
      <4>. HIDE DEF t
      <4>3. Yet(t) >= 1
        BY <1>1, <1>2, <1>3, <4>1, <4>2, YetFacts
      <4>4. Yet(t) = t
        BY <1>2, <4>3 DEF Yet
      <4>5. Len(q) <= t
        BY <1>1, <1>2, <1>3, <4>2, <4>4
      <4>. QED BY <1>1, <1>2, <4>1, <4>5
    <3>. QED BY <1>1, <3>2, <3>3
  <2>. QED BY <1>3, <1>4, <2>1, <2>2
<1>5. Len(p) <= Sent(c)
  BY <1>1, <1>2, <1>3
<1>6. /\ ~c.same => \A i \in 1..Len(p) : p[i] = Data(0)
      /\ c.same /\ ~c.short => Numbered(p, 0)
  BY <1>1, CutBlocks DEF Carries
<1>. QED BY <1>4, <1>5, <1>6 DEF Carries

LEMMA StandsCut ==
  ASSUME NEW c \in ClientRecord, NEW s, NEW p, NEW q, Cut(p, q), Stands(q, c, s)
  PROVE  Stands(p, c, s)
<1>1. c.buf \in Seq(Block) /\ c.ans.n \in Nat /\ c.left \in Int /\ q \in Seq(Block)
      /\ Len(p) \in Nat /\ Len(q) \in Nat /\ Len(p) <= Len(q)
  BY DEF ClientRecord, Response, Cut
<1>2. c.pc \in {"idle", "answer2"} => p = <<>>
  BY CutEmpty DEF Stands
<1>3. ASSUME c.pc = "wait", p # <<>>
      PROVE  p[1].kind # "data" /\ Behind(c, s, p[1], Tail(p))
  <2>1. q # <<>> /\ p[1] = q[1] /\ Cut(Tail(p), Tail(q))
    BY <1>3, CutTail
  <2>2. q[1] \in Block
    BY <1>1, <2>1
  <2>3. q[1].n \in Nat
    BY <2>2 DEF Block
  <2>4. q[1].kind # "data" /\ Behind(c, s, q[1], Tail(q))
    BY <1>3, <2>1 DEF Stands
  <2>5. Behind(c, s, q[1], Tail(p))
    BY <2>1, <2>3, <2>4, CutBlocks
  <2>. QED BY <2>1, <2>4, <2>5
<1>4. Cut(c.buf \o p, c.buf \o q)
  BY <1>1, CutJoin
<1>5. ASSUME c.pc = "answer" PROVE Behind(c, s, c.ans, c.buf \o p)
  <2>1. Behind(c, s, c.ans, c.buf \o q)
    BY <1>5 DEF Stands
  <2>. QED BY <1>1, <1>4, <2>1, CutBlocks
<1>6. ASSUME c.pc = "send" PROVE c.method = "PUT" /\ Tells(s, c.buf \o p)
  <2>1. c.method = "PUT" /\ Tells(s, c.buf \o q)
    BY <1>6 DEF Stands
  <2>. QED BY <1>4, <2>1, CutBlocks
<1>7. c.pc = "wait2" => c.method = "PUT" /\ Tells(s, p)
  BY CutBlocks DEF Stands
<1>8. ASSUME c.pc \in {"fetch", "list"} PROVE Brought(p, c)
  <2>1. Brought(q, c)
    BY <1>8 DEF Stands
  <2>2. Numbered(p, c.size - c.left)
    BY <2>1, CutBlocks DEF Brought
  <2>3. Len(p) <= c.left
    BY <1>1, <2>1 DEF Brought
  <2>. QED BY <2>1, <2>2, <2>3 DEF Brought
<1>9. /\ c.pc = "answer2" => s.pc # "recv"
      /\ c.pc \in {"wait", "answer"} => c.pos = 0 /\ ~c.short
      /\ c.pc \in {"send", "wait2"} => Paced(c)
  BY DEF Stands
<1>. QED BY <1>2, <1>3, <1>5, <1>6, <1>7, <1>8, <1>9 DEF Stands

LEMMA BreakWhole ==
  ASSUME TransferInv, TransferInv', WholeInv, Break
  PROVE  WholeInv'
<1>1. PICK i \in 0..Len(toServer), j \in 0..Len(toClient) :
        toServer' = SubSeq(toServer, 1, i) /\ toClient' = SubSeq(toClient, 1, j)
  BY DEF Break
<1>2. linked' = FALSE /\ UNCHANGED <<client, session>>
  BY DEF Break
<1>3. /\ toServer \in Seq(Block) /\ toClient \in Seq(Block) /\ session.got \in Seq(Block)
      /\ client \in ClientRecord
  BY Now, Blocks DEF LineUp, LineDown, SessionRecord
<1>4. PICK u, d : u = toServer' /\ d = toClient'
  OBVIOUS
<1>5. Cut(u, toServer) /\ Cut(d, toClient)
  BY <1>1, <1>3, <1>4, CutFacts
<1>6. Poised(session')
  BY <1>2 DEF WholeInv, Poised
<1>7. ASSUME client.connected, ~client.astray
      PROVE  Stands(d, client, session) /\ (Begun(d, client) => Fed(u, client, session))
  <2>1. Stands(toClient, client, session)
    BY <1>7, NowWhole
  <2>2. Stands(d, client, session)
    BY <1>3, <1>5, <2>1, StandsCut
  <2>3. ASSUME Begun(d, client) PROVE Fed(u, client, session)
    <3>1. Begun(toClient, client)
      BY <1>5, <2>3, CutEmpty DEF Begun
    <3>2. Fed(toServer, client, session)
      BY <1>7, <3>1, NowWhole
    <3>3. AllData(u)
      BY <1>5, <3>2, CutBlocks DEF Fed
    <3>4. ASSUME session.pc = "recv" PROVE Carries(client, session, session.got \o u)
      <4>1. Carries(client, session, session.got \o toServer)
        BY <3>2, <3>4 DEF Fed
      <4>2. Cut(session.got \o u, session.got \o toServer)
        BY <1>3, <1>5, CutJoin
      <4>3. client.short => Sent(client) <= Yet(ToInt(client.size))
        BY <2>1, <3>2, <3>4 DEF Fed, Stands, Paced
      <4>. QED BY <1>3, <4>1, <4>2, <4>3, CarriesCut
    <3>. QED BY <3>2, <3>3, <3>4 DEF Fed
  <2>. QED BY <2>2, <2>3
<1>8. client'.connected /\ ~client'.astray =>
        /\ Stands(toClient', client', session')
        /\ Begun(toClient', client') => Fed(toServer', client', session')
  BY <1>2, <1>4, <1>7
<1>. QED BY <1>2, <1>6, <1>8, ThenWhole

LEMMA InitWhole == Init => WholeInv
<1>. SUFFICES ASSUME Init PROVE WholeInv
  OBVIOUS
<1>1. client = Unconnected /\ session = Gone
  BY DEF Init
<1>2. client.connected = FALSE /\ session.pc = "gone"
  BY <1>1, Consts
<1>. QED BY <1>2 DEF WholeInv, Poised

LEMMA NextWhole == TransferInv /\ WholeInv /\ [Next]_vars => WholeInv'
<1>. SUFFICES ASSUME TransferInv, WholeInv, [Next]_vars PROVE WholeInv'
  OBVIOUS
<1>0. TransferInv'
  BY NextTransfer
<1>1. CASE AskAny
  <2>1. PICK m \in Requests \ {"LOGIN"}, n \in 0..MaxSize, same \in BOOLEAN : Ask(m, n, same)
    BY <1>1 DEF AskAny
  <2>. QED BY <1>0, <2>1, AskWhole
<1>2. CASE IoThread
  <2>1. CASE Connect \/ ReadHeader
    BY <1>0, <2>1, ConnectWhole, ReadHeaderWhole
  <2>2. CASE Told \/ PutRefused \/ GetRefused
    BY <1>0, <2>2, RefusedWhole
  <2>3. CASE ListRefused
    <3>1. client' = Done \/ client' = Dropped
      BY <2>3 DEF ListRefused
    <3>. QED BY <1>0, <2>3, <3>1, RefusedWhole, GivenUpWhole
  <2>4. CASE ReadThrows \/ SendThrows
    BY <1>0, <2>4, GivenUpWhole
  <2>5. CASE PutOpen \/ SendSome \/ SendEnd \/ PutAnswered
    BY <1>0, <2>5, PutOpenWhole, SendSomeWhole, SendEndWhole, PutAnsweredWhole
  <2>6. CASE GetOpen \/ Fetch \/ ListOpen \/ ListRead
    BY <1>0, <2>6, GetOpenWhole, FetchWhole, ListOpenWhole, ListReadWhole
  <2>7. CASE FetchEnd \/ ListEnd \/ ListThrows
    BY <1>0, <2>7, BodyEndWhole
  <2>. QED BY <1>2, <2>1, <2>2, <2>3, <2>4, <2>5, <2>6, <2>7 DEF IoThread
<1>3. CASE Handler
  <2>1. CASE ReadRequest \/ Respond \/ Receive \/ Send
    BY <1>0, <2>1, ReadRequestWhole, RespondWhole, ReceiveWhole, SendWhole
  <2>2. CASE Verify \/ SendDone \/ HangUp
    BY <2>2, SessionEndWhole
  <2>. QED BY <1>3, <2>1, <2>2 DEF Handler
<1>4. CASE Break
  BY <1>0, <1>4, BreakWhole
<1>5. CASE UNCHANGED vars
  <2>1. UNCHANGED <<toServer, toClient, linked, client, session>>
    BY <1>5 DEF vars
  <2>2. Poised(session')
    BY <2>1 DEF WholeInv, Poised
  <2>. QED BY <2>1, <2>2, NowWhole, SessionWhole
<1>. QED BY <1>1, <1>2, <1>3, <1>4, <1>5 DEF Next

\* A line is a file when it has its length and its blocks.
LEMMA FileIs ==
  ASSUME NEW q \in Seq(Block), NEW n \in Nat
  PROVE  q = File(n) <=> Len(q) = n /\ \A i \in 1..n : q[i] = Data(i)
<1> DEFINE f == File(n)
<1>1. f \in Seq({Data(i) : i \in Nat}) /\ Len(f) = n /\ \A i \in 1..n : f[i] = Data(i)
  BY DEF File
<1>. HIDE DEF f
<1>2. ASSUME Len(q) = n, \A i \in 1..n : q[i] = Data(i) PROVE q = f
  <2>1. Len(q) = Len(f) /\ \A i \in 1..Len(q) : q[i] = f[i]
    BY <1>1, <1>2
  <2>. QED BY <1>1, <2>1, SeqEqual
<1>3. q = f => Len(q) = n /\ \A i \in 1..n : q[i] = Data(i)
  BY <1>1
<1>. QED BY <1>2, <1>3 DEF f

\* What a session has of an upload once it has it all.
LEMMA UploadIsWhole ==
  ASSUME TransferInv, WholeInv, ~client.astray,
         session.pc = "recv", session.left <= 0, client.pc \in {"wait2", "answer2"}
  PROVE  session.got = File(session.size) <=>
           session.size = 0 \/ (client.same /\ session.size <= MaxInt /\ ~client.short)
<1> DEFINE g == session.got
           b == session.got \o toServer
           n == session.size
           t == ToInt(n)
<1>1. /\ client \in ClientRecord /\ session \in SessionRecord /\ client.connected
      /\ toServer \in Seq(Block)
  BY Now, Blocks DEF Engaged, LineUp
<1>2. Fed(toServer, client, session) /\ Stands(toClient, client, session)
  BY <1>1, NowWhole DEF Begun
<1>3. Carries(client, session, b) /\ client.pc = "wait2"
  BY <1>2 DEF Fed
<1>4. n = client.size /\ n \in Nat /\ session.left \in Int /\ g \in Seq(Block)
  BY <1>1, <1>3 DEF Carries, SessionRecord
<1>5. t \in Int /\ t <= MaxInt /\ (n <= MaxInt => t = n) /\ MaxInt \in Nat
  BY <1>4, ToIntFacts, TransferAssumption DEF TransferAssumption
<1>6. Sent(client) <= Yet(t) /\ Sent(client) \in Int
  <2>1. Sent(client) = t - client.left /\ client.left \in Int
    BY <1>1, <1>3, <1>4 DEF Sent, ClientRecord
  <2>2. Sent(client) <= Yet(t)
    BY <1>2, <1>3, <1>4 DEF Stands, Paced
  <2>. HIDE DEF t
  <2>. QED BY <1>5, <2>1, <2>2
<1>7. /\ session.left = t - Len(g) /\ Len(b) <= Sent(client)
      /\ ~client.same => \A i \in 1..Len(b) : b[i] = Data(0)
      /\ client.same /\ ~client.short => Numbered(b, 0)
      /\ client.short => Len(b) < t \/ ~Numbered(b, 0)
  BY <1>3, <1>4 DEF Carries
<1>8. /\ Len(b) = Len(g) + Len(toServer) /\ Len(g) \in Nat /\ Len(toServer) \in Nat
      /\ \A i \in 1..Len(g) : b[i] = g[i]
  BY <1>1, <1>4, JoinFacts
<1>9. Yet(t) = IF t > 0 THEN t ELSE 0
  BY DEF Yet
<1>. HIDE DEF g, b, n, t
<1>10. Len(g) = Yet(t) /\ Len(b) = Len(g)
  <2>1. t <= Len(g)
    BY <1>4, <1>5, <1>7, <1>8
  <2>2. Len(g) <= Len(b) /\ Len(b) <= Yet(t)
    BY <1>5, <1>6, <1>7, <1>8, <1>9
  <2>. QED BY <1>5, <1>8, <1>9, <2>1, <2>2
<1>11. g = File(n) <=> Len(g) = n /\ \A i \in 1..n : g[i] = Data(i)
  BY <1>4, FileIs
<1>12. ASSUME n = 0 PROVE g = File(n)
  <2>1. Len(g) = 0
    BY <1>5, <1>9, <1>10, <1>12
  <2>. QED BY <1>11, <1>12, <2>1
<1>13. ASSUME client.same, n <= MaxInt, ~client.short PROVE g = File(n)
  <2>1. Len(g) = n /\ Len(b) = n
    BY <1>4, <1>5, <1>9, <1>10, <1>13
  <2>2. ASSUME NEW i \in 1..n PROVE g[i] = Data(i)
    <3>1. b[i] = Data(0 + i) /\ 0 + i = i
      BY <1>7, <1>13, <2>1 DEF Numbered
    <3>. QED BY <1>8, <2>1, <3>1
  <2>. QED BY <1>11, <2>1, <2>2
<1>14. ASSUME g = File(n), n # 0
       PROVE  client.same /\ n <= MaxInt /\ ~client.short
  <2>1. Len(g) = n /\ \A i \in 1..n : g[i] = Data(i)
    BY <1>11, <1>14
  <2>2. t = n /\ n <= MaxInt /\ Len(b) = n
    BY <1>4, <1>5, <1>9, <1>10, <1>14, <2>1
  <2>3. ASSUME NEW i \in 1..Len(b) PROVE b[i] = Data(0 + i)
    <3>1. i \in 1..n /\ 0 + i = i
      BY <2>2
    <3>. QED BY <1>8, <2>1, <3>1
  <2>4. Numbered(b, 0)
    BY <2>3 DEF Numbered
  <2>5. ~client.short
    BY <1>4, <1>7, <2>2, <2>4
  <2>6. client.same
    <3>1. 1 \in 1..Len(b)
      BY <1>4, <1>14, <2>2
    <3>2. b[1] = Data(0 + 1)
      BY <2>3, <3>1
    <3>3. Data(0 + 1) # Data(0)
      BY DEF Data
    <3>. QED BY <1>7, <3>1, <3>2, <3>3
  <2>. QED BY <2>2, <2>5, <2>6
<1>15. n = session.size /\ g = session.got
  BY DEF n, g
<1>. QED BY <1>12, <1>13, <1>14, <1>15

\* What has come of a body that has come to its end.
LEMMA BodyIsWhole ==
  ASSUME TransferInv, WholeInv, ~client.astray, client.pc \in {"fetch", "list"}, client.left <= 0
  PROVE  /\ client.pc = "fetch" => client.got = File(client.size)
         /\ client.pc = "list" => SubSeq(client.got, 1, client.size) = File(client.size)
<1> DEFINE g == client.got
           n == client.size
<1>1. /\ client \in ClientRecord /\ client.connected /\ toClient \in Seq(Block)
  BY Now, Blocks DEF Engaged, LineDown
<1>2. Brought(toClient, client)
  BY <1>1, NowWhole DEF Stands
<1>3. n \in Nat /\ g \in Seq(Block) /\ client.left \in Int /\ Len(toClient) \in Nat
  BY <1>1 DEF ClientRecord
<1>4. n - client.left = n
  BY <1>2, <1>3 DEF Brought
<1>5. /\ Len(g) >= n /\ (client.pc = "fetch" => Len(g) = n)
      /\ \A i \in 1..n : g[i] = Data(i)
  BY <1>2, <1>4 DEF Brought
<1>. HIDE DEF g, n
<1>6. client.pc = "fetch" => g = File(n)
  BY <1>3, <1>5, FileIs
<1>7. SubSeq(g, 1, n) = File(n)
  <2> DEFINE p == SubSeq(g, 1, n)
  <2>1. n \in 0..Len(g)
    BY <1>3, <1>5
  <2>2. p \in Seq(Block) /\ Len(p) = n /\ \A i \in 1..n : p[i] = g[i]
    BY <1>3, <2>1
  <2>. HIDE DEF p
  <2>3. p = File(n)
    BY <1>3, <1>5, <2>2, FileIs
  <2>. QED BY <2>3 DEF p
<1>. QED BY <1>6, <1>7 DEF g, n

\* What the blocks on their way are, request by request, also when the connection breaks in
\* the middle of one (client.cpp:260-317 and 348-388, session.cpp:57-99 and 481-499): WholeInv.
THEOREM WholeInvariance == Spec => []WholeInv
<1>1. Init => TransferInv /\ WholeInv
  BY InitTransfer, InitWhole
<1>2. TransferInv /\ WholeInv /\ [Next]_vars => (TransferInv /\ WholeInv)'
  BY NextTransfer, NextWhole
<1>. QED BY <1>1, <1>2, PTL DEF Spec

\* A file arrives as it was hashed exactly when it was not changed meanwhile, is not too long
\* for an int, and write_some took all it was given (client.cpp:276, session.cpp:57-73); what a
\* GET brings is what was sent, and the lines of a SNAPSHOT are (client.cpp:301-317 and 363-378):
\* for every size of the buffers, of the network, of an int and of the files.
THEOREM WholeHolds == Spec => []Whole
<1>1. TransferInv /\ WholeInv => Whole
  BY UploadIsWhole, BodyIsWhole DEF Whole
<1>. QED BY <1>1, TransferInvariance, WholeInvariance, PTL

=============================================================================
