------------------------------ MODULE Transfer ------------------------------
(***************************************************************************)
(* One connection between the client's io thread (client/client.cpp) and a *)
(* session (server/session.cpp): a stream of bytes each way, that both     *)
(* cut into headers and file contents by what they expect next.  A read    *)
(* takes what has arrived so far, so the answer to a request may come with *)
(* what follows it.                                                        *)
(*                                                                         *)
(* Abstractions.  A stream is a sequence of headers, each arriving whole,  *)
(* and of blocks.  Block i of a file is i; any other block is 0, and no    *)
(* block holds the delimiter.  What a session does with the file system    *)
(* and redis is a choice of its answer; BackupServer has the steps.  A     *)
(* former session, at work while its client has reconnected, is left out.  *)
(***************************************************************************)
EXTENDS Integers, Sequences

CONSTANTS Buff,       \* LEN_BUFF: blocks in one read or write
          Window,     \* bound: what the network holds each way
          MaxInt,     \* the largest int that counts blocks
          MaxSize,    \* bound: blocks in a file the client uploads
          MaxList,    \* bound: blocks in the list of a SNAPSHOT, which an int counts
          Short,      \* may write_some take less than it is given?
          OpenFails,  \* may the client fail to open the file it sends or receives?
          CloseFails, \* may the session fail to close the file it received?
          Beyond      \* bound: are requests made once blocks were left unread?

ASSUME TransferAssumption ==
  /\ Buff \in Nat /\ Buff >= 2 /\ Window \in Nat /\ Window >= Buff
  /\ MaxInt \in Nat /\ MaxSize \in Nat /\ MaxList \in 0..MaxInt
  /\ {Short, OpenFails, CloseFails, Beyond} \subseteq BOOLEAN

VARIABLES toServer, toClient,  \* the two streams
          linked,              \* the network connects the two ends
          client, session      \* the two ends

vars == <<toServer, toClient, linked, client, session>>

-----------------------------------------------------------------------------
(* Streams *)

Header(k, n) == [kind |-> k, n |-> n]
Data(i) == [kind |-> "data", n |-> i]
File(n) == [i \in 1..n |-> Data(i)]
Garbage == Header("garbage", 0)

Requests == {"LOGIN", "PUT", "GET", "DELETE", "SNAPSHOT"}
Answers == {"OK", "STORED", "LENGTH", "LIST", "ERROR"}

Least(S) == CHOOSE x \in S : \A y \in S : x <= y
Headers(line) == {i \in 1..Len(line) : line[i].kind # "data"}

\* read_until: the first header, what arrived before it being part of it, and as
\* much of what follows as has arrived.
Parsed(line) == LET i == Least(Headers(line)) IN IF i = 1 THEN line[1] ELSE Garbage
Pulls(line) == Least(Headers(line))..Len(line)
Residue(line, k) == SubSeq(line, Least(Headers(line)) + 1, k)
Rest(line, k) == SubSeq(line, k + 1, Len(line))

\* A number of blocks stored in an int.
Values == 2 * (MaxInt + 1)
ToInt(n) == LET r == n % Values IN IF r > MaxInt THEN r - Values ELSE r

-----------------------------------------------------------------------------
(* The two ends *)

Fresh == [pc |-> "read", logged |-> FALSE, ans |-> Garbage, next |-> "read", size |-> 0,
          left |-> 0, got |-> <<>>, silent |-> FALSE]

\* same: the file is still as it was when it was hashed.  The last three are
\* history: an answer was thrown away; a write took less than it was given; blocks
\* of this connection were left unread.
Unconnected == [pc |-> "idle", connected |-> FALSE, method |-> "LOGIN", size |-> 0,
                same |-> TRUE, ans |-> Garbage, buf |-> <<>>, left |-> 0, pos |-> 0,
                got |-> <<>>, lost |-> FALSE, short |-> FALSE, astray |-> FALSE]

Gone == [Fresh EXCEPT !.pc = "gone"]
Live == linked /\ session.pc # "gone"
Heard == linked /\ client.connected

\* disconnect ends the stream to the server; the other way is given up with the
\* socket at the next connect.
Dropped == Unconnected
Done == [Unconnected EXCEPT !.connected = TRUE, !.buf = client.buf, !.astray = client.astray]

\* read_header clears the buffer before it reads.
Awaiting(c, l) == [c EXCEPT !.pc = l, !.ans = Garbage, !.buf = <<>>,
                            !.lost = Headers(c.buf) # {}]

\* What the other end gets of the items: nothing, if the network has broken.
Put(items) == toServer' = IF Live THEN toServer \o items ELSE toServer

-----------------------------------------------------------------------------
(* The io thread: connect, and the header of a request *)

Connect == /\ client.pc = "idle" /\ ~client.connected
           /\ client' = Awaiting([Unconnected EXCEPT !.connected = TRUE], "wait")
           /\ toServer' = <<Header("LOGIN", 0)>> /\ toClient' = <<>>
           /\ linked' = TRUE /\ session' = Fresh

Ask(m, n, same) ==
  /\ client.pc = "idle" /\ client.connected /\ (client.astray => Beyond)
  /\ Live => Len(toServer) < Window
  /\ Put(<<Header(m, n)>>)
  /\ client' = Awaiting([Done EXCEPT !.method = m, !.size = n, !.same = same], "wait")
  /\ UNCHANGED <<toClient, linked, session>>

ReadHeader ==
  /\ client.pc \in {"wait", "wait2"} /\ Headers(toClient) # {}
  /\ \E k \in Pulls(toClient) :
       /\ client' = [client EXCEPT !.pc = IF @ = "wait" THEN "answer" ELSE "answer2",
                                   !.ans = Parsed(toClient), !.buf = Residue(toClient, k)]
       /\ toClient' = Rest(toClient, k)
  /\ UNCHANGED <<toServer, linked, session>>

\* Mutant of ReadThrows: the end of the stream is not noticed.
ReadThrowsLate ==
  /\ client.pc \in {"wait", "wait2"} /\ Headers(toClient) = {} /\ ~linked
  /\ client' = IF client.method = "LOGIN" THEN [Unconnected EXCEPT !.pc = "dead"] ELSE Dropped
  /\ UNCHANGED <<toServer, toClient, linked, session>>

\* The read throws.  Nothing catches what the login throws.
ReadThrows ==
  /\ client.pc \in {"wait", "wait2"} /\ Headers(toClient) = {} /\ ~Live
  /\ client' = IF client.method = "LOGIN" THEN [Unconnected EXCEPT !.pc = "dead"] ELSE Dropped
  /\ UNCHANGED <<toServer, toClient, linked, session>>

\* An answer to one of these requests has come.
Answered(ms) == /\ client.pc = "answer" /\ client.method \in ms
                /\ UNCHANGED <<toServer, toClient, linked, session>>

\* LOGIN, whose answer is not looked at, and DELETE.
Told == Answered({"LOGIN", "DELETE"}) /\ client' = Done

-----------------------------------------------------------------------------
(* PUT: send_file_chunked *)

\* An error, or anything that is not the "OK" of a PUT.
PutRefused == Answered({"PUT"}) /\ client.ans.kind # "OK" /\ client' = Done

\* Mutant of PutOpen: the length is not cut to an int.
PutOpenLong == /\ Answered({"PUT"}) /\ client.ans.kind = "OK"
               /\ client' = [client EXCEPT !.pc = "send", !.left = client.size]

PutOpen == /\ Answered({"PUT"}) /\ client.ans.kind = "OK"
           /\ \/ client' = [client EXCEPT !.pc = "send", !.left = ToInt(client.size)]
              \/ OpenFails /\ client' = Dropped

\* The next blocks of the file; past its end, or when it has changed, others.
Chunk(c) == [i \in 1..c |-> IF client.same /\ client.pos + i <= client.size
                            THEN Data(client.pos + i) ELSE Data(0)]

\* One read of a chunk and one write_some: the part not written is not read again.
SendSome ==
  /\ client.pc = "send" /\ client.left > 0
  /\ LET c == Least({client.left, Buff}) IN
     \E r \in IF Short THEN 1..c ELSE {c} :
       /\ Live => Len(toServer) + r <= Window
       /\ Put(SubSeq(Chunk(c), 1, r))
       /\ client' = [client EXCEPT !.left = @ - r, !.pos = @ + c, !.short = @ \/ r < c]
  /\ UNCHANGED <<toClient, linked, session>>

SendThrows == /\ client.pc = "send" /\ client.left > 0 /\ ~Live
              /\ client' = Dropped
              /\ UNCHANGED <<toServer, toClient, linked, session>>

SendEnd == /\ client.pc = "send" /\ client.left <= 0
           /\ client' = Awaiting(client, "wait2")
           /\ UNCHANGED <<toServer, toClient, linked, session>>

PutAnswered == /\ client.pc = "answer2"
               /\ client' = Done
               /\ UNCHANGED <<toServer, toClient, linked, session>>

-----------------------------------------------------------------------------
(* GET: read_and_save_file, which goes on when read_some fails *)

GetRefused == Answered({"GET"}) /\ client.ans.kind # "LENGTH" /\ client' = Done

\* What the buffer holds behind the header comes first.
Started(l) == [client EXCEPT !.pc = l, !.got = client.buf, !.size = client.ans.n,
                             !.left = ToInt(client.ans.n) - Len(client.buf)]

\* When the file cannot be opened its blocks stay in the stream.
GetOpen == /\ Answered({"GET"}) /\ client.ans.kind = "LENGTH"
           /\ \/ client' = Started("fetch")
              \/ OpenFails /\ client' = [Done EXCEPT !.astray = @ \/ Started("idle").left > 0]

\* read_some takes r of at most n blocks.
Takes(l, n, r) ==
  /\ client.pc = l /\ client.left > 0
  /\ r \in 1..Least({n, Len(toClient)})
  /\ toClient' = Rest(toClient, r)
  /\ UNCHANGED <<toServer, linked, session>>

Reading == 1..Least({Buff, Len(toClient)})

\* Mutant of Fetch: what was asked for is counted, not what was read.
FetchMiscounted ==
  \E r \in Reading :
    /\ Takes("fetch", Least({client.left, Buff}), r)
    /\ client' = [client EXCEPT !.left = @ - Least({@, Buff}),
                                !.got = @ \o SubSeq(toClient, 1, r)]

Fetch == \E r \in Reading :
           /\ Takes("fetch", Least({client.left, Buff}), r)
           /\ client' = [client EXCEPT !.left = @ - r, !.got = @ \o SubSeq(toClient, 1, r)]

FetchEnd == /\ client.pc = "fetch" /\ client.left <= 0
            /\ client' = Done
            /\ UNCHANGED <<toServer, toClient, linked, session>>

-----------------------------------------------------------------------------
(* SNAPSHOT: read_chunked_snapshot_and_set *)

\* "OK" without the two numbers makes at throw.
ListRefused == /\ Answered({"SNAPSHOT"}) /\ client.ans.kind # "LIST"
               /\ client' = IF client.ans.kind \in {"OK", "STORED", "LENGTH"}
                            THEN Dropped ELSE Done

ListOpen == /\ Answered({"SNAPSHOT"}) /\ client.ans.kind = "LIST"
            /\ client' = Started("list")

\* The buffer is appended as a C string.  If it is full that goes on beyond its
\* end, up to the next zero.
Stray(r) == IF r = Buff THEN {<<>>, <<Garbage>>} ELSE {<<>>}

\* Mutant of ListRead: whole buffers are read.
ListReadFull ==
  \E r \in Reading : \E stray \in Stray(r) :
    /\ Takes("list", client.left, r)
    /\ client' = [client EXCEPT !.left = @ - r, !.got = @ \o SubSeq(toClient, 1, r) \o stray]

ListRead ==
  \E r \in Reading : \E stray \in Stray(r) :
    /\ Takes("list", IF client.left > Buff THEN Buff - 1 ELSE client.left, r)
    /\ client' = [client EXCEPT !.left = @ - r, !.got = @ \o SubSeq(toClient, 1, r) \o stray]

\* read_some throws and it is caught here: what was read is given up, and the
\* client goes on.
ListThrows == /\ client.pc = "list" /\ client.left > 0 /\ toClient = <<>> /\ ~Live
              /\ client' = Done
              /\ UNCHANGED <<toServer, toClient, linked, session>>

ListEnd == /\ client.pc = "list" /\ client.left <= 0
           /\ client' = Done
           /\ UNCHANGED <<toServer, toClient, linked, session>>

-----------------------------------------------------------------------------
(* The session *)

Serving(l) == session.pc = l /\ UNCHANGED <<linked, client>>

\* read_request.
Ready == [Fresh EXCEPT !.logged = session.logged]

Replies(s, a, l) == [s EXCEPT !.pc = "reply", !.ans = a, !.next = l]
Refusal(s, l) == Replies(s, Header("ERROR", 0), l)

\* What a session may answer to request q, and how it goes on: refuse it and read
\* the next request, refuse it and end, or begin.
Outcomes(s, q) ==
  CASE q.kind = "LOGIN" -> {Replies([s EXCEPT !.logged = TRUE], Header("OK", 0), "read"),
                            Refusal(s, "gone")}
    [] q.kind \notin Requests \/ ~s.logged -> {Refusal(s, "gone")}
    [] q.kind = "DELETE" -> {Replies(s, Header("OK", 0), "read"), Refusal(s, "read")}
    [] q.kind = "PUT" ->
         {Replies([s EXCEPT !.size = q.n, !.left = ToInt(q.n)], Header("OK", 0), "recv"),
          Refusal(s, "read"), Refusal(s, "gone")}
    [] q.kind = "GET" ->
         {Replies([s EXCEPT !.left = n], Header("LENGTH", n), "send") :
            n \in 0..Least({MaxInt, MaxSize})} \cup {Refusal(s, "read"), Refusal(s, "gone")}
    [] q.kind = "SNAPSHOT" ->
         {Replies([s EXCEPT !.left = n], Header("LIST", n), "send") : n \in 0..MaxList}
           \cup {Refusal(s, "read")}

\* read_request, and handle_request up to its answer.  What arrived behind the
\* header is not looked at.
ReadRequest ==
  /\ Serving("read") /\ Headers(toServer) # {}
  /\ \E k \in Pulls(toServer) :
       /\ toServer' = Rest(toServer, k)
       /\ session' \in Outcomes(Ready, Parsed(toServer))
  /\ UNCHANGED toClient

\* Where the handler goes once its answer is out.
Onward == CASE session.next = "gone" -> Gone
            [] session.next = "read" -> Ready
            [] OTHER -> [session EXCEPT !.pc = session.next, !.ans = Garbage]

\* write_str_sync; it throws if the client's end is gone, at the latest the second
\* time, and then the process ends.
Respond ==
  /\ Serving("reply")
  /\ IF Heard
     THEN /\ Len(toClient) < Window
          /\ toClient' = Append(toClient, session.ans)
          /\ session' = Onward
     ELSE /\ session' \in {Onward, Gone}
          /\ UNCHANGED toClient
  /\ UNCHANGED toServer

\* One async_read_some of read_and_save_file.
Receive ==
  /\ Serving("recv") /\ session.left > 0 /\ toServer # <<>>
  /\ \E r \in 1..Least({session.left, Buff, Len(toServer)}) :
       /\ session' = [session EXCEPT !.left = @ - r, !.got = @ \o SubSeq(toServer, 1, r)]
       /\ toServer' = Rest(toServer, r)
  /\ UNCHANGED toClient

\* Mutant of Verify: nothing is answered of a mismatch.
VerifySilent ==
  /\ Serving("recv") /\ session.left <= 0
  /\ session' = IF session.got = File(session.size)
                THEN Replies(session, Header("STORED", 0), "read")
                ELSE Ready
  /\ UNCHANGED <<toServer, toClient>>

\* The close fails and nothing is answered, or the hash decides.
Verify ==
  /\ Serving("recv") /\ session.left <= 0
  /\ \/ CloseFails /\ session' = [Ready EXCEPT !.silent = TRUE]
     \/ session' = IF session.got = File(session.size)
                   THEN Replies(session, Header("STORED", 0), "read")
                   ELSE Refusal(session, "read")
  /\ UNCHANGED <<toServer, toClient>>

\* Mutant of Send: all is written at once.
SendUnbounded ==
  /\ Serving("send") /\ session.left > 0 /\ Heard
  /\ toClient' = toClient \o File(session.left)
  /\ session' = [session EXCEPT !.left = 0]
  /\ UNCHANGED toServer

\* One async_write of send_file_chunked, or a part of the list's.
Send ==
  /\ Serving("send") /\ session.left > 0 /\ Heard
  /\ LET c == Least({session.left, Buff})
         n == Len(session.got)
     IN /\ Len(toClient) + c <= Window
        /\ toClient' = toClient \o [i \in 1..c |-> Data(n + i)]
        /\ session' = [session EXCEPT !.left = @ - c,
                                      !.got = @ \o [i \in 1..c |-> Data(n + i)]]
  /\ UNCHANGED toServer

SendDone == /\ Serving("send") /\ session.left <= 0
            /\ session' = Ready
            /\ UNCHANGED <<toServer, toClient>>

\* A read comes to the end of the stream, or a write fails.
HangUp == /\ session.pc \in {"read", "recv", "send"} /\ Serving(session.pc) /\ ~Heard
          /\ session.pc = "read" => Headers(toServer) = {}
          /\ session.pc = "recv" => toServer = <<>>
          /\ session' = Gone
          /\ UNCHANGED <<toServer, toClient>>

-----------------------------------------------------------------------------
\* The connection breaks; some of what was under way still arrives.
Break == /\ linked /\ linked' = FALSE
         /\ \E i \in 0..Len(toServer), j \in 0..Len(toClient) :
              toServer' = SubSeq(toServer, 1, i) /\ toClient' = SubSeq(toClient, 1, j)
         /\ UNCHANGED <<client, session>>

Init == /\ toServer = <<>> /\ toClient = <<>> /\ linked = FALSE
        /\ client = Unconnected /\ session = Gone

AskAny == \E m \in Requests \ {"LOGIN"}, n \in 0..MaxSize, same \in BOOLEAN :
            (m # "PUT" => n = 0 /\ same) /\ Ask(m, n, same)
IoThread == \/ Connect \/ ReadHeader \/ ReadThrows \/ Told
            \/ PutRefused \/ PutOpen \/ SendSome \/ SendThrows \/ SendEnd \/ PutAnswered
            \/ GetRefused \/ GetOpen \/ Fetch \/ FetchEnd
            \/ ListRefused \/ ListOpen \/ ListRead \/ ListThrows \/ ListEnd
Handler == \/ ReadRequest \/ Respond \/ Receive \/ Verify \/ Send \/ SendDone \/ HangUp
Next == AskAny \/ IoThread \/ Handler \/ Break

Spec == Init /\ [][Next]_vars

\* Both threads are scheduled; requests need not be made.
FairSpec == Spec /\ WF_vars(IoThread) /\ WF_vars(Handler)

-----------------------------------------------------------------------------
(* Properties *)

Block == [kind : Requests \cup Answers \cup {"data", "garbage"}, n : Nat]
Response == [kind : Answers \cup {"garbage"}, n : Nat]
ClientRecord ==
  [pc : {"idle", "dead", "wait", "answer", "send", "wait2", "answer2", "fetch", "list"},
   connected : BOOLEAN, method : Requests, size : Nat, same : BOOLEAN, ans : Response,
   buf : Seq(Block), left : Int, pos : Nat, got : Seq(Block), lost : BOOLEAN, short : BOOLEAN,
   astray : BOOLEAN]
SessionRecord ==
  [pc : {"read", "reply", "recv", "send", "gone"}, logged : BOOLEAN, ans : Response,
   next : {"read", "recv", "send", "gone"}, size : Nat, left : Int, got : Seq(Block),
   silent : BOOLEAN]

\* Types of the variables.
TypeOK ==
  /\ toServer \in Seq([kind : Requests \cup {"data"}, n : Nat]) /\ Len(toServer) <= Window
  /\ toClient \in Seq([kind : Answers \cup {"data"}, n : Nat]) /\ Len(toClient) <= Window
  /\ linked \in BOOLEAN
  /\ client \in ClientRecord /\ session \in SessionRecord

\* The connection carries both ways and both ends are there.
Joined == Live /\ Heard

\* Between two requests the line is silent (client.cpp:82-237, session.cpp:25-43):
\* whatever the last request was and however it ended, nothing of it is left in
\* either stream for the next one to take for its own; unless the client could not
\* open the file of a GET (client.cpp:350).
InStep ==
  Joined /\ client.pc = "idle" /\ ~client.astray =>
    /\ toServer = <<>> /\ toClient = <<>>
    /\ \/ session.pc = "read"
       \/ session.pc = "send" /\ session.left <= 0

\* What is left of a transfer is the same for both ends (session.cpp:57-73 and
\* client.cpp:268-278, session.cpp:481-497 and client.cpp:363-378): what one has yet
\* to read is under way or what the other has yet to write, for every length that
\* an int cannot hold too.
Yet(n) == IF n > 0 THEN n ELSE 0
SameCount ==
  Joined /\ ~client.astray =>
    /\ session.pc = "recv" =>
         Yet(session.left) = Len(toServer) +
           CASE client.pc \in {"wait", "answer"} -> Yet(ToInt(client.size))
             [] client.pc = "send"              -> Yet(client.left)
             [] OTHER                           -> 0
    /\ client.pc \in {"fetch", "list"} =>
         Yet(client.left) = Len(toClient) + IF session.pc = "send" THEN Yet(session.left) ELSE 0

\* A file arrives as it was hashed, whatever the chunks, exactly when it was not
\* changed meanwhile, is not too long for an int, and write_some always took all it
\* was given (client.cpp:276).  What a GET brings is what was sent; the lines of a
\* SNAPSHOT are, and anything else comes after the last one (client.cpp:301-317).
Whole ==
  ~client.astray =>
    /\ session.pc = "recv" /\ session.left <= 0 /\ client.pc \in {"wait2", "answer2"} =>
         (session.got = File(session.size) <=>
            session.size = 0 \/ (client.same /\ session.size <= MaxInt /\ ~client.short))
    /\ client.pc = "fetch" /\ client.left <= 0 => client.got = File(client.size)
    /\ client.pc = "list" /\ client.left <= 0 =>
         SubSeq(client.got, 1, client.size) = File(client.size)

\* Neither end waits for the other for ever but for two reasons: the answer came
\* together with another and was thrown away (client.cpp:22), for a file without a
\* block to wait for, or it was never given (session.cpp:78).
BothWait == /\ Joined /\ client.pc \in {"wait", "wait2"} /\ session.pc = "read"
            /\ toServer = <<>> /\ toClient = <<>>
WaitsForAReason ==
  BothWait /\ ~client.astray =>
    client.pc = "wait2" /\ (session.silent \/ (client.lost /\ ToInt(client.size) <= 0))

\* Every request comes to its end (client.cpp:82-237), unless both ends wait, or the
\* connection ended in the middle of a GET, which the io thread never notices
\* (client.cpp:372), or the ends had lost each other.
Spins == client.pc = "fetch" /\ client.left > 0 /\ toClient = <<>> /\ ~Live
RequestsEnd == []<>(client.pc \in {"idle", "dead"} \/ BothWait \/ Spins \/ client.astray)

\* "response params must be OK HASH" (client.cpp:168) and "response params must be
\* OK-filesize or ERROR-error code" (client.cpp:195): what the client reads as the
\* answer to a request is one.
AnswerFits == client.pc \in {"answer", "answer2"} => client.ans.kind # "garbage"

=============================================================================
