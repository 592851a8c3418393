----------------------------- MODULE TransferInv -----------------------------
(***************************************************************************)
(* The inductive invariant behind InStep, SameCount and WaitsForAReason:   *)
(* where the two ends of a connection and the two streams between them can *)
(* stand together, request by request; and below it the one behind Whole:  *)
(* what blocks are on their way and what has come of the others.  In what  *)
(* follows u is the stream to the server, d the one to the client, c the   *)
(* client and s the session.                                               *)
(***************************************************************************)
EXTENDS Transfer

AllData(q) == \A i \in 1..Len(q) : q[i].kind = "data"

\* What the session has yet to write of a file or a list.
Owed(s) == IF s.pc = "send" THEN s.left ELSE 0

\* The session has nothing more to say.
AtRest(s) == \/ s.pc = "read"
             \/ s.pc = "send" /\ s.left = 0

\* What the client has yet to write of a file.
ToWrite(c) == CASE c.pc \in {"wait", "answer"} -> Yet(ToInt(c.size))
                [] c.pc = "send"              -> Yet(c.left)
                [] OTHER                      -> 0

\* The verdict on an upload.
Verdict(a) == a.kind \in {"STORED", "ERROR"}

\* The session receives a file, or has its verdict ready, or has given it: v is what of it
\* the client has not looked at.
Uploading(u, c, s, v) ==
  \/ s.pc = "recv" /\ AllData(u) /\ Yet(s.left) = Len(u) + ToWrite(c) /\ v = <<>>
  \/ s.pc = "reply" /\ Verdict(s.ans) /\ s.next = "read" /\ u = <<>> /\ ToWrite(c) = 0 /\ v = <<>>
  \/ /\ s.pc = "read" /\ u = <<>> /\ ToWrite(c) = 0
     /\ \/ s.silent /\ v = <<>>
        \/ Len(v) = 1 /\ Verdict(v[1])

\* Answers to the client's request: one with nothing behind it, and one with a body.
Plain(c, a) == a.kind = "ERROR" \/ (a.kind = "OK" /\ c.method \in {"LOGIN", "DELETE"})
Bodied(c, a) == \/ a.kind = "LENGTH" /\ c.method = "GET"
                \/ a.kind = "LIST" /\ c.method = "SNAPSHOT"

\* The request was answered with a, and behind it came v.
After(u, c, s, a, v) ==
  \/ Plain(c, a) /\ s.pc = "read" /\ u = <<>> /\ v = <<>>
  \/ a.kind = "OK" /\ c.method = "PUT" /\ Uploading(u, c, s, v)
  \/ /\ Bodied(c, a) /\ s.pc \in {"send", "read"} /\ u = <<>> /\ AllData(v)
     /\ a.n = Len(v) + Owed(s) /\ a.n <= MaxInt

\* The answer the session is about to give, and what it will do then.
Decided(c, s) ==
  \/ s.next = "gone"
  \/ s.next = "read" /\ Plain(c, s.ans)
  \/ s.next = "recv" /\ s.ans.kind = "OK" /\ c.method = "PUT" /\ s.left = ToInt(c.size)
  \/ s.next = "send" /\ Bodied(c, s.ans) /\ s.ans.n = s.left /\ s.left <= MaxInt

Waiting(u, d, c, s) ==
  \/ u = <<Header(c.method, c.size)>> /\ d = <<>> /\ AtRest(s)
  \/ s.pc = "reply" /\ u = <<>> /\ d = <<>> /\ Decided(c, s)
  \/ d # <<>> /\ After(u, c, s, d[1], Tail(d))

\* A file or a list comes in.
Downloading(u, d, c, s) == /\ s.pc \in {"send", "read"} /\ u = <<>> /\ AllData(d)
                           /\ c.left = Len(d) + Owed(s)

\* The verdict was thrown away.
Unheard(u, d, c, s) == /\ c.lost /\ ToInt(c.size) <= 0
                       /\ s.pc = "read" /\ u = <<>> /\ d = <<>>

\* Where both stand.
Talk(u, d, c, s) ==
  /\ c.pc = "idle" => u = <<>> /\ d = <<>> /\ AtRest(s)
  /\ c.pc = "wait" => Waiting(u, d, c, s)
  /\ c.pc = "answer" => After(u, c, s, c.ans, c.buf \o d)
  /\ c.pc = "send" => /\ c.method = "PUT" /\ Uploading(u, c, s, c.buf \o d)
                      /\ c.buf # <<>> => ToInt(c.size) <= 0
  /\ c.pc = "wait2" => c.method = "PUT" /\ (Uploading(u, c, s, d) \/ Unheard(u, d, c, s))
  /\ c.pc = "answer2" => s.pc = "read" /\ u = <<>> /\ d = <<>>
  /\ c.pc \in {"fetch", "list"} => Downloading(u, d, c, s)

\* A session has an answer to give, and has no less than nothing left to write.
Prepared(s) == /\ s.pc = "reply" => s.ans.kind # "garbage"
               /\ s.pc = "send" \/ (s.pc = "reply" /\ s.next = "send") => s.left >= 0

\* A client at work on a request has a connection, a dead one has none.
Engaged(c) == /\ c.pc \notin {"idle", "dead"} => c.connected
              /\ c.pc = "dead" => ~c.connected

TransferInv == /\ TypeOK /\ Prepared(session) /\ Engaged(client)
               /\ Joined /\ ~client.astray => Talk(toServer, toClient, client, session)

-----------------------------------------------------------------------------
(***************************************************************************)
(* The inductive invariant behind Whole: what the blocks on their way are, *)
(* also when the connection has broken in the middle of a request.         *)
(***************************************************************************)

\* q is what follows the first n blocks of a file.
Numbered(q, n) == \A i \in 1..Len(q) : q[i] = Data(n + i)

\* Behind the OK of a PUT there is no more than its verdict, once the session has it all.
Tells(s, v) == v # <<>> => Len(v) = 1 /\ s.pc # "recv"

\* Behind an answer a there is the beginning of the body it announces, or a verdict, or
\* nothing.
Behind(c, s, a, v) ==
  /\ a.kind \in {"LENGTH", "LIST"} =>
       Bodied(c, a) /\ a.n <= MaxInt /\ Len(v) <= a.n /\ Numbered(v, 0)
  /\ a.kind \notin {"LENGTH", "LIST"} /\ v # <<>> =>
       a.kind = "OK" /\ c.method = "PUT" /\ Tells(s, v)

\* What has come of a body, and what of it is under way.
Brought(d, c) ==
  /\ Len(d) <= c.left /\ c.left <= c.size /\ Numbered(d, c.size - c.left)
  /\ Len(c.got) >= c.size - c.left
  /\ c.pc = "fetch" \/ c.left > 0 => Len(c.got) = c.size - c.left
  /\ \A i \in 1..c.size - c.left : c.got[i] = Data(i)

\* What the client has written of a file.
Sent(c) == IF c.pc \in {"wait", "answer"} THEN 0 ELSE ToInt(c.size) - c.left

\* What the client counts: without a short write it reads the file where it writes it, and
\* after one it is ahead for good.
Paced(c) == /\ Sent(c) >= 0 /\ Sent(c) <= Yet(ToInt(c.size))
            /\ c.short => c.pos > Sent(c)
            /\ ~c.short => c.pos = Sent(c)

\* What the session has received of a file, and what is under way to it, is b.
Carries(c, s, b) ==
  /\ s.size = c.size /\ s.left = ToInt(c.size) - Len(s.got) /\ Len(b) <= Sent(c)
  /\ ~c.same => \A i \in 1..Len(b) : b[i] = Data(0)
  /\ c.same /\ ~c.short => Numbered(b, 0)
  /\ c.short => Len(b) < ToInt(c.size) \/ ~Numbered(b, 0)

\* The answer to the client's request is there, or has been.
Begun(d, c) == c.pc \notin {"idle", "dead", "wait"} \/ (c.pc = "wait" /\ d # <<>>)

\* An answered request is not taken for another, and of a PUT the session has this file.
Fed(u, c, s) ==
  /\ AllData(u)
  /\ s.pc = "reply" => s.next # "recv"
  /\ s.pc = "recv" => /\ c.method = "PUT" /\ c.pc \in {"wait", "answer", "send", "wait2"}
                      /\ Carries(c, s, s.got \o u)

\* Where the client stands, as far as what it has yet to read goes.
Stands(d, c, s) ==
  /\ c.pc = "idle" => d = <<>>
  /\ c.pc = "wait" /\ d # <<>> => d[1].kind # "data" /\ Behind(c, s, d[1], Tail(d))
  /\ c.pc = "answer" => Behind(c, s, c.ans, c.buf \o d)
  /\ c.pc = "send" => c.method = "PUT" /\ Tells(s, c.buf \o d)
  /\ c.pc = "wait2" => c.method = "PUT" /\ Tells(s, d)
  /\ c.pc = "answer2" => d = <<>> /\ s.pc # "recv"
  /\ c.pc \in {"fetch", "list"} => Brought(d, c)
  /\ c.pc \in {"wait", "answer"} => c.pos = 0 /\ ~c.short
  /\ c.pc \in {"send", "wait2"} => Paced(c)

\* The length of the body that comes.
Announced(d, c) == CASE c.pc = "wait"   -> d[1].n
                     [] c.pc = "answer" -> c.ans.n
                     [] OTHER           -> c.size

\* What the session is about to receive or to write next.
Supplies(d, c, s) ==
  /\ s.pc = "reply" /\ s.next = "recv" => s.size = c.size
  /\ s.pc = "send" /\ s.left > 0 => Len(s.got) + s.left = Announced(d, c)

\* A session that is about to transfer a file has not begun, and one about to end has refused.
Poised(s) ==
  s.pc = "reply" => /\ s.next \in {"recv", "send"} => s.got = <<>>
                    /\ s.next = "gone" => s.ans.kind = "ERROR"

WholeInv ==
  /\ Poised(session)
  /\ client.connected /\ ~client.astray =>
       /\ Stands(toClient, client, session)
       /\ Begun(toClient, client) => Fed(toServer, client, session)
       /\ Live => Supplies(toClient, client, session)

=============================================================================
