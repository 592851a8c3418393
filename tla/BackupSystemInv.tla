--------------------------- MODULE BackupSystemInv ---------------------------
(***************************************************************************)
(* The inductive invariant behind HeardIsHeld: how far a request has got   *)
(* between the client and its session, and what the others may still do.   *)
(***************************************************************************)
EXTENDS BackupSystem, BackupServerInv

\* Types, as far as the proof needs them.
Typed ==
  /\ client \in [pc : {"off", "idle", "wait", "send", "wait2", "fetch"},
                 cur : Session \cup {None}, req : RequestRecord, left : 0..MaxLen,
                 clear : BOOLEAN]
  /\ line \in [Session -> [req : RequestRecord \cup {None}, blocks : Seq(Block)]]
  /\ back \in Seq([ans : Answer \cup {"BODY"}, body : Data])
  /\ heard \in [Key -> {Unknown} \cup [ans : {"STORED", "ALREADY_EXISTS", "DELETED"}, hash : Data]]

\* Handler o is at a PUT or a DELETE of k.
Alters(o, k) == ses[o].file = k /\ ~Reading(ses[o]) /\ ~Harmless(ses[o])

\* A request on k is on its way to session o.
Sending(o, k) == ~At(o, "closed") /\ line[o].req # None /\ line[o].req.file = k

\* No session will change k before the client asks for it.
Settled(k) == \A o \in Session : ~Alters(o, k) /\ (Sending(o, k) => line[o].req.method = "GET")

\* Answer a to a request with hash h is so.
Holds(k, a, h) == /\ a = "STORED" => told[k] = h
                  /\ a = "DELETED" => told[k] = None
                  /\ a = "ALREADY_EXISTS" => dir[k] # None /\ data[dir[k]] = h

Believed == \A k \in Key : LET n == heard[k] IN
              n # Unknown => Settled(k) /\ Holds(k, n.ans, n.hash)

\* A PUT of a version that is there has found it there.
ThereOf(r) == r.file # None /\ r.alone =>
  /\ r.pc = "compare" => dir[r.file] # None
  /\ r.pc = "reply" /\ r.ans = "ALREADY_EXISTS" => dir[r.file] # None /\ data[dir[r.file]] = r.hash
There == \A s \in Session : ThereOf(ses[s])

\* No session serves a SNAPSHOT.
Unlisted == \A s \in Session :
  ses[s].pc # "list" /\ ses[s].ans \notin {"LISTING", "LINES", "LIST_ERROR"}

Busy(r) == r.pc \notin {"ready", "closed"}

\* The client's session carries out the client's request; a request is on its way, or in
\* hand, or answered, and an answer that ends it comes last.
Conversation ==
  LET c == client.cur
      q == client.req
      r == ses[c]
      last == Len(back)
  IN /\ (c = None) <=> (client.pc = "off")
     /\ c = None => back = <<>> /\ client.clear /\ q.file = None
     /\ c # None =>
          /\ r.file # None => r.file = q.file /\ r.hash = q.hash
          /\ Busy(r) => client.pc # "idle" /\ line[c].req = None
          /\ client.pc = "idle" => back = <<>>
          /\ ~At(c, "closed") /\ line[c].req # None =>
               line[c].req = q /\ back = <<>> /\ client.pc = "wait"
          /\ \A i \in 1..last : back[i].ans \notin {"GO", "LENGTH"} => i = last /\ ~Busy(r)

\* Nobody else is at the file of a request that was made in the clear.
Undisturbed ==
  LET c == client.cur
      k == client.req.file
  IN c # None /\ k # None /\ client.clear /\ client.pc # "idle" =>
       /\ \A o \in Session \ {c} : ~Working(o, k) /\ ~Sending(o, k)
       /\ ses[c].file # None => ses[c].alone
       /\ \A i \in 1..Len(back) : Holds(k, back[i].ans, client.req.hash)

\* What the client adds to the server's own invariant.
RequestInv == Believed /\ There /\ Unlisted /\ Conversation /\ Undisturbed

HeardInv == GetInv /\ Typed /\ RequestInv

-----------------------------------------------------------------------------
(* What RestoredIsUploaded needs besides. *)

\* How far a GET has got in a session, n being what the client knows of the file: it has
\* open the file that is there, and announces and sends what the client knows it to hold.
FetchedOf(r, n) ==
  /\ r.pc \in {"load", "size", "send"} \/ r.ans = "LENGTH" => n.ans # "DELETED"
  /\ r.pc \in {"size", "send"} \/ r.ans = "LENGTH" => r.fd = dir[r.file]
  /\ r.pc = "send" \/ r.ans = "LENGTH" => r.len = Len(n.hash)
  /\ r.ans = "NOT_FOUND" => n.ans # "STORED"
  /\ Len(r.body) <= Len(n.hash) /\ \A i \in 1..Len(r.body) : r.body[i] = n.hash[i]

\* Answer a to a GET agrees with n.
Agreed(a, n) == /\ a.ans = "BODY" => n.ans # "DELETED" /\ a.body = n.hash
                /\ a.ans = "NOT_FOUND" => n.ans # "STORED"

\* What the client's session serves of a file the client knows, and has answered.
Fetched ==
  LET c == client.cur
      k == client.req.file
  IN /\ client.req.method = "GET" => k # None
     /\ c # None /\ k # None /\ heard[k] # Unknown =>
          /\ ses[c].file # None => FetchedOf(ses[c], heard[k])
          /\ \A i \in 1..Len(back) : Agreed(back[i], heard[k])

-----------------------------------------------------------------------------
(* What SystemTypeOK needs besides: how many blocks and answers are on     *)
(* their way.                                                              *)

\* Handlers that have yet to say whether they take a file, or how long it is.
Admitting(r) == \/ r.pc \in {"exists", "compare", "patch", "open"}
                \/ r.pc \in {"hdel", "reply"} /\ r.ans = "GO"
Locating(r) == \/ r.pc \in {"lookup", "found", "load", "size"}
               \/ r.pc = "reply" /\ r.ans = "LENGTH"

\* The client sends its file, has sent it, or is about to hear that it may.
Admitted == \/ client.pc \in {"send", "wait2"}
            \/ client.pc = "wait" /\ back # <<>> /\ back[1].ans = "GO"

Final(a) == a.ans \notin {"GO", "LENGTH"}

\* What the client has yet to send and its session yet to read is the rest of the file,
\* b blocks being on their way to session r.
CountedOf(r, b) ==
  LET l == client.left
  IN /\ Admitting(r) \/ Locating(r) => back = <<>> /\ client.pc = "wait"
     /\ Admitting(r) => r.pos = 0 /\ r.len = l
     /\ client.pc \in {"idle", "wait", "fetch"} => b = 0
     /\ client.pc = "wait" => l = client.req.len
     /\ client.pc = "send" => b + l <= MaxLen
     /\ Admitted /\ r.pc = "recv" => r.pos + b + l = r.len
     /\ Admitted /\ r.pc \notin {"recv", "closed"} => b = 0 /\ l = 0
     /\ Admitted /\ (\E i \in 1..Len(back) : Final(back[i])) => b = 0 /\ l = 0
Counted == client.cur # None => CountedOf(ses[client.cur], Len(line[client.cur].blocks))

\* GO and the length of a file come first, and are waited for.
Ordered == \A i \in 1..Len(back) : ~Final(back[i]) => i = 1 /\ client.pc = "wait"

Bounded == /\ \A s \in Session : line[s].blocks \in Data
           /\ \A s \in Session : ses[s].pc = "ready" => ses[s].pos = 0
           /\ Ordered /\ Counted

=============================================================================
