---------------------------- MODULE BackupSystem ----------------------------
(***************************************************************************)
(* A client's io thread (client/client.cpp) and the sessions its           *)
(* connections have left behind: the server's steps are those of           *)
(* BackupServer, joined to what the client sends and reads.  The client    *)
(* gives a connection up at any moment and connects anew; the session of   *)
(* the former one goes on with what has reached it, until it notices.      *)
(*                                                                         *)
(* Abstractions.  The client may ask for anything at any time; which scan  *)
(* asks for what is in BackupClient.  An answer is read by itself; what a  *)
(* read takes of a stream is in Transfer.  SNAPSHOT changes nothing here   *)
(* and is left out, as are refused logins.                                 *)
(***************************************************************************)
EXTENDS BackupServer

VARIABLES client,  \* the io thread, with its request and its connection
          line,    \* [Session -> what the client wrote and the session did not read]
          back,    \* what the client's session answered and the client did not read
          heard    \* [Key -> what the client was last told of it]: history

systemVars == <<client, line, back, heard>>
allVars == <<vars, systemVars>>

ASSUME SystemAssumption == None \notin Session

-----------------------------------------------------------------------------
(* The client *)

Method == {"LOGIN", "PUT", "GET", "DELETE"}
RequestRecord == [method : Method, file : Key \cup {None}, hash : Data, len : 0..MaxLen]
LoginRequest == [method |-> "LOGIN", file |-> None, hash |-> <<>>, len |-> 0]

\* clear is history: no request on the file that an earlier connection brought was
\* left to carry out when this one was made.
Off == [pc |-> "off", cur |-> None, req |-> LoginRequest, left |-> 0, clear |-> TRUE]
Silent == [req |-> None, blocks |-> <<>>]
Told(a, h) == [ans |-> a, hash |-> h]

\* A session other than s has yet to carry out a request that may change k.
Outstanding(s, k) ==
  \E o \in Session \ {s} : /\ ~At(o, "closed")
                           /\ \/ Working(o, k)
                              \/ line[o].req # None /\ line[o].req.file = k

Connect(s) == /\ client.pc = "off"
              /\ Accept(s)
              /\ client' = [Off EXCEPT !.pc = "wait", !.cur = s]
              /\ line' = [line EXCEPT ![s] = [Silent EXCEPT !.req = LoginRequest]]
              /\ UNCHANGED <<back, heard>>

\* Mutant of Leave: the answers of the former connection are kept for the next one.
LeaveKept == /\ client.pc # "off"
             /\ client' = Off
             /\ UNCHANGED <<vars, line, back, heard>>

\* An exception, a broken connection, or a file that cannot be opened.
Leave == /\ client.pc # "off"
         /\ client' = Off
         /\ back' = <<>>
         /\ UNCHANGED <<vars, line, heard>>

\* The header of a request is written.  To ask for a change is to take back what
\* one was told.
Ask(m, k, h, n) ==
  /\ client.pc = "idle"
  /\ LET req == [method |-> m, file |-> k, hash |-> h, len |-> n] IN
     /\ client' = [client EXCEPT !.pc = "wait", !.req = req, !.left = n,
                                 !.clear = ~Outstanding(client.cur, k)]
     /\ line' = [line EXCEPT ![client.cur].req = req]
  /\ heard' = IF m = "GET" THEN heard ELSE [heard EXCEPT ![k] = Unknown]
  /\ UNCHANGED <<vars, back>>

AskAny == \E m \in Method \ {"LOGIN"}, k \in Key, h \in Data, n \in 0..MaxLen :
            (m # "PUT" => h = <<>> /\ n = 0) /\ Ask(m, k, h, n)

\* Mutant of SendBlock: one block too many.
SendBlockMore ==
  /\ client.pc = "send" /\ client.left >= 0
  /\ \E b \in Block : line' = [line EXCEPT ![client.cur].blocks = Append(@, b)]
  /\ client' = [client EXCEPT !.left = @ - 1]
  /\ UNCHANGED <<vars, back, heard>>

\* A block of the file, which may have changed since it was hashed.
SendBlock == /\ client.pc = "send" /\ client.left > 0
             /\ \E b \in Block : line' = [line EXCEPT ![client.cur].blocks = Append(@, b)]
             /\ client' = [client EXCEPT !.left = @ - 1]
             /\ UNCHANGED <<vars, back, heard>>

SendFinished == /\ client.pc = "send" /\ client.left = 0
                /\ client' = [client EXCEPT !.pc = "wait2"]
                /\ UNCHANGED <<vars, line, back, heard>>

\* Where the client stands after answer a.
Then(a) == CASE a = "GO"     -> "send"
             [] a = "LENGTH" -> "fetch"
             [] OTHER        -> "idle"

\* What the client may count on after an answer: these three set its
\* remote_snapshot, or remove the file from it.
News(a) == CASE a \in {"STORED", "ALREADY_EXISTS"} -> Told(a, client.req.hash)
             [] a = "DELETED"                      -> Told(a, <<>>)
             [] OTHER                              -> heard[client.req.file]

Hear == /\ client.pc \in {"wait", "wait2", "fetch"} /\ back # <<>>
        /\ LET a == Head(back).ans IN
           /\ client' = [client EXCEPT !.pc = Then(a)]
           /\ heard' = IF client.req.file = None \/ ~client.clear THEN heard
                       ELSE [heard EXCEPT ![client.req.file] = News(a)]
        /\ back' = Tail(back)
        /\ UNCHANGED <<vars, line>>

-----------------------------------------------------------------------------
(* The sessions *)

\* Session s reads the header of a request with method m.
Reads(s, m) == /\ line[s].req # None /\ line[s].req.method = m
               /\ line' = [line EXCEPT ![s].req = None]
               /\ UNCHANGED <<client, back, heard>>

\* The handler works on what the header says.
OnRequest(s) == LET q == line[s].req
                    r == ses'[s]
                IN r.file = q.file /\ r.hash = q.hash /\ r.len = q.len

ReadLogin(s) == Reads(s, "LOGIN") /\ Login(s)
ReadPut(s) == Reads(s, "PUT") /\ Put(s) /\ OnRequest(s)
ReadDelete(s) == Reads(s, "DELETE") /\ Delete(s) /\ OnRequest(s)
ReadGet(s) == Reads(s, "GET") /\ Get(s) /\ OnRequest(s)

\* The block that Receive takes is the next one the client sent.
ReceiveBlock(s) ==
  /\ line[s].blocks # <<>>
  /\ Receive(s)
  /\ LET i == ses[s].fd IN
     ses'[s].fd # None => data'[i][ses[s].pos + 1] = Head(line[s].blocks)
  /\ line' = [line EXCEPT ![s].blocks = Tail(@)]
  /\ UNCHANGED <<client, back, heard>>

\* What session s writes gets to the client if it still has that connection.
Delivers(s, a, body) ==
  /\ back' = IF client.cur = s THEN Append(back, [ans |-> a, body |-> body]) ELSE back
  /\ UNCHANGED <<client, line, heard>>

Answering(s) == /\ Respond(s)
                /\ IF ses[s].alive THEN Delivers(s, ses[s].ans, <<>>)
                                   ELSE UNCHANGED systemVars

Sent(s) == /\ SendEnd(s)
           /\ IF ses[s].alive THEN Delivers(s, "BODY", ses[s].body)
                              ELSE UNCHANGED systemVars

\* The session ends, and what it did not read is lost.
Ended(s) == /\ HangUp(s)
            /\ line' = [line EXCEPT ![s] = Silent]
            /\ UNCHANGED <<client, back, heard>>

Died == /\ \/ \E s \in Session : Terminate(s)
           \/ Killed
        /\ line' = [s \in Session |-> Silent]
        /\ UNCHANGED <<client, back, heard>>

\* The steps of a handler that neither read nor answer, and the server's noticing
\* that the client has gone.
Onward(s) ==
  /\ \/ PutExists(s) \/ PutCompare(s) \/ PutOpen(s) \/ Verify(s) \/ HSet(s)
     \/ Remove(s) \/ HDel(s)
     \/ Lookup(s) \/ Found(s) \/ Load(s) \/ Size(s) \/ Send(s)
     \/ Disconnect(s)
  /\ UNCHANGED systemVars

-----------------------------------------------------------------------------
SystemInit == /\ Init
              /\ client = Off
              /\ line = [s \in Session |-> Silent]
              /\ back = <<>>
              /\ heard = [k \in Key |-> Unknown]

Client == \/ \E s \in Session : Connect(s)
          \/ Leave \/ AskAny \/ SendBlock \/ SendFinished \/ Hear
Server == \/ \E s \in Session : \/ ReadLogin(s) \/ ReadPut(s) \/ ReadDelete(s) \/ ReadGet(s)
                                \/ ReceiveBlock(s) \/ Answering(s) \/ Sent(s) \/ Ended(s)
                                \/ Onward(s)
          \/ Died
          \/ Restart /\ UNCHANGED systemVars

SystemSpec == SystemInit /\ [][Client \/ Server]_allVars

-----------------------------------------------------------------------------
(* Properties *)

\* Types of the variables.
SystemTypeOK ==
  /\ client \in [pc : {"off", "idle", "wait", "send", "wait2", "fetch"},
                 cur : Session \cup {None}, req : RequestRecord, left : 0..MaxLen,
                 clear : BOOLEAN]
  /\ \A s \in Session : /\ line[s].req \in RequestRecord \cup {None}
                        /\ line[s].blocks \in Data
  /\ back \in Seq([ans : Answer \cup {"BODY"}, body : Data]) /\ Len(back) <= 2
  /\ heard \in [Key -> {Unknown} \cup [ans : {"STORED", "ALREADY_EXISTS", "DELETED"}, hash : Data]]

\* What the client believes of its files (client.cpp:170-174, :184-188, :422) is so,
\* however often its connection broke, whatever of its former sessions is still at
\* work and whenever the server dies: a file it was told is stored is served as it
\* was sent, one it was told exists is there, one it was told is deleted is gone.
\* It may not count on the answer to a request made while an earlier one on the
\* same file was still to be carried out by a session it had left.
HeardIsHeld ==
  \A k \in Key : LET n == heard[k] IN n # Unknown =>
    /\ n.ans = "STORED" => Served(k) = n.hash
    /\ n.ans = "ALREADY_EXISTS" => dir[k] # None /\ data[dir[k]] = n.hash
    /\ n.ans = "DELETED" => Served(k) = None /\ dir[k] = None

\* A restored file is the one that was backed up (client.cpp:195-214): what a GET
\* brings, on whichever connection, is what the client was last told is stored or
\* exists, and GET does not deny it was stored.
RestoredIsUploaded ==
  client.req.method = "GET" /\ client.pc \in {"wait", "fetch"} /\ back # <<>> =>
    LET n == heard[client.req.file]
        a == back[Len(back)]
    IN n # Unknown =>
         /\ a.ans = "BODY" => n.ans # "DELETED" /\ a.body = n.hash
         /\ n.ans = "STORED" => a.ans # "NOT_FOUND"

\* "TODO check on db's hash, don't calculate it!" (session.cpp:300): a file the
\* client was told exists, and need not upload, is one that is recorded and served.
ExistsIsServed ==
  \A k \in Key : LET n == heard[k] IN
    n # Unknown => (n.ans = "ALREADY_EXISTS" => Served(k) = n.hash)

=============================================================================
