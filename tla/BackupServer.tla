---------------------------- MODULE BackupServer ----------------------------
(***************************************************************************)
(* The server: sessions (server/session.cpp) that change the files under   *)
(* DATA_DIR and, through Db (server/db.cpp), the redis hashes              *)
(* "snapshot:<user>".  Eight io threads run the handlers, so the calls of  *)
(* different sessions on the file system and on redis interleave; within a *)
(* session at most one handler is outstanding.  One action is one such     *)
(* call, or one asynchronous completion.                                   *)
(*                                                                         *)
(* Abstractions.  A file is a sequence of at most MaxLen blocks and its    *)
(* SHA-256 is the sequence itself.  The read of a file by getSHA is one    *)
(* step, and a block is on the disk as soon as ofstream has it.  Users and *)
(* their passwords are fixed (main.cpp sets them at every start).          *)
(***************************************************************************)
EXTENDS Naturals, Sequences

CONSTANTS Session,  \* connections; a closed one may be accepted again
          User,     \* users that have a password in redis
          Path,     \* paths below a user's directory
          Inode,    \* what a name or an open stream refers to
          Block,    \* unit of transfer; Zero fills the gaps of a sparse file
          Zero,
          MaxLen,   \* bound: blocks in a file
          Account,  \* [Session -> User], the user name each client logs in with
          Kill,     \* may the process be killed at any moment?
          None, Unknown

Key == User \X Path
Data == UNION {[1..n -> Block] : n \in 0..MaxLen}

VARIABLES up,        \* the process runs
          ses,       \* [Session -> session record]
          dir,       \* [Key -> Inode \cup {None}], the names under DATA_DIR
          data,      \* [Inode -> Data]
          snapshot,  \* [Key -> Data \cup {None}], the recorded hashes in redis
          told       \* [Key -> ...], what the user last heard of the key: history

vars == <<up, ses, dir, data, snapshot, told>>

-----------------------------------------------------------------------------
(* Sessions *)

\* Where a handler stands: "ready" in async_read_until, "reply" before a
\* write_str_sync, "recv" and "send" in the two chunk loops, else before the
\* call on the file system or on redis that the name says.
PC == {"closed", "ready", "reply", "exists", "compare", "patch", "revert",
       "delete", "hdel", "open", "recv", "hset", "lookup", "found", "load",
       "size", "send", "list"}

\* Where the handler goes once an answer is out; the session object dies when
\* no further read is posted.
AfterReply ==
  [LOGGED |-> "ready", REFUSED |-> "closed",
   GO |-> "recv", STORED |-> "ready", HASH_MISMATCH |-> "ready",
   ALREADY_EXISTS |-> "ready", CREATE_ERROR |-> "closed",
   PATCH_CREATE_ERROR |-> "ready", DELETED |-> "ready", DELETE_ERROR |-> "ready",
   NOT_FOUND |-> "ready", OPEN_ERROR |-> "closed", LENGTH |-> "send",
   LISTING |-> "reply", LINES |-> "ready", LIST_ERROR |-> "ready"]

Answer == DOMAIN AfterReply

ASSUME ServerAssumption ==
  /\ Account \in [Session -> User]
  /\ Zero \in Block
  /\ MaxLen \in Nat
  /\ Kill \in BOOLEAN
  /\ None \notin Inode \cup User \cup Key \cup Data \cup Answer
  /\ Unknown \notin Data \cup {None}

\* A session with no request in hand; a is "is the client's end there".
Idle(u, a) == [pc |-> "ready", user |-> u, alive |-> a, ans |-> None, file |-> None,
               hash |-> <<>>, len |-> 0, pos |-> 0, fd |-> None, body |-> <<>>,
               alone |-> TRUE]
Closed == [Idle(None, FALSE) EXCEPT !.pc = "closed"]

At(s, l) == ses[s].pc = l
Goto(s, l) == ses' = [ses EXCEPT ![s].pc = l]
Reply(s, a) == ses' = [ses EXCEPT ![s].pc = "reply", ![s].ans = a]

(* Files *)

\* The file system frees an inode that no name and no stream refers to.
Held(d, ss) == {d[k] : k \in Key} \cup {ss[s].fd : s \in Session}
Reap(d, ss) == [i \in Inode |-> IF i \in Held(d, ss) THEN data[i] ELSE <<>>]

\* Hasher::getSHA opens the path again; a path it cannot open hashes as empty.
Sha(k) == IF dir[k] = None THEN <<>> ELSE data[dir[k]]

WriteAt(d, n, b) ==
  [i \in 1..(IF n > Len(d) THEN n ELSE Len(d)) |->
     IF i = n THEN b ELSE IF i <= Len(d) THEN d[i] ELSE Zero]

-----------------------------------------------------------------------------
(* Connection and login *)

Accept(s) == /\ up /\ At(s, "closed")
             /\ ses' = [ses EXCEPT ![s] = Idle(None, TRUE)]
             /\ UNCHANGED <<up, dir, data, snapshot, told>>

\* The client goes away; the server notices at its next use of the socket.
Disconnect(s) == /\ ses[s].alive
                 /\ ses' = [ses EXCEPT ![s].alive = FALSE]
                 /\ UNCHANGED <<up, dir, data, snapshot, told>>

\* An asynchronous read or write completes with an error: nothing is posted
\* again, the session is destroyed and its streams are closed.
HangUp(s) == /\ ses[s].pc \in {"ready", "recv", "send"} /\ ~ses[s].alive
             /\ ses' = [ses EXCEPT ![s] = Closed]
             /\ UNCHANGED <<up, dir, snapshot, told>>
             /\ data' = Reap(dir', ses')

\* History: no other handler that may still change or report what is held
\* under the file has run since this one began.
Reading(r) == \/ r.pc \in {"load", "size", "send"}
              \/ r.pc = "reply" /\ r.ans \in {"LENGTH", "OPEN_ERROR", "NOT_FOUND"}
Working(t, k) == ses[t].file = k /\ ~Reading(ses[t])

\* A request on k arrives, with the hash and the length of a PUT; the handler
\* runs on from pc l.
Request(s, k, l, h, n) ==
  /\ At(s, "ready") /\ ses[s].alive /\ ses[s].user = k[1]
  /\ ses' = [t \in Session |->
       IF t = s
       THEN [ses[s] EXCEPT !.pc = l, !.file = k, !.hash = h, !.len = n,
                           !.alone = \A o \in Session \ {s} : ~Working(o, k)]
       ELSE [ses[t] EXCEPT !.alone = @ /\ (ses[t].file = k =>
                                             l = "lookup" /\ Reading(ses[t]))]]
  /\ UNCHANGED <<up, dir, data, snapshot>>

Login(s) == /\ At(s, "ready") /\ ses[s].alive
            /\ ses' = [ses EXCEPT ![s].pc = "reply", ![s].ans = "LOGGED",
                                  ![s].user = Account[s]]
            /\ UNCHANGED <<up, dir, data, snapshot, told>>

\* A wrong password, an unknown command, a wrong number of arguments, or an
\* operation before the login.
Refuse(s) == /\ At(s, "ready") /\ ses[s].alive
             /\ Reply(s, "REFUSED")
             /\ UNCHANGED <<up, dir, data, snapshot, told>>

-----------------------------------------------------------------------------
(* PUT *)

\* The header: path, size and hash.  The client took size and hash at
\* different moments, so they need not agree.
Put(s) == \E k \in Key, h \in Data, n \in 0..MaxLen :
            /\ Request(s, k, "exists", h, n)
            /\ told' = [told EXCEPT ![k] = Unknown]

PutExists(s) == /\ At(s, "exists")
                /\ Goto(s, IF dir[ses[s].file] = None THEN "open" ELSE "compare")
                /\ UNCHANGED <<up, dir, data, snapshot, told>>

PutCompare(s) == /\ At(s, "compare")
                 /\ IF Sha(ses[s].file) = ses[s].hash
                    THEN Reply(s, "ALREADY_EXISTS")
                    ELSE Goto(s, "patch")
                 /\ UNCHANGED <<up, dir, data, snapshot, told>>

\* _outfile.open truncates a file another session has created meanwhile.  ans
\* is "GO" when delete_file has just removed an older version.
PutOpen(s) ==
  /\ At(s, "open")
  /\ LET k == ses[s].file IN
     \/ \E i \in Inode :
          /\ IF dir[k] = None THEN i \notin Held(dir, ses) ELSE i = dir[k]
          /\ dir' = [dir EXCEPT ![k] = i]
          /\ data' = [data EXCEPT ![i] = <<>>]
          /\ ses' = [ses EXCEPT ![s].pc = "reply", ![s].ans = "GO", ![s].fd = i]
     \/ /\ Reply(s, IF ses[s].ans = "GO" THEN "PATCH_CREATE_ERROR" ELSE "CREATE_ERROR")
        /\ UNCHANGED <<dir, data>>
  /\ UNCHANGED <<up, snapshot, told>>

\* One async_read_some of read_and_save_file.  After a write that failed (the
\* disk is full) the stream is bad and writes no more.
Receive(s) ==
  /\ At(s, "recv") /\ ses[s].alive /\ ses[s].pos < ses[s].len
  /\ \/ /\ ses[s].fd # None
        /\ \E b \in Block :
             data' = [data EXCEPT ![ses[s].fd] = WriteAt(@, ses[s].pos + 1, b)]
        /\ ses' = [ses EXCEPT ![s].pos = @ + 1]
     \/ /\ ses' = [ses EXCEPT ![s].pos = @ + 1, ![s].fd = None]
        /\ data' = Reap(dir, ses')
  /\ UNCHANGED <<up, dir, snapshot, told>>

\* Mutant of Verify: the file is recorded whatever its hash.
VerifyUnchecked(s) ==
  /\ At(s, "recv") /\ ses[s].pos = ses[s].len
  /\ ses' = [ses EXCEPT ![s].fd = None, ![s].pc = "hset"]
  /\ data' = Reap(dir, ses')
  /\ UNCHANGED <<up, dir, snapshot, told>>

\* The end of the upload: close, then hash what the path now names.  When a
\* write or the close failed the next request is read and nothing is answered.
Verify(s) ==
  /\ At(s, "recv") /\ ses[s].pos = ses[s].len
  /\ \/ ses' = [ses EXCEPT ![s] = Idle(ses[s].user, ses[s].alive)]
     \/ /\ ses[s].fd # None
        /\ ses' = [ses EXCEPT ![s].fd = None, ![s].pc =
                     IF Sha(ses[s].file) = ses[s].hash THEN "hset" ELSE "revert"]
  /\ data' = Reap(dir, ses')
  /\ UNCHANGED <<up, dir, snapshot, told>>

HSet(s) == /\ At(s, "hset")
           /\ snapshot' = [snapshot EXCEPT ![ses[s].file] = ses[s].hash]
           /\ Reply(s, "STORED")
           /\ UNCHANGED <<up, dir, data, told>>

-----------------------------------------------------------------------------
(* delete_file: called by PUT over another version, by a failed PUT and by *)
(* DELETE.  First the file, then the redis field.                          *)

\* Mutant of AfterDelete: a failed upload is answered as a stored one.
AfterDeleteStored(site, deleted) ==
  CASE site = "revert"             -> "STORED"
    [] site = "patch" /\ deleted   -> "GO"
    [] site = "delete" /\ deleted  -> "DELETED"
    [] OTHER                       -> "DELETE_ERROR"

\* What the caller does with delete_file's result.
AfterDelete(site, deleted) ==
  CASE site = "revert"             -> "HASH_MISMATCH"
    [] site = "patch" /\ deleted   -> "GO"
    [] site = "delete" /\ deleted  -> "DELETED"
    [] OTHER                       -> "DELETE_ERROR"

\* Mutant of Remove: the file stays.
RemoveKept(s) ==
  /\ ses[s].pc \in {"patch", "revert", "delete"}
  /\ ses' = [ses EXCEPT ![s].pc = "hdel",
                        ![s].ans = AfterDelete(ses[s].pc, dir[ses[s].file] # None)]
  /\ UNCHANGED <<up, dir, data, snapshot, told>>

Remove(s) ==
  /\ ses[s].pc \in {"patch", "revert", "delete"}
  /\ LET k == ses[s].file IN
     /\ dir' = [dir EXCEPT ![k] = None]
     /\ ses' = [ses EXCEPT ![s].pc = "hdel",
                           ![s].ans = AfterDelete(ses[s].pc, dir[k] # None)]
  /\ data' = Reap(dir', ses')
  /\ UNCHANGED <<up, snapshot, told>>

\* Mutant of HDel: the record stays.
HDelSkipped(s) == /\ At(s, "hdel")
                  /\ Goto(s, IF ses[s].ans = "GO" THEN "open" ELSE "reply")
                  /\ UNCHANGED <<up, dir, data, snapshot, told>>

HDel(s) == /\ At(s, "hdel")
           /\ snapshot' = [snapshot EXCEPT ![ses[s].file] = None]
           /\ Goto(s, IF ses[s].ans = "GO" THEN "open" ELSE "reply")
           /\ UNCHANGED <<up, dir, data, told>>

Delete(s) == \E k \in Key : /\ Request(s, k, "delete", <<>>, 0)
                           /\ told' = [told EXCEPT ![k] = Unknown]

-----------------------------------------------------------------------------
(* GET *)

Get(s) == /\ \E k \in Key : Request(s, k, "lookup", <<>>, 0)
          /\ UNCHANGED told

Lookup(s) == /\ At(s, "lookup")
             /\ IF snapshot[ses[s].file] # None
                THEN Goto(s, "found") ELSE Reply(s, "NOT_FOUND")
             /\ UNCHANGED <<up, dir, data, snapshot, told>>

\* Mutant of Found: GET takes every file off the record.
FoundInverted(s) == /\ At(s, "found")
                    /\ IF dir[ses[s].file] = None
                       THEN Goto(s, "load")
                       ELSE ses' = [ses EXCEPT ![s].pc = "hdel", ![s].ans = "NOT_FOUND"]
                    /\ UNCHANGED <<up, dir, data, snapshot, told>>

\* A recorded file that is gone from the disk loses its record.
Found(s) == /\ At(s, "found")
            /\ IF dir[ses[s].file] # None
               THEN Goto(s, "load")
               ELSE ses' = [ses EXCEPT ![s].pc = "hdel", ![s].ans = "NOT_FOUND"]
            /\ UNCHANGED <<up, dir, data, snapshot, told>>

Load(s) == /\ At(s, "load")
           /\ \/ /\ dir[ses[s].file] # None
                 /\ ses' = [ses EXCEPT ![s].pc = "size", ![s].fd = dir[ses[s].file]]
              \/ Reply(s, "OPEN_ERROR")
           /\ UNCHANGED <<up, dir, data, snapshot, told>>

\* Mutant of Size: one block too many is announced.
SizeOffByOne(s) == /\ At(s, "size") /\ dir[ses[s].file] # None
                   /\ ses' = [ses EXCEPT ![s].pc = "reply", ![s].ans = "LENGTH",
                                         ![s].len = Len(data[dir[ses[s].file]]) + 1]
                   /\ UNCHANGED <<up, dir, data, snapshot, told>>

\* file_size takes the path, not the open stream.
Size(s) == /\ At(s, "size") /\ dir[ses[s].file] # None
           /\ ses' = [ses EXCEPT ![s].pc = "reply", ![s].ans = "LENGTH",
                                 ![s].len = Len(data[dir[ses[s].file]])]
           /\ UNCHANGED <<up, dir, data, snapshot, told>>

\* Mutant of Send: the file is read from its beginning each time.
SendRewound(s) ==
  /\ At(s, "send") /\ ses[s].alive /\ Len(ses[s].body) < ses[s].len
  /\ ses[s].fd # None /\ data[ses[s].fd] # <<>>
  /\ ses' = [ses EXCEPT ![s].body = Append(@, Head(data[ses[s].fd]))]
  /\ UNCHANGED <<up, dir, data, snapshot, told>>

\* One read and async_write of send_file_chunked.  A read past the end of the
\* file fails, as does every later one: what was in the buffer goes out.
Send(s) ==
  /\ At(s, "send") /\ ses[s].alive /\ Len(ses[s].body) < ses[s].len
  /\ LET r == ses[s]
         n == Len(r.body) + 1
     IN IF r.fd # None /\ n <= Len(data[r.fd])
        THEN ses' = [ses EXCEPT ![s].body = Append(@, data[r.fd][n])]
        ELSE \E b \in Block : ses' = [ses EXCEPT ![s].body = Append(@, b), ![s].fd = None]
  /\ UNCHANGED <<up, dir, snapshot, told>>
  /\ data' = Reap(dir', ses')

SendEnd(s) == /\ At(s, "send") /\ Len(ses[s].body) = ses[s].len
              /\ ses' = [ses EXCEPT ![s] = Idle(ses[s].user, ses[s].alive)]
              /\ UNCHANGED <<up, dir, snapshot, told>>
              /\ data' = Reap(dir', ses')

-----------------------------------------------------------------------------
(* SNAPSHOT: two writes, the header and the lines.                         *)

Snapshot(s) == /\ At(s, "ready") /\ ses[s].alive /\ ses[s].user # None
               /\ Goto(s, "list")
               /\ UNCHANGED <<up, dir, data, snapshot, told>>

\* The records cannot be read, or are.
List(s) == /\ At(s, "list")
           /\ Reply(s, "LIST_ERROR") \/ Reply(s, "LISTING")
           /\ UNCHANGED <<up, dir, data, snapshot, told>>

-----------------------------------------------------------------------------
(* Answers, and the end of the process *)

\* write_str_sync.  The first write to a connection the client has left may
\* still succeed; nobody hears it.
Respond(s) ==
  /\ At(s, "reply")
  /\ LET r == ses[s]
         next == AfterReply[r.ans]
     IN /\ ses' = [ses EXCEPT ![s] =
             CASE next = "ready"  -> Idle(r.user, r.alive)
               [] next = "closed" -> Closed
               [] next = "reply"  -> [r EXCEPT !.ans = "LINES"]
               [] OTHER           -> [r EXCEPT !.pc = next, !.ans = None]]
        /\ told' = CASE r.alive /\ r.alone /\ r.ans = "STORED"  -> [told EXCEPT ![r.file] = r.hash]
                     [] r.alive /\ r.alone /\ r.ans = "DELETED" -> [told EXCEPT ![r.file] = None]
                     [] OTHER -> told
  /\ UNCHANGED <<up, dir, data, snapshot>>

\* The files and redis outlive the process.
Crash == /\ up' = FALSE
         /\ ses' = [s \in Session |-> Closed]
         /\ UNCHANGED <<dir, snapshot, told>>
         /\ data' = Reap(dir', ses')

\* No handler catches what write_str_sync and file_size throw, nor what at, stol
\* and stoi do on the header of a user's request: a DELETE without a path, a PUT
\* without a hash or with letters for a size, or a path that holds the delimiter
\* "##" and shifts the others.  Neither does the io thread that runs it.
Terminate(s) == /\ \/ At(s, "reply") /\ ~ses[s].alive
                   \/ At(s, "size") /\ dir[ses[s].file] = None
                   \/ At(s, "ready") /\ ses[s].alive /\ ses[s].user # None
                /\ Crash

Killed == Kill /\ up /\ Crash

Restart == /\ ~up
           /\ up' = TRUE
           /\ UNCHANGED <<ses, dir, data, snapshot, told>>

-----------------------------------------------------------------------------
Init == /\ up = TRUE
        /\ ses = [s \in Session |-> Closed]
        /\ dir = [k \in Key |-> None]
        /\ data = [i \in Inode |-> <<>>]
        /\ snapshot = [k \in Key |-> None]
        /\ told = [k \in Key |-> Unknown]

Connection(s) == Accept(s) \/ Disconnect(s) \/ HangUp(s) \/ Login(s) \/ Refuse(s)
Upload(s) == Put(s) \/ PutExists(s) \/ PutCompare(s) \/ PutOpen(s) \/ Receive(s)
               \/ Verify(s) \/ HSet(s)
Erase(s) == Delete(s) \/ Remove(s) \/ HDel(s)
Download(s) == Get(s) \/ Lookup(s) \/ Found(s) \/ Load(s) \/ Size(s) \/ Send(s)
                 \/ SendEnd(s)

Next == \/ \E s \in Session : \/ Connection(s) \/ Upload(s) \/ Erase(s) \/ Download(s)
                              \/ Snapshot(s) \/ List(s) \/ Respond(s) \/ Terminate(s)
        \/ Killed \/ Restart

Spec == Init /\ [][Next]_vars

-----------------------------------------------------------------------------
(* Properties *)

SessionRecord == [pc : PC, user : User \cup {None}, alive : BOOLEAN,
                  ans : Answer \cup {None}, file : Key \cup {None},
                  hash : Data, len : 0..MaxLen, pos : 0..MaxLen,
                  fd : Inode \cup {None}, body : Data, alone : BOOLEAN]

\* Types of the variables.
TypeOK ==
  /\ up \in BOOLEAN
  /\ ses \in [Session -> SessionRecord]
  /\ dir \in [Key -> Inode \cup {None}]
  /\ data \in [Inode -> Data]
  /\ snapshot \in [Key -> Data \cup {None}]
  /\ told \in [Key -> Data \cup {None, Unknown}]

\* What GET would serve of a key, and the whole of it.
Served(k) == IF snapshot[k] = None \/ dir[k] = None THEN None ELSE data[dir[k]]

\* The answers to PUT and DELETE (session.cpp:105, :396) stay true: until the
\* user's next PUT or DELETE of that path, whatever is done to other paths,
\* whoever hangs up and whenever the process dies, a stored file is whole,
\* under its name and recorded with its own hash, and a deleted one is gone.
\* Answers to operations that overlapped on one path are not counted on.
Confirmed ==
  \A k \in Key :
    /\ told[k] \in Data => Served(k) = told[k] /\ snapshot[k] = told[k]
    /\ told[k] = None => dir[k] = None /\ snapshot[k] = None

\* A GET (session.cpp:211-261) of a file whose PUT was answered "OK", and that
\* no PUT or DELETE of the path overlaps, nor another GET that still looks the
\* path up, sends that content: the length announced is its length, what was
\* sent so far is its beginning, and the answer is not FILE_NOT_FOUND.
GetConfirmed ==
  \A s \in Session : LET r == ses[s] IN
    r.file # None /\ r.alone /\ told[r.file] \in Data =>
      /\ (r.pc = "send" \/ r.ans = "LENGTH") => r.len = Len(told[r.file])
      /\ Len(r.body) <= Len(told[r.file])
      /\ \A i \in 1..Len(r.body) : r.body[i] = told[r.file][i]
      /\ r.ans # "NOT_FOUND"

\* The server implements BackupService.
Service == INSTANCE BackupService WITH
             Content <- Data, held <- [k \in Key |-> Served(k)]
ServiceRefined == Service!ServiceSpec

\* get_user_snapshot returns "{ path: hash }" (db.cpp:83): while no handler is
\* at work on a path, the hash recorded for it is that of the file, if any.
SnapshotSound ==
  \A k \in Key : (\A s \in Session : ~Working(s, k)) =>
    (snapshot[k] # None /\ dir[k] # None => data[dir[k]] = snapshot[k])

=============================================================================
