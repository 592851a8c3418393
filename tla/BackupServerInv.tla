--------------------------- MODULE BackupServerInv ---------------------------
(***************************************************************************)
(* The inductive invariant behind Confirmed: what holds between two steps  *)
(* of a handler, for each place it can stand at.                           *)
(***************************************************************************)
EXTENDS BackupServer

\* Places where no file is at hand.
NoFile(r) == \/ r.pc \in {"closed", "ready", "list"}
             \/ /\ r.pc = "reply"
                /\ r.ans \in {"LOGGED", "REFUSED", "LISTING", "LINES", "LIST_ERROR"}

\* Places where a stream is open.
Streaming(r) == \/ r.pc \in {"recv", "size", "send"}
                \/ r.pc = "reply" /\ r.ans \in {"GO", "LENGTH"}

\* Which fields a handler has set by the time it gets anywhere.
ShapeOf(r) == /\ (r.file = None) <=> NoFile(r)
              /\ r.fd # None => Streaming(r)
              /\ r.pc = "reply" => r.ans # None
              /\ r.pc = "hdel" => r.ans \in {"GO", "DELETED", "DELETE_ERROR",
                                              "HASH_MISMATCH", "NOT_FOUND"}
              /\ r.pc \in {"closed", "ready"} => r.ans = None
Shape == \A s \in Session : ShapeOf(ses[s])

\* Two names never share an inode.
OneName == \A k, l \in Key : dir[k] # None /\ dir[k] = dir[l] => k = l

\* An open stream never refers to the file of another path.
OwnStream == \A s \in Session, k \in Key :
  ses[s].fd # None /\ ses[s].fd = dir[k] => ses[s].file = k

\* alone says what it is meant to say.
Apart == \A s, t \in Session, k \in Key :
  s # t /\ Working(s, k) /\ Working(t, k) => ~ses[s].alone

\* While the user can count on an answer, only a GET is at work on the path,
\* and one that will not drop the record.
HeardOf(r) == r.file # None /\ ~Reading(r) /\ told[r.file] # Unknown =>
                \/ r.pc = "lookup"
                \/ r.pc = "found" /\ told[r.file] # None
Heard == \A s \in Session : HeardOf(ses[s])

\* How far a handler that met no other has got.
Written(r) == r.pc = "hset" \/ (r.pc = "reply" /\ r.ans = "STORED")
ProgressOf(r) == r.file # None /\ r.alone =>
  /\ r.pc = "recv" \/ (r.pc = "reply" /\ r.ans = "GO") => dir[r.file] # None
  /\ Written(r) => dir[r.file] # None /\ data[dir[r.file]] = r.hash
  /\ r.pc = "reply" /\ r.ans = "STORED" => snapshot[r.file] = r.hash
  /\ r.pc \in {"hdel", "reply"} /\ r.ans = "DELETED" => dir[r.file] = None
  /\ r.pc = "reply" /\ r.ans = "DELETED" => snapshot[r.file] = None
Progress == \A s \in Session : ProgressOf(ses[s])

\* The inductive invariant.
ServerInv == /\ TypeOK /\ Shape /\ OneName /\ OwnStream
             /\ Apart /\ Heard /\ Progress /\ Confirmed

-----------------------------------------------------------------------------
(* The inductive invariant behind GetConfirmed. *)

\* What the user was last told of the path is a content, and nothing that may change
\* it has met this handler.
Counts(r) == r.file # None /\ r.alone /\ told[r.file] \in Data

\* A GET that has not been answered, or has found that the file is gone.
Harmless(r) == r.pc \in {"lookup", "found"} \/ (r.pc = "hdel" /\ r.ans = "NOT_FOUND")

\* Beside a handler that is marked alone only a GET is at work on the path, and one
\* that has changed nothing but the record of a file that is not there.
Lone == \A s, t \in Session :
  s # t /\ ses[s].alone /\ ses[s].file # None /\ Working(t, ses[s].file) => Harmless(ses[t])

\* How far a GET has got: the stream it has open is that of the name, and the length
\* it announced and what it has sent are those of the content.
GotOf(r) ==
  /\ r.pc # "send" => r.body = <<>>
  /\ r.pc \in {"lookup", "found", "load", "size"} => r.ans = None
  /\ Counts(r) =>
       /\ r.ans # "NOT_FOUND"
       /\ r.pc \in {"size", "send"} \/ r.ans = "LENGTH" => r.fd = dir[r.file]
       /\ r.pc = "send" \/ r.ans = "LENGTH" => r.len = Len(told[r.file])
       /\ Len(r.body) <= Len(told[r.file])
       /\ \A i \in 1..Len(r.body) : r.body[i] = told[r.file][i]
Got == \A s \in Session : GotOf(ses[s])

GetInv == ServerInv /\ Lone /\ Got

-----------------------------------------------------------------------------
(* The inductive invariant behind SnapshotSound: one connection, and a     *)
(* process that nobody kills.                                              *)

Sole == ~Kill /\ \A s, t \in Session : s = t

\* What is recorded of a path is what its name holds.
Agrees(k) == snapshot[k] # None /\ dir[k] # None => data[dir[k]] = snapshot[k]

\* A record without a file is about to be dropped.
Backed(k) == snapshot[k] # None /\ dir[k] = None =>
               \E s \in Session : ses[s].pc = "hdel" /\ ses[s].file = k

\* What an upload relies on: no record of the file from before it is created to when
\* its hash has been checked.
PlacedOf(r) ==
  /\ r.pc \in {"hdel", "open"} => dir[r.file] = None
  /\ r.pc = "open" => snapshot[r.file] = None
  /\ r.pc \in {"recv", "revert"} \/ (r.pc = "reply" /\ r.ans = "GO") =>
       dir[r.file] # None /\ snapshot[r.file] = None
  /\ r.pc = "hset" => dir[r.file] # None /\ data[dir[r.file]] = r.hash
Placed == \A s \in Session : PlacedOf(ses[s])

SnapshotInv == /\ ServerInv /\ Placed
               /\ \A k \in Key : Agrees(k) /\ Backed(k)

=============================================================================
