---------------------------- MODULE BackupClient ----------------------------
(***************************************************************************)
(* The client: a file watcher that scans the folder (client/file_watcher), *)
(* a main thread that asks for the list of what is backed up, and an io    *)
(* thread that carries out one request at a time (client/client.cpp).      *)
(* They share the map of remote files (known), the keys of the pending     *)
(* operations and a queue.  The user edits the folder, and the connection  *)
(* breaks, at any moment.                                                  *)
(*                                                                         *)
(* Abstractions.  A content is a value and its SHA-256 is the content; the *)
(* size goes with it.  Two times are equal when areTsEqual says so, within *)
(* 20 s.  A session's handler is one step on file and entry where no other *)
(* session is at work on the path; BackupServer has the steps.  Where a    *)
(* session the client left behind may be at it still, and after an answer  *)
(* that was not the client's, the server's files and its answers are       *)
(* whatever they may be (behind, astray).  A transfer cut short leaves the *)
(* file as it was opened, empty.  Directories, and the docker-compose.yml  *)
(* no request is made for, are left out; so is the difference between      *)
(* "../my_sync_folder" and "/my_sync_folder" on disk, which in the         *)
(* client's container are one folder.                                      *)
(***************************************************************************)
EXTENDS Naturals, Sequences, FiniteSets

CONSTANTS Path, Content,
          Empty,     \* the content of an empty file
          MaxTime,   \* bound: values of the clock, more than 20 s apart
          MaxEdits,  \* bound: changes the user makes
          MaxFaults, \* bound: broken connections, errors of either file system, kills of the client
          Patient,   \* the user touches a file only once it is backed up
          Offline,   \* the client may be stopped and started, and the folder edited meanwhile
          None

\* How a node spells its path: "../my_sync_folder/f" when the watcher made it,
\* "/my_sync_folder/f" when the server did.  getPath, and with it the key of
\* the pending operation, differs.
Spelling == {"rel", "abs"}
Node == [key : Spelling, hash : Content]
Dated == [key : Spelling, hash : Content, time : 0..MaxTime]
Request == [method : {"PUT", "GET", "DELETE", "SNAPSHOT"}, file : Path \cup {None},
            key : Spelling, hash : Content \cup {None}]

ASSUME ClientAssumption ==
  /\ Empty \in Content
  /\ None \notin Path \cup Content \cup Node \cup Dated \cup [data : Content, time : 0..MaxTime]
  /\ MaxTime \in Nat /\ MaxEdits \in Nat /\ MaxFaults \in Nat
  /\ Patient \in BOOLEAN /\ Offline \in BOOLEAN

VARIABLES
  disk,       \* [Path -> [data, time] or None], the folder
  clock, edits, faults,
  gone,       \* history: paths the user erased and did not write again
  file,       \* [Path -> Content or None], the server's files
  entry,      \* [Path -> Content or None], the server's snapshot
  link,       \* the connection, and the session at its other end, works
  behind,     \* paths at which a session the client has left may still be at work
  alive,      \* the client's process runs
  index,      \* paths_: [Path -> node with its time, or None]
  scan,       \* where the watcher stands
  known,      \* remote_snapshot: [Path -> Node or None]
  pending,    \* pending_operation: keys <<spelling, path>>
  queue,      \* jobs
  stuck,      \* history: keys of PUTs answered by what is neither OK nor ERROR
  main,       \* where the snapshot loop stands
  io,         \* where the io thread stands, with its request and the answer
  connected,  \* client::connected
  jammed,     \* client::_file was left open
  astray      \* what the client reads next is not the answer to what it asks next

user == <<disk, gone, edits>>
server == <<file, entry, link, behind>>
watcher == <<index, scan>>
shared == <<known, pending, queue, stuck>>
worker == <<io, connected, jammed, astray>>
vars == <<user, clock, faults, server, alive, watcher, shared, main, worker>>

-----------------------------------------------------------------------------
(* Requests *)

OpKey(r) == <<r.key, r.file>>
Req(m, f, n) == [method |-> m, file |-> f, key |-> n.key, hash |-> n.hash]
SnapshotReq == [method |-> "SNAPSHOT", file |-> None, key |-> "abs", hash |-> None]

\* Mutant of Submit: no throttle.
SubmitAlways(r) == pending' = pending \cup {OpKey(r)} /\ queue' = Append(queue, r)

\* The watcher's action: a request goes in the queue unless its key is pending.
Submit(r) == IF OpKey(r) \in pending
             THEN UNCHANGED <<pending, queue>>
             ELSE /\ pending' = pending \cup {OpKey(r)}
                  /\ queue' = Append(queue, r)

\* Two of one scan for one file, one after the other.
SubmitBoth(r1, r2) ==
  LET p == pending \cup {OpKey(r1)}
  IN /\ pending' = p \cup {OpKey(r2)}
     /\ queue' = queue \o (IF OpKey(r1) \in pending THEN <<>> ELSE <<r1>>)
                       \o (IF OpKey(r2) \in p THEN <<>> ELSE <<r2>>)

Idle == [pc |-> "idle", req |-> SnapshotReq, ans |-> "none"]
Asleep == [pc |-> "sleep", todo |-> {}, copy |-> [f \in Path |-> None], deleted |-> {},
           file |-> None, time |-> 0, wasPending |-> FALSE]

\* The requests queued and in hand.
Jobs == {queue[i] : i \in 1..Len(queue)} \cup (IF io.pc = "idle" THEN {} ELSE {io.req})

-----------------------------------------------------------------------------
(* Sessions left behind *)

\* What the server has at f, and what it answers, is not up to the client's requests alone:
\* BackupService promises nothing of a path while an operation on it is open.  As long as
\* that is so, file[f] and entry[f] are not looked at.
Overlapped(f) == astray \/ f \in behind

\* Where a session may be at work once the client leaves it.
Left == behind \cup (IF astray THEN Path ELSE {io.req.file} \ {None})

\* Between two requests of the client, the sessions at f are over or dead, each as far as it got.
Ended(f) ==
  /\ f \in behind /\ ~astray /\ io.pc \in {"idle", "start"}
  /\ behind' = behind \ {f}
  /\ \E c, d \in {None} \cup Content : /\ file' = [file EXCEPT ![f] = c]
                                     /\ entry' = [entry EXCEPT ![f] = d]
  /\ UNCHANGED <<user, clock, faults, link, alive, watcher, shared, main, worker>>

-----------------------------------------------------------------------------
(* The process *)

\* What the constructors find: every file of the folder is hashed, nothing is
\* known of the server, and connect may fail.
Indexed == [f \in Path |-> IF disk[f] = None THEN None
                           ELSE [key |-> "rel", hash |-> disk[f].data, time |-> disk[f].time]]

Start == /\ Offline /\ ~alive /\ alive' = TRUE
         /\ index' = Indexed /\ scan' = Asleep /\ io' = Idle /\ main' = "check"
         /\ known' = [f \in Path |-> None] /\ pending' = {} /\ queue' = <<>> /\ stuck' = {}
         /\ connected' \in BOOLEAN /\ link' = connected' /\ jammed' = FALSE /\ astray' = FALSE
         /\ UNCHANGED <<user, clock, faults, file, entry, behind>>

\* No thread catches the exception, or the process is killed.
Stopped == /\ alive /\ alive' = FALSE
           /\ index' = [f \in Path |-> None] /\ scan' = Asleep /\ io' = Idle /\ main' = "check"
           /\ known' = [f \in Path |-> None] /\ pending' = {} /\ queue' = <<>> /\ stuck' = {}
           /\ connected' = FALSE /\ link' = FALSE /\ jammed' = FALSE /\ astray' = FALSE
           /\ behind' = Left
           /\ UNCHANGED <<user, clock, file, entry>>

Fault == faults < MaxFaults /\ faults' = faults + 1

Quit == Offline /\ Fault /\ Stopped

-----------------------------------------------------------------------------
(* The user, and the connection *)

\* The next scan would find nothing to report of f, and the next SNAPSHOT
\* nothing new.
Settled(f) == IF disk[f] = None THEN index[f] = None /\ known[f] = None /\ entry[f] = None
              ELSE /\ index[f] # None /\ known[f] # None
                   /\ index[f].time = disk[f].time \/ index[f].hash = disk[f].data

\* A patient user waits until f is settled, is indexed as it is and is 20 s old.
MayEdit(f) == /\ alive \/ Offline
              /\ Patient => /\ Settled(f) /\ \A r \in Jobs : r.file # f
                            /\ disk[f] # None => /\ index[f].hash = disk[f].data
                                                /\ disk[f].time < clock
              /\ edits < MaxEdits /\ edits' = edits + 1
              /\ UNCHANGED <<clock, faults, server, alive, watcher, shared, main, worker>>

Write(f, c) == /\ MayEdit(f)
               /\ disk[f] # None => disk[f].data # c
               /\ disk' = [disk EXCEPT ![f] = [data |-> c, time |-> clock]]
               /\ gone' = gone \ {f}

Erase(f) == /\ MayEdit(f)
            /\ disk[f] # None
            /\ disk' = [disk EXCEPT ![f] = None]
            /\ gone' = gone \cup {f}

Tick == /\ clock < MaxTime /\ clock' = clock + 1
        /\ UNCHANGED <<user, faults, server, alive, watcher, shared, main, worker>>

\* The connection breaks, or the server dies with what it has in hand.
Drop == /\ link /\ link' = FALSE
        /\ Fault
        /\ UNCHANGED <<user, clock, file, entry, behind, alive, watcher, shared, main, worker>>

-----------------------------------------------------------------------------
(* FileWatcher::start, and the lambda main.cpp gives it.  A scan works on  *)
(* the copy of remote_snapshot it took at its beginning.                   *)

\* The watcher's thread runs; what it leaves alone.
Watching(l) == /\ alive /\ scan.pc = l
               /\ UNCHANGED <<user, clock, faults, server, alive, known, stuck, main, worker>>

BeginScan == /\ Watching("sleep")
             /\ scan' = [Asleep EXCEPT !.pc = "erased", !.copy = known,
                                       !.todo = {f \in Path : index[f] # None}]
             /\ UNCHANGED <<index, pending, queue>>

\* Mutant of CheckErased: nothing is asked of the server.
CheckErasedSilently(f) ==
  /\ Watching("erased") /\ f \in scan.todo
  /\ IF disk[f] = None
     THEN /\ index' = [index EXCEPT ![f] = None]
          /\ scan' = [scan EXCEPT !.todo = @ \ {f}, !.deleted = @ \cup {f}]
     ELSE /\ scan' = [scan EXCEPT !.todo = @ \ {f}]
          /\ UNCHANGED index
  /\ UNCHANGED <<pending, queue>>

CheckErased(f) ==
  /\ Watching("erased") /\ f \in scan.todo
  /\ IF disk[f] = None
     THEN /\ Submit(Req("DELETE", f, index[f]))
          /\ index' = [index EXCEPT ![f] = None]
          /\ scan' = [scan EXCEPT !.todo = @ \ {f}, !.deleted = @ \cup {f}]
     ELSE /\ scan' = [scan EXCEPT !.todo = @ \ {f}]
          /\ UNCHANGED <<index, pending, queue>>

EndErased == /\ Watching("erased") /\ scan.todo = {}
             /\ scan' = [scan EXCEPT !.pc = "files", !.todo = Path]
             /\ UNCHANGED <<index, pending, queue>>

\* The directory iterator comes to f, or finds no f.  A file that the server
\* has and the index lacks, most likely one a GET brought, is indexed as what
\* remote_snapshot says of it.
Visit(f) ==
  /\ Watching("files") /\ f \in scan.todo
  /\ IF disk[f] = None
     THEN /\ scan' = [scan EXCEPT !.todo = @ \ {f}]
          /\ UNCHANGED index
     ELSE /\ scan' = [scan EXCEPT !.pc = "examine", !.todo = @ \ {f}, !.file = f,
                                   !.time = disk[f].time,
                                   !.wasPending = <<"rel", f>> \in pending]
          /\ index' = IF index[f] = None /\ scan.copy[f] # None
                      THEN [index EXCEPT ![f] = [key |-> scan.copy[f].key,
                                                 hash |-> scan.copy[f].hash,
                                                 time |-> disk[f].time]]
                      ELSE index
  /\ UNCHANGED <<pending, queue>>

Untracked(f) == scan.copy[f] = None
Redated(f) == index[f] # None /\ index[f].time # scan.time
Examined == [scan EXCEPT !.pc = "files", !.file = None, !.time = 0, !.wasPending = FALSE]

\* A file neither indexed nor on the server: created.
Created ==
  /\ Watching("examine")
  /\ LET f == scan.file
         n == [key |-> "rel", hash |-> disk[f].data, time |-> scan.time]
     IN /\ disk[f] # None /\ index[f] = None /\ Untracked(f)
        /\ index' = [index EXCEPT ![f] = n]
        /\ Submit(Req("PUT", f, n))
  /\ scan' = Examined

\* Any other: untracked if the server lacks it, modified if its time and its
\* hash have changed, or both, or neither.
Compared ==
  /\ Watching("examine")
  /\ LET f == scan.file
         now == IF disk[f] = None THEN Empty ELSE disk[f].data
         modified == Redated(f) /\ index[f].hash # now
         fresh == [index[f] EXCEPT !.hash = now, !.time = scan.time]
         whole == Req("PUT", f, [key |-> "rel", hash |-> now])
         change == Req("PUT", f, fresh)
     IN /\ index[f] # None
        /\ disk[f] = None => ~Untracked(f) /\ ~modified
        /\ Untracked(f) /\ scan.wasPending => <<"rel", f>> \in pending
        /\ index' = IF modified THEN [index EXCEPT ![f] = fresh] ELSE index
        /\ CASE Untracked(f) /\ modified  -> SubmitBoth(whole, change)
             [] Untracked(f) /\ ~modified -> Submit(whole)
             [] ~Untracked(f) /\ modified -> Submit(change)
             [] OTHER                     -> UNCHANGED <<pending, queue>>
  /\ scan' = Examined

\* last_write_time and file_size throw when f has vanished since it was found and
\* opened, the first of them before anything was made of f; and a node made
\* without a hash, for the sake of an operation that was pending, has none to
\* print once the operation is over.
ScanThrows ==
  /\ scan.pc = "examine"
  /\ LET f == scan.file IN
     \/ disk[f] = None
     \/ index[f] # None /\ Untracked(f) /\ scan.wasPending /\ <<"rel", f>> \notin pending
  /\ Stopped /\ UNCHANGED faults

EndFiles == /\ Watching("files") /\ scan.todo = {}
            /\ scan' = [scan EXCEPT !.pc = "missing",
                                    !.todo = {f \in Path : scan.copy[f] # None}]
            /\ UNCHANGED <<index, pending, queue>>

CheckMissing(f) ==
  /\ Watching("missing") /\ f \in scan.todo
  /\ scan' = [scan EXCEPT !.todo = @ \ {f}]
  /\ IF index[f] = None /\ f \notin scan.deleted
     THEN Submit(Req("GET", f, scan.copy[f]))
     ELSE UNCHANGED <<pending, queue>>
  /\ UNCHANGED index

EndScan == /\ Watching("missing") /\ scan.todo = {}
           /\ scan' = Asleep
           /\ UNCHANGED <<index, pending, queue>>

-----------------------------------------------------------------------------
(* The snapshot loop of main: the job is queued before its key is set.     *)

Looping(l) == /\ alive /\ main = l
              /\ UNCHANGED <<user, clock, faults, server, alive, watcher, known, stuck, worker>>

SnapshotPut == /\ Looping("check") /\ OpKey(SnapshotReq) \notin pending
               /\ queue' = Append(queue, SnapshotReq) /\ main' = "set"
               /\ UNCHANGED pending

SnapshotSet == /\ Looping("set")
               /\ pending' = pending \cup {OpKey(SnapshotReq)} /\ main' = "sleep"
               /\ UNCHANGED queue

SnapshotWake == /\ Looping("sleep") /\ main' = "check"
                /\ UNCHANGED <<pending, queue>>

-----------------------------------------------------------------------------
(* The io thread: handle_request and handle_response, and what the session *)
(* at the other end does meanwhile.                                        *)

Working(l) == /\ alive /\ io.pc = l
              /\ UNCHANGED <<edits, clock, faults, alive, watcher, main>>

\* The same when a file system fails, the client's or the server's.
Failing(l) == /\ alive /\ io.pc = l
              /\ Fault
              /\ UNCHANGED <<edits, clock, alive, watcher, main>>

\* Mutant of Over: the key is never removed.
OverKept == io' = Idle /\ UNCHANGED <<pending, queue, stuck>>

\* The request is over: its key is no longer pending.
Over == /\ pending' = pending \ {OpKey(io.req)}
        /\ io' = Idle
        /\ UNCHANGED <<queue, stuck>>

Ends(a) == io' = [io EXCEPT !.pc = "answer", !.ans = a]

\* disconnect() shuts the socket down; the session ends when it comes to read.
Disconnected == /\ connected' = FALSE /\ link' = FALSE /\ astray' = FALSE
                /\ behind' = Left

Take == /\ Working("idle") /\ queue # <<>>
        /\ io' = [Idle EXCEPT !.pc = "start", !.req = Head(queue)]
        /\ queue' = Tail(queue)
        /\ UNCHANGED <<disk, gone, server, known, pending, stuck, connected, jammed, astray>>

\* Without a connection the request is given up for an attempt to connect.
Reconnect == /\ Working("start") /\ ~connected
             /\ Over
             /\ connected' \in BOOLEAN /\ link' = connected'
             /\ UNCHANGED <<disk, gone, file, entry, behind, known, jammed, astray>>

\* connect() is called outside the try block: the login may throw.
ReconnectThrows == /\ io.pc = "start" /\ ~connected
                   /\ Fault /\ Stopped

\* A write or a read that finds the connection broken throws, and so does a number
\* or a parameter that is missed in what was taken for an answer.
Broken == /\ io.pc \in {"start", "answer", "hung"} /\ Working(io.pc)
          /\ connected /\ (~link \/ astray)
          /\ Over /\ Disconnected
          /\ UNCHANGED <<disk, gone, file, entry, known, jammed>>

\* No other session is at work there, and the client reads the answer it is given.
Asking(m) == /\ Working("start") /\ connected /\ link /\ io.req.method = m
             /\ ~Overlapped(io.req.file)
             /\ UNCHANGED <<disk, gone, link, behind, shared, connected, jammed, astray>>

\* Mutant of AskPut: any version of the file will do.
AskPutAnyVersion ==
  /\ Asking("PUT")
  /\ LET f == io.req.file  h == io.req.hash IN
     IF file[f] # None
     THEN Ends("ALREADY_EXISTS") /\ UNCHANGED <<file, entry>>
     ELSE /\ file' = [file EXCEPT ![f] = Empty]
          /\ entry' = [entry EXCEPT ![f] = IF h = Empty THEN Empty ELSE @]
          /\ io' = [io EXCEPT !.pc = "send"]

\* The header of a PUT: the session answers, or removes what it has and
\* creates the file.  Of an empty file there is nothing more to wait for.
AskPut ==
  /\ Asking("PUT")
  /\ LET f == io.req.file  h == io.req.hash IN
     IF file[f] = h
     THEN Ends("ALREADY_EXISTS") /\ UNCHANGED <<file, entry>>
     ELSE /\ file' = [file EXCEPT ![f] = Empty]
          /\ entry' = [entry EXCEPT ![f] = IF h = Empty THEN Empty
                                           ELSE IF file[f] = None THEN @ ELSE None]
          /\ io' = [io EXCEPT !.pc = "send"]

\* Mutant of AskDelete: the record stays.
AskDeleteListed ==
  /\ Asking("DELETE")
  /\ Ends(IF file[io.req.file] = None THEN "ERROR" ELSE "OK")
  /\ file' = [file EXCEPT ![io.req.file] = None]
  /\ UNCHANGED entry

AskDelete ==
  /\ Asking("DELETE")
  /\ LET f == io.req.file IN
     /\ Ends(IF file[f] = None THEN "ERROR" ELSE "OK")
     /\ file' = [file EXCEPT ![f] = None]
     /\ entry' = [entry EXCEPT ![f] = None]

AskGet ==
  /\ Asking("GET")
  /\ LET f == io.req.file IN
     /\ Ends(IF entry[f] = None \/ file[f] = None THEN "NOT_FOUND" ELSE "OK")
     /\ entry' = [entry EXCEPT ![f] = IF file[f] = None THEN None ELSE @]
  /\ UNCHANGED file

AskSnapshot == Asking("SNAPSHOT") /\ Ends("OK") /\ UNCHANGED <<file, entry>>

\* The session cannot open the file.  It answers and ends, but goes on when it
\* has just removed an older version, or could not read the list.
AskRefused ==
  /\ Failing("start") /\ connected /\ link /\ ~Overlapped(io.req.file)
  /\ LET f == io.req.file IN
     \/ /\ \/ io.req.method = "PUT" /\ file[f] = None
           \/ io.req.method = "GET" /\ entry[f] # None /\ file[f] # None
        /\ link' = FALSE
        /\ UNCHANGED <<file, entry>>
     \/ /\ io.req.method = "PUT" /\ file[f] \notin {None, io.req.hash}
        /\ file' = [file EXCEPT ![f] = None]
        /\ entry' = [entry EXCEPT ![f] = None]
        /\ UNCHANGED link
     \/ /\ io.req.method = "SNAPSHOT"
        /\ UNCHANGED <<file, entry, link>>
  /\ Ends("ERROR")
  /\ UNCHANGED <<disk, gone, behind, shared, connected, jammed, astray>>

\* Beside another session: any answer the request may get, from a session that goes on or not.
Answers == [PUT |-> {"ALREADY_EXISTS", "ERROR"}, DELETE |-> {"OK", "ERROR"},
            GET |-> {"OK", "NOT_FOUND", "ERROR"}]
AskOverlapped ==
  /\ Working("start") /\ connected /\ link /\ ~astray /\ io.req.file \in behind
  /\ \/ \E a \in Answers[io.req.method] : Ends(a)
     \/ io.req.method = "PUT" /\ io' = [io EXCEPT !.pc = "send"]
  /\ link' \in BOOLEAN
  /\ UNCHANGED <<disk, gone, file, entry, behind, shared, connected, jammed, astray>>

\* An answer that is not the client's: it is taken for any, or waited for in vain.  A PUT
\* it neither accepts nor refuses is over, and its key stays.
Misread ==
  /\ Working("start") /\ connected /\ astray
  /\ \/ \E a \in {"OK", "ERROR", "ALREADY_EXISTS", "NOT_FOUND"} :
          (io.req.method = "PUT" => a # "OK") /\ Ends(a) /\ UNCHANGED stuck
     \/ io' = [io EXCEPT !.pc = "hung"] /\ UNCHANGED stuck
     \/ io.req.method = "PUT" /\ io' = [io EXCEPT !.pc = "send"] /\ UNCHANGED stuck
     \/ io.req.method = "PUT" /\ io' = Idle /\ stuck' = stuck \cup {OpKey(io.req)}
  /\ UNCHANGED <<disk, gone, server, known, pending, queue, connected, jammed, astray>>

\* send_file_chunked opens the file to append to it, which creates it if need
\* be, and sends as many bytes as the header promised.
Opened(f) == disk' = IF disk[f] = None
                     THEN [disk EXCEPT ![f] = [data |-> Empty, time |-> clock]] ELSE disk

\* What arrives is what was promised, if the file is still the same; it may be so
\* in any case, when the file only grew, or from what the buffer held.
Send ==
  /\ Working("send") /\ ~jammed /\ link /\ ~Overlapped(io.req.file)
  /\ LET f == io.req.file
         h == io.req.hash
     IN \E whole \in BOOLEAN :
          /\ h = Empty \/ (disk[f] # None /\ disk[f].data = h) => whole
          /\ Opened(f)
          /\ file' = [file EXCEPT ![f] = IF whole THEN h ELSE None]
          /\ entry' = [entry EXCEPT ![f] = IF whole THEN h ELSE None]
          /\ \/ Ends(IF whole THEN "OK" ELSE "MISMATCH")
             \/ h = Empty /\ io' = [io EXCEPT !.pc = "hung"]
  /\ UNCHANGED <<gone, link, behind, shared, connected, jammed, astray>>

\* The server cannot write what it received: it neither records it nor answers.
SendUnsaved ==
  /\ Failing("send") /\ ~jammed /\ link /\ ~Overlapped(io.req.file)
  /\ io.req.hash # Empty
  /\ Opened(io.req.file)
  /\ \E c \in Content : file' = [file EXCEPT ![io.req.file] = c]
  /\ io' = [io EXCEPT !.pc = "hung"]
  /\ UNCHANGED <<gone, entry, link, behind, shared, connected, jammed, astray>>

\* Beside another session, or taken for accepted: any second answer, or none.
SendOverlapped ==
  /\ Working("send") /\ ~jammed /\ link /\ Overlapped(io.req.file)
  /\ Opened(io.req.file)
  /\ \/ \E a \in {"OK", "MISMATCH", "ERROR", "ALREADY_EXISTS", "NOT_FOUND"} :
          (a \in {"ALREADY_EXISTS", "NOT_FOUND"} => astray) /\ Ends(a)
     \/ io' = [io EXCEPT !.pc = "hung"]
  /\ UNCHANGED <<gone, server, shared, connected, jammed, astray>>

\* The connection breaks before the server has all: the socket may still have
\* taken every byte, else the exception leaves _file open.
SendBreaks ==
  /\ Working("send") /\ ~jammed /\ ~link
  /\ Opened(io.req.file)
  /\ \/ Ends("none") /\ UNCHANGED <<pending, queue, stuck, link, behind, connected, jammed, astray>>
     \/ /\ io.req.hash # Empty
        /\ Over /\ Disconnected /\ jammed' = TRUE
  /\ UNCHANGED <<gone, file, entry, known>>

\* The file does not open: the PUT is given up with the connection.
Unopened == /\ Over /\ Disconnected
            /\ UNCHANGED <<disk, gone, file, entry, known, jammed>>

\* fstream::open fails on a stream that is open, and for the file system's own reasons.
SendJammed == Working("send") /\ jammed /\ Unopened
SendUnopened == Failing("send") /\ ~jammed /\ Unopened

\* shared_map::set inserts: a key that is there keeps its value.
Remember(f, n) == [known EXCEPT ![f] = IF @ = None THEN n ELSE @]
ThisNode == [key |-> io.req.key, hash |-> io.req.hash]

\* handle_errors: what an error tells of the server's files.
Handled(a) == CASE a = "ALREADY_EXISTS" -> Remember(io.req.file, ThisNode)
                [] a = "NOT_FOUND"      -> [known EXCEPT ![io.req.file] = None]
                [] OTHER                -> known

Answering == /\ Working("answer") /\ io.ans # "none"
             /\ UNCHANGED <<gone, server, connected, jammed, astray>>

PutAnswered ==
  /\ Answering /\ io.req.method = "PUT"
  /\ known' = IF io.ans = "OK" THEN Remember(io.req.file, ThisNode) ELSE Handled(io.ans)
  /\ Over
  /\ UNCHANGED disk

DeleteAnswered ==
  /\ Answering /\ io.req.method = "DELETE"
  /\ known' = IF io.ans = "OK" THEN [known EXCEPT ![io.req.file] = None] ELSE known
  /\ Over
  /\ UNCHANGED disk

GetFailed ==
  /\ Answering /\ io.req.method = "GET" /\ io.ans # "OK"
  /\ known' = Handled(io.ans)
  /\ Over
  /\ UNCHANGED disk

\* read_and_save_file creates the file or truncates the one that is there.
GetAnswered ==
  /\ Answering /\ io.req.method = "GET" /\ io.ans = "OK"
  /\ disk' = [disk EXCEPT ![io.req.file] = [data |-> Empty, time |-> clock]]
  /\ io' = [io EXCEPT !.pc = "fetch"]
  /\ UNCHANGED shared

\* It cannot open the file.  What the session sends of it stays in the stream, unless it
\* is empty or came with the header, and is read for the answers to later requests.
GetUnopened ==
  /\ Failing("answer") /\ io.req.method = "GET" /\ io.ans = "OK"
  /\ Over
  /\ astray' \in {astray, TRUE}
  /\ UNCHANGED <<disk, gone, server, known, connected, jammed>>

\* The rest of the file.  If the connection breaks first the loop never ends.
Fetch ==
  /\ Working("fetch") /\ link
  /\ LET f == io.req.file IN
     \E got \in IF disk[f] = None THEN {Empty}
               ELSE IF Overlapped(f) THEN Content ELSE {file[f]} :
        /\ disk' = IF disk[f] = None THEN disk
                   ELSE [disk EXCEPT ![f] = [data |-> got, time |-> clock]]
        /\ known' = Remember(f, [key |-> io.req.key, hash |-> got])
  /\ Over
  /\ UNCHANGED <<gone, server, connected, jammed, astray>>

\* What was received cannot be written.
FetchUnsaved ==
  /\ Failing("fetch") /\ link
  /\ LET f == io.req.file IN
     \E got \in Content : disk' = IF disk[f] = None THEN disk
                               ELSE [disk EXCEPT ![f] = [data |-> got, time |-> clock]]
  /\ Over
  /\ UNCHANGED <<gone, server, known, connected, jammed, astray>>

\* The list as it is, but for the paths where it may be any.
Listings == {l \in [Path -> {None} \cup Content] : \A f \in Path : Overlapped(f) \/ l[f] = entry[f]}

\* Mutant of SnapshotAnswered: paths that are not in the list are taken for listed.
SnapshotUnfiltered ==
  /\ Answering /\ io.req.method = "SNAPSHOT"
  /\ known' = [f \in Path |-> IF known[f] = None
                              THEN [key |-> "abs", hash |-> entry[f]] ELSE known[f]]
  /\ Over
  /\ UNCHANGED disk

\* An error, and an exception where the connection breaks within the list, are only logged.
SnapshotAnswered ==
  /\ Answering /\ io.req.method = "SNAPSHOT"
  /\ \/ (io.ans # "OK" \/ ~link) /\ UNCHANGED known
     \/ io.ans = "OK" /\ \E l \in Listings :
          known' = [f \in Path |-> IF known[f] = None /\ l[f] # None
                                   THEN [key |-> "abs", hash |-> l[f]] ELSE known[f]]
  /\ Over
  /\ UNCHANGED disk

-----------------------------------------------------------------------------
\* The client starts; the server has some of the files, as they are or, when
\* the folder was edited meanwhile, as they were.
Init ==
  /\ disk \in [Path -> {None} \cup [data : Content, time : {0}]]
  /\ file \in [Path -> {None} \cup Content] /\ entry = file
  /\ ~Offline => \A f \in Path : disk[f] # None /\ file[f] # None => disk[f].data = file[f]
  /\ clock = 0 /\ edits = 0 /\ faults = 0 /\ gone = {}
  /\ alive = TRUE /\ connected = TRUE /\ link = TRUE /\ jammed = FALSE
  /\ behind = {} /\ astray = FALSE
  /\ index = Indexed /\ scan = Asleep /\ io = Idle /\ main = "check"
  /\ known = [f \in Path |-> None] /\ pending = {} /\ queue = <<>> /\ stuck = {}

World == \/ \E f \in Path : Erase(f) \/ (\E c \in Content : Write(f, c)) \/ Ended(f)
         \/ Tick \/ Drop \/ Quit \/ Start
Watch == \/ BeginScan \/ EndErased \/ Created \/ Compared \/ ScanThrows \/ EndFiles \/ EndScan
         \/ \E f \in Path : CheckErased(f) \/ Visit(f) \/ CheckMissing(f)
Refresh == SnapshotPut \/ SnapshotSet \/ SnapshotWake
Serve == \/ Take \/ Reconnect \/ ReconnectThrows \/ Broken
         \/ AskPut \/ AskDelete \/ AskGet \/ AskSnapshot \/ AskRefused
         \/ AskOverlapped \/ Misread
         \/ Send \/ SendUnsaved \/ SendOverlapped \/ SendBreaks \/ SendJammed \/ SendUnopened
         \/ PutAnswered \/ DeleteAnswered \/ GetFailed \/ GetAnswered \/ GetUnopened
         \/ Fetch \/ FetchUnsaved \/ SnapshotAnswered
Next == World \/ Watch \/ Refresh \/ Serve

Spec == Init /\ [][Next]_vars

\* The system schedules every thread, a client that keeps trying to connect reaches
\* the server some time, and a session left behind does not work for ever.
FairSpec == /\ Spec
            /\ WF_vars(Watch) /\ WF_vars(Refresh) /\ WF_vars(Serve)
            /\ SF_vars(Reconnect /\ connected') /\ \A f \in Path : SF_vars(Ended(f))

-----------------------------------------------------------------------------
(* Properties *)

ScanPC == {"sleep", "erased", "files", "examine", "missing"}
IoPC == {"idle", "start", "send", "answer", "fetch", "hung"}

\* Types of the variables.
TypeOK ==
  /\ disk \in [Path -> {None} \cup [data : Content, time : 0..MaxTime]]
  /\ clock \in 0..MaxTime /\ edits \in 0..MaxEdits /\ faults \in 0..MaxFaults
  /\ gone \subseteq Path
  /\ file \in [Path -> {None} \cup Content] /\ entry \in [Path -> {None} \cup Content]
  /\ link \in BOOLEAN /\ alive \in BOOLEAN /\ connected \in BOOLEAN /\ jammed \in BOOLEAN
  /\ behind \subseteq Path /\ astray \in BOOLEAN
  /\ index \in [Path -> {None} \cup Dated]
  /\ scan \in [pc : ScanPC, todo : SUBSET Path, copy : [Path -> {None} \cup Node],
               deleted : SUBSET Path, file : Path \cup {None}, time : 0..MaxTime,
               wasPending : BOOLEAN]
  /\ known \in [Path -> {None} \cup Node]
  /\ pending \subseteq Spelling \X (Path \cup {None})
  /\ queue \in Seq(Request) /\ stuck \subseteq Spelling \X Path
  /\ main \in {"check", "set", "sleep"}
  /\ io \in [pc : IoPC, req : Request,
             ans : {"none", "OK", "ERROR", "ALREADY_EXISTS", "MISMATCH", "NOT_FOUND"}]

\* The throttle of main.cpp:131-206: of the operations on a file under one key
\* at most one is queued or in hand, and its key is pending as long as it is.  No
\* key stays pending without one, but that of a PUT whose answer was neither OK nor
\* ERROR (client.cpp:100-115), for which no other operation is queued ever after.
OneJob ==
  /\ \A i, j \in 1..Len(queue) : OpKey(queue[i]) = OpKey(queue[j]) => i = j
  /\ io.pc # "idle" => \A i \in 1..Len(queue) : OpKey(queue[i]) # OpKey(io.req)
  /\ \A f \in Path, k \in Spelling :
       <<k, f>> \in pending <=> <<k, f>> \in stuck \/ \E r \in Jobs : OpKey(r) = <<k, f>>
  /\ \A r \in Jobs : OpKey(r) \notin stuck

\* A client that finds nothing to do is right: when every file is settled and no
\* operation is queued or in hand, the server has the folder.
Quiet == /\ alive /\ \A r \in Jobs : r.method = "SNAPSHOT"
         /\ \A f \in Path : Settled(f)
RestIsBackedUp ==
  Quiet => \A f \in Path : file[f] = entry[f] /\ file[f] = IF disk[f] = None THEN None ELSE disk[f].data

\* Whatever the user does to the folder, the client comes to rest again, unless
\* it died or waits for an answer it has thrown away.
ComesToRest == []<>(Quiet \/ ~alive \/ io.pc = "hung")

\* A file the user erased does not come back by itself.
StaysErased == \A f \in gone : disk[f] = None

\* "If there is no equal request in the queue already" (main.cpp:132, :164, :195):
\* the file a scan finds erased, or the content it finds in place of another, is
\* that of a request queued or in hand, this one or an equal one.
EqualIsQueued ==
  [][\A f \in Path :
       /\ f \in scan'.deleted \ scan.deleted =>
            \E r \in Jobs' : r.method = "DELETE" /\ r.file = f
       /\ index[f] # None /\ index'[f] # None /\ index'[f].hash # index[f].hash =>
            \E r \in Jobs' : r.method = "PUT" /\ r.file = f /\ r.hash = index'[f].hash]_vars

\* The key of SNAPSHOT is pending only as long as there is one.
SnapshotKeyReleased ==
  OpKey(SnapshotReq) \in pending => \E r \in Jobs : r.method = "SNAPSHOT"


=============================================================================
