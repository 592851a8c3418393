--------------------------- MODULE BackupClientInv ---------------------------
(***************************************************************************)
(* The inductive invariants of the client: the one behind OneJob, which    *)
(* requests there can be and what the threads rely on between their steps; *)
(* the one behind StaysErased, and the one behind RestIsBackedUp.          *)
(***************************************************************************)
EXTENDS BackupClient

SnapshotKey == OpKey(SnapshotReq)
FileKey == Spelling \X Path

\* A request is the one for the list, or is about a file and has its hash.
Sensible(r) == \/ r = SnapshotReq
               \/ r.method # "SNAPSHOT" /\ r.file \in Path /\ r.hash \in Content
Requests == /\ \A i \in 1..Len(queue) : Sensible(queue[i])
            /\ Sensible(io.req)

\* A request with key k is queued, or in hand.
Queued(k) == \E i \in 1..Len(queue) : OpKey(queue[i]) = k
InHand(k) == io.pc # "idle" /\ OpKey(io.req) = k

\* The keys of files are pending exactly while there is a request or when they are stuck;
\* that of SNAPSHOT may be set too late, when the request is over, and then nothing
\* removes it.
Throttled ==
  /\ \A i, j \in 1..Len(queue) : OpKey(queue[i]) = OpKey(queue[j]) => i = j
  /\ \A i \in 1..Len(queue) : ~InHand(OpKey(queue[i]))
  /\ \A k \in FileKey : k \in pending <=> Queued(k) \/ InHand(k) \/ k \in stuck
  /\ \A k \in stuck : ~Queued(k) /\ ~InHand(k)
  /\ Queued(SnapshotKey) \/ InHand(SnapshotKey) => main = "set" \/ SnapshotKey \in pending

\* What the watcher has still to look at is there to be looked at.
Scanned ==
  /\ scan.pc = "erased" => \A f \in scan.todo : index[f] # None
  /\ scan.pc = "examine" => scan.file \in Path
  /\ scan.pc = "missing" => \A f \in scan.todo : scan.copy[f] # None

\* What is in hand at each place of the io thread, and what is served of it.
Carried ==
  /\ io.pc = "send" => io.req.method = "PUT"
  /\ io.pc = "hung" => io.req.method = "PUT" \/ astray
  /\ io.pc = "fetch" => io.req.method = "GET"
  /\ io.pc = "answer" /\ io.req.method = "PUT" /\ io.ans = "NOT_FOUND" => astray
  /\ io.pc = "fetch" \/ (io.pc = "answer" /\ io.req.method = "GET" /\ io.ans = "OK") =>
       file[io.req.file] # None \/ Overlapped(io.req.file)

ClientInv == TypeOK /\ Requests /\ Throttled /\ Scanned /\ Carried

-----------------------------------------------------------------------------
(* What is left of a file the user erased: until a scan sees it nothing is *)
(* asked of the file, and then it is deleted before it can be fetched.     *)

\* The server no longer lists f, or is about to be told.
Removing(f) == \/ entry[f] = None
               \/ io.pc = "start" /\ io.req.method = "DELETE" /\ io.req.file = f

\* A DELETE of f is queued before place n.
DeletedBefore(f, n) ==
  \E i \in 1..Len(queue) : i < n /\ queue[i].method = "DELETE" /\ queue[i].file = f

\* What may be queued of f, and what may be in hand.
QueuedOf(f) ==
  \A i \in 1..Len(queue) : queue[i].file = f =>
    /\ index[f] = None
    /\ \/ queue[i].method = "DELETE"
       \/ queue[i].method = "GET" /\ (Removing(f) \/ DeletedBefore(f, i))
InHandOf(f) ==
  io.pc # "idle" /\ io.req.file = f =>
    /\ index[f] = None
    /\ \/ io.req.method = "DELETE"
       \/ /\ io.req.method = "GET" /\ entry[f] = None
          /\ io.pc = "start" \/ (io.pc = "answer" /\ io.ans = "NOT_FOUND")

Forgotten(f) == /\ QueuedOf(f) /\ InHandOf(f)
                /\ index[f] = None => Removing(f) \/ DeletedBefore(f, Len(queue) + 1)

\* No session is left behind, and no answer was taken for another.
Still == behind = {} /\ ~astray /\ stuck = {}

\* Nothing disturbs the connection of a client that runs.
Calm == alive => connected /\ link /\ ~jammed /\ Still

ErasedInv == faults = 0 => /\ Calm /\ StaysErased
                           /\ alive => \A f \in gone : Forgotten(f)

-----------------------------------------------------------------------------
(* A patient user and a connection that holds: what each file goes through *)
(* between two changes the user makes of it.                               *)

Asked(m, f) == \E r \in Jobs : r.method = m /\ r.file = f
Hand(f) == io.pc # "idle" /\ io.req.file = f

\* What the server has of f it lists, but while it receives it.
Recorded(f) == (io.pc = "send" /\ io.req.file = f) \/ file[f] = entry[f]

\* The file is no older than what the watcher saw of it, and nothing is of the future.
InTime(f) ==
  /\ disk[f] # None => disk[f].time <= clock
  /\ index[f] # None => index[f].time <= IF disk[f] = None THEN clock ELSE disk[f].time
  /\ scan.pc = "examine" /\ scan.file = f =>
       scan.time <= IF disk[f] = None THEN clock ELSE disk[f].time

\* The folder lacks f; the server lacks it too, or is about to be told.
Lacks(f) == disk[f] = None /\ Forgotten(f)

\* What is fetched of f is so before anything of it is uploaded.
FetchesFirst(f) ==
  \A i, j \in 1..Len(queue) :
    /\ queue[i].method = "PUT" /\ queue[i].file = f
    /\ queue[j].method = "GET" /\ queue[j].file = f
    => j < i

\* The user wrote f, or it was there from the start, and it is uploaded.  A GET may yet be
\* asked from an old list: it is in vain.
Uploads(f) ==
  /\ disk[f] # None
  /\ \A r \in Jobs : r.file = f =>
       r.method = "GET" \/ (r.method = "PUT" /\ r.hash = disk[f].data)
  /\ index[f] = None => known[f] = None /\ entry[f] = None /\ ~Asked("PUT", f)
  /\ FetchesFirst(f)
  /\ Asked("GET", f) => /\ known[f] = None /\ entry[f] = None
                        /\ ~(Hand(f) /\ io.req.method = "PUT")
  /\ Hand(f) /\ io.req.method = "GET" =>
       io.pc = "start" \/ (io.pc = "answer" /\ io.ans = "NOT_FOUND")
  /\ Hand(f) /\ io.req.method = "PUT" /\ io.pc \in {"answer", "hung"} => file[f] = disk[f].data
  /\ known[f] = None => entry[f] \in {None, disk[f].data}
  /\ /\ known[f] # None /\ index[f] # None
     /\ index[f].time = disk[f].time \/ index[f].hash = disk[f].data
     => file[f] = disk[f].data \/ Asked("PUT", f)

\* The server had f from the start and the folder had not: it is downloaded, once or twice.
Downloads(f) ==
  /\ entry[f] # None /\ file[f] = entry[f]
  /\ known[f] # None => known[f].key = "abs"
  /\ scan.copy[f] # None => scan.copy[f].key = "abs" /\ known[f] # None
  /\ index[f] # None => index[f].key = "abs" /\ disk[f] # None
  /\ disk[f] # None \/ Asked("GET", f) =>
       known[f] # None /\ (scan.pc # "sleep" => scan.copy[f] # None)
  /\ \A r \in Jobs : r.file = f =>
       r.key = "abs" /\ (r.method = "GET" \/ (r.method = "PUT" /\ r.hash = file[f]))
  /\ disk[f] # None => disk[f].data = file[f] \/ (Hand(f) /\ io.pc = "fetch")
  /\ Hand(f) /\ io.req.method = "PUT" => io.pc \in {"start", "answer"}
  /\ Hand(f) /\ io.req.method = "GET" =>
       \/ io.pc = "start"
       \/ io.pc = "answer" /\ io.ans = "OK"
       \/ io.pc = "fetch" /\ disk[f] # None

Through(f) == Lacks(f) \/ Uploads(f) \/ Downloads(f)

RestInv == faults = 0 => /\ Calm
                         /\ alive => \A f \in Path : Recorded(f) /\ InTime(f) /\ Through(f)

=============================================================================
