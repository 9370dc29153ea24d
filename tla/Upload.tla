-------------------------------- MODULE Upload --------------------------------
(***************************************************************************)
(* Turning one file of the origin folder into a stub (internal/dstore,     *)
(* processFile and what it calls): read, encrypt and split chunk after     *)
(* chunk, push each shard to its peer and verify it, keep a local copy,    *)
(* look at the source again, publish the stub, remove the original.        *)
(*                                                                         *)
(* Several processes may work on the same path (the watcher of the agent   *)
(* and `dstore process`), while the user edits, replaces, creates and      *)
(* deletes the file, and while peers come and go.                          *)
(*                                                                         *)
(* A version is one state of the file as Lstat and read(2) show it: its    *)
(* bytes, size and modification time; every change by the user makes a new *)
(* one.  Files are whole chunks long.  An attempt draws a fresh key, so    *)
(* its shards are nobody else's: a shard is named by the process whose     *)
(* attempt it is, its chunk and its index, and what a failed attempt has   *)
(* stored is junk from then on, which nothing in the code removes.  The    *)
(* directories that store the shards, of peers and the local one, are      *)
(* "places": sets of shards, as ShardRegistry promises.                    *)
(*                                                                         *)
(* Faults the environment may inject, each only if named in Faults:        *)
(*   "io"      a system call fails, or the context is cancelled            *)
(*   "lost"    a peer stores a shard but its answer is lost                *)
(*   "kill"    a process dies                                              *)
(*   "late"    the user changes the file between the last look at it       *)
(*             (dstore.go:293) and its removal (dstore.go:307)             *)
(***************************************************************************)
EXTENDS Naturals, Sequences, FiniteSets

CONSTANTS Procs,         \* processes that may process the path
          Peers,         \* failure domains that store shards
          Local,         \* the local shard directory
          Data,          \* shards that suffice to decode a chunk
          Total,         \* shards per chunk
          MinPeers,      \* distinct ready peers required
          Probed,        \* peers are asked for their capacity first
          Capacity,      \* Capacity[p]: shards p has room for; 0: unlimited
          KeepOriginal,  \* the original is kept (dstore add)
          Length,        \* Length[v]: chunks of version v
          MaxFileLength, \* processFile's limit
          MaxVersion,    \* bound: changes the user makes
          Faults

Places == Peers \cup {Local}
Versions == 1..MaxVersion

ASSUME UploadAssumption ==
    /\ IsFiniteSet(Peers)
    /\ Local \notin Peers
    /\ Total \in Nat \ {0}
    /\ Data \in 1..Total
    /\ MinPeers \in Nat \ {0}
    /\ Probed \in BOOLEAN
    /\ KeepOriginal \in BOOLEAN
    /\ Capacity \in [Places -> Nat]
    /\ MaxVersion \in Nat
    /\ Length \in [Versions -> Nat \ {0}]
    /\ MaxFileLength \in Nat
    /\ Faults \subseteq {"io", "lost", "kill", "late"}

VARIABLES
    path,     \* the inode the path names, 0 if there is no file
    data,     \* data[i]: the version inode i holds, 0 if it holds none yet
    clock,    \* the latest version
    stub,     \* what the stub says, NoStub if there is none
    held,     \* held[p]: shards of live attempts and of the stub in place p
    junk,     \* junk[p]: shards of dead attempts in place p
    up,       \* the peers that answer
    pc,       \* pc[q]: where the attempt of process q is
    job,      \* job[q]: its local variables
    erased    \* history: versions the program removed from the folder

user == <<path, data, clock>>
vars == <<path, data, clock, stub, held, junk, up, pc, job, erased>>

NoStub == [owner |-> "none"]
NoJob == [ino |-> 0, ver |-> 0, reads |-> <<>>, idx |-> 1, place |-> <<>>]

Shards == Procs \X (1..MaxFileLength) \X (1..Total)

(* Between the last look at the source and its removal.                    *)
Committing == {"publish", "remove"}

Steps == {"idle", "stat", "open", "place", "read", "push", "verify", "keep",
          "check"} \cup Committing

Jobs == [ino : 0..MaxVersion, ver : 0..MaxVersion, reads : Seq(Versions),
         idx : 1..Total, place : {<<>>} \cup [1..Total -> Peers]]

(* All but the counts of junk.                                             *)
Types ==
    /\ path \in 0..MaxVersion
    /\ data \in [Versions -> 0..MaxVersion]
    /\ clock \in 0..MaxVersion
    /\ \/ stub = NoStub
       \/ stub \in [owner : Procs, reads : Seq(Versions),
                    place : [1..Total -> Peers]]
    /\ held \in [Places -> SUBSET Shards]
    /\ up \subseteq Peers
    /\ pc \in [Procs -> Steps]
    /\ job \in [Procs -> Jobs]
    /\ erased \subseteq Versions

TypeOK == Types /\ junk \in [Places -> Nat]

Init ==
    /\ path = 0
    /\ data = [i \in Versions |-> 0]
    /\ clock = 0
    /\ stub = NoStub
    /\ held = [p \in Places |-> {}]
    /\ junk = [p \in Places |-> 0]
    /\ up = Peers
    /\ pc = [q \in Procs |-> "idle"]
    /\ job = [q \in Procs |-> NoJob]
    /\ erased = {}

-----------------------------------------------------------------------------
(* Helpers.                                                                *)

GoTo(q, step) == pc' = [pc EXCEPT ![q] = step]

Chunk(q) == Len(job[q].reads)
Shard(q) == <<q, Chunk(q), job[q].idx>>
Target(q) == job[q].place[job[q].idx]

HasRoom(p) == Capacity[p] = 0 \/ Cardinality(held[p]) + junk[p] < Capacity[p]

Own(q) == {q} \X (1..MaxFileLength) \X (1..Total)

(* The attempt is over and its key forgotten: what it stored stays.        *)
(* An unlimited place need not count its junk.                             *)
Abandon(q) ==
    /\ held' = [p \in Places |-> held[p] \ Own(q)]
    /\ junk' = [p \in Places |-> IF Capacity[p] = 0 THEN 0
                                 ELSE junk[p] + Cardinality(held[p] \cap Own(q))]
    /\ GoTo(q, "idle")
    /\ job' = [job EXCEPT ![q] = NoJob]

Fail(q) == Abandon(q) /\ UNCHANGED <<user, stub, up, erased>>

-----------------------------------------------------------------------------
(* The attempt.                                                            *)

(* ProcessDirectory or processFile finds no stub.                          *)
Begin(q) ==
    /\ pc[q] = "idle"
    /\ path # 0
    /\ stub = NoStub
    /\ GoTo(q, "stat")
    /\ UNCHANGED <<user, stub, held, junk, up, job, erased>>

(* Lstat, and the limit on the size it reports.                            *)
Stat(q) ==
    /\ pc[q] = "stat"
    /\ IF path # 0 /\ Length[data[path]] <= MaxFileLength
       THEN /\ job' = [job EXCEPT ![q] = [NoJob EXCEPT !.ino = path, !.ver = data[path]]]
            /\ GoTo(q, "open")
            /\ UNCHANGED <<user, stub, held, junk, up, erased>>
       ELSE Fail(q)

(* os.Open, and SameFile: the descriptor is that of the inode seen before. *)
Open(q) ==
    /\ pc[q] = "open"
    /\ IF path = job[q].ino
       THEN /\ GoTo(q, "place")
            /\ UNCHANGED <<user, stub, held, junk, up, job, erased>>
       ELSE Fail(q)

(* shardPeers: when peers are probed, those that answer and have room for  *)
(* a shard now; else the configured ones, unseen.                          *)
Eligible == IF Probed THEN {p \in up : HasRoom(p)} ELSE Peers

Orders(S) == {o \in [1..Cardinality(S) -> S] :
                  \A i, j \in 1..Cardinality(S) : i # j => o[i] # o[j]}

(* Mutant: one ready peer is enough.                                       *)
AnyPeer(S) == S # {}
(* Mutant: one peer more than required is asked for.                       *)
OneMore(S) == Cardinality(S) > MinPeers
Enough(S) == Cardinality(S) >= MinPeers

Place(q) ==
    /\ pc[q] = "place"
    /\ IF Enough(Eligible)
       THEN /\ \E o \in Orders(Eligible) :
                  job' = [job EXCEPT ![q].place =
                     [i \in 1..Total |-> o[1 + ((i - 1) % Cardinality(Eligible))]]]
            /\ GoTo(q, "read")
            /\ UNCHANGED <<user, stub, held, junk, up, erased>>
       ELSE Fail(q)

(* Mutant: the shard index is not reset.                                   *)
IndexKept(q, ver) == [job[q] EXCEPT !.reads = Append(@, ver)]
(* Mutant: the shard index starts at 0.                                    *)
ZeroBased(q, ver) == [job[q] EXCEPT !.reads = Append(@, ver), !.idx = 0]

(* The next chunk, of what the inode holds now; a file that has grown past *)
(* the limit is refused, an end of file ends the loop.                     *)
NextChunk(q, ver) == [job[q] EXCEPT !.reads = Append(@, ver), !.idx = 1]

Read(q) ==
    LET now == data[job[q].ino] IN
    /\ pc[q] = "read"
    /\ \/ /\ Chunk(q) < Length[now]
          /\ Chunk(q) < MaxFileLength
          /\ job' = [job EXCEPT ![q] = NextChunk(q, now)]
          /\ GoTo(q, "push")
          /\ UNCHANGED <<user, stub, held, junk, up, erased>>
       \/ /\ Chunk(q) < Length[now]
          /\ Chunk(q) = MaxFileLength
          /\ Fail(q)
       \/ /\ Chunk(q) >= Length[now]
          /\ GoTo(q, "check")
          /\ UNCHANGED <<user, stub, held, junk, up, job, erased>>

(* pushShard, the PUT: stored, or refused for want of an answer or of      *)
(* room; or stored and the answer lost.                                    *)
Accepted(q) == Target(q) \in up /\ HasRoom(Target(q))

Push(q) ==
    /\ pc[q] = "push"
    /\ IF Accepted(q)
       THEN /\ held' = [held EXCEPT ![Target(q)] = @ \cup {Shard(q)}]
            /\ GoTo(q, "verify")
            /\ UNCHANGED <<user, stub, junk, up, job, erased>>
       ELSE Fail(q)

PushAnswerLost(q) ==
    /\ "lost" \in Faults
    /\ pc[q] = "push"
    /\ Accepted(q)
    /\ junk' = [p \in Places |->
                  IF Capacity[p] = 0 THEN 0
                  ELSE junk[p] + Cardinality(held[p] \cap Own(q))
                               + (IF p = Target(q) THEN 1 ELSE 0)]
    /\ held' = [p \in Places |-> held[p] \ Own(q)]
    /\ GoTo(q, "idle")
    /\ job' = [job EXCEPT ![q] = NoJob]
    /\ UNCHANGED <<user, stub, up, erased>>

(* pushShard, the GET that follows.                                        *)
Verify(q) ==
    /\ pc[q] = "verify"
    /\ IF Target(q) \in up /\ Shard(q) \in held[Target(q)]
       THEN /\ GoTo(q, "keep")
            /\ UNCHANGED <<user, stub, held, junk, up, job, erased>>
       ELSE Fail(q)

(* store.Put: the local copy, subject to the local quota.  The next shard  *)
(* follows, or the next chunk.                                             *)
Keep(q) ==
    /\ pc[q] = "keep"
    /\ IF HasRoom(Local)
       THEN /\ held' = [held EXCEPT ![Local] = @ \cup {Shard(q)}]
            /\ IF job[q].idx < Total
               THEN job' = [job EXCEPT ![q].idx = @ + 1] /\ GoTo(q, "push")
               ELSE GoTo(q, "read") /\ UNCHANGED job
            /\ UNCHANGED <<user, stub, junk, up, erased>>
       ELSE Fail(q)

(* Mutant: the second look compares sizes only.                            *)
SameSize(q) == /\ path # 0
               /\ Length[data[path]] = Length[job[q].ver]
               /\ Chunk(q) = Length[job[q].ver]

(* The second Lstat: same file, same size, same time, and as much read.    *)
Unchanged(q) == /\ path = job[q].ino
                /\ path # 0
                /\ data[path] = job[q].ver
                /\ Chunk(q) = Length[job[q].ver]

Check(q) ==
    /\ pc[q] = "check"
    /\ IF Unchanged(q)
       THEN /\ GoTo(q, "publish")
            /\ UNCHANGED <<user, stub, held, junk, up, job, erased>>
       ELSE Fail(q)

(* Mutant: an existing stub is replaced.                                   *)
Replaces(q) == TRUE

(* atomicfile.WriteNew: link(2) fails if there is a stub by now.           *)
StubAbsent(q) == stub = NoStub

Content(q) == [owner |-> q, reads |-> job[q].reads, place |-> job[q].place]

Publish(q) ==
    /\ pc[q] = "publish"
    /\ IF StubAbsent(q)
       THEN /\ stub' = Content(q)
            /\ IF KeepOriginal
               THEN GoTo(q, "idle") /\ job' = [job EXCEPT ![q] = NoJob]
               ELSE GoTo(q, "remove") /\ UNCHANGED job
            /\ UNCHANGED <<user, held, junk, up, erased>>
       ELSE Fail(q)

(* The link succeeds but the directory sync does not: an error, and a stub. *)
PublishUnsynced(q) ==
    /\ "io" \in Faults
    /\ pc[q] = "publish"
    /\ StubAbsent(q)
    /\ stub' = Content(q)
    /\ GoTo(q, "idle")
    /\ job' = [job EXCEPT ![q] = NoJob]
    /\ UNCHANGED <<user, held, junk, up, erased>>

(* os.Remove(path), whatever the path names now.                           *)
Remove(q) ==
    /\ pc[q] = "remove"
    /\ path' = 0
    /\ erased' = IF path = 0 THEN erased ELSE erased \cup {data[path]}
    /\ GoTo(q, "idle")
    /\ job' = [job EXCEPT ![q] = NoJob]
    /\ UNCHANGED <<data, clock, stub, held, junk, up>>

RemoveFails(q) ==
    /\ "io" \in Faults
    /\ pc[q] = "remove"
    /\ GoTo(q, "idle")
    /\ job' = [job EXCEPT ![q] = NoJob]
    /\ UNCHANGED <<user, stub, held, junk, up, erased>>

(* A system call fails, or the context is cancelled, before the stub is    *)
(* published.                                                              *)
StepFails(q) ==
    /\ "io" \in Faults
    /\ pc[q] \notin {"idle", "remove"}
    /\ Fail(q)

(* The process dies; the stub, once published, keeps its shards.           *)
Kill(q) ==
    /\ "kill" \in Faults
    /\ pc[q] # "idle"
    /\ IF pc[q] = "remove"
       THEN /\ GoTo(q, "idle")
            /\ job' = [job EXCEPT ![q] = NoJob]
            /\ UNCHANGED <<user, stub, held, junk, up, erased>>
       ELSE Fail(q)

-----------------------------------------------------------------------------
(* The user and the peers.                                                 *)

Quiet == "late" \in Faults \/ \A q \in Procs : pc[q] \notin Committing

(* Write a new file under the path (also in place of the old one), or      *)
(* write into the file that is there, or delete it.                        *)
Replace == /\ clock < MaxVersion
           /\ Quiet
           /\ clock' = clock + 1
           /\ path' = clock + 1
           /\ data' = [data EXCEPT ![clock + 1] = clock + 1]
           /\ UNCHANGED <<stub, held, junk, up, pc, job, erased>>

Edit == /\ clock < MaxVersion
        /\ path # 0
        /\ Quiet
        /\ clock' = clock + 1
        /\ data' = [data EXCEPT ![path] = clock + 1]
        /\ UNCHANGED <<path, stub, held, junk, up, pc, job, erased>>

Delete == /\ path # 0
          /\ Quiet
          /\ path' = 0
          /\ UNCHANGED <<data, clock, stub, held, junk, up, pc, job, erased>>

PeerDown(p) == /\ p \in up
               /\ up' = up \ {p}
               /\ UNCHANGED <<user, stub, held, junk, pc, job, erased>>

PeerUp(p) == /\ p \notin up
             /\ up' = up \cup {p}
             /\ UNCHANGED <<user, stub, held, junk, pc, job, erased>>

-----------------------------------------------------------------------------
Progress(q) == \/ Begin(q) \/ Stat(q) \/ Open(q) \/ Place(q) \/ Read(q)
               \/ Push(q) \/ Verify(q) \/ Keep(q) \/ Check(q)
               \/ Publish(q) \/ Remove(q)

Mishap(q) == \/ PushAnswerLost(q) \/ PublishUnsynced(q) \/ RemoveFails(q)
             \/ StepFails(q) \/ Kill(q)

User == Replace \/ Edit \/ Delete

Network == \E p \in Peers : PeerDown(p) \/ PeerUp(p)

Next == \/ \E q \in Procs : Progress(q) \/ Mishap(q)
        \/ User
        \/ Network

Spec == Init /\ [][Next]_vars

(* The watcher scans again and again and an attempt never hangs: every     *)
(* request has a timeout.                                                  *)
FairSpec == Spec /\ \A q \in Procs : WF_vars(Progress(q))

-----------------------------------------------------------------------------
(* Properties.                                                             *)

(* A stub is published only when every shard it refers to is stored, at    *)
(* the peer it names and locally, and is not touched by attempts that      *)
(* fail, or by other processes, before or after (phone-ingest-design.md:62 *)
(* "does not silently claim the file is backed up").                       *)
StubIsStored == stub # NoStub =>
    \A k \in 1..Len(stub.reads), i \in 1..Total :
        LET s == <<stub.owner, k, i>>
        IN s \in held[stub.place[i]] /\ s \in held[Local]

(* The chunks behind a stub were read one after the other while the user   *)
(* wrote; together they are one state the file really had, all of it.      *)
StubIsOneVersion == stub # NoStub =>
    \E v \in Versions : /\ Len(stub.reads) = Length[v]
                        /\ \A k \in 1..Len(stub.reads) : stub.reads[k] = v

(* Two processes on one path publish one stub: it never changes.           *)
StubIsFinal == [][stub # NoStub => stub' = stub]_vars

(* The program removes no version of the file but the one in the stub      *)
(* (dstore.go:298, "source changed during upload; original retained").     *)
(* Holds while the user stays away between the last look and the removal;  *)
(* the code does not ensure it otherwise.                                  *)
ErasedIsPublished == \A v \in erased :
    stub # NoStub /\ \A k \in 1..Len(stub.reads) : stub.reads[k] = v

(* Any Total - Data peers may go away and every chunk still has enough     *)
(* shards at the others (AGENT.md:23, README.md:89).  Holds when placement *)
(* demands as many peers as shards; the code does not always.              *)
SurvivesLosses == stub # NoStub =>
    \A gone \in SUBSET Peers : Cardinality(gone) <= Total - Data =>
        Cardinality({i \in 1..Total : stub.place[i] \notin gone}) >= Data

(* The loss of this many peers is promised to do no harm.                  *)
Tolerated == IF MinPeers >= Total THEN Total - Data ELSE 0

(* The stub is for version v, all of it, and however the tolerated losses  *)
(* fall, the peers that are left store enough shards of each of its chunks *)
(* without the local copies.                                               *)
Restorable(v) ==
    /\ stub # NoStub
    /\ Len(stub.reads) = Length[v]
    /\ \A k \in 1..Length[v] :
          /\ stub.reads[k] = v
          /\ \A gone \in SUBSET Peers : Cardinality(gone) <= Tolerated =>
                Data <= Cardinality({i \in 1..Total :
                           /\ stub.place[i] \notin gone
                           /\ <<stub.owner, k, i>> \in held[stub.place[i]]})

(* All of it together is a backup of the path: whatever fails in whichever *)
(* process, what can be restored is once and for all a version the file    *)
(* had at that moment, and the program takes no other one from the folder  *)
(* (README.md:5, dstore.go:298).  As with ErasedIsPublished, while the     *)
(* user stays away between the last look and the removal.                  *)
File == IF path = 0 THEN 0 ELSE data[path]
Copy == IF \E v \in Versions : Restorable(v)
        THEN CHOOSE v \in Versions : Restorable(v) ELSE 0
Promise == INSTANCE Backup WITH file <- File, copy <- Copy
ImplementsBackup == Promise!Spec

(* Once the peers stay reachable, retries succeed, whatever happened to    *)
(* earlier attempts (sharing_test.go:136, "watcher did not retry").        *)
RetrySucceeds ==
    <>[](up = Peers) => (path # 0 ~> (stub # NoStub \/ path = 0))
=============================================================================
