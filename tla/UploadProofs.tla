----------------------------- MODULE UploadProofs -----------------------------
(***************************************************************************)
(* Theorems about Upload for any number of processes and peers, any file,  *)
(* layout and capacity, and any behaviour of the user: a stub is final, is *)
(* one version of the file, and refers to shards that are all stored.  If  *)
(* the user stays away between the last look and the removal, only that    *)
(* version is removed; where as many peers as shards are required, the     *)
(* loss of Total - Data of them leaves every chunk readable; and all of it *)
(* together is the backup of the path that Backup.tla promises.            *)
(***************************************************************************)
EXTENDS Upload, FiniteSetTheorems, TLAPS

USE UploadAssumption

Before == {"read", "push", "verify", "keep", "check", "publish"}

(* The clock is ahead of every version, and a file has one.                *)
FilesOK == /\ path <= clock
           /\ path # 0 => data[path] # 0
           /\ \A i \in Versions : data[i] <= clock

(* Everything an attempt has read lies between the version it first saw    *)
(* and the one the inode holds now: versions of an inode only grow.        *)
ReadsOK(q) == pc[q] \notin {"idle", "stat"} =>
    /\ job[q].ino \in 1..clock
    /\ job[q].ver \in Versions
    /\ job[q].ver <= data[job[q].ino]
    /\ Chunk(q) <= MaxFileLength
    /\ \A k \in 1..Chunk(q) : /\ job[q].ver <= job[q].reads[k]
                              /\ job[q].reads[k] <= data[job[q].ino]

PlaceOK(q) ==
    /\ pc[q] \in {"idle", "stat"} => job[q] = NoJob
    /\ pc[q] \in Before \cup {"remove"} => job[q].place \in [1..Total -> Peers]
    /\ pc[q] \in {"push", "verify", "keep"} => Chunk(q) \in 1..MaxFileLength

Inv1 == /\ Types
        /\ FilesOK
        /\ \A q \in Procs : ReadsOK(q) /\ PlaceOK(q)

LEMMA Init1 == Init => Inv1
<1> SUFFICES ASSUME Init PROVE Inv1
  OBVIOUS
<1> USE DEF Init
<1>1. Types
  <2>1. NoJob \in Jobs
    BY DEF NoJob, Jobs
  <2> QED BY <2>1 DEF Types, Steps, Committing
<1>2. FilesOK
  BY DEF FilesOK, Versions
<1>3. \A q \in Procs : ReadsOK(q) /\ PlaceOK(q)
  BY DEF ReadsOK, PlaceOK, Before
<1> QED BY <1>1, <1>2, <1>3 DEF Inv1

(* A failed attempt disturbs nothing.                                      *)
LEMMA Abandon1 ==
    ASSUME Inv1, NEW q \in Procs, Abandon(q), UNCHANGED <<user, stub, up, erased>>
    PROVE  Inv1'
<1> USE DEF Abandon, GoTo, user
<1>1. NoJob \in Jobs
  BY DEF NoJob, Jobs
<1>2. held' \in [Places -> SUBSET Shards]
  BY DEF Inv1, Types
<1>3. Types'
  BY <1>1, <1>2 DEF Inv1, Types, Steps
<1>4. FilesOK'
  BY DEF Inv1, FilesOK
<1>5. ASSUME NEW r \in Procs PROVE ReadsOK(r)' /\ PlaceOK(r)'
  <2>1. CASE r = q
    BY <2>1 DEF Inv1, Types, ReadsOK, PlaceOK, Before
  <2>2. CASE r # q
    BY <2>2 DEF Inv1, Types, ReadsOK, PlaceOK, Chunk
  <2> QED BY <2>1, <2>2
<1> QED BY <1>3, <1>4, <1>5 DEF Inv1

(* The round-robin assignment assigns every shard to an eligible peer.     *)
LEMMA Assigned ==
    ASSUME Inv1, NEW o \in Orders(Eligible), Enough(Eligible)
    PROVE  [i \in 1..Total |-> o[1 + ((i - 1) % Cardinality(Eligible))]]
              \in [1..Total -> Peers]
<1>1. Eligible \subseteq Peers
  BY DEF Inv1, Types, Eligible
<1>2. Cardinality(Eligible) \in Nat
  BY <1>1, FS_Subset, FS_CardinalityType
<1>3. Cardinality(Eligible) >= 1
  BY <1>2 DEF Enough
<1>4. \A i \in 1..Total : 1 + ((i - 1) % Cardinality(Eligible)) \in 1..Cardinality(Eligible)
  BY <1>2, <1>3
<1>5. o \in [1..Cardinality(Eligible) -> Eligible]
  BY DEF Orders
<1> QED BY <1>1, <1>4, <1>5

(* Appending a chunk to what was read.                                     *)
LEMMA Appended ==
    ASSUME NEW s \in Seq(Versions), NEW v \in Versions
    PROVE  /\ Append(s, v) \in Seq(Versions)
           /\ Len(Append(s, v)) = Len(s) + 1
           /\ Append(s, v)[Len(s) + 1] = v
           /\ \A k \in 1..Len(s) : Append(s, v)[k] = s[k]
  OBVIOUS

(* Changing some local variables of an attempt.                            *)
LEMMA Indexed ==
    ASSUME NEW j \in Jobs, NEW i \in 1..Total
    PROVE  LET n == [j EXCEPT !.idx = i]
           IN  /\ n \in Jobs /\ n.ino = j.ino /\ n.ver = j.ver
               /\ n.reads = j.reads /\ n.place = j.place /\ n.idx = i
  BY DEF Jobs

LEMMA Extended ==
    ASSUME NEW j \in Jobs, NEW s \in Seq(Versions)
    PROVE  LET n == [j EXCEPT !.reads = s, !.idx = 1]
           IN  /\ n \in Jobs /\ n.ino = j.ino /\ n.ver = j.ver
               /\ n.reads = s /\ n.place = j.place /\ n.idx = 1
<1>1. 1 \in 1..Total
  OBVIOUS
<1> QED BY <1>1 DEF Jobs

(* A step that moves one attempt, and touches neither the file nor what    *)
(* attempts know of it.                                                    *)
LEMMA Moves1 ==
    ASSUME Inv1, NEW q \in Procs, NEW step \in Steps, GoTo(q, step),
           UNCHANGED <<user, job>>,
           stub' = NoStub \/ stub' \in [owner : Procs, reads : Seq(Versions),
                                        place : [1..Total -> Peers]],
           held' \in [Places -> SUBSET Shards],
           UNCHANGED <<up, erased>>,
           step \in {"idle", "stat"} <=> pc[q] \in {"idle", "stat"},
           step \in Before \cup {"remove"} => pc[q] \in Before \cup {"remove"},
           step \in {"push", "verify", "keep"} => pc[q] \in {"push", "verify", "keep"}
    PROVE  Inv1'
<1> USE DEF GoTo, user
<1>1. Types'
  BY DEF Inv1, Types
<1>2. FilesOK'
  BY DEF Inv1, FilesOK
<1>3. ASSUME NEW r \in Procs PROVE ReadsOK(r)' /\ PlaceOK(r)'
  BY DEF Inv1, Types, ReadsOK, PlaceOK, Chunk
<1> QED BY <1>1, <1>2, <1>3 DEF Inv1

(* A step that gives an attempt new local variables.                       *)
LEMMA Learns1 ==
    ASSUME Inv1, NEW q \in Procs, NEW step \in Steps \ {"idle", "stat"},
           GoTo(q, step), NEW j \in Jobs, job' = [job EXCEPT ![q] = j],
           j.ino \in 1..clock, j.ver \in Versions, j.ver <= data[j.ino],
           Len(j.reads) <= MaxFileLength,
           \A k \in 1..Len(j.reads) : j.ver <= j.reads[k] /\ j.reads[k] <= data[j.ino],
           step \in Before \cup {"remove"} => j.place \in [1..Total -> Peers],
           step \in {"push", "verify", "keep"} => Len(j.reads) \in 1..MaxFileLength,
           held' \in [Places -> SUBSET Shards],
           UNCHANGED <<user, stub, up, erased>>
    PROVE  Inv1'
<1> USE DEF GoTo, user
<1>1. Types'
  BY DEF Inv1, Types
<1>2. FilesOK'
  BY DEF Inv1, FilesOK
<1>3. ASSUME NEW r \in Procs PROVE ReadsOK(r)' /\ PlaceOK(r)'
  <2>1. CASE r = q
    <3>1. pc'[r] = step /\ job'[r] = j
      BY <2>1 DEF Inv1, Types
    <3> QED BY <3>1 DEF ReadsOK, PlaceOK, Chunk
  <2>2. CASE r # q
    <3>1. pc'[r] = pc[r] /\ job'[r] = job[r]
      BY <2>2 DEF Inv1, Types
    <3> QED BY <3>1 DEF Inv1, ReadsOK, PlaceOK, Chunk
  <2> QED BY <2>1, <2>2
<1> QED BY <1>1, <1>2, <1>3 DEF Inv1

(* A step that ends an attempt after its stub was published.               *)
LEMMA Ends1 ==
    ASSUME Inv1, NEW q \in Procs, GoTo(q, "idle"), job' = [job EXCEPT ![q] = NoJob],
           stub' = NoStub \/ stub' \in [owner : Procs, reads : Seq(Versions),
                                        place : [1..Total -> Peers]],
           path' \in {0, path}, UNCHANGED <<data, clock, held, up>>,
           erased' \subseteq Versions
    PROVE  Inv1'
<1> USE DEF GoTo
<1>0. NoJob \in Jobs
  BY DEF NoJob, Jobs
<1>1. Types'
  BY <1>0 DEF Inv1, Types, Steps
<1>2. FilesOK'
  BY DEF Inv1, FilesOK, Types
<1>3. ASSUME NEW r \in Procs PROVE ReadsOK(r)' /\ PlaceOK(r)'
  <2>1. CASE r = q
    BY <2>1 DEF Inv1, Types, ReadsOK, PlaceOK, Before
  <2>2. CASE r # q
    BY <2>2 DEF Inv1, Types, ReadsOK, PlaceOK, Chunk
  <2> QED BY <2>1, <2>2
<1> QED BY <1>1, <1>2, <1>3 DEF Inv1

(* A step of the user: versions of an inode only grow.                     *)
LEMMA User1 == ASSUME Inv1, User PROVE Inv1'
<1>0. /\ path \in 0..MaxVersion /\ clock \in 0..MaxVersion
      /\ data \in [Versions -> 0..MaxVersion]
      /\ path <= clock /\ (path # 0 => data[path] # 0)
      /\ \A i \in Versions : data[i] <= clock
  BY DEF Inv1, Types, FilesOK
<1>1. /\ path' \in 0..MaxVersion /\ clock' \in 0..MaxVersion
      /\ data' \in [Versions -> 0..MaxVersion]
      /\ FilesOK'
      /\ clock <= clock'
      /\ \A i \in Versions : data[i] <= data'[i]
  <2>1. CASE Replace
    <3>1. clock + 1 \in Versions
      BY <1>0, <2>1 DEF Replace, Versions
    <3>2. /\ clock' = clock + 1 /\ path' = clock + 1
          /\ data' = [data EXCEPT ![clock + 1] = clock + 1]
      BY <2>1 DEF Replace
    <3> QED BY <1>0, <3>1, <3>2 DEF FilesOK, Versions
  <2>2. CASE Edit
    <3>1. clock + 1 \in Versions /\ path \in Versions
      BY <1>0, <2>2 DEF Edit, Versions
    <3>2. /\ clock' = clock + 1 /\ path' = path
          /\ data' = [data EXCEPT ![path] = clock + 1]
      BY <2>2 DEF Edit
    <3> QED BY <1>0, <3>1, <3>2 DEF FilesOK, Versions
  <2>3. CASE Delete
    BY <1>0, <2>3 DEF Delete, FilesOK, Versions
  <2> QED BY <2>1, <2>2, <2>3 DEF User
<1>2. UNCHANGED <<stub, held, up, pc, job, erased>>
  BY DEF User, Replace, Edit, Delete
<1>3. Types'
  BY <1>1, <1>2 DEF Inv1, Types
<1>4. ASSUME NEW r \in Procs PROVE ReadsOK(r)'
  <2> USE <1>2
  <2> SUFFICES ASSUME pc[r] \notin {"idle", "stat"}
               PROVE  /\ job[r].ino \in 1..clock'
                      /\ job[r].ver \in Versions
                      /\ job[r].ver <= data'[job[r].ino]
                      /\ Chunk(r) <= MaxFileLength
                      /\ \A k \in 1..Chunk(r) : /\ job[r].ver <= job[r].reads[k]
                                                /\ job[r].reads[k] <= data'[job[r].ino]
    BY DEF ReadsOK, Chunk
  <2>1. ReadsOK(r)
    BY DEF Inv1
  <2>2. job[r] \in Jobs
    BY DEF Inv1, Types
  <2>3. /\ job[r].ino \in 1..clock
        /\ job[r].reads \in Seq(Versions)
        /\ job[r].ver \in Versions
        /\ job[r].ver <= data[job[r].ino]
        /\ Chunk(r) <= MaxFileLength
    BY <2>1, <2>2 DEF ReadsOK, Jobs
  <2>4. /\ job[r].ino \in Versions
        /\ job[r].ino \in 1..clock'
        /\ data[job[r].ino] \in Nat /\ data'[job[r].ino] \in Nat
        /\ data[job[r].ino] <= data'[job[r].ino]
    BY <1>0, <1>1, <2>3 DEF Versions
  <2>5. ASSUME NEW k \in 1..Chunk(r)
        PROVE  job[r].ver <= job[r].reads[k] /\ job[r].reads[k] <= data'[job[r].ino]
    <3>0. job[r].reads[k] \in Versions
      BY <2>3, <2>5 DEF Chunk
    <3>1. job[r].reads[k] \in Nat
      BY <3>0 DEF Versions
    <3>2. job[r].ver <= job[r].reads[k] /\ job[r].reads[k] <= data[job[r].ino]
      BY <2>1 DEF ReadsOK
    <3> QED BY <2>4, <3>1, <3>2
  <2>6. job[r].ver <= data'[job[r].ino]
    BY <2>3, <2>4 DEF Versions
  <2> QED BY <2>3, <2>4, <2>5, <2>6
<1>5. ASSUME NEW r \in Procs PROVE PlaceOK(r)'
  BY <1>2 DEF Inv1, PlaceOK, Chunk
<1> QED BY <1>1, <1>3, <1>4, <1>5 DEF Inv1

(* Every step but those that mark a history keeps the types, and what an   *)
(* attempt knows about its source and its place.                           *)
LEMMA Step1 == Inv1 /\ [Next]_vars => Inv1'
<1> SUFFICES ASSUME Inv1, [Next]_vars PROVE Inv1'
  OBVIOUS
<1>1. Types /\ FilesOK /\ \A r \in Procs : ReadsOK(r) /\ PlaceOK(r)
  BY DEF Inv1
<1>2. /\ stub = NoStub \/ stub \in [owner : Procs, reads : Seq(Versions),
                                    place : [1..Total -> Peers]]
      /\ held \in [Places -> SUBSET Shards]
      /\ erased \subseteq Versions
  BY <1>1 DEF Types
<1>3. ASSUME NEW q \in Procs, Fail(q) PROVE Inv1'
  BY <1>3, Abandon1 DEF Fail
<1>4. ASSUME NEW q \in Procs, Begin(q) PROVE Inv1'
  BY <1>2, <1>4, Moves1 DEF Begin, Steps, Before
<1>5. ASSUME NEW q \in Procs, Stat(q) PROVE Inv1'
  <2>1. CASE Fail(q)
    BY <1>3, <2>1
  <2>2. CASE ~ Fail(q)
    <3>1. /\ pc' = [pc EXCEPT ![q] = "open"] /\ pc[q] = "stat"
          /\ job' = [job EXCEPT ![q] = [NoJob EXCEPT !.ino = path, !.ver = data[path]]]
          /\ path # 0
          /\ UNCHANGED <<path, data, clock, stub, held, up, erased>>
      BY <1>5, <2>2 DEF Stat, GoTo, user
    <3>2. /\ path \in Versions /\ path \in 1..clock /\ data[path] \in Versions
      BY <1>1, <3>1 DEF Types, FilesOK, Versions
    <3> DEFINE j == [NoJob EXCEPT !.ino = path, !.ver = data[path]]
    <3>4. j \in Jobs /\ j.ino = path /\ j.ver = data[path] /\ j.reads = <<>>
      <4>1. /\ 1 \in 1..Total /\ <<>> \in Seq(Versions)
            /\ path \in 0..MaxVersion /\ data[path] \in 0..MaxVersion
        BY <3>2 DEF Versions
      <4> QED BY <4>1 DEF Jobs, NoJob
    <3>5. job' = [job EXCEPT ![q] = j]
      BY <3>1
    <3>6. data[path] <= data[path]
      BY <3>2 DEF Versions
    <3> HIDE DEF j
    <3>7. /\ Len(j.reads) <= MaxFileLength
          /\ \A k \in 1..Len(j.reads) : j.ver <= j.reads[k] /\ j.reads[k] <= data[j.ino]
          /\ j.ino \in 1..clock /\ j.ver \in Versions /\ j.ver <= data[j.ino]
      BY <3>2, <3>4, <3>6
    <3>8. /\ "open" \in Steps \ {"idle", "stat"} /\ GoTo(q, "open")
          /\ "open" \notin Before \cup {"remove"}
          /\ "open" \notin {"push", "verify", "keep"}
      BY <3>1 DEF Steps, Before, GoTo
    <3>9. held' \in [Places -> SUBSET Shards] /\ UNCHANGED <<user, stub, up, erased>>
      BY <1>2, <3>1 DEF user
    <3> QED
      BY <3>4, <3>5, <3>7, <3>8, <3>9, Learns1
  <2> QED BY <2>1, <2>2
<1>6. ASSUME NEW q \in Procs, Open(q) PROVE Inv1'
  <2>1. CASE Fail(q)
    BY <1>3, <2>1
  <2>2. CASE ~ Fail(q)
    BY <1>2, <1>6, <2>2, Moves1 DEF Open, Steps, Before
  <2> QED BY <2>1, <2>2
(* What an attempt on its way already knows.                               *)
<1>70. ASSUME NEW q \in Procs, pc[q] \notin {"idle", "stat"}
       PROVE  /\ job[q] \in Jobs
              /\ job[q].ino \in 1..clock /\ job[q].ino \in Versions
              /\ job[q].ver \in Versions
              /\ job[q].ver <= data[job[q].ino]
              /\ data[job[q].ino] \in Versions
              /\ job[q].reads \in Seq(Versions)
              /\ Chunk(q) \in Nat /\ Chunk(q) <= MaxFileLength
              /\ \A k \in 1..Chunk(q) : /\ job[q].ver <= job[q].reads[k]
                                        /\ job[q].reads[k] <= data[job[q].ino]
  <2>1. job[q] \in Jobs /\ ReadsOK(q)
    BY <1>1 DEF Types
  <2>2. /\ job[q].ino \in 1..clock /\ job[q].ino \in Versions
        /\ data[job[q].ino] \in 0..MaxVersion
    BY <1>1, <1>70, <2>1 DEF Types, ReadsOK, Versions
  <2>3. job[q].ver \in Versions /\ job[q].ver <= data[job[q].ino]
    BY <1>70, <2>1 DEF ReadsOK
  <2>4. job[q].reads \in Seq(Versions) /\ Chunk(q) \in Nat
    BY <2>1 DEF Jobs, Chunk
  <2>5. data[job[q].ino] \in Versions
    BY <2>2, <2>3 DEF Versions
  <2> QED BY <1>70, <2>1, <2>2, <2>3, <2>4, <2>5 DEF ReadsOK
<1>7. ASSUME NEW q \in Procs, Place(q) PROVE Inv1'
  <2>1. CASE Fail(q)
    BY <1>3, <2>1
  <2>2. CASE ~ Fail(q)
    <3>1. PICK o \in Orders(Eligible) :
             job' = [job EXCEPT ![q].place =
                [i \in 1..Total |-> o[1 + ((i - 1) % Cardinality(Eligible))]]]
      BY <1>7, <2>2 DEF Place
    <3> DEFINE f == [i \in 1..Total |-> o[1 + ((i - 1) % Cardinality(Eligible))]]
               j == [job[q] EXCEPT !.place = f]
    <3>2. f \in [1..Total -> Peers]
      BY <1>7, <2>2, Assigned DEF Place
    <3>3. /\ pc[q] = "place" /\ GoTo(q, "read")
          /\ UNCHANGED <<user, stub, held, up, erased>>
      BY <1>7, <2>2 DEF Place
    <3> HIDE DEF f
    <3>4. /\ j \in Jobs /\ j.place = f /\ j.reads = job[q].reads
          /\ j.ino = job[q].ino /\ j.ver = job[q].ver
      BY <1>70, <3>2, <3>3 DEF Jobs
    <3>5. job' = [job EXCEPT ![q] = j]
      BY <1>1, <3>1 DEF Types, f
    <3> HIDE DEF j
    <3>6. /\ Len(j.reads) <= MaxFileLength
          /\ \A k \in 1..Len(j.reads) : j.ver <= j.reads[k] /\ j.reads[k] <= data[j.ino]
          /\ j.ino \in 1..clock /\ j.ver \in Versions /\ j.ver <= data[j.ino]
      BY <1>70, <3>3, <3>4 DEF Chunk
    <3>7. "read" \in Steps \ {"idle", "stat"} /\ "read" \notin {"push", "verify", "keep"}
      BY DEF Steps
    <3>8. held' \in [Places -> SUBSET Shards]
      BY <1>2, <3>3
    <3> QED
      BY <3>2, <3>3, <3>4, <3>5, <3>6, <3>7, <3>8, Learns1
  <2> QED BY <2>1, <2>2
<1>8. ASSUME NEW q \in Procs, Read(q) PROVE Inv1'
  <2> DEFINE v == data[job[q].ino]
             j == NextChunk(q, v)
             More == /\ Chunk(q) < MaxFileLength
                     /\ job' = [job EXCEPT ![q] = j]
                     /\ GoTo(q, "push")
                     /\ UNCHANGED <<user, stub, held, junk, up, erased>>
             EndOfFile == /\ GoTo(q, "check")
                          /\ UNCHANGED <<user, stub, held, junk, up, job, erased>>
  <2>0. pc[q] = "read" /\ (More \/ Fail(q) \/ EndOfFile)
    BY <1>8 DEF Read
  <2>1. CASE Fail(q)
    BY <1>3, <2>1
  <2>2. CASE EndOfFile
    BY <1>2, <2>0, <2>2, Moves1 DEF Steps, Before
  <2>3. CASE More
    <3>1. /\ pc[q] = "read" /\ GoTo(q, "push") /\ Chunk(q) < MaxFileLength
          /\ job' = [job EXCEPT ![q] = j]
          /\ UNCHANGED <<user, stub, held, up, erased>>
      BY <2>0, <2>3
    <3>2. v \in Versions /\ job[q].place \in [1..Total -> Peers]
      BY <1>1, <1>70, <3>1 DEF PlaceOK, Before
    <3> HIDE DEF v
    <3>3. /\ j \in Jobs /\ j.place = job[q].place /\ j.ino = job[q].ino
          /\ j.ver = job[q].ver /\ j.reads = Append(job[q].reads, v)
      <4>1. Append(job[q].reads, v) \in Seq(Versions)
        BY <1>70, <3>1, <3>2, Appended
      <4>2. j = [job[q] EXCEPT !.reads = Append(job[q].reads, v), !.idx = 1]
        BY DEF NextChunk
      <4>3. job[q] \in Jobs
        BY <1>70, <3>1
      <4> HIDE DEF j
      <4> QED BY <4>1, <4>2, <4>3, Extended
    <3>4. /\ Len(j.reads) = Chunk(q) + 1 /\ j.reads[Chunk(q) + 1] = v
          /\ \A k \in 1..Chunk(q) : j.reads[k] = job[q].reads[k]
      BY <1>70, <3>1, <3>2, <3>3, Appended DEF Chunk
    <3> HIDE DEF j
    <3>5. \A k \in 1..Len(j.reads) : j.ver <= j.reads[k] /\ j.reads[k] <= data[j.ino]
      <4> SUFFICES ASSUME NEW k \in 1..Len(j.reads)
                   PROVE  j.ver <= j.reads[k] /\ j.reads[k] <= v
        BY <3>3 DEF v
      <4>1. CASE k = Chunk(q) + 1
        BY <1>70, <3>1, <3>2, <3>3, <3>4, <4>1 DEF v, Versions
      <4>2. CASE k # Chunk(q) + 1
        <5>1. k \in 1..Chunk(q)
          BY <1>70, <3>1, <3>4, <4>2
        <5> QED BY <1>70, <3>1, <3>3, <3>4, <5>1 DEF v
      <4> QED BY <4>1, <4>2
    <3>6. Len(j.reads) \in 1..MaxFileLength
      BY <1>70, <3>1, <3>4
    <3>7. /\ j.ino \in 1..clock /\ j.ver \in Versions /\ j.ver <= data[j.ino]
          /\ Len(j.reads) <= MaxFileLength
      BY <1>70, <3>1, <3>3, <3>6
    <3>8. "push" \in Steps \ {"idle", "stat"} /\ held' \in [Places -> SUBSET Shards]
      BY <1>2, <3>1 DEF Steps
    <3> QED
      BY <3>1, <3>2, <3>3, <3>5, <3>6, <3>7, <3>8, Learns1
  <2> QED BY <2>0, <2>1, <2>2, <2>3
(* A shard of the chunk at hand is a shard.                                *)
<1>80. ASSUME NEW q \in Procs, pc[q] \in {"push", "verify", "keep"}
       PROVE  Shard(q) \in Shards /\ Target(q) \in Places
  <2>1. Chunk(q) \in 1..MaxFileLength /\ job[q].idx \in 1..Total
        /\ job[q].place \in [1..Total -> Peers]
    BY <1>1, <1>70, <1>80 DEF PlaceOK, Jobs, Before
  <2> QED BY <2>1 DEF Shard, Shards, Target, Places
<1>9. ASSUME NEW q \in Procs, Push(q) PROVE Inv1'
  <2>1. CASE Fail(q)
    BY <1>3, <2>1
  <2>2. CASE ~ Fail(q)
    <3>1. /\ pc[q] = "push" /\ GoTo(q, "verify")
          /\ held' = [held EXCEPT ![Target(q)] = @ \cup {Shard(q)}]
          /\ UNCHANGED <<user, stub, up, job, erased>>
      BY <1>9, <2>2 DEF Push
    <3>2. held' \in [Places -> SUBSET Shards]
      BY <1>2, <1>80, <3>1
    <3> QED BY <1>2, <3>1, <3>2, Moves1 DEF Steps, Before
  <2> QED BY <2>1, <2>2
<1>10. ASSUME NEW q \in Procs, Verify(q) PROVE Inv1'
  <2>1. CASE Fail(q)
    BY <1>3, <2>1
  <2>2. CASE ~ Fail(q)
    BY <1>2, <1>10, <2>2, Moves1 DEF Verify, Steps, Before
  <2> QED BY <2>1, <2>2
<1>11. ASSUME NEW q \in Procs, Keep(q) PROVE Inv1'
  <2>1. CASE Fail(q)
    BY <1>3, <2>1
  <2>2. CASE ~ Fail(q)
    <3>1. /\ pc[q] = "keep"
          /\ held' = [held EXCEPT ![Local] = @ \cup {Shard(q)}]
          /\ UNCHANGED <<user, stub, up, erased>>
      BY <1>11, <2>2 DEF Keep
    <3>2. held' \in [Places -> SUBSET Shards]
      BY <1>2, <1>80, <3>1 DEF Places
    <3>3. CASE job[q].idx < Total
      <4> DEFINE j == [job[q] EXCEPT !.idx = @ + 1]
      <4>1. job' = [job EXCEPT ![q] = j] /\ GoTo(q, "push")
        BY <1>1, <1>11, <2>2, <3>3 DEF Keep, Types
      <4>2. job[q].idx \in 1..Total
        BY <1>70, <3>1 DEF Jobs
      <4>3. /\ j \in Jobs /\ j.place = job[q].place /\ j.ino = job[q].ino
            /\ j.ver = job[q].ver /\ j.reads = job[q].reads
        <5>1. job[q].idx + 1 \in 1..Total
          BY <3>3, <4>2
        <5> QED BY <1>70, <3>1, <5>1, Indexed
      <4>4. job[q].place \in [1..Total -> Peers] /\ Chunk(q) \in 1..MaxFileLength
        BY <1>1, <3>1 DEF PlaceOK, Before
      <4> HIDE DEF j
      <4> QED
        BY <1>70, <3>1, <3>2, <4>1, <4>3, <4>4, Learns1
        DEF Steps, Before, Committing, Chunk
    <3>4. CASE ~ (job[q].idx < Total)
      BY <1>2, <1>11, <2>2, <3>1, <3>2, <3>4, Moves1 DEF Keep, Steps, Before
    <3> QED BY <3>3, <3>4
  <2> QED BY <2>1, <2>2
<1>12. ASSUME NEW q \in Procs, Check(q) PROVE Inv1'
  <2>1. CASE Fail(q)
    BY <1>3, <2>1
  <2>2. CASE ~ Fail(q)
    BY <1>2, <1>12, <2>2, Moves1 DEF Check, Steps, Committing, Before
  <2> QED BY <2>1, <2>2
<1>13. ASSUME NEW q \in Procs, Publish(q) \/ PublishUnsynced(q) PROVE Inv1'
  <2>1. CASE Fail(q)
    BY <1>3, <2>1
  <2>2. CASE ~ Fail(q)
    <3>1. /\ pc[q] = "publish" /\ stub' = Content(q)
          /\ UNCHANGED <<user, held, up, erased>>
          /\ \/ GoTo(q, "remove") /\ UNCHANGED job
             \/ GoTo(q, "idle") /\ job' = [job EXCEPT ![q] = NoJob]
      BY <1>13, <2>2 DEF Publish, PublishUnsynced
    <3>2. stub' \in [owner : Procs, reads : Seq(Versions), place : [1..Total -> Peers]]
      BY <1>1, <1>70, <3>1 DEF Content, PlaceOK, Before
    <3>3. CASE GoTo(q, "remove") /\ UNCHANGED job
      BY <1>2, <3>1, <3>2, <3>3, Moves1 DEF Steps, Committing, Before
    <3>4. CASE GoTo(q, "idle") /\ job' = [job EXCEPT ![q] = NoJob]
      BY <1>2, <3>1, <3>2, <3>4, Ends1 DEF user
    <3> QED BY <3>1, <3>3, <3>4
  <2> QED BY <2>1, <2>2
<1>14. ASSUME NEW q \in Procs, Remove(q) PROVE Inv1'
  <2>1. erased' \subseteq Versions
    <3>1. CASE path = 0
      BY <1>2, <1>14, <3>1 DEF Remove
    <3>2. CASE path # 0
      <4>1. path \in Versions /\ data[path] # 0
        BY <1>1, <3>2 DEF Types, FilesOK, Versions
      <4>2. data[path] \in Versions
        BY <1>1, <4>1 DEF Types, Versions
      <4> QED BY <1>2, <1>14, <3>2, <4>2 DEF Remove
    <3> QED BY <3>1, <3>2
  <2> QED BY <1>2, <1>14, <2>1, Ends1 DEF Remove
<1>15. ASSUME NEW q \in Procs, RemoveFails(q) PROVE Inv1'
  BY <1>2, <1>15, Ends1 DEF RemoveFails, user
<1>16. ASSUME NEW q \in Procs, PushAnswerLost(q) PROVE Inv1'
  <2>1. held' \in [Places -> SUBSET Shards]
    BY <1>2, <1>16 DEF PushAnswerLost
  <2>2. NoJob \in Jobs
    BY DEF NoJob, Jobs
  <2>3. Types' /\ FilesOK'
    BY <1>1, <1>16, <2>1, <2>2 DEF PushAnswerLost, Types, FilesOK, GoTo, user, Steps
  <2>4. ASSUME NEW r \in Procs PROVE ReadsOK(r)' /\ PlaceOK(r)'
    <3>1. CASE r = q
      <4>1. pc'[r] = "idle" /\ job'[r] = NoJob
        BY <1>1, <1>16, <3>1 DEF PushAnswerLost, GoTo, Types
      <4> QED BY <4>1 DEF ReadsOK, PlaceOK, Before
    <3>2. CASE r # q
      <4>1. pc'[r] = pc[r] /\ job'[r] = job[r]
        BY <1>1, <1>16, <3>2 DEF PushAnswerLost, GoTo, Types
      <4> QED BY <1>1, <1>16, <4>1 DEF ReadsOK, PlaceOK, Chunk, PushAnswerLost, user
    <3> QED BY <3>1, <3>2
  <2> QED BY <2>3, <2>4 DEF Inv1
<1>17. ASSUME NEW q \in Procs, StepFails(q) PROVE Inv1'
  BY <1>3, <1>17 DEF StepFails
<1>18. ASSUME NEW q \in Procs, Kill(q) PROVE Inv1'
  <2>1. CASE Fail(q)
    BY <1>3, <2>1
  <2>2. CASE ~ Fail(q)
    BY <1>2, <1>18, <2>2, Ends1 DEF Kill, user
  <2> QED BY <2>1, <2>2
<1>19. CASE User
  BY <1>19, User1
<1>20. CASE Network
  <2>1. up' \subseteq Peers /\ UNCHANGED <<user, stub, held, pc, job, erased>>
    BY <1>1, <1>20 DEF Network, PeerDown, PeerUp, Types
  <2>2. Types' /\ FilesOK'
    BY <1>1, <2>1 DEF Types, FilesOK, user
  <2>3. \A r \in Procs : ReadsOK(r)' /\ PlaceOK(r)'
    BY <1>1, <2>1 DEF ReadsOK, PlaceOK, Chunk, user
  <2> QED BY <2>2, <2>3 DEF Inv1
<1>21. CASE UNCHANGED vars
  <2>1. Types' /\ FilesOK'
    BY <1>1, <1>21 DEF Types, FilesOK, vars
  <2>2. \A r \in Procs : ReadsOK(r)' /\ PlaceOK(r)'
    BY <1>1, <1>21 DEF ReadsOK, PlaceOK, Chunk, vars
  <2> QED BY <2>1, <2>2 DEF Inv1
<1> QED
  BY <1>4, <1>5, <1>6, <1>7, <1>8, <1>9, <1>10, <1>11, <1>12, <1>13, <1>14,
     <1>15, <1>16, <1>17, <1>18, <1>19, <1>20, <1>21
  DEF Next, Progress, Mishap

(* Every variable but the count of junk holds a value of its type.         *)
THEOREM TypesCorrect == Spec => []Types
<1>1. Inv1 => Types
  BY DEF Inv1
<1> QED
  BY <1>1, Init1, Step1, PTL DEF Spec

(* Two processes on one path publish one stub.                             *)
THEOREM StubFinal == Spec => StubIsFinal
<1>1. [Next]_vars => [stub # NoStub => stub' = stub]_vars
  <2> SUFFICES ASSUME Next, stub # NoStub PROVE stub' = stub
    BY DEF vars
  <2> QED
    BY DEF Next, Progress, Mishap, User, Network, Begin, Stat, Open, Place,
           Read, Push, Verify, Keep, Check, Publish, StubAbsent, Remove,
           PushAnswerLost, PublishUnsynced, RemoveFails, StepFails, Kill,
           Fail, Replace, Edit, Delete, PeerDown, PeerUp
<1> QED
  BY <1>1, PTL DEF Spec, StubIsFinal

-----------------------------------------------------------------------------
(* What the stub promises.                                                 *)

(* Which shards an attempt has seen verified and kept locally.             *)
Finished(q, k, i) == \/ k < Chunk(q)
                     \/ pc[q] \in {"read", "check", "publish"}
                     \/ i < job[q].idx

Stored(q) ==
    /\ pc[q] \in Before => \A k \in 1..Chunk(q), i \in 1..Total :
          Finished(q, k, i) => /\ <<q, k, i>> \in held[job[q].place[i]]
                               /\ <<q, k, i>> \in held[Local]
    /\ pc[q] = "keep" => Shard(q) \in held[Target(q)]
    /\ pc[q] \in {"open", "place"} => Chunk(q) = 0

(* The second look at the source pins every read to the first one.         *)
OneVersion(q) == pc[q] \in Committing =>
    /\ Chunk(q) = Length[job[q].ver]
    /\ \A k \in 1..Chunk(q) : job[q].reads[k] = job[q].ver

(* The owner of the stub has nothing left to fail.                         *)
OwnerIsDone == stub # NoStub => pc[stub.owner] \in {"idle", "remove"}

Inv2 == /\ Inv1
        /\ \A q \in Procs : Stored(q) /\ OneVersion(q)
        /\ OwnerIsDone
        /\ StubIsStored
        /\ StubIsOneVersion

(* A step of one attempt leaves the others and their shards alone.         *)
LocalTo(q) ==
    /\ \A r \in Procs \ {q} : pc'[r] = pc[r] /\ job'[r] = job[r]
    /\ \A p \in Places : held[p] \ Own(q) \subseteq held'[p]

LEMMA StepsAreLocal ==
    ASSUME Types, NEW q \in Procs, Progress(q) \/ Mishap(q)
    PROVE  LocalTo(q)
<1> USE DEF Types, LocalTo, GoTo
<1>1. ASSUME Fail(q) PROVE LocalTo(q)
  BY <1>1 DEF Fail, Abandon
<1>2. ASSUME UNCHANGED held,
             pc' = [pc EXCEPT ![q] = pc'[q]],
             job' = [job EXCEPT ![q] = job'[q]]
      PROVE  LocalTo(q)
  BY <1>2
<1>3. ASSUME Begin(q) \/ Stat(q) \/ Open(q) \/ Place(q) \/ Read(q)
             \/ Verify(q) \/ Check(q)
      PROVE  LocalTo(q)
  BY <1>1, <1>3 DEF Begin, Stat, Open, Place, Read, Verify, Check
<1>4. ASSUME Push(q) \/ Keep(q)
      PROVE  LocalTo(q)
  BY <1>1, <1>4 DEF Push, Keep
<1>5. ASSUME Publish(q) \/ Remove(q) \/ PublishUnsynced(q) \/ RemoveFails(q)
             \/ StepFails(q) \/ Kill(q)
      PROVE  LocalTo(q)
  BY <1>1, <1>5 DEF Publish, Remove, PublishUnsynced, RemoveFails, StepFails, Kill
<1>6. ASSUME PushAnswerLost(q) PROVE LocalTo(q)
  BY <1>6 DEF PushAnswerLost
<1> QED BY <1>3, <1>4, <1>5, <1>6 DEF Progress, Mishap

LEMMA OthersKept ==
    ASSUME Inv2, NEW q \in Procs, LocalTo(q), NEW r \in Procs \ {q}
    PROVE  Stored(r)' /\ OneVersion(r)'
<1>1. pc'[r] = pc[r] /\ job'[r] = job[r] /\ Stored(r) /\ OneVersion(r) /\ PlaceOK(r)
      /\ job[r] \in Jobs
  BY DEF Inv2, Inv1, LocalTo, Types
<1>2. \A p \in Places : \A k, i : <<r, k, i>> \in held[p] => <<r, k, i>> \in held'[p]
  BY DEF LocalTo, Own
<1>3. OneVersion(r)'
  BY <1>1 DEF OneVersion, Chunk
<1>4. pc[r] \in Before => \A i \in 1..Total : job[r].place[i] \in Places
  BY <1>1 DEF PlaceOK, Places
<1>5. job[r].idx \in 1..Total
  BY <1>1 DEF Jobs
<1>6. Stored(r)'
  BY <1>1, <1>2, <1>4, <1>5 DEF Stored, Finished, Chunk, Shard, Target, Places, Before
<1> QED BY <1>3, <1>6

LEMMA StubKept ==
    ASSUME Inv2, NEW q \in Procs, LocalTo(q), stub' = stub,
           stub # NoStub => \/ pc[q] \notin {"idle", "remove"}
                            \/ UNCHANGED held
    PROVE  StubIsStored' /\ StubIsOneVersion'
<1>1. StubIsOneVersion'
  BY DEF Inv2, StubIsOneVersion
<1>2. ASSUME stub # NoStub, pc[q] \notin {"idle", "remove"} PROVE StubIsStored'
  <2>1. stub.owner # q /\ stub \in [owner : Procs, reads : Seq(Versions),
                                    place : [1..Total -> Peers]]
    BY <1>2 DEF Inv2, Inv1, Types, OwnerIsDone
  <2>2. \A p \in Places : \A k, i : <<stub.owner, k, i>> \in held[p] =>
                                     <<stub.owner, k, i>> \in held'[p]
    BY <2>1 DEF LocalTo, Own
  <2> QED BY <2>1, <2>2 DEF Inv2, StubIsStored, Places
<1>3. ASSUME UNCHANGED held PROVE StubIsStored'
  BY <1>3 DEF Inv2, StubIsStored
<1>4. ASSUME stub = NoStub PROVE StubIsStored'
  BY <1>4 DEF StubIsStored
<1> QED BY <1>1, <1>2, <1>3, <1>4

LEMMA Init2 == Init => Inv2
<1> SUFFICES ASSUME Init PROVE /\ \A q \in Procs : Stored(q) /\ OneVersion(q)
                               /\ OwnerIsDone /\ StubIsStored /\ StubIsOneVersion
  BY Init1 DEF Inv2
<1> QED
  BY DEF Init, Stored, OneVersion, Before, Committing, OwnerIsDone,
         StubIsStored, StubIsOneVersion

(* Steps of an attempt that publish nothing.                               *)
LEMMA Silent2 ==
    ASSUME Inv2, Inv1', NEW q \in Procs, LocalTo(q), stub' = stub,
           pc[q] \notin {"idle", "remove"} \/ UNCHANGED held,
           pc[q] \in {"idle", "remove"} => pc'[q] \in {"idle", "remove"} \/ stub = NoStub,
           Stored(q)', OneVersion(q)'
    PROVE  Inv2'
<1>1. StubIsStored' /\ StubIsOneVersion'
  BY StubKept
<1>2. \A r \in Procs : Stored(r)' /\ OneVersion(r)'
  BY OthersKept
<1>3. OwnerIsDone'
  <2> SUFFICES ASSUME stub # NoStub PROVE pc'[stub.owner] \in {"idle", "remove"}
    BY DEF OwnerIsDone
  <2>1. stub.owner \in Procs /\ pc[stub.owner] \in {"idle", "remove"}
    BY DEF Inv2, Inv1, Types, OwnerIsDone
  <2>2. CASE stub.owner = q
    BY <2>1, <2>2
  <2>3. CASE stub.owner # q
    BY <2>1, <2>3 DEF LocalTo
  <2> QED BY <2>2, <2>3
<1> QED BY <1>1, <1>2, <1>3 DEF Inv2

LEMMA Step2 == ASSUME Inv2, [Next]_vars PROVE Inv2'
<1>0. Inv1 /\ Inv1'
  BY Step1 DEF Inv2
<1>1. Types
  BY <1>0 DEF Inv1
<1>2. ASSUME NEW q \in Procs
      PROVE  /\ Stored(q) /\ OneVersion(q) /\ ReadsOK(q) /\ PlaceOK(q)
             /\ job[q] \in Jobs /\ Chunk(q) \in Nat /\ job[q].idx \in 1..Total
  BY <1>0 DEF Inv2, Inv1, Types, Jobs, Chunk
<1>3. ASSUME NEW q \in Procs, Progress(q) \/ Mishap(q) PROVE LocalTo(q)
  BY <1>1, <1>3, StepsAreLocal
<1>4. ASSUME NEW q \in Procs, Fail(q), Progress(q) \/ Mishap(q),
             pc[q] \notin {"idle", "remove"}
      PROVE  Inv2'
  <2>1. pc'[q] = "idle" /\ stub' = stub
    BY <1>1, <1>4 DEF Fail, Abandon, GoTo, Types
  <2>2. Stored(q)' /\ OneVersion(q)'
    BY <2>1 DEF Stored, OneVersion, Before, Committing
  <2> QED BY <1>0, <1>3, <1>4, <2>1, <2>2, Silent2
(* Steps that change neither what is read nor what is held.                *)
<1>5. ASSUME NEW q \in Procs, Begin(q) PROVE Inv2'
  <2>1. pc'[q] = "stat" /\ stub' = stub /\ held' = held /\ stub = NoStub
    BY <1>1, <1>5 DEF Begin, GoTo, Types
  <2>2. Stored(q)' /\ OneVersion(q)'
    BY <2>1 DEF Stored, OneVersion, Before, Committing
  <2> QED BY <1>0, <1>3, <1>5, <2>1, <2>2, Silent2 DEF Progress
<1>6. ASSUME NEW q \in Procs, Stat(q), ~ Fail(q) PROVE Inv2'
  <2>1. /\ pc[q] = "stat" /\ pc'[q] = "open" /\ stub' = stub
        /\ job'[q] = [NoJob EXCEPT !.ino = path, !.ver = data[path]]
    BY <1>1, <1>6 DEF Stat, GoTo, Types
  <2>2. Chunk(q)' = 0
    BY <2>1 DEF Chunk, NoJob
  <2>3. Stored(q)' /\ OneVersion(q)'
    BY <2>1, <2>2 DEF Stored, OneVersion, Before, Committing
  <2> QED BY <1>0, <1>3, <1>6, <2>1, <2>3, Silent2 DEF Progress
<1>7. ASSUME NEW q \in Procs, Open(q), ~ Fail(q) PROVE Inv2'
  <2>1. /\ pc[q] = "open" /\ pc'[q] = "place" /\ stub' = stub /\ job' = job
    BY <1>1, <1>7 DEF Open, GoTo, Types
  <2>2. Stored(q)' /\ OneVersion(q)'
    BY <1>2, <2>1 DEF Stored, OneVersion, Before, Committing, Chunk
  <2> QED BY <1>0, <1>3, <1>7, <2>1, <2>2, Silent2 DEF Progress
<1>8. ASSUME NEW q \in Procs, Place(q), ~ Fail(q) PROVE Inv2'
  <2>1. /\ pc[q] = "place" /\ pc'[q] = "read" /\ stub' = stub
        /\ job'[q].reads = job[q].reads
    <3>1. PICK f : job' = [job EXCEPT ![q].place = f]
      BY <1>8 DEF Place
    <3>2. job'[q].reads = job[q].reads
      BY <1>1, <1>2, <3>1 DEF Types, Jobs
    <3> QED BY <1>1, <1>8, <3>2 DEF Place, GoTo, Types
  <2>2. Chunk(q)' = 0
    BY <1>2, <2>1 DEF Stored, Chunk
  <2>3. Stored(q)' /\ OneVersion(q)'
    BY <2>1, <2>2 DEF Stored, OneVersion, Before, Committing
  <2> QED BY <1>0, <1>3, <1>8, <2>1, <2>3, Silent2 DEF Progress
<1>9. ASSUME NEW q \in Procs, Read(q), ~ Fail(q) PROVE Inv2'
  <2> DEFINE v == data[job[q].ino]
  <2>1. /\ pc[q] = "read" /\ stub' = stub /\ held' = held
        /\ \/ pc'[q] = "push" /\ job'[q] = NextChunk(q, v)
           \/ pc'[q] = "check" /\ job'[q] = job[q]
    BY <1>1, <1>9 DEF Read, GoTo, Types
  <2> HIDE DEF v
  <2>2. CASE pc'[q] = "check" /\ job'[q] = job[q]
    <3>1. Stored(q)' /\ OneVersion(q)'
      BY <1>2, <2>1, <2>2
      DEF Stored, Finished, OneVersion, Before, Committing, Chunk
    <3> QED BY <1>0, <1>3, <1>9, <2>1, <3>1, Silent2 DEF Progress
  <2>3. CASE pc'[q] = "push" /\ job'[q] = NextChunk(q, v)
    <3>1. /\ Chunk(q)' = Chunk(q) + 1 /\ job'[q].idx = 1
          /\ job'[q].place = job[q].place
      BY <1>2, <2>3 DEF Chunk, NextChunk, Jobs
    <3>2. ASSUME NEW k \in 1..(Chunk(q)'), NEW i \in 1..Total, Finished(q, k, i)'
          PROVE  /\ <<q, k, i>> \in held'[job'[q].place[i]]
                 /\ <<q, k, i>> \in held'[Local]
      <4>1. k \in 1..Chunk(q)
        BY <1>2, <2>3, <3>1, <3>2 DEF Finished
      <4> QED BY <1>2, <2>1, <3>1, <4>1 DEF Stored, Finished, Before
    <3>3. Stored(q)' /\ OneVersion(q)'
      BY <2>3, <3>2 DEF Stored, OneVersion, Committing
    <3> QED BY <1>0, <1>3, <1>9, <2>1, <3>3, Silent2 DEF Progress
  <2> QED BY <2>1, <2>2, <2>3
<1>10. ASSUME NEW q \in Procs, Push(q), ~ Fail(q) PROVE Inv2'
  <2>1. /\ pc[q] = "push" /\ pc'[q] = "verify" /\ stub' = stub /\ job' = job
        /\ held' = [held EXCEPT ![Target(q)] = @ \cup {Shard(q)}]
    BY <1>1, <1>10 DEF Push, GoTo, Types
  <2>2. \A p \in Places : held[p] \subseteq held'[p]
    BY <1>1, <2>1 DEF Types
  <2>3. \A i \in 1..Total : job[q].place[i] \in Places
    BY <1>2, <2>1 DEF PlaceOK, Before, Places
  <2>4. Stored(q)' /\ OneVersion(q)'
    BY <1>2, <2>1, <2>2, <2>3
    DEF Stored, Finished, OneVersion, Before, Committing, Chunk, Places
  <2> QED BY <1>0, <1>3, <1>10, <2>1, <2>4, Silent2 DEF Progress
<1>11. ASSUME NEW q \in Procs, Verify(q), ~ Fail(q) PROVE Inv2'
  <2>1. /\ pc[q] = "verify" /\ pc'[q] = "keep" /\ stub' = stub /\ job' = job
        /\ held' = held /\ Shard(q) \in held[Target(q)]
    BY <1>1, <1>11 DEF Verify, GoTo, Types
  <2>2. Stored(q)' /\ OneVersion(q)'
    BY <1>2, <2>1
    DEF Stored, Finished, OneVersion, Before, Committing, Chunk, Shard, Target
  <2> QED BY <1>0, <1>3, <1>11, <2>1, <2>2, Silent2 DEF Progress
<1>12. ASSUME NEW q \in Procs, Keep(q), ~ Fail(q) PROVE Inv2'
  <2>1. /\ pc[q] = "keep" /\ stub' = stub
        /\ held' = [held EXCEPT ![Local] = @ \cup {Shard(q)}]
        /\ \/ /\ pc'[q] = "push" /\ job'[q] = [job[q] EXCEPT !.idx = @ + 1]
           \/ /\ pc'[q] = "read" /\ job'[q] = job[q] /\ ~ (job[q].idx < Total)
    BY <1>1, <1>12 DEF Keep, GoTo, Types
  <2>2. /\ \A p \in Places : held[p] \subseteq held'[p]
        /\ Shard(q) \in held'[Local]
    BY <1>1, <2>1 DEF Types, Places
  <2>3. /\ job'[q].place = job[q].place /\ Chunk(q)' = Chunk(q)
        /\ job'[q].idx \in {job[q].idx, job[q].idx + 1}
    BY <1>2, <2>1 DEF Jobs, Chunk
  <2>4. Local \in Places /\ \A i \in 1..Total : job[q].place[i] \in Places
    BY <1>2, <2>1 DEF PlaceOK, Before, Places
  <2>5. ASSUME NEW k \in 1..Chunk(q), NEW i \in 1..Total, Finished(q, k, i)'
        PROVE  /\ <<q, k, i>> \in held'[job[q].place[i]]
               /\ <<q, k, i>> \in held'[Local]
    <3>1. CASE Finished(q, k, i)
      BY <1>2, <2>1, <2>2, <2>4, <3>1 DEF Stored, Before
    <3>2. CASE ~ Finished(q, k, i)
      <4>1. k = Chunk(q) /\ i >= job[q].idx
        BY <1>2, <2>3, <3>2 DEF Finished
      <4>2. i = job[q].idx
        <5>1. CASE pc'[q] = "push"
          <6>1. job'[q].idx = job[q].idx + 1
            BY <1>2, <2>1, <5>1 DEF Jobs
          <6> QED BY <1>2, <2>3, <2>5, <4>1, <5>1, <6>1 DEF Finished
        <5>2. CASE pc'[q] = "read"
          BY <1>2, <2>1, <4>1, <5>2
        <5> QED BY <2>1, <5>1, <5>2
      <4>3. <<q, k, i>> = Shard(q) /\ job[q].place[i] = Target(q)
        BY <4>1, <4>2 DEF Shard, Target
      <4> QED BY <1>2, <2>1, <2>2, <2>4, <4>3 DEF Stored
    <3> QED BY <3>1, <3>2
  <2>6. Stored(q)' /\ OneVersion(q)'
    BY <2>1, <2>3, <2>5 DEF Stored, OneVersion, Committing
  <2> QED BY <1>0, <1>3, <1>12, <2>1, <2>6, Silent2 DEF Progress
<1>13. ASSUME NEW q \in Procs, Check(q), ~ Fail(q) PROVE Inv2'
  <2>1. /\ pc[q] = "check" /\ pc'[q] = "publish" /\ stub' = stub /\ job' = job
        /\ held' = held /\ Unchanged(q)
    BY <1>1, <1>13 DEF Check, GoTo, Types
  <2>2. ASSUME NEW k \in 1..Chunk(q) PROVE job[q].reads[k] = job[q].ver
    <3>1. job[q].ver <= job[q].reads[k] /\ job[q].reads[k] <= job[q].ver
      BY <1>2, <2>1 DEF Unchanged, ReadsOK
    <3>2. job[q].reads[k] \in Versions /\ job[q].ver \in 0..MaxVersion
      BY <1>2 DEF Jobs, Chunk
    <3> QED BY <3>1, <3>2 DEF Versions
  <2>3. Stored(q)' /\ OneVersion(q)'
    BY <1>2, <2>1, <2>2
    DEF Stored, Finished, OneVersion, Before, Committing, Chunk, Unchanged
  <2> QED BY <1>0, <1>3, <1>13, <2>1, <2>3, Silent2 DEF Progress
<1>14. ASSUME NEW q \in Procs, (Publish(q) /\ ~ Fail(q)) \/ PublishUnsynced(q)
       PROVE  Inv2'
  <2>1. /\ pc[q] = "publish" /\ stub' = Content(q) /\ held' = held
        /\ stub = NoStub
        /\ \/ pc'[q] = "idle"
           \/ pc'[q] = "remove" /\ job'[q] = job[q]
    BY <1>1, <1>14 DEF Publish, PublishUnsynced, StubAbsent, GoTo, Types
  <2>2. Stored(q)' /\ OneVersion(q)'
    BY <1>2, <2>1 DEF Stored, OneVersion, Before, Committing, Chunk
  <2>3. \A r \in Procs : Stored(r)' /\ OneVersion(r)'
    BY <1>3, <1>14, <2>2, OthersKept DEF Progress, Mishap
  <2>4. /\ stub'.owner = q /\ stub'.reads = job[q].reads
        /\ stub'.place = job[q].place
    BY <2>1 DEF Content
  <2>5. OwnerIsDone'
    BY <2>1, <2>4 DEF OwnerIsDone
  <2>6. StubIsStored'
    BY <1>2, <2>1, <2>4 DEF StubIsStored, Stored, Finished, Before, Chunk
  <2>7. StubIsOneVersion'
    <3>1. job[q].ver \in Versions
      BY <1>2, <2>1 DEF ReadsOK
    <3> QED BY <1>2, <2>1, <2>4, <3>1 DEF StubIsOneVersion, OneVersion, Committing, Chunk
  <2> QED BY <1>0, <2>3, <2>5, <2>6, <2>7 DEF Inv2
<1>15. ASSUME NEW q \in Procs, Remove(q) \/ RemoveFails(q) PROVE Inv2'
  <2>1. /\ pc[q] = "remove" /\ pc'[q] = "idle" /\ stub' = stub /\ held' = held
    BY <1>1, <1>15 DEF Remove, RemoveFails, GoTo, Types
  <2>2. Stored(q)' /\ OneVersion(q)'
    BY <2>1 DEF Stored, OneVersion, Before, Committing
  <2> QED BY <1>0, <1>3, <1>15, <2>1, <2>2, Silent2 DEF Progress, Mishap
<1>16. ASSUME NEW q \in Procs, PushAnswerLost(q) PROVE Inv2'
  <2>1. /\ pc[q] = "push" /\ pc'[q] = "idle" /\ stub' = stub
    BY <1>1, <1>16 DEF PushAnswerLost, GoTo, Types
  <2>2. Stored(q)' /\ OneVersion(q)'
    BY <2>1 DEF Stored, OneVersion, Before, Committing
  <2> QED BY <1>0, <1>3, <1>16, <2>1, <2>2, Silent2 DEF Mishap
<1>17. ASSUME NEW q \in Procs, StepFails(q) PROVE Inv2'
  BY <1>4, <1>17 DEF StepFails, Mishap
<1>18. ASSUME NEW q \in Procs, Kill(q) PROVE Inv2'
  <2>1. CASE pc[q] = "remove"
    <3>1. /\ pc'[q] = "idle" /\ stub' = stub /\ held' = held
      BY <1>1, <1>18, <2>1 DEF Kill, GoTo, Types
    <3>2. Stored(q)' /\ OneVersion(q)'
      BY <3>1 DEF Stored, OneVersion, Before, Committing
    <3> QED BY <1>0, <1>3, <1>18, <2>1, <3>1, <3>2, Silent2 DEF Mishap
  <2>2. CASE pc[q] # "remove"
    BY <1>4, <1>18, <2>2 DEF Kill, Mishap
  <2> QED BY <2>1, <2>2
<1>19. ASSUME NEW q \in Procs, Progress(q), Fail(q), ~ Remove(q) PROVE Inv2'
  <2>1. pc[q] # "idle" /\ pc[q] # "remove"
    <3>1. pc'[q] = "idle" /\ UNCHANGED erased /\ UNCHANGED user
      BY <1>1, <1>19 DEF Fail, Abandon, GoTo, Types
    <3>2. ~ Begin(q)
      BY <1>1, <3>1 DEF Begin, GoTo, Types
    <3> QED
      BY <1>19, <3>1, <3>2
      DEF Progress, Stat, Open, Place, Read, Push, Verify, Keep, Check, Publish
  <2> QED BY <1>4, <1>19, <2>1
<1>20. ASSUME UNCHANGED <<stub, held, pc, job>> PROVE Inv2'
  BY <1>0, <1>20
  DEF Inv2, Stored, Finished, OneVersion, OwnerIsDone, StubIsStored,
      StubIsOneVersion, Chunk, Shard, Target
<1>21. CASE User \/ Network \/ UNCHANGED vars
  BY <1>20, <1>21 DEF User, Network, Replace, Edit, Delete, PeerDown, PeerUp, vars
<1> QED
  BY <1>5, <1>6, <1>7, <1>8, <1>9, <1>10, <1>11, <1>12, <1>13, <1>14, <1>15,
     <1>16, <1>17, <1>18, <1>19, <1>21
  DEF Next, Progress, Mishap

(* Whatever fails, and however processes interleave on one path: if there  *)
(* is a stub, every shard it refers to is stored where it says, and        *)
(* locally.                                                                *)
THEOREM StubStored == Spec => []StubIsStored
<1>1. Inv2 /\ [Next]_vars => Inv2'
  BY Step2
<1>2. Inv2 => StubIsStored
  BY DEF Inv2
<1> QED
  BY <1>1, <1>2, Init2, PTL DEF Spec

(* However the user writes to the file while it is read, chunk by chunk:   *)
(* what a stub refers to is one state of it, complete.                     *)
THEOREM StubOneVersion == Spec => []StubIsOneVersion
<1>1. Inv2 /\ [Next]_vars => Inv2'
  BY Step2
<1>2. Inv2 => StubIsOneVersion
  BY DEF Inv2
<1> QED
  BY <1>1, <1>2, Init2, PTL DEF Spec

-----------------------------------------------------------------------------
(* What is removed.                                                        *)

(* Between the last look and the removal the path names what was read, or  *)
(* nothing if another attempt has removed it; and who is about to remove   *)
(* has published the stub.  Inductive with Inv2 while the user stays away. *)
Unmoved(q) == pc[q] \in Committing => path = 0 \/ data[path] = job[q].ver
HasPublished(q) == pc[q] = "remove" => stub # NoStub /\ stub.reads = job[q].reads

EInv == /\ \A q \in Procs : Unmoved(q) /\ HasPublished(q)
        /\ ErasedIsPublished

(* A step that is not one into the last part of an attempt, and leaves     *)
(* file and stub alone.                                                    *)
LEMMA ElsewhereE ==
    ASSUME EInv, NEW q \in Procs, NEW step \in Steps \ Committing,
           pc \in [Procs -> Steps], job \in [Procs -> Jobs], GoTo(q, step),
           \A r \in Procs \ {q} : job'[r] = job[r],
           UNCHANGED <<user, erased>>,
           stub' = stub \/ (stub = NoStub /\ stub' # NoStub)
    PROVE  EInv'
<1>. USE DEF EInv, GoTo, user
<1>1. ASSUME NEW r \in Procs PROVE Unmoved(r)' /\ HasPublished(r)'
  <2>1. CASE r = q
    BY <2>1 DEF Unmoved, HasPublished, Committing
  <2>2. CASE r # q
    <3>1. pc'[r] = pc[r] /\ job'[r] = job[r]
      BY <2>2
    <3>. QED
      BY <3>1 DEF Unmoved, HasPublished
  <2>. QED
    BY <2>1, <2>2
<1>2. ErasedIsPublished'
  BY DEF ErasedIsPublished
<1>. QED
  BY <1>1, <1>2

LEMMA InitE == Init => EInv
  BY DEF Init, EInv, Unmoved, HasPublished, Committing, ErasedIsPublished

LEMMA StepE ==
    ASSUME "late" \notin Faults, Inv2, EInv, [Next]_vars
    PROVE  EInv'
<1>0. /\ pc \in [Procs -> Steps] /\ job \in [Procs -> Jobs]
      /\ stub = NoStub \/ stub \in [owner : Procs, reads : Seq(Versions),
                                    place : [1..Total -> Peers]]
  BY DEF Inv2, Inv1, Types
<1>1. ASSUME NEW q \in Procs, NEW step \in Steps \ Committing, GoTo(q, step),
             UNCHANGED <<user, erased, stub>>,
             \/ UNCHANGED job
             \/ \E j : job' = [job EXCEPT ![q] = j]
      PROVE  EInv'
  <2>1. \A r \in Procs \ {q} : job'[r] = job[r]
    BY <1>0, <1>1
  <2>2. UNCHANGED <<user, erased>> /\ stub' = stub
    BY <1>1
  <2>. QED
    BY <1>0, <1>1, <2>1, <2>2, ElsewhereE
<1>2. ASSUME NEW q \in Procs, Fail(q) PROVE EInv'
  <2>1. /\ GoTo(q, "idle") /\ job' = [job EXCEPT ![q] = NoJob]
        /\ UNCHANGED <<user, erased, stub>>
    BY <1>2 DEF Fail, Abandon
  <2>2. "idle" \in Steps \ Committing
    BY DEF Steps, Committing
  <2>. QED
    BY <1>1, <2>1, <2>2
<1>3. ASSUME NEW q \in Procs,
             Begin(q) \/ Stat(q) \/ Open(q) \/ Place(q) \/ Read(q) \/ Push(q)
             \/ Verify(q) \/ Keep(q) \/ PushAnswerLost(q) \/ RemoveFails(q)
             \/ StepFails(q)
      PROVE  EInv'
  <2>1. \/ Fail(q)
        \/ \E step \in Steps \ Committing :
              /\ GoTo(q, step)
              /\ UNCHANGED <<user, erased, stub>>
              /\ \/ UNCHANGED job
                 \/ \E j : job' = [job EXCEPT ![q] = j]
    <3>. DEFINE Elsewhere(step) == /\ GoTo(q, step)
                                  /\ UNCHANGED <<user, erased, stub>>
                                  /\ \/ UNCHANGED job
                                     \/ \E j : job' = [job EXCEPT ![q] = j]
    <3>0. {"idle", "stat", "open", "place", "read", "push", "verify", "keep",
           "check"} \subseteq Steps \ Committing
      BY DEF Steps, Committing
    <3>1. CASE Begin(q)
      <4>1. Elsewhere("stat")
        BY <3>1 DEF Begin
      <4>. QED
        BY <3>0, <4>1
    <3>2. CASE Stat(q)
      <4>1. Fail(q) \/ Elsewhere("open")
        BY <3>2 DEF Stat
      <4>. QED
        BY <3>0, <4>1
    <3>3. CASE Open(q)
      <4>1. Fail(q) \/ Elsewhere("place")
        BY <3>3 DEF Open
      <4>. QED
        BY <3>0, <4>1
    <3>4. CASE Place(q)
      <4>1. Fail(q) \/ Elsewhere("read")
        BY <3>4 DEF Place
      <4>. QED
        BY <3>0, <4>1
    <3>5. CASE Read(q)
      <4>1. Fail(q) \/ Elsewhere("push") \/ Elsewhere("check")
        BY <3>5 DEF Read
      <4>. QED
        BY <3>0, <4>1
    <3>6. CASE Push(q)
      <4>1. Fail(q) \/ Elsewhere("verify")
        BY <3>6 DEF Push
      <4>. QED
        BY <3>0, <4>1
    <3>7. CASE Verify(q)
      <4>1. Fail(q) \/ Elsewhere("keep")
        BY <3>7 DEF Verify
      <4>. QED
        BY <3>0, <4>1
    <3>8. CASE Keep(q)
      <4>1. Fail(q) \/ Elsewhere("push") \/ Elsewhere("read")
        BY <3>8 DEF Keep
      <4>. QED
        BY <3>0, <4>1
    <3>9. CASE PushAnswerLost(q) \/ RemoveFails(q)
      <4>1. Elsewhere("idle")
        BY <3>9 DEF PushAnswerLost, RemoveFails
      <4>. QED
        BY <3>0, <4>1
    <3>10. CASE StepFails(q)
      BY <3>10 DEF StepFails
    <3>. QED
      BY <1>3, <3>1, <3>2, <3>3, <3>4, <3>5, <3>6, <3>7, <3>8, <3>9, <3>10
  <2>. QED
    BY <1>1, <1>2, <2>1
<1>4. ASSUME NEW q \in Procs, Kill(q) PROVE EInv'
  <2>1. CASE pc[q] = "remove"
    <3>1. /\ GoTo(q, "idle") /\ job' = [job EXCEPT ![q] = NoJob]
          /\ UNCHANGED <<user, erased, stub>>
      BY <1>4, <2>1 DEF Kill
    <3>2. "idle" \in Steps \ Committing
      BY DEF Steps, Committing
    <3>. QED
      BY <1>1, <3>1, <3>2
  <2>2. CASE pc[q] # "remove"
    BY <1>2, <1>4, <2>2 DEF Kill
  <2>. QED
    BY <2>1, <2>2
<1>5. ASSUME NEW q \in Procs, Check(q) PROVE EInv'
  <2>1. CASE Unchanged(q)
    <3>1. /\ pc' = [pc EXCEPT ![q] = "publish"]
          /\ UNCHANGED <<path, data, stub, job, erased>>
          /\ data[path] = job[q].ver
      BY <1>5, <2>1 DEF Check, GoTo, user, Unchanged
    <3>2. ASSUME NEW r \in Procs PROVE Unmoved(r)' /\ HasPublished(r)'
      BY <1>0, <3>1 DEF EInv, Unmoved, HasPublished
    <3>. QED
      BY <3>1, <3>2 DEF EInv, ErasedIsPublished
  <2>. QED
    BY <1>2, <1>5, <2>1 DEF Check
<1>6. ASSUME NEW q \in Procs, Publish(q) \/ PublishUnsynced(q) PROVE EInv'
  <2>1. CASE Fail(q)
    BY <1>2, <2>1
  <2>2. CASE ~ Fail(q)
    <3>1. /\ stub = NoStub /\ stub' = Content(q) /\ pc[q] = "publish"
          /\ UNCHANGED <<path, data, clock, erased>>
          /\ \/ GoTo(q, "idle") /\ job' = [job EXCEPT ![q] = NoJob]
             \/ GoTo(q, "remove") /\ UNCHANGED job
      BY <1>6, <2>2 DEF Publish, PublishUnsynced, StubAbsent, user
    <3>2. stub' # NoStub /\ stub'.reads = job[q].reads
      <4>1. stub'.reads = job[q].reads /\ DOMAIN stub' = {"owner", "reads", "place"}
        BY <3>1 DEF Content
      <4>2. DOMAIN NoStub = {"owner"}
        BY DEF NoStub
      <4>. QED
        BY <4>1, <4>2
    <3>3. CASE GoTo(q, "idle") /\ job' = [job EXCEPT ![q] = NoJob]
      BY <1>0, <3>1, <3>2, <3>3, ElsewhereE DEF Steps, Committing, user
    <3>4. CASE GoTo(q, "remove") /\ UNCHANGED job
      <4>1. ASSUME NEW r \in Procs PROVE Unmoved(r)' /\ HasPublished(r)'
        BY <1>0, <3>1, <3>2, <3>4
           DEF EInv, Unmoved, HasPublished, GoTo, Committing
      <4>2. erased = {} /\ erased' = {}
        BY <3>1 DEF EInv, ErasedIsPublished
      <4>. QED
        BY <4>1, <4>2 DEF EInv, ErasedIsPublished
    <3>. QED
      BY <3>1, <3>3, <3>4
  <2>. QED
    BY <2>1, <2>2
<1>7. ASSUME NEW q \in Procs, Remove(q) PROVE EInv'
  <2>1. /\ pc[q] = "remove" /\ path' = 0
        /\ erased' = IF path = 0 THEN erased ELSE erased \cup {data[path]}
        /\ UNCHANGED <<data, stub>>
        /\ pc' = [pc EXCEPT ![q] = "idle"] /\ job' = [job EXCEPT ![q] = NoJob]
    BY <1>7 DEF Remove, GoTo
  <2>2. ASSUME NEW r \in Procs PROVE Unmoved(r)' /\ HasPublished(r)'
    BY <1>0, <2>1 DEF EInv, Unmoved, HasPublished
  <2>3. ASSUME path # 0
        PROVE  stub # NoStub /\ \A k \in 1..Len(stub.reads) : stub.reads[k] = data[path]
    <3>1. stub # NoStub /\ stub.reads = job[q].reads /\ data[path] = job[q].ver
      BY <2>1, <2>3 DEF EInv, Unmoved, HasPublished, Committing
    <3>2. \A k \in 1..Len(job[q].reads) : job[q].reads[k] = job[q].ver
      BY <2>1 DEF Inv2, OneVersion, Committing, Chunk
    <3>. QED
      BY <3>1, <3>2
  <2>4. ErasedIsPublished'
    BY <2>1, <2>3 DEF EInv, ErasedIsPublished
  <2>. QED
    BY <2>2, <2>4 DEF EInv
<1>8. CASE User
  <2>1. /\ \A q \in Procs : pc[q] \notin Committing
        /\ UNCHANGED <<stub, pc, erased>>
    BY <1>8 DEF User, Replace, Edit, Delete, Quiet
  <2>. QED
    BY <2>1 DEF EInv, Unmoved, HasPublished, ErasedIsPublished, Committing
<1>9. CASE Network \/ UNCHANGED vars
  <2>1. UNCHANGED <<path, data, stub, pc, job, erased>>
    BY <1>9 DEF Network, PeerDown, PeerUp, vars, user
  <2>. QED
    BY <2>1 DEF EInv, Unmoved, HasPublished, ErasedIsPublished
<1>. QED
  BY <1>3, <1>4, <1>5, <1>6, <1>7, <1>8, <1>9 DEF Next, Progress, Mishap

(* As long as the user stays away between the last look and the removal,   *)
(* no version is removed from the folder but the one that is in the stub,  *)
(* whichever of several processes on one path removes it (dstore.go:298).  *)
THEOREM ErasedPublished ==
    ASSUME "late" \notin Faults
    PROVE  Spec => []ErasedIsPublished
<1>1. Inv2 /\ [Next]_vars => Inv2'
  BY Step2
<1>2. Inv2 /\ EInv /\ [Next]_vars => EInv'
  BY StepE
<1>3. EInv => ErasedIsPublished
  BY DEF EInv
<1> QED
  BY <1>1, <1>2, <1>3, Init2, InitE, PTL DEF Spec

-----------------------------------------------------------------------------
(* Where the shards are.                                                   *)

Spreading == Before \cup {"remove"}

Spread(place) == \A i, k \in 1..Total : place[i] = place[k] => i = k

(* No two shards of a chunk go to the same peer.                           *)
SInv == /\ \A q \in Procs : pc[q] \in Spreading => Spread(job[q].place)
        /\ stub # NoStub => Spread(stub.place)

(* Round robin over as many peers as shards or more never wraps around.    *)
LEMMA NoWrap ==
    ASSUME MinPeers >= Total, Inv1, NEW o \in Orders(Eligible), Enough(Eligible)
    PROVE  Spread([i \in 1..Total |-> o[1 + ((i - 1) % Cardinality(Eligible))]])
<1>1. Eligible \subseteq Peers
  BY DEF Inv1, Types, Eligible
<1>2. Cardinality(Eligible) \in Nat
  BY <1>1, FS_Subset, FS_CardinalityType
<1>. DEFINE n == Cardinality(Eligible)
<1>3. n \in Nat /\ n >= Total
  BY <1>2 DEF Enough
<1>4. \A i, k \in 1..n : o[i] = o[k] => i = k
  BY DEF Orders
<1>. HIDE DEF n
<1>5. \A i \in 1..Total : (i - 1) % n = i - 1 /\ i \in 1..n
  BY <1>3
<1>6. [i \in 1..Total |-> o[1 + ((i - 1) % n)]] = [i \in 1..Total |-> o[i]]
  BY <1>5
<1>7. Spread([i \in 1..Total |-> o[i]])
  BY <1>4, <1>5 DEF Spread
<1>. QED
  BY <1>6, <1>7 DEF n

(* A step of an attempt that keeps its placement, or publishes it.         *)
LEMMA PlaceKept ==
    ASSUME SInv, NEW q \in Procs,
           \A r \in Procs \ {q} : pc'[r] = pc[r] /\ job'[r] = job[r],
           pc'[q] \in Spreading => pc[q] \in Spreading /\ job'[q].place = job[q].place,
           stub' = stub \/ (pc[q] \in Spreading /\ stub'.place = job[q].place)
    PROVE  SInv'
<1>1. ASSUME NEW r \in Procs, pc'[r] \in Spreading PROVE Spread(job'[r].place)
  <2>1. CASE r = q
    BY <1>1, <2>1 DEF SInv
  <2>2. CASE r # q
    BY <1>1, <2>2 DEF SInv
  <2>. QED
    BY <2>1, <2>2
<1>2. stub' # NoStub => Spread(stub'.place)
  BY DEF SInv
<1>3. \A r \in Procs : pc'[r] \in Spreading => Spread(job'[r].place)
  BY <1>1
<1>. QED
  BY <1>2, <1>3 DEF SInv, Spread

LEMMA InitS == Init => SInv
  BY DEF Init, SInv, Spreading, Before

LEMMA StepS ==
    ASSUME MinPeers >= Total, Inv1, SInv, [Next]_vars
    PROVE  SInv'
<1>0. /\ pc \in [Procs -> Steps] /\ job \in [Procs -> Jobs]
      /\ Types
  BY DEF Inv1, Types
<1>1. ASSUME NEW q \in Procs, Progress(q) \/ Mishap(q)
      PROVE  \A r \in Procs \ {q} : pc'[r] = pc[r] /\ job'[r] = job[r]
  BY <1>0, <1>1, StepsAreLocal DEF LocalTo
<1>2. ASSUME NEW q \in Procs, Progress(q) \/ Mishap(q),
             GoTo(q, "idle") \/ GoTo(q, "stat") \/ GoTo(q, "open") \/ GoTo(q, "place"),
             stub' = stub \/ (pc[q] = "publish" /\ stub' = Content(q))
      PROVE  SInv'
  <2>1. pc'[q] \notin Spreading
    BY <1>0, <1>2 DEF GoTo, Spreading, Before
  <2>2. stub' = stub \/ (pc[q] \in Spreading /\ stub'.place = job[q].place)
    BY <1>2 DEF Spreading, Before, Content
  <2>. QED
    BY <1>1, <1>2, <2>1, <2>2, PlaceKept
<1>3. ASSUME NEW q \in Procs, Progress(q) \/ Mishap(q), Fail(q) PROVE SInv'
  BY <1>2, <1>3 DEF Fail, Abandon
<1>4. ASSUME NEW q \in Procs,
             Begin(q) \/ Stat(q) \/ Open(q) \/ PushAnswerLost(q) \/ RemoveFails(q)
             \/ StepFails(q) \/ Kill(q) \/ PublishUnsynced(q) \/ Remove(q)
      PROVE  SInv'
  <2>1. Progress(q) \/ Mishap(q)
    BY <1>4 DEF Progress, Mishap
  <2>2. CASE Fail(q)
    BY <1>3, <2>1, <2>2
  <2>3. CASE ~ Fail(q)
    <3>1. /\ GoTo(q, "idle") \/ GoTo(q, "stat") \/ GoTo(q, "open") \/ GoTo(q, "place")
          /\ stub' = stub \/ (pc[q] = "publish" /\ stub' = Content(q))
      BY <1>4, <2>3 DEF Begin, Stat, Open, PushAnswerLost, RemoveFails, StepFails,
         Kill, PublishUnsynced, Remove
    <3>. QED
      BY <1>2, <2>1, <3>1
  <2>. QED
    BY <2>2, <2>3
<1>5. ASSUME NEW q \in Procs, Place(q) PROVE SInv'
  <2>1. Progress(q)
    BY <1>5 DEF Progress
  <2>2. CASE Fail(q)
    BY <1>3, <2>1, <2>2
  <2>3. CASE ~ Fail(q)
    <3>1. PICK o \in Orders(Eligible) :
             job' = [job EXCEPT ![q].place =
                [i \in 1..Total |-> o[1 + ((i - 1) % Cardinality(Eligible))]]]
      BY <1>5, <2>3 DEF Place
    <3>. DEFINE f == [i \in 1..Total |-> o[1 + ((i - 1) % Cardinality(Eligible))]]
    <3>2. Enough(Eligible) /\ UNCHANGED stub
      BY <1>5, <2>3 DEF Place
    <3>3. Spread(f)
      BY <3>2, NoWrap
    <3>. HIDE DEF f
    <3>4. job'[q].place = f
      <4>1. job' = [job EXCEPT ![q].place = f]
        BY <3>1 DEF f
      <4>. QED
        BY <1>0, <4>1 DEF Jobs
    <3>5. \A r \in Procs : pc'[r] \in Spreading => Spread(job'[r].place)
      BY <1>1, <2>1, <3>3, <3>4 DEF SInv
    <3>. QED
      BY <3>2, <3>5 DEF SInv, Spread
  <2>. QED
    BY <2>2, <2>3
<1>6. ASSUME NEW q \in Procs,
             Read(q) \/ Push(q) \/ Verify(q) \/ Keep(q) \/ Check(q) \/ Publish(q)
      PROVE  SInv'
  <2>1. Progress(q)
    BY <1>6 DEF Progress
  <2>2. CASE Fail(q)
    BY <1>3, <2>1, <2>2
  <2>3. CASE ~ Fail(q)
    <3>1. pc[q] \in Spreading
      BY <1>6 DEF Read, Push, Verify, Keep, Check, Publish, Spreading, Before
    <3>2. stub' = stub \/ (stub' = Content(q) /\ stub'.place = job[q].place)
      BY <1>6, <2>3 DEF Read, Push, Verify, Keep, Check, Publish, Content
    <3>3. CASE UNCHANGED job
      BY <1>1, <2>1, <3>1, <3>2, <3>3, PlaceKept
    <3>4. CASE Read(q) /\ ~ UNCHANGED job
      <4>. DEFINE v == data[job[q].ino]
      <4>1. job' = [job EXCEPT ![q] = NextChunk(q, v)]
        BY <2>3, <3>4 DEF Read
      <4>2. NextChunk(q, v).place = job[q].place
        BY <1>0 DEF NextChunk, Jobs
      <4>3. job'[q].place = job[q].place
        BY <1>0, <4>1, <4>2
      <4>. QED
        BY <1>1, <2>1, <3>1, <3>2, <4>3, PlaceKept
    <3>5. CASE Keep(q) /\ ~ UNCHANGED job
      <4>1. job' = [job EXCEPT ![q].idx = @ + 1]
        BY <2>3, <3>5 DEF Keep
      <4>2. job'[q].place = job[q].place
        BY <1>0, <4>1 DEF Jobs
      <4>. QED
        BY <1>1, <2>1, <3>1, <3>2, <4>2, PlaceKept
    <3>6. CASE Publish(q) /\ ~ UNCHANGED job
      <4>1. GoTo(q, "idle") /\ pc[q] = "publish"
        BY <2>3, <3>6 DEF Publish
      <4>. QED
        BY <1>2, <2>1, <3>2, <4>1
    <3>. QED
      BY <1>6, <2>3, <3>3, <3>4, <3>5, <3>6 DEF Push, Verify, Check
  <2>. QED
    BY <2>2, <2>3
<1>7. CASE User \/ Network \/ UNCHANGED vars
  <2>1. UNCHANGED <<stub, pc, job>>
    BY <1>7 DEF User, Replace, Edit, Delete, Network, PeerDown, PeerUp, vars
  <2>. QED
    BY <2>1 DEF SInv, Spread
<1>. QED
  BY <1>4, <1>5, <1>6, <1>7 DEF Next, Progress, Mishap

(* One pigeonhole for each peer that is gone.                              *)
LEMMA SpreadSurvives == Inv1 /\ SInv => SurvivesLosses
<1>. SUFFICES ASSUME Inv1, SInv, stub # NoStub,
                     NEW gone \in SUBSET Peers, Cardinality(gone) <= Total - Data
              PROVE  Cardinality({i \in 1..Total : stub.place[i] \notin gone}) >= Data
  BY DEF SurvivesLosses
<1>. DEFINE Lost == {i \in 1..Total : stub.place[i] \in gone}
            Left == {i \in 1..Total : stub.place[i] \notin gone}
<1>1. IsFiniteSet(gone) /\ Cardinality(gone) \in Nat
  BY FS_Subset, FS_CardinalityType
<1>2. IsFiniteSet(1..Total) /\ Cardinality(1..Total) = Total
  BY FS_Interval
<1>3. IsFiniteSet(Lost) /\ Cardinality(Lost) \in Nat
  BY <1>2, FS_Subset, FS_CardinalityType
<1>4. Cardinality(Lost) <= Cardinality(gone)
  <2>. DEFINE f == [i \in Lost |-> stub.place[i]]
  <2>. SUFFICES ASSUME Cardinality(gone) < Cardinality(Lost) PROVE FALSE
    BY <1>1, <1>3
  <2>1. f \in [Lost -> gone]
    OBVIOUS
  <2>2. \E i, k \in Lost : i # k /\ f[i] = f[k]
    <3>. HIDE DEF Lost, f
    <3>. QED
      BY <1>1, <1>3, <2>1, FS_PigeonHole
  <2>3. PICK i, k \in Lost : i # k /\ stub.place[i] = stub.place[k]
    BY <2>2
  <2>. QED
    BY <2>3 DEF SInv, Spread
<1>5. Cardinality(Left) = Total - Cardinality(Lost)
  <2>1. Left = (1..Total) \ Lost /\ (1..Total) \cap Lost = Lost
    OBVIOUS
  <2>. HIDE DEF Lost, Left
  <2>. QED
    BY <1>2, <2>1, FS_Difference
<1>. HIDE DEF Lost
<1>. QED
  BY <1>1, <1>3, <1>4, <1>5

(* Where as many peers as shards are required, a published file outlives   *)
(* the loss of any Total - Data peers, whatever happened while it was      *)
(* uploaded (dstore.go:408).                                               *)
THEOREM LossesSurvived ==
    ASSUME MinPeers >= Total
    PROVE  Spec => []SurvivesLosses
<1>1. Inv1 /\ [Next]_vars => Inv1'
  BY Step1
<1>2. Inv1 /\ SInv /\ [Next]_vars => SInv'
  BY StepS
<1>3. Inv1 /\ SInv => SurvivesLosses
  BY SpreadSurvives
<1>. QED
  BY <1>1, <1>2, <1>3, Init1, InitS, PTL DEF Spec

-----------------------------------------------------------------------------
(* The backup of the path.                                                 *)

(* Steps of an attempt that show neither in the folder nor in the stub.    *)
Inner(q) == /\ UNCHANGED <<path, data, clock, stub, erased>>
            /\ pc'[q] \notin Committing
            /\ \A r \in Procs \ {q} : pc'[r] = pc[r]

(* The last look, the publication and the removal do.                      *)
Looks(q) == /\ Unchanged(q)
            /\ UNCHANGED <<path, data, clock, stub, erased>>
            /\ pc' = [pc EXCEPT ![q] = "publish"]

Publishes(q) == /\ pc[q] = "publish"
                /\ stub = NoStub
                /\ stub' = Content(q)
                /\ UNCHANGED <<path, data, clock, erased>>
                /\ \/ pc' = [pc EXCEPT ![q] = "idle"]
                   \/ pc' = [pc EXCEPT ![q] = "remove"] /\ ~ KeepOriginal

LEMMA KindsOfSteps ==
    ASSUME Types, NEW q \in Procs, Progress(q) \/ Mishap(q)
    PROVE  Inner(q) \/ Looks(q) \/ Publishes(q) \/ Remove(q)
<1>. USE DEF Types, GoTo, user, Committing
<1>1. ASSUME Fail(q) PROVE Inner(q)
  BY <1>1 DEF Fail, Abandon, Inner
<1>2. ASSUME Begin(q) \/ Stat(q) \/ Open(q) \/ Place(q) \/ Read(q)
             \/ Push(q) \/ Verify(q) \/ Keep(q)
      PROVE  Inner(q)
  <2>1. ASSUME ~ Fail(q) PROVE Inner(q)
    BY <1>2, <2>1 DEF Begin, Stat, Open, Place, Read, Push, Verify, Keep, Inner
  <2>. QED
    BY <1>1, <2>1
<1>3. ASSUME Check(q) PROVE Inner(q) \/ Looks(q)
  BY <1>1, <1>3 DEF Check, Looks
<1>4. ASSUME Publish(q) \/ PublishUnsynced(q) PROVE Inner(q) \/ Publishes(q)
  BY <1>1, <1>4 DEF Publish, PublishUnsynced, StubAbsent, Publishes
<1>5. ASSUME PushAnswerLost(q) \/ RemoveFails(q) \/ StepFails(q) \/ Kill(q)
      PROVE  Inner(q)
  <2>1. ASSUME ~ Fail(q) PROVE Inner(q)
    BY <1>5, <2>1 DEF PushAnswerLost, RemoveFails, StepFails, Kill, Inner
  <2>. QED
    BY <1>1, <2>1
<1>. QED
  BY <1>2, <1>3, <1>4, <1>5 DEF Progress, Mishap

(* A file that is about to be stored is there, and none is removed that is *)
(* to be kept.                                                             *)
Present == \A q \in Procs : /\ pc[q] = "publish" /\ stub = NoStub => path # 0
                            /\ pc[q] = "remove" => ~ KeepOriginal

LEMMA ContentIsStub ==
    ASSUME NEW q \in Procs
    PROVE  Content(q) # NoStub /\ Content(q).reads = job[q].reads
<1>1. DOMAIN Content(q) = {"owner", "reads", "place"} /\ DOMAIN NoStub = {"owner"}
  BY DEF Content, NoStub
<1>. QED
  BY <1>1 DEF Content

LEMMA StepP ==
    ASSUME "late" \notin Faults, Inv2, EInv, Present, [Next]_vars
    PROVE  Present'
<1>0. Types /\ pc \in [Procs -> Steps]
  BY DEF Inv2, Inv1, Types
<1>1. ASSUME NEW q \in Procs, Inner(q) PROVE Present'
  <2>1. ASSUME NEW r \in Procs, pc'[r] \in Committing PROVE pc'[r] = pc[r]
    BY <1>1, <2>1 DEF Inner
  <2>. QED
    BY <1>1, <2>1 DEF Inner, Present, Committing
<1>2. ASSUME NEW q \in Procs, Looks(q) PROVE Present'
  BY <1>0, <1>2 DEF Looks, Present, Unchanged
<1>3. ASSUME NEW q \in Procs, Publishes(q) PROVE Present'
  <2>1. stub' # NoStub
    BY <1>3, ContentIsStub DEF Publishes
  <2>. QED
    BY <1>0, <1>3, <2>1 DEF Publishes, Present
<1>4. ASSUME NEW q \in Procs, Remove(q) PROVE Present'
  <2>1. stub # NoStub /\ stub' = stub
    BY <1>4 DEF Remove, EInv, HasPublished
  <2>. QED
    BY <1>0, <1>4, <2>1 DEF Remove, GoTo, Present
<1>5. CASE User
  BY <1>5 DEF User, Replace, Edit, Delete, Quiet, Present, Committing
<1>6. CASE Network \/ UNCHANGED vars
  BY <1>6 DEF Network, PeerDown, PeerUp, vars, user, Present
<1>. QED
  BY <1>0, <1>1, <1>2, <1>3, <1>4, <1>5, <1>6, KindsOfSteps DEF Next

(* Because the shards behind a stub are stored, and spread where losses    *)
(* are tolerated, what can be restored is what its chunks were read from.  *)
CopyIsStub == Copy = IF stub = NoStub THEN 0 ELSE stub.reads[1]

LEMMA StubRestorable ==
    ASSUME Inv2, MinPeers >= Total => SInv
    PROVE  CopyIsStub
<1>1. CASE stub = NoStub
  BY <1>1 DEF CopyIsStub, Copy, Restorable
<1>2. CASE stub # NoStub
  <2>1. PICK v \in Versions : /\ Len(stub.reads) = Length[v]
                              /\ \A k \in 1..Len(stub.reads) : stub.reads[k] = v
    BY <1>2 DEF Inv2, StubIsOneVersion
  <2>2. ASSUME NEW w \in Versions, Restorable(w) PROVE stub.reads[1] = w
    <3>1. 1 \in 1..Length[w]
      BY DEF Versions
    <3>. QED
      BY <2>2, <3>1 DEF Restorable
  <2>3. stub.reads[1] = v
    <3>1. 1 \in 1..Len(stub.reads)
      BY <2>1 DEF Versions
    <3>. QED
      BY <2>1, <3>1
  <2>4. ASSUME NEW k \in 1..Length[v], NEW gone \in SUBSET Peers,
               Cardinality(gone) <= Tolerated
        PROVE  Data <= Cardinality({i \in 1..Total :
                          /\ stub.place[i] \notin gone
                          /\ <<stub.owner, k, i>> \in held[stub.place[i]]})
    <3>1. {i \in 1..Total : /\ stub.place[i] \notin gone
                            /\ <<stub.owner, k, i>> \in held[stub.place[i]]}
          = {i \in 1..Total : stub.place[i] \notin gone}
      BY <1>2, <2>1 DEF Inv2, StubIsStored
    <3>2. CASE MinPeers >= Total
      BY <1>2, <2>4, <3>1, <3>2, SpreadSurvives DEF Inv2, SurvivesLosses, Tolerated
    <3>3. CASE ~ (MinPeers >= Total)
      <4>1. IsFiniteSet(gone) /\ Cardinality(gone) = 0
        BY <2>4, <3>3, FS_Subset, FS_CardinalityType DEF Tolerated
      <4>2. gone = {}
        BY <4>1, FS_EmptySet
      <4>3. {i \in 1..Total : stub.place[i] \notin gone} = 1..Total
        BY <4>2
      <4>4. Cardinality(1..Total) = Total /\ Data <= Total
        BY FS_Interval
      <4>5. {i \in 1..Total : /\ stub.place[i] \notin gone
                              /\ <<stub.owner, k, i>> \in held[stub.place[i]]} = 1..Total
        BY <3>1, <4>3
      <4>. QED
        BY <4>4, <4>5
    <3>. QED
      BY <3>2, <3>3
  <2>5. Restorable(v)
    BY <1>2, <2>1, <2>4 DEF Restorable
  <2>. QED
    BY <1>2, <2>2, <2>3, <2>5 DEF CopyIsStub, Copy
<1>. QED
  BY <1>1, <1>2

LEMMA BackupInit ==
    ASSUME Init, CopyIsStub
    PROVE  Promise!Init
  BY DEF Init, CopyIsStub, Promise!Init, File

LEMMA BackupStep ==
    ASSUME "late" \notin Faults, Inv2, EInv, Present, CopyIsStub, CopyIsStub',
           [Next]_vars
    PROVE  [Promise!Next]_(Promise!vars)
<1>0. Types /\ FilesOK
  BY DEF Inv2, Inv1
<1>1. ASSUME UNCHANGED <<path, data, clock, stub, erased>>
      PROVE  UNCHANGED Promise!vars
  BY <1>1 DEF Promise!vars, File, CopyIsStub
<1>2. ASSUME NEW q \in Procs, Publishes(q) PROVE Promise!Store
  <2>1. File = job[q].ver /\ File # 0
    BY <1>0, <1>2 DEF Publishes, EInv, Unmoved, Present, File, FilesOK, Committing
  <2>2. Copy = 0
    BY <1>2 DEF Publishes, CopyIsStub
  <2>3. Copy' = job[q].reads[1]
    BY <1>2, ContentIsStub DEF Publishes, CopyIsStub
  <2>4. job[q].reads[1] = job[q].ver
    <3>1. Chunk(q) = Length[job[q].ver] /\ \A k \in 1..Chunk(q) : job[q].reads[k] = job[q].ver
      BY <1>2 DEF Publishes, Inv2, OneVersion, Committing
    <3>2. job[q].ver \in Versions
      BY <1>2 DEF Publishes, Inv2, Inv1, ReadsOK
    <3>3. 1 \in 1..Chunk(q)
      BY <3>1, <3>2
    <3>. QED
      BY <3>1, <3>3
  <2>. QED
    BY <1>2, <2>1, <2>2, <2>3, <2>4 DEF Publishes, Promise!Store, File
<1>3. ASSUME NEW q \in Procs, Remove(q)
      PROVE  Promise!Reclaim \/ UNCHANGED Promise!vars
  <2>1. CASE path = 0
    BY <1>1, <1>3, <2>1 DEF Remove
  <2>2. CASE path # 0
    <3>1. File = job[q].ver /\ File # 0 /\ File' = 0
      BY <1>0, <1>3, <2>2 DEF Remove, EInv, Unmoved, File, FilesOK, Committing
    <3>2. stub # NoStub /\ stub.reads = job[q].reads /\ stub' = stub
      BY <1>3 DEF Remove, EInv, HasPublished
    <3>3. job[q].reads[1] = job[q].ver
      <4>1. Chunk(q) = Length[job[q].ver] /\ \A k \in 1..Chunk(q) : job[q].reads[k] = job[q].ver
        BY <1>3 DEF Remove, Inv2, OneVersion, Committing
      <4>2. job[q].ver \in Versions
        BY <1>3 DEF Remove, Inv2, Inv1, ReadsOK
      <4>3. 1 \in 1..Chunk(q)
        BY <4>1, <4>2
      <4>. QED
        BY <4>1, <4>3
    <3>4. Copy = File /\ Copy' = Copy
      BY <3>1, <3>2, <3>3 DEF CopyIsStub
    <3>5. erased' = erased \cup {File} /\ clock' = clock /\ ~ KeepOriginal
      BY <1>3, <2>2 DEF Remove, File, Present
    <3>. QED
      BY <3>1, <3>4, <3>5 DEF Promise!Reclaim
  <2>. QED
    BY <2>1, <2>2
<1>4. CASE User
  <2>1. Copy' = Copy /\ erased' = erased
    BY <1>4 DEF User, Replace, Edit, Delete, CopyIsStub
  <2>2. clock \in Nat /\ data \in [Versions -> 0..MaxVersion] /\ path \in 0..MaxVersion
    BY <1>0 DEF Types
  <2>3. CASE Replace
    <3>1. clock + 1 \in Versions
      BY <2>2, <2>3 DEF Replace, Versions
    <3>. QED
      BY <2>1, <2>2, <2>3, <3>1 DEF Replace, File, Promise!Next, Promise!Write
  <2>4. CASE Edit
    <3>1. path \in Versions
      BY <2>2, <2>4 DEF Edit, Versions
    <3>. QED
      BY <2>1, <2>2, <2>4, <3>1 DEF Edit, File, Promise!Next, Promise!Write
  <2>5. CASE Delete
    BY <1>0, <2>1, <2>5 DEF Delete, File, FilesOK, Promise!Next, Promise!Delete
  <2>. QED
    BY <1>4, <2>3, <2>4, <2>5 DEF User
<1>5. CASE Network \/ UNCHANGED vars
  BY <1>1, <1>5 DEF Network, PeerDown, PeerUp, vars, user
<1>6. ASSUME NEW q \in Procs, Inner(q) \/ Looks(q) PROVE UNCHANGED Promise!vars
  BY <1>1, <1>6 DEF Inner, Looks
<1>. QED
  BY <1>0, <1>2, <1>3, <1>4, <1>5, <1>6, KindsOfSteps DEF Next, Promise!Next

(* Uploads implement the backup of a path: with any number of processes,   *)
(* whatever fails, dies or answers late, what is stored is what the file   *)
(* was, it stays restorable without the local copies and after the losses  *)
(* that are tolerated, and nothing else is taken from the folder.  The     *)
(* hypothesis is what the code cannot ensure: the user does not change the *)
(* file between the last look and the removal.                             *)
THEOREM BackupKept ==
    ASSUME "late" \notin Faults
    PROVE  Spec => ImplementsBackup
<1>1. Inv2 /\ [Next]_vars => Inv2'
  BY Step2
<1>2. Inv2 /\ EInv /\ [Next]_vars => EInv'
  BY StepE
<1>3. Inv2 /\ EInv /\ Present /\ [Next]_vars => Present'
  BY StepP
<1>4. Inv2 /\ (MinPeers >= Total => SInv) /\ [Next]_vars => (MinPeers >= Total => SInv)'
  BY StepS DEF Inv2
<1>5. Inv2 /\ (MinPeers >= Total => SInv) => CopyIsStub
  BY StubRestorable
<1>6. Init => Present /\ (MinPeers >= Total => SInv)
  BY InitS DEF Init, Present
<1>7. Init /\ CopyIsStub => Promise!Init
  BY BackupInit
<1>8. Inv2 /\ EInv /\ Present /\ CopyIsStub /\ CopyIsStub' /\ [Next]_vars
        => [Promise!Next]_(Promise!vars)
  BY BackupStep
<1>. QED
  BY <1>1, <1>2, <1>3, <1>4, <1>5, <1>6, <1>7, <1>8, Init2, InitE, PTL
  DEF Spec, ImplementsBackup, Promise!Spec

-----------------------------------------------------------------------------
(* What is counted.                                                        *)

(* An attempt has stored finitely many shards anywhere.                    *)
LEMMA OwnCounted ==
    ASSUME NEW q \in Procs, NEW S
    PROVE  Cardinality(S \cap Own(q)) \in Nat
<1>. DEFINE Pairs == (1..MaxFileLength) \X (1..Total)
            name == [p \in Pairs |-> <<q, p[1], p[2]>>]
<1>1. IsFiniteSet(Pairs)
  <2>1. IsFiniteSet(1..MaxFileLength) /\ IsFiniteSet(1..Total)
    BY FS_Interval
  <2>. QED
    BY <2>1, FS_Product
<1>2. name \in Surjection(Pairs, Own(q))
  <2>1. name \in [Pairs -> Own(q)]
    BY DEF Own
  <2>2. ASSUME NEW s \in Own(q) PROVE \E p \in Pairs : name[p] = s
    <3>1. PICK k \in 1..MaxFileLength, i \in 1..Total : s = <<q, k, i>>
      BY DEF Own
    <3>2. <<k, i>> \in Pairs /\ name[<<k, i>>] = s
      BY <3>1
    <3>. QED
      BY <3>2
  <2>. HIDE DEF name, Pairs
  <2>. QED
    BY <2>1, <2>2 DEF Surjection
<1>3. IsFiniteSet(Own(q))
  <2>. HIDE DEF name, Pairs
  <2>. QED
    BY <1>1, <1>2, FS_Surjection
<1>4. IsFiniteSet(S \cap Own(q))
  BY <1>3, FS_Subset
<1>. QED
  BY <1>4, FS_CardinalityType

LEMMA StepJ ==
    ASSUME junk \in [Places -> Nat], Next
    PROVE  junk' \in [Places -> Nat]
<1>1. ASSUME NEW q \in Procs, Fail(q) PROVE junk' \in [Places -> Nat]
  <2>1. junk' = [p \in Places |-> IF Capacity[p] = 0 THEN 0
                                  ELSE junk[p] + Cardinality(held[p] \cap Own(q))]
    BY <1>1 DEF Fail, Abandon
  <2>2. \A p \in Places : Cardinality(held[p] \cap Own(q)) \in Nat
    BY OwnCounted
  <2>. QED
    BY <2>1, <2>2
<1>2. ASSUME NEW q \in Procs, PushAnswerLost(q) PROVE junk' \in [Places -> Nat]
  <2>1. junk' = [p \in Places |->
                   IF Capacity[p] = 0 THEN 0
                   ELSE junk[p] + Cardinality(held[p] \cap Own(q))
                                + (IF p = Target(q) THEN 1 ELSE 0)]
    BY <1>2 DEF PushAnswerLost
  <2>2. \A p \in Places : Cardinality(held[p] \cap Own(q)) \in Nat
    BY OwnCounted
  <2>. QED
    BY <2>1, <2>2
<1>3. ASSUME NEW q \in Procs, Progress(q) \/ Mishap(q)
      PROVE  UNCHANGED junk \/ Fail(q) \/ PushAnswerLost(q)
  BY <1>3 DEF Progress, Mishap, Begin, Stat, Open, Place, Read, Push, Verify, Keep,
     Check, Publish, Remove, PublishUnsynced, RemoveFails, StepFails, Kill
<1>4. User \/ Network => UNCHANGED junk
  BY DEF User, Replace, Edit, Delete, Network, PeerDown, PeerUp
<1>. QED
  BY <1>1, <1>2, <1>3, <1>4 DEF Next

(* Every variable holds a value of its type, the counts of junk included:  *)
(* an attempt leaves finitely many shards behind wherever it fails.        *)
THEOREM TypesHold == Spec => []TypeOK
<1>1. Init => junk \in [Places -> Nat]
  BY DEF Init
<1>2. junk \in [Places -> Nat] /\ [Next]_vars => (junk \in [Places -> Nat])'
  BY StepJ DEF vars
<1>3. Types /\ junk \in [Places -> Nat] => TypeOK
  BY DEF TypeOK
<1>. QED
  BY <1>1, <1>2, <1>3, TypesCorrect, PTL DEF Spec
=============================================================================
