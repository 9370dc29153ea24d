---------------------------- MODULE RestoreProofs ----------------------------
(***************************************************************************)
(* Proofs about Restore, for all sizes of files, layouts and placements,   *)
(* and any number of processes.                                            *)
(***************************************************************************)
EXTENDS Restore, FiniteSetTheorems, TLAPS

(* The first n chunks of the file.                                         *)
Prefix(s, n) == s \in Seq(1..Chunks) /\ Len(s) = n /\ \A k \in 1..n : s[k] = k

(* The temporary file holds the chunks before the one being fetched, and   *)
(* all of them when it is published.                                       *)
TempOK == \A q \in Procs :
    /\ \E n \in 0..Chunks : Prefix(temp[q], n)
    /\ pc[q] # "publish" => Len(temp[q]) < Chunks
    /\ pc[q] = "publish" => Len(temp[q]) = Chunks

(* What can be relied on is so.                                            *)
WorldOK == \A p \in Peers \ flaky : answer[p] = "whole"

(* Of the shards asked for, those that can be relied on were had.          *)
GotOK == \A q \in Procs : \A i \in Steady(Chunk(q)) :
    /\ pc[q] = "fetch" /\ i < idx[q] => i \in got[q]
    /\ pc[q] = "decode" => i \in got[q]

(* A restore begins with the first shard.                                  *)
IdleOK == \A q \in Procs : pc[q] = "idle" => idx[q] = 1

IInv == /\ TypeOK /\ TempOK /\ WorldOK /\ GotOK /\ IdleOK
        /\ OutputIsOriginal /\ EnoughShardsSuffice

-----------------------------------------------------------------------------
LEMMA PrefixEmpty == Prefix(<<>>, 0)
  BY DEF Prefix

LEMMA PrefixAppend ==
    ASSUME NEW s, NEW n \in 0..Chunks, n < Chunks, Prefix(s, n)
    PROVE  Prefix(Append(s, n + 1), n + 1)
  BY RestoreAssumption DEF Prefix

LEMMA PrefixAll ==
    ASSUME NEW s, Prefix(s, Chunks) PROVE s = Original
  BY RestoreAssumption DEF Prefix, Original

(* Enough shards are at hand when all that can be relied on are.           *)
LEMMA SteadySuffice ==
    ASSUME NEW S, NEW G, G \subseteq 1..Total, S \subseteq G,
           Cardinality(S) >= Data
    PROVE  Cardinality(G) >= Data
<1>1. IsFiniteSet(1..Total)
  BY FS_Interval, RestoreAssumption
<1>2. IsFiniteSet(G)
  BY <1>1, FS_Subset
<1>3. /\ IsFiniteSet(S) /\ Cardinality(S) <= Cardinality(G)
  BY <1>2, FS_Subset
<1>4. Cardinality(S) \in Nat /\ Cardinality(G) \in Nat
  BY <1>2, <1>3, FS_CardinalityType
<1> QED BY <1>3, <1>4, RestoreAssumption

(* What can be relied on does not change.                                  *)
LEMMA RecoverableStays ==
    ASSUME UNCHANGED world PROVE Recoverable' = Recoverable
<1>1. \A k : Steady(k)' = Steady(k)
  BY DEF Steady, world
<1> QED BY <1>1 DEF Recoverable

(* The end of a restore leaves a clean slate behind.                       *)
LEMMA EndStep ==
    ASSUME IInv, NEW q \in Procs,
           NEW how \in {"none", "ok", "exists", "missing", "failed"},
           End(q, how), UNCHANGED <<world, answer>>,
           output' \in {Absent, Foreign, Original},
           how = "missing" => ~ Recoverable
    PROVE  IInv'
<1>1. TypeOK'
  <2>1. <<>> \in Seq(1..Chunks) /\ 1 \in 1..Total /\ Original \in Seq(1..Chunks)
    BY RestoreAssumption DEF Original
  <2> QED BY <2>1 DEF IInv, TypeOK, End, GoTo, world
<1>2. TempOK'
  <2> SUFFICES ASSUME NEW r \in Procs
               PROVE  /\ \E n \in 0..Chunks : Prefix(temp'[r], n)
                      /\ pc'[r] # "publish" => Len(temp'[r]) < Chunks
                      /\ pc'[r] = "publish" => Len(temp'[r]) = Chunks
    BY DEF TempOK, Prefix
  <2>1. CASE r = q
    <3>1. temp'[r] = <<>> /\ pc'[r] = "idle"
      BY <2>1 DEF IInv, TypeOK, End, GoTo
    <3> QED BY <3>1, PrefixEmpty, RestoreAssumption
  <2>2. CASE r # q
    BY <2>2 DEF IInv, TypeOK, TempOK, End, GoTo
  <2> QED BY <2>1, <2>2
<1>3. WorldOK'
  BY DEF IInv, WorldOK, Steady, world
<1>4. GotOK' /\ IdleOK'
  BY DEF IInv, TypeOK, GotOK, IdleOK, Steady, Chunk, End, GoTo, world
<1>5. OutputIsOriginal' /\ EnoughShardsSuffice'
  BY RecoverableStays
     DEF IInv, TypeOK, OutputIsOriginal, EnoughShardsSuffice, End
<1> QED BY <1>1, <1>2, <1>3, <1>4, <1>5 DEF IInv

LEMMA InitInv == Init => IInv
<1> SUFFICES ASSUME Init PROVE IInv
  OBVIOUS
<1>1. TypeOK
  BY RestoreAssumption DEF Init, TypeOK
<1>2. TempOK
  BY PrefixEmpty, RestoreAssumption DEF Init, TempOK
<1>3. WorldOK /\ GotOK /\ IdleOK /\ OutputIsOriginal /\ EnoughShardsSuffice
  BY DEF Init, WorldOK, GotOK, IdleOK, OutputIsOriginal, EnoughShardsSuffice
<1> QED BY <1>1, <1>2, <1>3 DEF IInv

(* Asking for a shard: one that can be relied on is had.                   *)
LEMMA FetchStep == ASSUME IInv, NEW q \in Procs, Fetch(q) PROVE IInv'
<1>1. TypeOK'
  <2>1. got' \in [Procs -> SUBSET (1..Total)]
    BY DEF IInv, TypeOK, Fetch
  <2>2. idx[q] < Total => idx[q] + 1 \in 1..Total
    BY RestoreAssumption DEF IInv, TypeOK
  <2>3. idx' \in [Procs -> 1..Total]
    BY <2>2 DEF IInv, TypeOK, Fetch
  <2>4. pc' \in [Procs -> {"idle", "fetch", "decode", "publish"}]
    BY DEF IInv, TypeOK, Fetch, GoTo
  <2> QED BY <2>1, <2>3, <2>4 DEF IInv, TypeOK, Fetch, world
<1>2. TempOK'
  BY DEF IInv, TypeOK, TempOK, Fetch, GoTo
<1>3. WorldOK'
  BY DEF IInv, WorldOK, Steady, Fetch, world
<1>4. GotOK'
  <2>1. idx[q] \in Steady(Chunk(q)) => Fetched(q, idx[q])
    <3> SUFFICES ASSUME idx[q] \in Steady(Chunk(q)) PROVE Fetched(q, idx[q])
      OBVIOUS
    <3>1. Place[idx[q]] \in Peers
      BY RestoreAssumption DEF IInv, TypeOK
    <3> QED BY <3>1 DEF Steady, Fetched, IInv, WorldOK
  <2>2. \A k : Steady(k)' = Steady(k)
    BY DEF Steady, Fetch, world
  <2>3. \A r \in Procs : Chunk(r)' = Chunk(r)
    BY DEF Chunk, Fetch
  <2> SUFFICES ASSUME NEW r \in Procs, NEW i \in Steady(Chunk(r))
               PROVE  /\ pc'[r] = "fetch" /\ i < idx'[r] => i \in got'[r]
                      /\ pc'[r] = "decode" => i \in got'[r]
    BY <2>2, <2>3 DEF GotOK
  <2>4. CASE r # q
    BY <2>4 DEF IInv, TypeOK, GotOK, Fetch, GoTo
  <2>5. CASE r = q
    <3>1. i \in 1..Total /\ idx[q] \in 1..Total
      BY DEF Steady, IInv, TypeOK
    <3>2. i < idx[q] => i \in got[q]
      BY <2>5 DEF IInv, GotOK, Fetch
    <3>3. got[q] \subseteq got'[q] /\ (Fetched(q, idx[q]) => idx[q] \in got'[q])
      BY DEF Fetch, IInv, TypeOK
    <3>4. i <= idx[q] => i \in got'[q]
      BY <2>1, <2>5, <3>1, <3>2, <3>3
    <3>5. pc'[q] = "fetch" => idx'[q] = idx[q] + 1
      BY DEF Fetch, GoTo, IInv, TypeOK
    <3>6. pc'[q] = "decode" => idx[q] = Total
      BY <3>1, RestoreAssumption DEF Fetch, GoTo, IInv, TypeOK
    <3> QED BY <2>5, <3>1, <3>4, <3>5, <3>6, RestoreAssumption
  <2> QED BY <2>4, <2>5
<1>5. OutputIsOriginal' /\ EnoughShardsSuffice'
  BY RecoverableStays
     DEF IInv, OutputIsOriginal, EnoughShardsSuffice, Fetch
<1>6. IdleOK'
  BY DEF IInv, TypeOK, IdleOK, Fetch, GoTo
<1> QED BY <1>1, <1>2, <1>3, <1>4, <1>5, <1>6 DEF IInv

(* Writing a chunk.                                                        *)
LEMMA WriteStep ==
    ASSUME IInv, NEW q \in Procs, pc[q] = "decode", DecodeChunk(q),
           UNCHANGED <<world, answer, output>>
    PROVE  IInv'
<1>1. PICK n \in 0..Chunks : Prefix(temp[q], n) /\ n < Chunks /\ n = Len(temp[q])
  BY DEF IInv, TempOK, Prefix
<1>2. Chunk(q) = n + 1 /\ temp'[q] = Append(temp[q], n + 1)
  BY <1>1 DEF Chunk, DecodeChunk, Written, IInv, TypeOK
<1>3. Prefix(temp'[q], n + 1) /\ n + 1 \in 0..Chunks
  BY <1>1, <1>2, PrefixAppend, RestoreAssumption
<1>4. temp'[q] \in Seq(1..Chunks) /\ Len(temp'[q]) = n + 1
  BY <1>3 DEF Prefix
<1>5. pc'[q] = (IF n + 1 < Chunks THEN "fetch" ELSE "publish")
  BY <1>2 DEF DecodeChunk, GoTo, IInv, TypeOK
<1>6. \A r \in Procs : r # q => /\ pc'[r] = pc[r] /\ temp'[r] = temp[r]
                                /\ idx'[r] = idx[r] /\ got'[r] = got[r]
  BY DEF DecodeChunk, Written, GoTo, IInv, TypeOK
<1>7. TypeOK'
  <2>1. temp' \in [Procs -> Seq(1..Chunks)]
    BY <1>4 DEF DecodeChunk, Written, IInv, TypeOK
  <2>2. 1 \in 1..Total
    BY RestoreAssumption
  <2>3. /\ idx' \in [Procs -> 1..Total]
        /\ got' \in [Procs -> SUBSET (1..Total)]
    BY <2>2 DEF DecodeChunk, IInv, TypeOK
  <2>4. pc' \in [Procs -> {"idle", "fetch", "decode", "publish"}]
    BY DEF DecodeChunk, GoTo, IInv, TypeOK
  <2> QED BY <2>1, <2>3, <2>4 DEF DecodeChunk, IInv, TypeOK, world
<1>8. TempOK'
  <2> SUFFICES ASSUME NEW r \in Procs
               PROVE  /\ \E m \in 0..Chunks : Prefix(temp'[r], m)
                      /\ pc'[r] # "publish" => Len(temp'[r]) < Chunks
                      /\ pc'[r] = "publish" => Len(temp'[r]) = Chunks
    BY DEF TempOK, Prefix
  <2>1. CASE r = q
    BY <2>1, <1>1, <1>3, <1>4, <1>5, RestoreAssumption
  <2>2. CASE r # q
    BY <2>2, <1>6 DEF IInv, TempOK
  <2> QED BY <2>1, <2>2
<1>9. WorldOK'
  BY DEF IInv, WorldOK, Steady, world
<1>10. GotOK'
  <2>1. \A k : Steady(k)' = Steady(k) /\ Steady(k) \subseteq 1..Total
    BY DEF Steady, world
  <2> SUFFICES ASSUME NEW r \in Procs, NEW i \in Steady(Len(temp'[r]) + 1)
               PROVE  /\ pc'[r] = "fetch" /\ i < idx'[r] => i \in got'[r]
                      /\ pc'[r] = "decode" => i \in got'[r]
    BY <2>1 DEF GotOK, Chunk
  <2>2. CASE r # q
    BY <2>2, <1>6 DEF IInv, GotOK, Chunk
  <2>3. CASE r = q
    <3>1. idx'[q] = 1 /\ pc'[q] # "decode" /\ i \in 1..Total
      BY <2>1, <1>5 DEF DecodeChunk, IInv, TypeOK
    <3> QED BY <2>3, <3>1, RestoreAssumption
  <2> QED BY <2>2, <2>3
<1>11. OutputIsOriginal' /\ EnoughShardsSuffice'
  BY RecoverableStays
     DEF IInv, OutputIsOriginal, EnoughShardsSuffice, DecodeChunk
<1>12. IdleOK'
  BY DEF IInv, TypeOK, IdleOK, DecodeChunk, GoTo
<1> QED BY <1>7, <1>8, <1>9, <1>10, <1>11, <1>12 DEF IInv

LEMMA DecodeStep == ASSUME IInv, NEW q \in Procs, Decode(q) PROVE IInv'
<1>1. CASE Enough(q)
  BY <1>1, WriteStep DEF Decode
<1>2. CASE ~ Enough(q)
  <2>1. ~ Recoverable
    <3> SUFFICES ASSUME Recoverable PROVE Enough(q)
      BY <1>2
    <3>1. Chunk(q) \in 1..Chunks
      <4>1. Len(temp[q]) < Chunks
        BY DEF Decode, IInv, TempOK
      <4>2. Len(temp[q]) \in Nat
        BY DEF IInv, TypeOK
      <4> QED BY <4>1, <4>2, RestoreAssumption DEF Chunk
    <3>2. Cardinality(Steady(Chunk(q))) >= Data
      BY <3>1 DEF Recoverable
    <3>3. Steady(Chunk(q)) \subseteq got[q] /\ got[q] \subseteq 1..Total
      BY DEF Decode, IInv, TypeOK, GotOK
    <3> QED BY <3>2, <3>3, SteadySuffice DEF Enough
  <2> QED BY <1>2, <2>1, EndStep DEF Decode, IInv, OutputIsOriginal
<1> QED BY <1>1, <1>2

LEMMA PublishStep ==
    ASSUME IInv, NEW q \in Procs, Publish(q) \/ Fail(q) \/ Kill(q) PROVE IInv'
<1>1. pc[q] = "publish" => temp[q] = Original
  BY PrefixAll DEF IInv, TempOK, Prefix
<1>2. output \in {Absent, Foreign, Original}
  BY DEF IInv, OutputIsOriginal
<1>3. CASE Publish(q)
  BY <1>1, <1>2, <1>3, EndStep DEF Publish
<1>4. CASE Fail(q)
  BY <1>1, <1>2, <1>4, EndStep DEF Fail
<1>5. CASE Kill(q)
  BY <1>2, <1>5, EndStep DEF Kill
<1> QED BY <1>3, <1>4, <1>5

LEMMA WorldStep ==
    ASSUME IInv,
           (\E p \in Peers : Misbehave(p)) \/ Create \/ Remove \/ UNCHANGED vars
    PROVE  IInv'
<1>1. UNCHANGED <<world, program>>
  BY DEF Misbehave, Create, Remove, vars, program, world
<1>2. TempOK' /\ GotOK' /\ IdleOK'
  BY <1>1 DEF IInv, TempOK, GotOK, IdleOK, Prefix, Steady, Chunk, program, world
<1>3. answer' \in [Peers -> {"whole", "wrong", "nothing"}]
      /\ \A p \in Peers \ flaky : answer'[p] = answer[p]
  BY DEF Misbehave, Create, Remove, vars, IInv, TypeOK
<1>4. output' \in {output, Absent, Foreign}
  BY DEF Misbehave, Create, Remove, vars
<1>5. TypeOK'
  BY <1>1, <1>3, <1>4 DEF IInv, TypeOK, program, world
<1>6. WorldOK'
  BY <1>1, <1>3 DEF IInv, WorldOK, Steady, world
<1>7. OutputIsOriginal' /\ EnoughShardsSuffice'
  BY <1>1, <1>4, RecoverableStays
     DEF IInv, OutputIsOriginal, EnoughShardsSuffice, program
<1> QED BY <1>2, <1>5, <1>6, <1>7 DEF IInv

LEMMA StartStep == ASSUME IInv, NEW q \in Procs, Start(q) PROVE IInv'
<1>1. UNCHANGED <<world, answer, output, idx, got, temp, outcome>>
      /\ pc' = [pc EXCEPT ![q] = "fetch"] /\ pc[q] = "idle"
  BY DEF Start, GoTo
<1>2. \A r \in Procs : pc'[r] = pc[r] \/ (r = q /\ pc'[r] = "fetch")
  BY <1>1 DEF IInv, TypeOK
<1>3. TypeOK'
  BY <1>1 DEF IInv, TypeOK, world
<1>4. TempOK'
  BY <1>1, <1>2 DEF IInv, TempOK, Prefix
<1>5. WorldOK'
  BY <1>1 DEF IInv, WorldOK, Steady, world
<1>6. GotOK'
  <2>1. \A k : Steady(k)' = Steady(k) /\ Steady(k) \subseteq 1..Total
    BY <1>1 DEF Steady, world
  <2> SUFFICES ASSUME NEW r \in Procs, NEW i \in Steady(Chunk(r))
               PROVE  /\ pc'[r] = "fetch" /\ i < idx[r] => i \in got[r]
                      /\ pc'[r] = "decode" => i \in got[r]
    BY <1>1, <2>1 DEF GotOK, Chunk
  <2>2. CASE pc'[r] = pc[r]
    BY <2>2 DEF IInv, GotOK
  <2>3. CASE r = q /\ pc'[r] = "fetch"
    <3>1. idx[r] = 1 /\ i \in 1..Total
      BY <1>1, <2>1, <2>3 DEF IInv, IdleOK
    <3> QED BY <2>3, <3>1, RestoreAssumption
  <2> QED BY <1>2, <2>2, <2>3
<1>7. OutputIsOriginal' /\ EnoughShardsSuffice' /\ IdleOK'
  BY <1>1, <1>2, RecoverableStays
     DEF IInv, OutputIsOriginal, EnoughShardsSuffice, IdleOK
<1> QED BY <1>3, <1>4, <1>5, <1>6, <1>7 DEF IInv

LEMMA StepInv == IInv /\ [Next]_vars => IInv'
  BY StartStep, FetchStep, DecodeStep, PublishStep, WorldStep
     DEF Next, Progress

LEMMA Invariance == Spec => []IInv
<1>1. Init => IInv
  BY InitInv
<1>2. IInv /\ [Next]_vars => IInv'
  BY StepInv
<1> QED BY <1>1, <1>2, PTL DEF Spec

(* The variables of a restore keep their types.                            *)
THEOREM TypeCorrect == Spec => []TypeOK
<1>1. IInv => TypeOK
  BY DEF IInv
<1> QED BY <1>1, Invariance, PTL

(* A restore publishes the whole original file or nothing.                 *)
THEOREM OutputOriginal == Spec => []OutputIsOriginal
<1>1. IInv => OutputIsOriginal
  BY DEF IInv
<1> QED BY <1>1, Invariance, PTL

(* If Data shards of each chunk can be relied on, no restore misses one.   *)
THEOREM ShardsSuffice == Spec => []EnoughShardsSuffice
<1>1. IInv => EnoughShardsSuffice
  BY DEF IInv
<1> QED BY <1>1, Invariance, PTL

(* No file is replaced by a restore.                                       *)
THEOREM NotReplaced == Spec => OutputNotReplaced
<1>1. [Next]_vars => [output # Absent => output' \in {output, Absent}]_vars
  <2> SUFFICES ASSUME Next, output # Absent PROVE output' \in {output, Absent}
    BY DEF vars
  <2> QED BY DEF Next, Progress, Start, Fetch, Decode, Publish, NameFree,
             Fail, Kill, Misbehave, Create, Remove
<1> QED BY <1>1, PTL DEF Spec, OutputNotReplaced
=============================================================================
