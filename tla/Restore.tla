------------------------------- MODULE Restore -------------------------------
(***************************************************************************)
(* Turning a stub back into its file (internal/dstore, RestoreFile): for   *)
(* each chunk in turn every shard is asked of the peer its URL names, then *)
(* of the local directory; any Data of them give the chunk; the chunks are *)
(* written to a temporary file, and the complete file is published under   *)
(* its name unless that name exists.  A manifest of version 1 is one with  *)
(* a single chunk.                                                         *)
(*                                                                         *)
(* Several processes may restore the same stub to the same name, while the *)
(* user creates and deletes files of that name.  Peers in the set flaky    *)
(* misbehave at any time: they go away, lose shards or send wrong bytes;   *)
(* the others answer for good, and so does what is intact in the local     *)
(* directory.  A shard that hashes to its name is the shard: a whole one.  *)
(*                                                                         *)
(* Faults the environment may inject, each only if named in Faults:        *)
(*   "io"     a system call fails, or the context is cancelled             *)
(*   "kill"   a process dies                                               *)
(***************************************************************************)
EXTENDS Naturals, Sequences, FiniteSets

CONSTANTS Procs,        \* processes that restore
          Peers,        \* peers named in the manifest
          Data,         \* shards that suffice to decode a chunk
          Total,        \* shards per chunk
          Place,        \* Place[i]: the peer that stores every i-th shard
          Chunks,       \* chunks of the file
          Absent,       \* no file of the output's name
          Foreign,      \* a file of the user's
          Faults        \* see above

ASSUME RestoreAssumption ==
    /\ Total \in Nat \ {0}
    /\ Data \in 1..Total
    /\ Place \in [1..Total -> Peers]
    /\ Chunks \in Nat \ {0}
    /\ Absent # Foreign
    /\ {Absent, Foreign} \cap Seq(1..Chunks) = {}
    /\ Faults \subseteq {"io", "kill"}

VARIABLES
    flaky,    \* the peers that may misbehave
    answer,   \* answer[p]: what peer p sends when asked for a shard
    local,    \* local[k]: the shards of chunk k intact in the local directory,
              \* none if no directory is given
    output,   \* what the output path names
    pc,       \* pc[q]: where the restore of process q is
    idx,      \* idx[q]: the shard it fetches next
    got,      \* got[q]: the shards of the chunk it has
    temp,     \* temp[q]: the chunks written to its temporary file
    outcome   \* outcome[q]: how its last restore ended

world == <<flaky, local>>
vars  == <<flaky, answer, local, output, pc, idx, got, temp, outcome>>

(* The file that was stored.                                               *)
Original == [k \in 1..Chunks |-> k]

(* Shards of chunk k that a restore can rely on.                           *)
Steady(k) == {i \in 1..Total : \/ Place[i] \notin flaky
                               \/ i \in local[k]}

Recoverable == \A k \in 1..Chunks : Cardinality(Steady(k)) >= Data

TypeOK ==
    /\ flaky \subseteq Peers
    /\ answer \in [Peers -> {"whole", "wrong", "nothing"}]
    /\ local \in [1..Chunks -> SUBSET (1..Total)]
    /\ output \in {Absent, Foreign} \cup Seq(1..Chunks)
    /\ pc \in [Procs -> {"idle", "fetch", "decode", "publish"}]
    /\ idx \in [Procs -> 1..Total]
    /\ got \in [Procs -> SUBSET (1..Total)]
    /\ temp \in [Procs -> Seq(1..Chunks)]
    /\ outcome \in [Procs -> {"none", "ok", "exists", "missing", "failed"}]

Init ==
    /\ flaky \in SUBSET Peers
    /\ answer \in [Peers -> {"whole", "wrong", "nothing"}]
    /\ \A p \in Peers \ flaky : answer[p] = "whole"
    /\ local \in [1..Chunks -> SUBSET (1..Total)]
    /\ output = Absent
    /\ pc = [q \in Procs |-> "idle"]
    /\ idx = [q \in Procs |-> 1]
    /\ got = [q \in Procs |-> {}]
    /\ temp = [q \in Procs |-> <<>>]
    /\ outcome = [q \in Procs |-> "none"]

-----------------------------------------------------------------------------
GoTo(q, step) == pc' = [pc EXCEPT ![q] = step]

(* The chunk being fetched is the one after those written.                 *)
Chunk(q) == Len(temp[q]) + 1

(* Whatever the end of a restore, its temporary file is removed.           *)
End(q, how) ==
    /\ GoTo(q, "idle")
    /\ outcome' = [outcome EXCEPT ![q] = how]
    /\ temp' = [temp EXCEPT ![q] = <<>>]
    /\ got' = [got EXCEPT ![q] = {}]
    /\ idx' = [idx EXCEPT ![q] = 1]

(* The stub is read and its manifest found valid.                          *)
Start(q) ==
    /\ pc[q] = "idle"
    /\ GoTo(q, "fetch")
    /\ UNCHANGED <<world, answer, output, idx, got, temp, outcome>>

(* Mutant: wrong bytes from a peer are final.                              *)
NoFallback(q, i) ==
    \/ answer[Place[i]] = "whole"
    \/ answer[Place[i]] = "nothing" /\ i \in local[Chunk(q)]

(* fetchShard: the peer's answer counts if it hashes to the shard's name;  *)
(* else the local directory is asked, which looks at the hash as well.     *)
Fetched(q, i) ==
    \/ answer[Place[i]] = "whole"
    \/ i \in local[Chunk(q)]

(* Mutant: the loop runs one shard too far.                                *)
FetchTooFar(q) ==
    /\ pc[q] = "fetch"
    /\ got' = IF Fetched(q, idx[q]) THEN [got EXCEPT ![q] = @ \cup {idx[q]}]
                                    ELSE got
    /\ IF idx[q] <= Total
       THEN idx' = [idx EXCEPT ![q] = @ + 1] /\ UNCHANGED pc
       ELSE GoTo(q, "decode") /\ UNCHANGED idx
    /\ UNCHANGED <<world, answer, output, temp, outcome>>

(* One shard after the other; those that cannot be had are passed over.    *)
Fetch(q) ==
    /\ pc[q] = "fetch"
    /\ got' = IF Fetched(q, idx[q]) THEN [got EXCEPT ![q] = @ \cup {idx[q]}]
                                    ELSE got
    /\ IF idx[q] < Total
       THEN idx' = [idx EXCEPT ![q] = @ + 1] /\ UNCHANGED pc
       ELSE GoTo(q, "decode") /\ UNCHANGED idx
    /\ UNCHANGED <<world, answer, output, temp, outcome>>

(* Mutant: one shard more than necessary is asked for.                     *)
OneMore(q) == Cardinality(got[q]) > Data

Enough(q) == Cardinality(got[q]) >= Data

(* Decode, Decrypt and Write of the chunk.                                 *)
Written(q) == [temp EXCEPT ![q] = Append(@, Chunk(q))]

DecodeChunk(q) ==
    /\ temp' = Written(q)
    /\ got' = [got EXCEPT ![q] = {}]
    /\ idx' = [idx EXCEPT ![q] = 1]
    /\ GoTo(q, IF Chunk(q) < Chunks THEN "fetch" ELSE "publish")
    /\ UNCHANGED outcome

(* Mutant: the chunks that follow one that is lost are still written.      *)
SkipsLost(q) ==
    /\ pc[q] = "decode"
    /\ \/ Enough(q) /\ DecodeChunk(q)
       \/ ~ Enough(q) /\ Len(temp[q]) = 0 /\ End(q, "missing")
       \/ ~ Enough(q) /\ Len(temp[q]) > 0 /\ GoTo(q, "publish")
                      /\ UNCHANGED <<temp, got, idx, outcome>>
    /\ UNCHANGED <<world, answer, output>>

Decode(q) ==
    /\ pc[q] = "decode"
    /\ \/ Enough(q) /\ DecodeChunk(q)
       \/ ~ Enough(q) /\ End(q, "missing")
    /\ UNCHANGED <<world, answer, output>>

(* Mutant: the temporary file is renamed.                                  *)
Renames == TRUE

(* link(2): the name must not exist.                                       *)
NameFree == output = Absent

Publish(q) ==
    /\ pc[q] = "publish"
    /\ \/ NameFree /\ output' = temp[q] /\ End(q, "ok")
       \/ ~ NameFree /\ UNCHANGED output /\ End(q, "exists")
    /\ UNCHANGED <<world, answer>>

(* A system call fails, the last of them after the link.                   *)
Fail(q) ==
    /\ "io" \in Faults
    /\ pc[q] # "idle"
    /\ End(q, "failed")
    /\ \/ UNCHANGED output
       \/ pc[q] = "publish" /\ NameFree /\ output' = temp[q]
    /\ UNCHANGED <<world, answer>>

Kill(q) ==
    /\ "kill" \in Faults
    /\ pc[q] # "idle"
    /\ End(q, "none")
    /\ UNCHANGED <<world, answer, output>>

-----------------------------------------------------------------------------
(* The peers and the user.                                                 *)

program == <<pc, idx, got, temp, outcome>>

Misbehave(p) ==
    /\ p \in flaky
    /\ answer' \in {[answer EXCEPT ![p] = a] : a \in {"whole", "wrong", "nothing"}}
    /\ UNCHANGED <<world, output, program>>

Create == /\ output = Absent
          /\ output' = Foreign
          /\ UNCHANGED <<world, answer, program>>

Remove == /\ output # Absent
          /\ output' = Absent
          /\ UNCHANGED <<world, answer, program>>

-----------------------------------------------------------------------------
Progress(q) == Fetch(q) \/ Decode(q) \/ Publish(q)

Next == \/ \E q \in Procs : Start(q) \/ Progress(q) \/ Fail(q) \/ Kill(q)
        \/ \E p \in Peers : Misbehave(p)
        \/ Create
        \/ Remove

Spec == Init /\ [][Next]_vars

-----------------------------------------------------------------------------
(* Properties.                                                             *)

(* What a restore publishes is the whole file, chunk after chunk in order, *)
(* whatever failed or died on the way (dstore.go:495-529): never a part of *)
(* it, also not for a moment.                                              *)
OutputIsOriginal == output \in {Absent, Foreign, Original}

(* A restore replaces neither a file of the user's nor the output of       *)
(* another restore (sharing_test.go:86, "restore must not overwrite        *)
(* source").                                                               *)
OutputNotReplaced == [][output # Absent => output' \in {output, Absent}]_vars

(* As long as Data shards of each chunk can be relied on, at peers or      *)
(* locally, no restore misses one, whatever the other peers do while it    *)
(* runs (README.md:89, "the remaining shards are sufficient").             *)
EnoughShardsSuffice == Recoverable => \A q \in Procs : outcome[q] # "missing"
=============================================================================
