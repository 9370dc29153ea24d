---------------------------- MODULE ShardRegistry ----------------------------
(***************************************************************************)
(* What a shard directory promises its users, whatever threads, processes  *)
(* and crashes are behind it: a set of stored shards and, for each hash,   *)
(* the writer that may delete it.  A stored shard disappears only if it    *)
(* has a writer; nobody becomes the writer of a shard that is already      *)
(* stored; a writer is never replaced by another one, and is forgotten     *)
(* only once the shard is gone.                                            *)
(***************************************************************************)
CONSTANTS Hashes,    \* names of shards (SHA-256 of their bytes)
          Writers,   \* mesh identities
          NoWriter   \* "nobody": the shard was stored by the local pipeline

VARIABLES stored,    \* the shards a reader finds
          owner      \* owner[h] may delete h

vars == <<stored, owner>>

Init == /\ stored = {}
        /\ owner = [h \in Hashes |-> NoWriter]

(* A writer lays claim to a hash nobody stores yet.                        *)
Reserve(h, w) == /\ h \notin stored
                 /\ owner[h] = NoWriter
                 /\ owner' = [owner EXCEPT ![h] = w]
                 /\ UNCHANGED stored

Admit(h) == /\ h \notin stored
            /\ stored' = stored \cup {h}
            /\ UNCHANGED owner

Drop(h) == /\ h \in stored
           /\ owner[h] # NoWriter
           /\ stored' = stored \ {h}
           /\ UNCHANGED owner

Release(h) == /\ h \notin stored
              /\ owner[h] # NoWriter
              /\ owner' = [owner EXCEPT ![h] = NoWriter]
              /\ UNCHANGED stored

Next == \E h \in Hashes : \/ \E w \in Writers : Reserve(h, w)
                          \/ Admit(h)
                          \/ Drop(h)
                          \/ Release(h)

Spec == Init /\ [][Next]_vars
=============================================================================
