------------------------------ MODULE MCUpload ------------------------------
(***************************************************************************)
(* Constants of Upload for TLC: a file of up to three chunks, two shards   *)
(* per chunk, and two processes.                                           *)
(***************************************************************************)
EXTENDS Upload, TLC

CONSTANTS q1, q2, p1, p2

(* Three versions of which the second is longer than the limit and the     *)
(* third as long as the first; or two of which the second is shorter.      *)
OutgrowsTheLimit == <<2, 3, 2>>
Shrinks == <<2, 1>>

(* Room at each peer for two attempts whose shards are spread, or one      *)
(* whose are not; the local directory has no quota.                        *)
Scarce == [p \in Peers \cup {Local} |-> IF p = Local THEN 0 ELSE 4]
Unlimited == [p \in Peers \cup {Local} |-> 0]

NoFault == {}
Mishaps == {"io", "lost", "kill"}
Late == {"late"}

Interchangeable == Permutations(Peers) \cup Permutations(Procs)
=============================================================================
