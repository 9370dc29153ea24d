---------------------------- MODULE MCLocalStore ----------------------------
(***************************************************************************)
(* Constants of LocalStore for TLC: a server process (store s1) with two   *)
(* handlers, and an upload command (store s2) in a process of its own.     *)
(***************************************************************************)
EXTENDS LocalStore, TLC

CONSTANTS t1, t2, t3, s1, s2, h1, h2, w1, w2

TwoHandlersAndImport == (t1 :> s1) @@ (t2 :> s1) @@ (t3 :> s2)
HandlerAndImport == (t1 :> s1) @@ (t3 :> s2)

(* Only one of the two shards fits a quota of 2, which the server has and  *)
(* the upload command does not.                                            *)
Sizes == [h \in Hashes |-> IF h = h1 THEN 1 ELSE 2]
ServerOnly == [s \in Stores |-> IF s = s1 THEN 2 ELSE 0]
Unlimited == [s \in Stores |-> 0]

IOAndKill == {"io", "kill"}
Faulty    == {"io", "kill", "rot"}
Power     == {"power"}
IOAndPower == {"io", "power"}

(* Identities are interchangeable, and so are the threads of one process.  *)
Interchangeable == Permutations({w1, w2}) \cup Permutations({t1, t2})
=============================================================================
