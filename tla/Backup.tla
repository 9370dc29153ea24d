-------------------------------- MODULE Backup --------------------------------
(***************************************************************************)
(* What the program promises the user of one path of the origin folder,    *)
(* whatever processes, peers and crashes are behind it.  The user writes   *)
(* and deletes the file.  The program may store what the file is at that   *)
(* moment, and from then on it can be restored: it stores once, and what   *)
(* it stores neither changes nor gets lost.  And it may reclaim the file's *)
(* room in the folder, but only if what it removes is what is stored.      *)
(***************************************************************************)
EXTENDS Naturals

CONSTANTS KeepOriginal,  \* nothing may be reclaimed (dstore add)
          MaxVersion     \* bound: changes the user makes

VARIABLES file,     \* the version in the folder, 0 if there is none
          clock,    \* the latest version
          copy,     \* the version that can be restored, 0 if there is none
          erased    \* versions the program has removed from the folder

vars == <<file, clock, copy, erased>>

Init == file = 0 /\ clock = 0 /\ copy = 0 /\ erased = {}

Write == /\ clock < MaxVersion
         /\ clock' = clock + 1
         /\ file' = clock'
         /\ UNCHANGED <<copy, erased>>

Delete == /\ file # 0
          /\ file' = 0
          /\ UNCHANGED <<clock, copy, erased>>

Store == /\ copy = 0
         /\ file # 0
         /\ copy' = file
         /\ UNCHANGED <<file, clock, erased>>

Reclaim == /\ ~ KeepOriginal
           /\ file # 0
           /\ copy = file
           /\ file' = 0
           /\ erased' = erased \cup {file}
           /\ UNCHANGED <<clock, copy>>

Next == Write \/ Delete \/ Store \/ Reclaim

Spec == Init /\ [][Next]_vars
=============================================================================
