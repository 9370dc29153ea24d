------------------------------- MODULE Watcher -------------------------------
(***************************************************************************)
(* The watcher of the origin folder (internal/dstore, Watch and            *)
(* ProcessDirectory).  Round after round it lists the folder, visits the   *)
(* files in lexical order, remembers what it saw of each, and uploads      *)
(* those it saw in the same state the round before.  A file that fails is  *)
(* tried again in later rounds; a file that has vanished since the listing *)
(* ends the round early.                                                   *)
(*                                                                         *)
(* An upload is two steps here: processFile's first look at the file, and  *)
(* its outcome.  What happens in between is the subject of Upload.tla, and *)
(* so is the gap between its last look at the file and the removal.  Files *)
(* are named by numbers in the order of the walk.                          *)
(*                                                                         *)
(* A version is one state of a file as Lstat shows it (inode, size,        *)
(* modification time).  Versions are only compared for equality, so a      *)
(* change may take up a version that is forgotten by now: the user changes *)
(* files without end, in finitely many states.                             *)
(***************************************************************************)
EXTENDS Naturals, FiniteSets

CONSTANTS N,             \* files are named 1..N
          KeepOriginal,  \* uploaded files stay in the folder (dstore node)
          MaxVersion     \* versions of a file

ASSUME WatcherAssumption ==
    /\ N \in Nat
    /\ KeepOriginal \in BOOLEAN
    /\ MaxVersion \in Nat

Files == 1..N

VARIABLES
    file,       \* file[f]: the version the folder holds, 0 if none
    stubs,      \* files that have a stub beside them
    refused,    \* files that fail: their upload (too long, peers missing,
                \* ...), or when the walk looks at them (permissions)
    cancelled,  \* the context is cancelled
    pc,         \* where Watch is
    todo,       \* names listed this round and not visited yet
    current,    \* the file being uploaded, 0 if none, and
    taking,     \*   its version at processFile's first look
    previous,   \* what ready() saw in the last round, 0 if nothing
    observed,   \* what it has seen in this one
    failures,   \* errors of this round
    results,    \* files uploaded in this round
    shown,      \* those handed to OnError at its end
    announced,  \* files handed to onProcessed
    settled,    \* history: files unchanged since before the last pause
    inflight    \* history: files being uploaded when the cancellation came

user  == <<file, refused, cancelled, inflight>>
round == <<todo, current, taking, failures>>
vars  == <<file, stubs, refused, cancelled, pc, todo, current, taking,
           previous, observed, failures, results, shown, announced, settled,
           inflight>>

(* An error is "gone" when errors.Is finds fs.ErrNotExist in it.           *)
Errors == {"gone", "other"}

Seen == [Files -> 0..MaxVersion]

TypeOK ==
    /\ file \in Seen /\ previous \in Seen /\ observed \in Seen
    /\ taking \in 0..MaxVersion
    /\ stubs \subseteq Files /\ refused \subseteq Files /\ todo \subseteq Files
    /\ results \subseteq Files /\ announced \subseteq Files
    /\ settled \subseteq Files /\ inflight \subseteq Files
    /\ current \in 0..N
    /\ cancelled \in BOOLEAN
    /\ pc \in {"start", "walk", "attempt", "upload", "report", "announce",
               "pause", "stopped"}
    /\ pc \in {"attempt", "upload"} => current # 0
    /\ failures \subseteq Errors /\ shown \subseteq Errors

Nothing == [f \in Files |-> 0]

Init ==
    /\ file = Nothing /\ stubs = {}
    /\ refused = {} /\ cancelled = FALSE
    /\ pc = "start" /\ todo = {} /\ current = 0 /\ taking = 0
    /\ previous = Nothing /\ observed = Nothing
    /\ failures = {} /\ results = {} /\ shown = {} /\ announced = {}
    /\ settled = {} /\ inflight = {}

-----------------------------------------------------------------------------
(* Watch and ProcessDirectory.                                             *)

(* Mutant: the context is not looked at.                                   *)
StartAnyway ==
    /\ pc = "start"
    /\ observed' = Nothing
    /\ shown' = {}
    /\ todo' = {f \in Files : file[f] # 0}
    /\ pc' = "walk"
    /\ UNCHANGED <<user, stubs, current, taking, previous, failures, results,
                   announced, settled>>

(* A round begins: nothing is observed yet, WalkDir lists the folder.      *)
StartRound ==
    /\ pc = "start"
    /\ ~ cancelled
    /\ observed' = Nothing
    /\ shown' = {}
    /\ todo' = {f \in Files : file[f] # 0}
    /\ pc' = "walk"
    /\ UNCHANGED <<user, stubs, current, taking, previous, failures, results,
                   announced, settled>>

First(f) == f \in todo /\ \A g \in todo : f <= g

(* The next name.  A cancelled context, a name that is no longer there, or *)
(* one that cannot be looked at, ends the walk with an error.              *)
Abort(error) == /\ failures' = failures \cup {error}
                /\ todo' = {}
                /\ UNCHANGED <<pc, current, observed>>

(* Mutant: seen in whatever state in the round before.                     *)
SeenBefore(f) == previous[f] # 0

(* ready(): seen in this very state in the round before.                   *)
Ready(f) == previous[f] # 0 /\ previous[f] = file[f]

(* Mutant: which file is to be uploaded is forgotten.                      *)
LookOnly(f) ==
    /\ todo' = todo \ {f}
    /\ observed' = [observed EXCEPT ![f] = file[f]]
    /\ IF f \notin stubs /\ Ready(f) THEN pc' = "attempt" ELSE UNCHANGED pc
    /\ UNCHANGED <<current, failures>>

(* A file that has a stub is skipped; what is seen of another one is       *)
(* remembered, and it is uploaded if it is ready.                          *)
Look(f) ==
    /\ todo' = todo \ {f}
    /\ observed' = IF f \notin stubs THEN [observed EXCEPT ![f] = file[f]]
                                  ELSE observed
    /\ IF f \notin stubs /\ Ready(f) THEN pc' = "attempt" /\ current' = f
                                  ELSE UNCHANGED <<pc, current>>
    /\ UNCHANGED failures

Visit(f) ==
    /\ pc = "walk"
    /\ First(f)
    /\ \/ cancelled /\ Abort("other")
       \/ ~ cancelled /\ file[f] = 0 /\ Abort("gone")
       \/ ~ cancelled /\ f \in refused /\ Abort("other")
       \/ ~ cancelled /\ file[f] # 0 /\ Look(f)
    /\ UNCHANGED <<user, stubs, taking, previous, results, shown, announced,
                   settled>>

(* processFile returns, to the walk.                                       *)
BackToWalk == pc' = "walk" /\ current' = 0 /\ taking' = 0

(* Mutant: one failed upload ends the walk.                                *)
FailsWalk(error) ==
    /\ failures' = failures \cup {error}
    /\ todo' = {}
    /\ BackToWalk
    /\ UNCHANGED <<user, stubs, previous, observed, results, shown, announced,
                   settled>>

(* The upload failed: its error is kept and the walk goes on.              *)
Failed(error) ==
    /\ failures' = failures \cup {error}
    /\ BackToWalk
    /\ UNCHANGED <<user, stubs, todo, previous, observed, results, shown,
                   announced, settled>>

Take == /\ taking' = file[current]
        /\ pc' = "upload"
        /\ UNCHANGED <<user, stubs, todo, current, previous, observed, failures,
                       results, shown, announced, settled>>

(* Mutant: the context is not looked at.                                   *)
AttemptAnyway == /\ pc = "attempt"
                 /\ \/ file[current] = 0 /\ Failed("gone")
                    \/ file[current] # 0 /\ Take

(* processFile looks at the context, and at the file: it takes what the    *)
(* file is now.                                                            *)
Attempt == /\ pc = "attempt"
           /\ \/ cancelled /\ Failed("other")
              \/ ~ cancelled /\ file[current] = 0 /\ Failed("gone")
              \/ ~ cancelled /\ file[current] # 0 /\ Take

(* The upload ends: stored, if it is still what was taken; a cancellation  *)
(* after the last test of the context comes too late.                      *)
Stored ==
    /\ pc = "upload"
    /\ file[current] = taking
    /\ current \notin refused
    /\ stubs' = stubs \cup {current}
    /\ file' = IF KeepOriginal THEN file ELSE [file EXCEPT ![current] = 0]
    /\ results' = results \cup {current}
    /\ BackToWalk
    /\ UNCHANGED <<refused, cancelled, inflight, todo, failures, previous,
                   observed, shown, announced, settled>>

NotStored ==
    /\ pc = "upload"
    /\ \/ cancelled /\ Failed("other")
       \/ file[current] = 0 /\ Failed("gone")
       \/ file[current] \notin {0, taking} /\ Failed("other")
       \/ current \in refused /\ Failed("other")

EndWalk ==
    /\ pc = "walk"
    /\ todo = {}
    /\ pc' = "report"
    /\ UNCHANGED <<user, stubs, round, previous, observed, results, shown,
                   announced, settled>>

(* Mutant: a round with errors announces nothing.                          *)
ReportOnly ==
    /\ pc = "report"
    /\ previous' = observed
    /\ failures' = {}
    /\ IF failures = {} \/ "gone" \in failures
       THEN pc' = "announce" /\ UNCHANGED <<shown, results>>
       ELSE IF cancelled THEN pc' = "stopped" /\ UNCHANGED <<shown, results>>
                         ELSE pc' = "pause" /\ shown' = failures /\ results' = {}
    /\ UNCHANGED <<user, stubs, todo, current, taking, observed, announced,
                   settled>>

(* The errors of the round are joined, and dropped if one of them is that  *)
(* something does not exist.  A cancelled watcher stops here, and what the *)
(* round has uploaded goes unannounced.                                    *)
Report ==
    /\ pc = "report"
    /\ previous' = observed
    /\ failures' = {}
    /\ IF failures = {} \/ "gone" \in failures
       THEN pc' = "announce" /\ UNCHANGED shown
       ELSE IF cancelled THEN pc' = "stopped" /\ UNCHANGED shown
                         ELSE pc' = "announce" /\ shown' = failures
    /\ UNCHANGED <<user, stubs, todo, current, taking, observed, results,
                   announced, settled>>

Announce ==
    /\ pc = "announce"
    /\ announced' = announced \cup results
    /\ results' = {}
    /\ pc' = "pause"
    /\ settled' = {f \in Files : file[f] # 0}
    /\ UNCHANGED <<user, stubs, round, previous, observed, shown>>

(* The interval has passed.                                                *)
Pause ==
    /\ pc = "pause"
    /\ pc' = "start"
    /\ UNCHANGED <<user, stubs, round, previous, observed, results, shown,
                   announced, settled>>

Stop ==
    /\ pc \in {"start", "pause"}
    /\ cancelled
    /\ pc' = "stopped"
    /\ UNCHANGED <<user, stubs, round, previous, observed, results, shown,
                   announced, settled>>

-----------------------------------------------------------------------------
(* The user, the peers, and the signal that ends the process.              *)

watch == <<stubs, pc, todo, current, taking, previous, observed, failures,
           results, shown, announced>>

(* A change gives a file the first version that nobody remembers of it.    *)
Remembers(f, v) == \/ v \in {file[f], previous[f], observed[f]}
                   \/ current = f /\ v = taking

Write(f) ==
    /\ \E v \in 1..MaxVersion :
          /\ ~ Remembers(f, v)
          /\ \A w \in 1..(v - 1) : Remembers(f, w)
          /\ file' = [file EXCEPT ![f] = v]
    /\ settled' = settled \ {f}
    /\ UNCHANGED <<refused, cancelled, inflight, watch>>

Delete(f) ==
    /\ file[f] # 0
    /\ file' = [file EXCEPT ![f] = 0]
    /\ settled' = settled \ {f}
    /\ UNCHANGED <<refused, cancelled, inflight, watch>>

Refuse(f) ==
    /\ refused' \in {refused \cup {f}, refused \ {f}}
    /\ UNCHANGED <<file, cancelled, inflight, watch, settled>>

Cancel ==
    /\ ~ cancelled
    /\ cancelled' = TRUE
    /\ inflight' = IF pc = "upload" THEN {current} ELSE {}
    /\ UNCHANGED <<file, refused, watch, settled>>

-----------------------------------------------------------------------------
Watching == \/ StartRound \/ (\E f \in Files : Visit(f)) \/ Attempt
            \/ Stored \/ NotStored \/ EndWalk \/ Report \/ Announce
            \/ Pause \/ Stop

Environment == \/ \E f \in Files : Write(f) \/ Delete(f) \/ Refuse(f)
               \/ Cancel

Next == Watching \/ Environment

Spec == Init /\ [][Next]_vars

(* The goroutine of the watcher is scheduled, every upload ends (its       *)
(* requests have timeouts), and the timer fires.                           *)
FairSpec == Spec /\ WF_vars(Watching)

-----------------------------------------------------------------------------
(* Properties.                                                             *)

(* An upload is attempted only of a file that has not changed for a whole  *)
(* pause (dstore.go:556-560), however rounds were cut short, files         *)
(* replaced and listings outdated in between.                              *)
AttemptsAreSettled ==
    [][pc = "walk" /\ pc' = "attempt" => current' \in settled]_vars

(* Once the context is cancelled, the watcher completes at most the upload *)
(* it was in the middle of: nothing else gets a stub or is removed.        *)
NothingNewAfterCancel ==
    [][\A f \in Files : cancelled /\ f \in stubs' \ stubs => f \in inflight]_vars

(* A file the user leaves alone is stored, once its upload can succeed:    *)
(* failed uploads of other files, for whatever reason and for ever, and    *)
(* changes made to them all the time, do not starve it                     *)
(* (dstore.go:102-105).  What does starve it is a file of an earlier name  *)
(* that ends every walk (dstore.go:73, 85-87, 94): one that vanishes after *)
(* each listing, or that the walk may not look at.                         *)
LeftAlone(f) == <>[][file'[f] = file[f] \/ f \in stubs' \ stubs]_vars
WalkReaches(f) ==
    <>[][pc = "walk" /\ f \in todo /\ f \notin todo' => First(f)]_vars
SettledFileIsStored ==
    \A f \in Files :
        LeftAlone(f) /\ WalkReaches(f) /\ <>[](f \notin refused) =>
            (file[f] # 0 ~> (f \in stubs \/ file[f] = 0 \/ cancelled))

(* What has been uploaded is announced, also in rounds with errors, unless *)
(* the watcher is cancelled first (dstore.go:573-577).                     *)
StoredIsAnnounced ==
    \A f \in Files : f \in results ~> (f \in announced \/ cancelled)

(* The watcher stops when its context is cancelled (sharing_test.go:138,   *)
(* "watcher did not stop").                                                *)
StopsWhenCancelled == cancelled ~> pc = "stopped"
=============================================================================
