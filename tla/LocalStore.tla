------------------------------ MODULE LocalStore ------------------------------
(***************************************************************************)
(* One shard directory (internal/localstore) and every thread working on   *)
(* it: handlers of the shard server, the local upload pipeline, and CLI    *)
(* commands in processes of their own.                                     *)
(*                                                                         *)
(* A Store value carries a mutex its process shares; the flock on          *)
(* .dstore.lock is what two processes share.  A shard is a file named by   *)
(* its hash, its writer a sidecar file <hash>.writer.  Files are published *)
(* by atomicfile.WriteNewFrom: the bytes are synced, then link(2) makes    *)
(* the name visible (and fails if it exists), then the directory is        *)
(* synced.  The bytes before the link are invisible, so a WriteNew is two  *)
(* steps here: the link and the directory sync.                            *)
(*                                                                         *)
(* Faults the environment may inject, each only if named in Faults:        *)
(*   "io"     a system call fails and the code takes its error path        *)
(*   "kill"   a process dies; the kernel drops its locks                   *)
(*   "power"  the machine loses power; names not yet synced may revert     *)
(*   "rot"    a stored file's bytes change on disk                         *)
(***************************************************************************)
EXTENDS Naturals, FiniteSets

CONSTANTS Threads,   \* goroutines and CLI commands using the directory
          Stores,    \* Store values: a node's server and watcher share one,
                     \* dstore agent has two, every other command one
          StoreOf,   \* StoreOf[t]: the Store value thread t works through
          Hashes,    \* names of shards
          Size,      \* Size[h]: bytes of shard h
          Quota,     \* Quota[s]: bytes Store s may fill the directory to;
                     \* 0 means unlimited
          Writers,   \* mesh identities
          NoWriter,  \* the empty writer of Put
          NoThread,  \* "nobody" as a lock holder
          Faults     \* see above

ASSUME StoreAssumption ==
    /\ StoreOf \in [Threads -> Stores]
    /\ IsFiniteSet(Hashes)
    /\ Size \in [Hashes -> Nat]
    /\ Quota \in [Stores -> Nat]
    /\ NoWriter \notin Writers
    /\ NoThread \notin Threads
    /\ Faults \subseteq {"io", "kill", "power", "rot"}

VARIABLES
    shard,      \* shard[h]: what a reader finds under the name h
    writer,     \* writer[h]: content of h's sidecar, NoWriter if there is none
    disk,       \* what each name may hold after a power loss: its contents
                \* since the last sync of the directory
    mu,         \* mu[s]: holder of the mutex of Store s
    flock,      \* holder of the flock on .dstore.lock
    pc,         \* pc[t]: where thread t is
    call,       \* call[t]: the call t is executing (NoCall when idle)
    result,     \* result[t]: what that call is about to return
    promised    \* history: <<h, w>> when w was told that h is stored, and h
                \* has not been deleted since

files == <<shard, writer, disk>>
locks == <<mu, flock>>
vars  == <<shard, writer, disk, mu, flock, pc, call, result, promised>>

(* The calls of the package that change the directory.  The pipeline       *)
(* passes no writer to Put; the server passes the caller's identity to     *)
(* PutOwned, and calls DeleteOwned only for an identified caller.          *)
Calls == [kind : {"put"}, hash : Hashes, writer : Writers \cup {NoWriter}]
         \cup [kind : {"delete"}, hash : Hashes, writer : Writers]

NoCall == [kind |-> "none"]

Content == {"none", "whole", "rotten"}

(* Steps between which a new shard is visible but its Put has not decided. *)
Creating == {"sync", "claim", "claimsync", "rollback"}

(* Steps taken with both locks held.                                       *)
Critical == {"check", "link"} \cup Creating \cup {"remove", "unclaim", "unlock"}

TypeOK ==
    /\ shard \in [Hashes -> Content]
    /\ writer \in [Hashes -> Writers \cup {NoWriter}]
    /\ disk \in [shard : [Hashes -> SUBSET Content],
                 writer : [Hashes -> SUBSET (Writers \cup {NoWriter})]]
    /\ mu \in [Stores -> Threads \cup {NoThread}]
    /\ flock \in Threads \cup {NoThread}
    /\ pc \in [Threads -> {"idle", "mutex", "flock"} \cup Critical]
    /\ call \in [Threads -> Calls \cup {NoCall}]
    /\ result \in [Threads -> {"ok", "error"}]
    /\ promised \subseteq Hashes \X (Writers \cup {NoWriter})

Init ==
    /\ shard = [h \in Hashes |-> "none"]
    /\ writer = [h \in Hashes |-> NoWriter]
    /\ disk = [shard  |-> [h \in Hashes |-> {"none"}],
               writer |-> [h \in Hashes |-> {NoWriter}]]
    /\ mu = [s \in Stores |-> NoThread]
    /\ flock = NoThread
    /\ pc = [t \in Threads |-> "idle"]
    /\ call = [t \in Threads |-> NoCall]
    /\ result = [t \in Threads |-> "ok"]
    /\ promised = {}

-----------------------------------------------------------------------------
(* Helpers.                                                                *)

Visible == {h \in Hashes : shard[h] # "none"}

(* The bytes of the files named by a hash in H.                            *)
Bytes(H) == UNION {{h} \X (1..Size[h]) : h \in H}

(* usage() adds up the sizes of the files named by a hash: shards, rotten  *)
(* or not, but neither sidecars nor temporary files.                       *)
Usage == Cardinality(Bytes(Visible))

(* The quota is the Store's own, not the directory's.  dstore node and add *)
(* use the configured one; process, watch, agent and serve-shards open the *)
(* directory without (main.go:98-99, 127, 165, 215).  A Store may find the *)
(* directory filled beyond its quota: s.quota-used is negative then.       *)
Fits(t, h) ==
    LET quota == Quota[StoreOf[t]] IN quota = 0 \/ Usage + Size[h] <= quota

GoTo(t, step) == pc' = [pc EXCEPT ![t] = step]

(* Every return runs the deferred unlocks: the rest of the call is Unlock. *)
Return(t, r) == /\ GoTo(t, "unlock")
                /\ result' = [result EXCEPT ![t] = r]

(* Mutant: the sidecar names the hash.                                     *)
SidecarOfHash(h, w) ==
    /\ writer' = [writer EXCEPT ![h] = h]
    /\ disk' = [disk EXCEPT !.writer[h] = @ \cup {h}]
(* Mutant: the directory is not synced.                                    *)
NoSync == UNCHANGED disk

(* Publish or remove a name: unsynced, it may or may not survive.  A       *)
(* directory sync settles every name on what it is now.                    *)
SetShard(h, c) ==
    /\ shard' = [shard EXCEPT ![h] = c]
    /\ disk' = [disk EXCEPT !.shard[h] = @ \cup {c}]
SetWriter(h, w) ==
    /\ writer' = [writer EXCEPT ![h] = w]
    /\ disk' = [disk EXCEPT !.writer[h] = @ \cup {w}]
SyncDir ==
    disk' = [shard  |-> [h \in Hashes |-> {shard[h]}],
             writer |-> [h \in Hashes |-> {writer[h]}]]

-----------------------------------------------------------------------------
(* Locking: the mutex of the Store value, then the flock.                  *)

Begin(t) == /\ pc[t] = "idle"
            /\ call' \in {[call EXCEPT ![t] = c] : c \in Calls}
            /\ GoTo(t, "mutex")
            /\ UNCHANGED <<files, locks, result, promised>>

LockMutex(t) == /\ pc[t] = "mutex"
                /\ mu[StoreOf[t]] = NoThread
                /\ mu' = [mu EXCEPT ![StoreOf[t]] = t]
                /\ GoTo(t, "flock")
                /\ UNCHANGED <<files, flock, call, result, promised>>

(* Mutant: the flock is not waited for.                                    *)
FlockIgnored(t) == flock \in Threads \cup {NoThread}
FlockFree(t) == flock = NoThread

LockFile(t) == /\ pc[t] = "flock"
               /\ FlockFree(t)
               /\ flock' = t
               /\ GoTo(t, "check")
               /\ UNCHANGED <<files, mu, call, result, promised>>

(* lock() cannot create the directory or open the lock file.               *)
LockFails(t) == /\ "io" \in Faults
                /\ pc[t] = "flock"
                /\ mu' = [mu EXCEPT ![StoreOf[t]] = NoThread]
                /\ GoTo(t, "idle")
                /\ call' = [call EXCEPT ![t] = NoCall]
                /\ UNCHANGED <<files, flock, result, promised>>

(* Mutant: an error path keeps the mutex.                                  *)
KeepsMutex(t) == /\ flock' = IF flock = t THEN NoThread ELSE flock
                 /\ mu' = IF result[t] = "ok"
                          THEN [mu EXCEPT ![StoreOf[t]] = NoThread] ELSE mu

(* Unlocking order is flock, then mutex.  A thread that is not the holder  *)
(* of the flock releases nothing of another's.                             *)
Unlocks(t) == /\ flock' = IF flock = t THEN NoThread ELSE flock
              /\ mu' = [mu EXCEPT ![StoreOf[t]] = NoThread]

Unlock(t) == /\ pc[t] = "unlock"
             /\ Unlocks(t)
             /\ GoTo(t, "idle")
             /\ promised' = IF call[t].kind = "put" /\ result[t] = "ok"
                            THEN promised \cup {<<call[t].hash, call[t].writer>>}
                            ELSE promised
             /\ call' = [call EXCEPT ![t] = NoCall]
             /\ result' = [result EXCEPT ![t] = "ok"]
             /\ UNCHANGED files

-----------------------------------------------------------------------------
(* PutOwned, with both locks held.                                         *)

At(t, step, kind) == pc[t] = step /\ call[t].kind = kind

(* Mutant: a rotten shard is cleared away for the next upload.             *)
ClearsRotten(t) ==
    LET h == call[t].hash IN
    /\ At(t, "check", "put")
    /\ shard[h] # "none"
    /\ IF shard[h] = "whole" THEN Return(t, "ok") /\ UNCHANGED files
       ELSE Return(t, "error") /\ SetShard(h, "none") /\ UNCHANGED writer
    /\ UNCHANGED <<locks, call, promised>>

(* The shard is there: deduplicated, or refused when its bytes are rotten. *)
PutExists(t) ==
    LET h == call[t].hash IN
    /\ At(t, "check", "put")
    /\ shard[h] # "none"
    /\ Return(t, IF shard[h] = "whole" THEN "ok" ELSE "error")
    /\ UNCHANGED <<files, locks, call, promised>>

(* It is not: the quota is tested, and a temporary file written.           *)
PutAdmit(t) ==
    LET h == call[t].hash IN
    /\ At(t, "check", "put")
    /\ shard[h] = "none"
    /\ IF Fits(t, h) THEN GoTo(t, "link") /\ UNCHANGED result
                  ELSE Return(t, "error")
    /\ UNCHANGED <<files, locks, call, promised>>

(* link(2) publishes the shard, or fails because the name exists.          *)
PutLink(t) ==
    LET h == call[t].hash IN
    /\ At(t, "link", "put")
    /\ \/ /\ shard[h] = "none"
          /\ SetShard(h, "whole")
          /\ GoTo(t, "sync")
          /\ UNCHANGED result
       \/ /\ shard[h] # "none"
          /\ Return(t, "error")
          /\ UNCHANGED <<shard, disk>>
    /\ UNCHANGED <<writer, locks, call, promised>>

(* The directory is synced; an anonymous Put is done, the other goes on to *)
(* claim the shard for its writer.                                         *)
PutSync(t) ==
    /\ At(t, "sync", "put")
    /\ SyncDir
    /\ IF call[t].writer = NoWriter THEN Return(t, "ok")
                                    ELSE GoTo(t, "claim") /\ UNCHANGED result
    /\ UNCHANGED <<shard, writer, locks, call, promised>>

(* Mutant: an existing sidecar is no obstacle.                             *)
Overwrite(t) == TRUE

(* The sidecar is published, or there is one already (left by a delete cut *)
(* short): then the shard just published is taken back.                    *)
NoSidecar(t) == writer[call[t].hash] = NoWriter

PutClaim(t) ==
    LET h == call[t].hash IN
    /\ At(t, "claim", "put")
    /\ \/ /\ NoSidecar(t)
          /\ SetWriter(h, call[t].writer)
          /\ GoTo(t, "claimsync")
       \/ /\ ~ NoSidecar(t)
          /\ GoTo(t, "rollback")
          /\ UNCHANGED <<writer, disk>>
    /\ UNCHANGED <<shard, locks, call, result, promised>>

PutClaimSync(t) ==
    /\ At(t, "claimsync", "put")
    /\ SyncDir
    /\ Return(t, "ok")
    /\ UNCHANGED <<shard, writer, locks, call, promised>>

(* os.Remove(path), its own error ignored.  The sidecar is left alone.     *)
PutRollback(t) ==
    /\ At(t, "rollback", "put")
    /\ \/ SetShard(call[t].hash, "none")
       \/ "io" \in Faults /\ UNCHANGED <<shard, disk>>
    /\ Return(t, "error")
    /\ UNCHANGED <<writer, locks, call, promised>>

(* A system call of the step fails.  Nothing is undone before the claim:   *)
(* when only the directory sync failed the shard stays published.          *)
PutFails(t) ==
    /\ "io" \in Faults
    /\ call[t].kind = "put"
    /\ \/ /\ pc[t] \in {"check", "link", "sync"}
          /\ Return(t, "error")
       \/ /\ pc[t] \in {"claim", "claimsync"}
          /\ GoTo(t, "rollback")
          /\ UNCHANGED result
    /\ UNCHANGED <<files, locks, call, promised>>

-----------------------------------------------------------------------------
(* DeleteOwned, with both locks held.                                      *)

(* Mutant: any identified caller may delete.                               *)
Anyone(t) == writer[call[t].hash] # NoWriter
IsOwner(t) == writer[call[t].hash] = call[t].writer

DeleteCheck(t) ==
    /\ At(t, "check", "delete")
    /\ IF IsOwner(t) THEN GoTo(t, "remove") /\ UNCHANGED result
                     ELSE Return(t, "error")
    /\ UNCHANGED <<files, locks, call, promised>>

(* A shard that is gone already is no error; promised is no more.          *)
DeleteShard(t) ==
    LET h == call[t].hash IN
    /\ At(t, "remove", "delete")
    /\ IF shard[h] # "none" THEN SetShard(h, "none")
                            ELSE UNCHANGED <<shard, disk>>
    /\ promised' = {p \in promised : p[1] # h}
    /\ GoTo(t, "unclaim")
    /\ UNCHANGED <<writer, locks, call, result>>

DeleteSidecar(t) ==
    /\ At(t, "unclaim", "delete")
    /\ SetWriter(call[t].hash, NoWriter)
    /\ Return(t, "ok")
    /\ UNCHANGED <<shard, locks, call, promised>>

(* Mutant: a failed delete reports success.                                *)
SwallowsError(t) ==
    /\ "io" \in Faults
    /\ call[t].kind = "delete"
    /\ pc[t] \in {"check", "remove", "unclaim"}
    /\ Return(t, "ok")
    /\ UNCHANGED <<files, locks, call, promised>>
DeleteFails(t) ==
    /\ "io" \in Faults
    /\ call[t].kind = "delete"
    /\ pc[t] \in {"check", "remove", "unclaim"}
    /\ Return(t, "error")
    /\ UNCHANGED <<files, locks, call, promised>>

-----------------------------------------------------------------------------
(* The environment.                                                        *)

(* The process of s dies; that of an agent, which has two Stores, does so  *)
(* in two steps.                                                           *)
Kill(s) ==
    LET dead == {t \in Threads : StoreOf[t] = s} IN
    /\ "kill" \in Faults
    /\ \E t \in dead : pc[t] # "idle"
    /\ pc' = [t \in Threads |-> IF t \in dead THEN "idle" ELSE pc[t]]
    /\ call' = [t \in Threads |-> IF t \in dead THEN NoCall ELSE call[t]]
    /\ result' = [t \in Threads |-> IF t \in dead THEN "ok" ELSE result[t]]
    /\ mu' = [mu EXCEPT ![s] = NoThread]
    /\ flock' = IF flock \in dead THEN NoThread ELSE flock
    /\ UNCHANGED <<files, promised>>

PowerLoss ==
    /\ "power" \in Faults
    /\ shard' \in [Hashes -> Content]
    /\ \A h \in Hashes : shard'[h] \in disk.shard[h]
    /\ writer' \in [Hashes -> Writers \cup {NoWriter}]
    /\ \A h \in Hashes : writer'[h] \in disk.writer[h]
    /\ disk' = [shard  |-> [h \in Hashes |-> {shard'[h]}],
                writer |-> [h \in Hashes |-> {writer'[h]}]]
    /\ pc' = [t \in Threads |-> "idle"]
    /\ mu' = [s \in Stores |-> NoThread]
    /\ flock' = NoThread
    /\ call' = [t \in Threads |-> NoCall]
    /\ result' = [t \in Threads |-> "ok"]
    /\ UNCHANGED promised

(* The bytes of a stored shard change.                                     *)
Rot(h) ==
    /\ "rot" \in Faults
    /\ shard[h] = "whole"
    /\ shard' = [shard EXCEPT ![h] = "rotten"]
    /\ disk' = [disk EXCEPT !.shard[h] = (@ \ {"whole"}) \cup {"rotten"}]
    /\ UNCHANGED <<writer, locks, pc, call, result, promised>>

-----------------------------------------------------------------------------
Acquire(t) == LockMutex(t) \/ LockFile(t)

Work(t) == \/ PutExists(t) \/ PutAdmit(t) \/ PutLink(t) \/ PutSync(t)
           \/ PutClaim(t) \/ PutClaimSync(t) \/ PutRollback(t) \/ PutFails(t)
           \/ DeleteCheck(t) \/ DeleteShard(t) \/ DeleteSidecar(t)
           \/ DeleteFails(t)
           \/ LockFails(t) \/ Unlock(t)

Environment == \/ \E s \in Stores : Kill(s)
               \/ PowerLoss
               \/ \E h \in Hashes : Rot(h)

Next == \/ \E t \in Threads : Begin(t) \/ Acquire(t) \/ Work(t)
        \/ Environment

Spec == Init /\ [][Next]_vars

(* No thread stops in the middle of a call, and neither lock starves a     *)
(* waiter for ever (sync.Mutex hands over to the oldest waiter after 1 ms; *)
(* flock wakes its waiters in turn).  No call has to be made.              *)
Fairness == \A t \in Threads :
                /\ WF_vars(Work(t))
                /\ SF_vars(Acquire(t))

FairSpec == Spec /\ Fairness

-----------------------------------------------------------------------------
(* Properties.                                                             *)

(* Lock discipline: whoever reads or changes the directory in PutOwned and *)
(* DeleteOwned holds the flock, and the mutex of its own Store with it.    *)
HoldsLocks == \A t \in Threads :
    /\ pc[t] \in Critical => flock = t
    /\ pc[t] \in Critical \cup {"flock"} => mu[StoreOf[t]] = t

(* The quota is tested, and the shard published, in two steps; processes   *)
(* with other quotas, or with none, fill the same directory meanwhile.     *)
(* Whenever the shards take more room than before, a power loss has        *)
(* brought some back, or a put has published one and all of them are, at   *)
(* that moment, within the quota of its own Store (localstore.go:69).      *)
Publishes(t) == pc[t] = "link" /\ pc'[t] = "sync"
WithinQuota ==
    [][Usage' > Usage =>
         \/ PowerLoss
         \/ \E t \in Threads :
               /\ Publishes(t)
               /\ Quota[StoreOf[t]] = 0 \/ Usage' <= Quota[StoreOf[t]]
      ]_vars

(* Once Put has told a caller that a shard is stored, the shard stays      *)
(* until its owner deletes it; no failing Put of the same shard (rollback, *)
(* localstore.go:77) takes it back.                                        *)
PromisedShardsStay == \A p \in promised : shard[p[1]] # "none"

(* A visible shard vanishes only in a delete by its recorded writer, or in *)
(* the rollback of a Put that published it and told nobody (README.md:209, *)
(* "Only the original writer can delete a shard").                         *)
Vanishes(h) == shard[h] # "none" /\ shard'[h] = "none"
OnlyOwnerRemoves ==
    [][\A h \in Hashes : Vanishes(h) =>
         \E t \in Threads :
            /\ pc[t] \in {"remove", "rollback"}
            /\ call[t].hash = h
            /\ IF pc[t] = "remove" THEN call[t].writer = writer[h]
                                   ELSE \A p \in promised : p[1] # h
      ]_vars

(* A delete that reports success leaves neither the shard nor its sidecar, *)
(* so the hash can be stored again by anyone; a delete cut short never     *)
(* reports success (localstore.go:136-139).                                *)
DeleteComplete == \A t \in Threads :
    At(t, "unlock", "delete") /\ result[t] = "ok" =>
        shard[call[t].hash] = "none" /\ writer[call[t].hash] = NoWriter

(* The directory implements the registry.  A shard counts as stored from   *)
(* the moment the Put that published it has decided, or has died.          *)
Undecided == {call[t].hash : t \in {u \in Threads : pc[u] \in Creating}}
Registry == INSTANCE ShardRegistry
                WITH stored <- Visible \ Undecided, owner <- writer
ImplementsRegistry == Registry!Spec

(* Every call returns: no thread waits for ever on a lock that a failed or *)
(* killed call left behind (deferred unlocks, localstore.go:39-45).        *)
CallsReturn == \A t \in Threads : pc[t] # "idle" ~> pc[t] = "idle"
=============================================================================
