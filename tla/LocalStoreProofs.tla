--------------------------- MODULE LocalStoreProofs ---------------------------
(***************************************************************************)
(* Theorems about LocalStore for any number of threads, processes, shards  *)
(* and writers, and any quota: types, lock discipline, the promise kept to *)
(* every successful Put (through power losses too), the quota, and the     *)
(* refinement of ShardRegistry.                                            *)
(***************************************************************************)
EXTENDS LocalStore, FiniteSetTheorems, TLAPS

USE StoreAssumption

(* A thread inside a call has one, of the kind its step belongs to.        *)
InCall == \A t \in Threads :
    /\ pc[t] # "idle" => call[t] \in Calls
    /\ pc[t] \in {"link"} \cup Creating => call[t].kind = "put"
    /\ pc[t] \in {"remove", "unclaim"} => call[t].kind = "delete"

TInv == TypeOK /\ InCall

LEMMA TypeInit == Init => TInv
<1> SUFFICES ASSUME Init PROVE TInv
  OBVIOUS
<1>1. TypeOK
  BY DEF Init, TypeOK, Content, Critical, Creating, NoCall
<1>2. InCall
  BY DEF Init, InCall, Critical, Creating, NoCall
<1> QED BY <1>1, <1>2 DEF TInv
(* Publishing or removing a name keeps the directory's types.              *)
LEMMA SetShardType ==
    ASSUME TypeOK, NEW h \in Hashes, NEW c \in Content, SetShard(h, c)
    PROVE  /\ shard' \in [Hashes -> Content]
           /\ disk' \in [shard : [Hashes -> SUBSET Content],
                         writer : [Hashes -> SUBSET (Writers \cup {NoWriter})]]
  BY DEF SetShard, TypeOK

LEMMA SetWriterType ==
    ASSUME TypeOK, NEW h \in Hashes, NEW w \in Writers \cup {NoWriter},
           SetWriter(h, w)
    PROVE  /\ writer' \in [Hashes -> Writers \cup {NoWriter}]
           /\ disk' \in [shard : [Hashes -> SUBSET Content],
                         writer : [Hashes -> SUBSET (Writers \cup {NoWriter})]]
  BY DEF SetWriter, TypeOK

LEMMA TypeStep == TInv /\ [Next]_vars => TInv'
<1> SUFFICES ASSUME TInv, [Next]_vars PROVE TInv'
  OBVIOUS
<1> USE DEF TInv, TypeOK, InCall, Content, Creating, Critical
<1>1. ASSUME NEW t \in Threads, Begin(t) PROVE TInv'
  BY <1>1 DEF Begin, GoTo, Calls, files, locks
<1>2. ASSUME NEW t \in Threads, LockMutex(t) PROVE TInv'
  BY <1>2 DEF LockMutex, GoTo, files
<1>3. ASSUME NEW t \in Threads, LockFile(t) PROVE TInv'
  BY <1>3 DEF LockFile, GoTo, files
<1>4. ASSUME NEW t \in Threads, LockFails(t) PROVE TInv'
  BY <1>4 DEF LockFails, GoTo, files
<1>5. ASSUME NEW t \in Threads, Unlock(t) PROVE TInv'
  BY <1>5 DEF Unlock, Unlocks, GoTo, files, Calls
<1>6. ASSUME NEW t \in Threads, PutExists(t) PROVE TInv'
  BY <1>6 DEF PutExists, Return, GoTo, At, files, locks
<1>7. ASSUME NEW t \in Threads, PutAdmit(t) PROVE TInv'
  BY <1>7 DEF PutAdmit, Return, GoTo, At, files, locks
<1>8. ASSUME NEW t \in Threads, PutLink(t) PROVE TInv'
  <2>1. call[t].hash \in Hashes
    BY <1>8 DEF PutLink, At, Calls
  <2>2. CASE SetShard(call[t].hash, "whole")
    <3>1. /\ shard' \in [Hashes -> Content]
          /\ disk' \in [shard : [Hashes -> SUBSET Content],
                         writer : [Hashes -> SUBSET (Writers \cup {NoWriter})]]
      BY <2>1, <2>2, SetShardType DEF PutLink, At, Calls
    <3> QED BY <1>8, <3>1 DEF PutLink, Return, GoTo, At, locks
  <2>3. CASE UNCHANGED <<shard, disk>>
    BY <1>8, <2>3 DEF PutLink, Return, GoTo, At, locks
  <2> QED BY <1>8, <2>2, <2>3 DEF PutLink
<1>9. ASSUME NEW t \in Threads, PutSync(t) PROVE TInv'
  BY <1>9 DEF PutSync, SyncDir, Return, GoTo, At, locks
<1>10. ASSUME NEW t \in Threads, PutClaim(t) PROVE TInv'
  <2>1. call[t].hash \in Hashes
    BY <1>10 DEF PutClaim, At, Calls
  <2>2. CASE SetWriter(call[t].hash, call[t].writer)
    <3>1. /\ writer' \in [Hashes -> Writers \cup {NoWriter}]
          /\ disk' \in [shard : [Hashes -> SUBSET Content],
                         writer : [Hashes -> SUBSET (Writers \cup {NoWriter})]]
      BY <2>1, <2>2, SetWriterType, <1>10 DEF PutClaim, At, Calls
    <3> QED BY <1>10, <3>1 DEF PutClaim, GoTo, At, locks
  <2>3. CASE UNCHANGED <<writer, disk>>
    BY <1>10, <2>3 DEF PutClaim, GoTo, At, locks
  <2> QED BY <1>10, <2>2, <2>3 DEF PutClaim
<1>11. ASSUME NEW t \in Threads, PutClaimSync(t) PROVE TInv'
  BY <1>11 DEF PutClaimSync, SyncDir, Return, GoTo, At, locks
<1>12. ASSUME NEW t \in Threads, PutRollback(t) PROVE TInv'
  <2>1. call[t].hash \in Hashes
    BY <1>12 DEF PutRollback, At, Calls
  <2>2. CASE SetShard(call[t].hash, "none")
    <3>1. /\ shard' \in [Hashes -> Content]
          /\ disk' \in [shard : [Hashes -> SUBSET Content],
                         writer : [Hashes -> SUBSET (Writers \cup {NoWriter})]]
      BY <2>1, <2>2, SetShardType DEF PutRollback, At, Calls
    <3> QED BY <1>12, <3>1 DEF PutRollback, Return, GoTo, At, locks
  <2>3. CASE UNCHANGED <<shard, disk>>
    BY <1>12, <2>3 DEF PutRollback, Return, GoTo, At, locks
  <2> QED BY <1>12, <2>2, <2>3 DEF PutRollback
<1>13. ASSUME NEW t \in Threads, PutFails(t) PROVE TInv'
  BY <1>13 DEF PutFails, Return, GoTo, files, locks
<1>14. ASSUME NEW t \in Threads, DeleteCheck(t) PROVE TInv'
  BY <1>14 DEF DeleteCheck, Return, GoTo, At, files, locks
<1>15. ASSUME NEW t \in Threads, DeleteShard(t) PROVE TInv'
  <2>1. call[t].hash \in Hashes
    BY <1>15 DEF DeleteShard, At, Calls
  <2>2. CASE SetShard(call[t].hash, "none")
    <3>1. /\ shard' \in [Hashes -> Content]
          /\ disk' \in [shard : [Hashes -> SUBSET Content],
                         writer : [Hashes -> SUBSET (Writers \cup {NoWriter})]]
      BY <2>1, <2>2, SetShardType DEF DeleteShard, At, Calls
    <3> QED BY <1>15, <3>1 DEF DeleteShard, GoTo, At, locks
  <2>3. CASE UNCHANGED <<shard, disk>>
    BY <1>15, <2>3 DEF DeleteShard, GoTo, At, locks
  <2> QED BY <1>15, <2>2, <2>3 DEF DeleteShard
<1>16. ASSUME NEW t \in Threads, DeleteSidecar(t) PROVE TInv'
  <2>1. call[t].hash \in Hashes
    BY <1>16 DEF DeleteSidecar, At, Calls
  <2>2. CASE SetWriter(call[t].hash, NoWriter)
    <3>1. /\ writer' \in [Hashes -> Writers \cup {NoWriter}]
          /\ disk' \in [shard : [Hashes -> SUBSET Content],
                         writer : [Hashes -> SUBSET (Writers \cup {NoWriter})]]
      BY <2>1, <2>2, SetWriterType, <1>16 DEF DeleteSidecar, At, Calls
    <3> QED BY <1>16, <3>1 DEF DeleteSidecar, Return, GoTo, At, locks
  <2>3. CASE UNCHANGED <<writer, disk>>
    BY <1>16, <2>3 DEF DeleteSidecar, Return, GoTo, At, locks
  <2> QED BY <1>16, <2>2, <2>3 DEF DeleteSidecar
<1>17. ASSUME NEW t \in Threads, DeleteFails(t) PROVE TInv'
  BY <1>17 DEF DeleteFails, Return, GoTo, files, locks
<1>18. ASSUME NEW s \in Stores, Kill(s) PROVE TInv'
  BY <1>18 DEF Kill, NoCall, files
<1>19. CASE PowerLoss
  BY <1>19 DEF PowerLoss, NoCall
<1>20. ASSUME NEW h \in Hashes, Rot(h) PROVE TInv'
  BY <1>20 DEF Rot, locks
<1>21. CASE UNCHANGED vars
  BY <1>21 DEF vars
<1> QED
  BY <1>1, <1>2, <1>3, <1>4, <1>5, <1>6, <1>7, <1>8, <1>9, <1>10, <1>11, <1>12, <1>13, <1>14, <1>15, <1>16, <1>17, <1>18, <1>19, <1>20, <1>21
  DEF Next, Acquire, Work, Environment

(* Every variable holds a value of its type, whatever faults occur.        *)
THEOREM TypeCorrect == Spec => []TypeOK
<1>1. TInv => TypeOK
  BY DEF TInv
<1> QED
  BY <1>1, TypeInit, TypeStep, PTL DEF Spec

-----------------------------------------------------------------------------
(* Lock discipline.                                                        *)

LInv == TInv /\ HoldsLocks

LEMMA LocksInit == Init => LInv
<1> SUFFICES ASSUME Init PROVE HoldsLocks
  BY TypeInit DEF LInv
<1> QED BY DEF Init, HoldsLocks, Critical, Creating

LEMMA LocksStep == LInv /\ [Next]_vars => LInv'
<1> SUFFICES ASSUME LInv, [Next]_vars PROVE HoldsLocks'
  BY TypeStep DEF LInv
<1> USE DEF LInv, TInv, TypeOK, HoldsLocks, Creating, Critical
<1>1. ASSUME NEW t \in Threads, Begin(t) PROVE HoldsLocks'
  BY <1>1 DEF Begin, GoTo, locks
<1>2. ASSUME NEW t \in Threads, LockMutex(t) PROVE HoldsLocks'
  BY <1>2 DEF LockMutex, GoTo
<1>3. ASSUME NEW t \in Threads, LockFile(t) PROVE HoldsLocks'
  BY <1>3 DEF LockFile, FlockFree, GoTo
<1>4. ASSUME NEW t \in Threads, LockFails(t) PROVE HoldsLocks'
  BY <1>4 DEF LockFails, GoTo
<1>5. ASSUME NEW t \in Threads, Unlock(t) PROVE HoldsLocks'
  BY <1>5 DEF Unlock, Unlocks, GoTo
<1>6. ASSUME NEW t \in Threads, PutExists(t) PROVE HoldsLocks'
  BY <1>6 DEF PutExists, At, locks, GoTo, Return
<1>7. ASSUME NEW t \in Threads, PutAdmit(t) PROVE HoldsLocks'
  BY <1>7 DEF PutAdmit, At, locks, GoTo, Return
<1>8. ASSUME NEW t \in Threads, PutLink(t) PROVE HoldsLocks'
  BY <1>8 DEF PutLink, At, locks, GoTo, Return
<1>9. ASSUME NEW t \in Threads, PutSync(t) PROVE HoldsLocks'
  BY <1>9 DEF PutSync, At, locks, GoTo, Return
<1>10. ASSUME NEW t \in Threads, PutClaim(t) PROVE HoldsLocks'
  BY <1>10 DEF PutClaim, At, locks, GoTo
<1>11. ASSUME NEW t \in Threads, PutClaimSync(t) PROVE HoldsLocks'
  BY <1>11 DEF PutClaimSync, At, locks, GoTo, Return
<1>12. ASSUME NEW t \in Threads, PutRollback(t) PROVE HoldsLocks'
  BY <1>12 DEF PutRollback, At, locks, GoTo, Return
<1>13. ASSUME NEW t \in Threads, PutFails(t) PROVE HoldsLocks'
  BY <1>13 DEF PutFails, At, locks, GoTo, Return
<1>14. ASSUME NEW t \in Threads, DeleteCheck(t) PROVE HoldsLocks'
  BY <1>14 DEF DeleteCheck, At, locks, GoTo, Return
<1>15. ASSUME NEW t \in Threads, DeleteShard(t) PROVE HoldsLocks'
  BY <1>15 DEF DeleteShard, At, locks, GoTo
<1>16. ASSUME NEW t \in Threads, DeleteSidecar(t) PROVE HoldsLocks'
  BY <1>16 DEF DeleteSidecar, At, locks, GoTo, Return
<1>17. ASSUME NEW t \in Threads, DeleteFails(t) PROVE HoldsLocks'
  BY <1>17 DEF DeleteFails, At, locks, GoTo, Return
<1>18. ASSUME NEW s \in Stores, Kill(s) PROVE HoldsLocks'
  BY <1>18 DEF Kill
<1>19. CASE PowerLoss
  BY <1>19 DEF PowerLoss
<1>20. ASSUME NEW h \in Hashes, Rot(h) PROVE HoldsLocks'
  BY <1>20 DEF Rot, locks
<1>21. CASE UNCHANGED vars
  BY <1>21 DEF vars
<1> QED
  BY <1>1, <1>2, <1>3, <1>4, <1>5, <1>6, <1>7, <1>8, <1>9, <1>10, <1>11, <1>12, <1>13, <1>14, <1>15, <1>16, <1>17, <1>18, <1>19, <1>20, <1>21
  DEF Next, Acquire, Work, Environment

(* No step of PutOwned or DeleteOwned on the directory is taken without    *)
(* the flock and the mutex of the thread's own Store.                      *)
THEOREM LocksHeld == Spec => []HoldsLocks
<1>1. LInv => HoldsLocks
  BY DEF LInv
<1> QED
  BY <1>1, LocksInit, LocksStep, PTL DEF Spec

-----------------------------------------------------------------------------
(* What the holder of the locks knows at each of its steps, no name having *)
(* reverted under its feet.  HoldsLocks makes it inductive: another thread *)
(* cannot touch the directory meanwhile.                                   *)

NoPromise(h) == \A p \in promised : p[1] # h

Knows(t) == LET h == call[t].hash IN
    /\ pc[t] = "link" => shard[h] = "none"
    /\ pc[t] \in Creating => shard[h] # "none" /\ NoPromise(h)
    /\ pc[t] \in {"remove", "unclaim"} => writer[h] = call[t].writer
    /\ pc[t] = "unclaim" => shard[h] = "none"
    /\ At(t, "unlock", "put") /\ result[t] = "ok" => shard[h] # "none"
    /\ At(t, "unlock", "delete") /\ result[t] = "ok" =>
          shard[h] = "none" /\ writer[h] = NoWriter

Knowledge == \A t \in Threads : Knows(t)

IInv == LInv /\ Knowledge /\ PromisedShardsStay

LEMMA InvInit == Init => IInv
<1> SUFFICES ASSUME Init PROVE Knowledge /\ PromisedShardsStay
  BY LocksInit DEF IInv
<1> QED BY DEF Init, Knowledge, Knows, PromisedShardsStay, Creating, At

LEMMA InvStep ==
    ASSUME IInv, [Next]_vars, ~ PowerLoss
    PROVE  IInv'
<1>0. LInv'
  BY LocksStep DEF IInv
<1> SUFFICES Knowledge' /\ PromisedShardsStay'
  BY <1>0 DEF IInv
<1> USE DEF IInv, LInv, TInv, TypeOK, InCall, HoldsLocks, Content,
            Creating, Critical, Knowledge, PromisedShardsStay
<1>1. ASSUME NEW t \in Threads, Begin(t) PROVE Knowledge' /\ PromisedShardsStay'
  BY <1>1, <1>0 DEF Begin, GoTo, files, locks, Knows, NoPromise, At, Calls
<1>2. ASSUME NEW t \in Threads, LockMutex(t) PROVE Knowledge' /\ PromisedShardsStay'
  BY <1>2, <1>0 DEF LockMutex, GoTo, files, Knows, NoPromise, At, Calls
<1>3. ASSUME NEW t \in Threads, LockFile(t) PROVE Knowledge' /\ PromisedShardsStay'
  BY <1>3, <1>0 DEF LockFile, GoTo, files, Knows, NoPromise, At, Calls
<1>4. ASSUME NEW t \in Threads, LockFails(t) PROVE Knowledge' /\ PromisedShardsStay'
  BY <1>4, <1>0 DEF LockFails, GoTo, files, Knows, NoPromise, At, Calls
<1>5. ASSUME NEW t \in Threads, Unlock(t) PROVE Knowledge' /\ PromisedShardsStay'
  BY <1>5, <1>0 DEF Unlock, Unlocks, GoTo, files, Knows, NoPromise, At, Calls
<1>6. ASSUME NEW t \in Threads, PutExists(t) PROVE Knowledge' /\ PromisedShardsStay'
  BY <1>6, <1>0 DEF PutExists, Return, GoTo, files, locks, Knows, NoPromise, At, Calls
<1>7. ASSUME NEW t \in Threads, PutAdmit(t) PROVE Knowledge' /\ PromisedShardsStay'
  BY <1>7, <1>0 DEF PutAdmit, Return, GoTo, files, locks, Knows, NoPromise, At, Calls
<1>8. ASSUME NEW t \in Threads, PutLink(t) PROVE Knowledge' /\ PromisedShardsStay'
  BY <1>8, <1>0 DEF PutLink, SetShard, Return, GoTo, locks, Knows, NoPromise, At, Calls
<1>9. ASSUME NEW t \in Threads, PutSync(t) PROVE Knowledge' /\ PromisedShardsStay'
  BY <1>9, <1>0 DEF PutSync, SyncDir, Return, GoTo, locks, Knows, NoPromise, At, Calls
<1>10. ASSUME NEW t \in Threads, PutClaim(t) PROVE Knowledge' /\ PromisedShardsStay'
  BY <1>10, <1>0 DEF PutClaim, SetWriter, GoTo, locks, Knows, NoPromise, At, Calls
<1>11. ASSUME NEW t \in Threads, PutClaimSync(t) PROVE Knowledge' /\ PromisedShardsStay'
  BY <1>11, <1>0 DEF PutClaimSync, SyncDir, Return, GoTo, locks, Knows, NoPromise, At, Calls
<1>12. ASSUME NEW t \in Threads, PutRollback(t) PROVE Knowledge' /\ PromisedShardsStay'
  BY <1>12, <1>0 DEF PutRollback, SetShard, Return, GoTo, locks, Knows, NoPromise, At, Calls
<1>13. ASSUME NEW t \in Threads, PutFails(t) PROVE Knowledge' /\ PromisedShardsStay'
  BY <1>13, <1>0 DEF PutFails, Return, GoTo, files, locks, Knows, NoPromise, At, Calls
<1>14. ASSUME NEW t \in Threads, DeleteCheck(t) PROVE Knowledge' /\ PromisedShardsStay'
  BY <1>14, <1>0 DEF DeleteCheck, Return, GoTo, files, locks, IsOwner, Knows, NoPromise, At, Calls
<1>15. ASSUME NEW t \in Threads, DeleteShard(t) PROVE Knowledge' /\ PromisedShardsStay'
  BY <1>15, <1>0 DEF DeleteShard, SetShard, GoTo, locks, Knows, NoPromise, At, Calls
<1>16. ASSUME NEW t \in Threads, DeleteSidecar(t) PROVE Knowledge' /\ PromisedShardsStay'
  BY <1>16, <1>0 DEF DeleteSidecar, SetWriter, Return, GoTo, locks, Knows, NoPromise, At, Calls
<1>17. ASSUME NEW t \in Threads, DeleteFails(t) PROVE Knowledge' /\ PromisedShardsStay'
  BY <1>17, <1>0 DEF DeleteFails, Return, GoTo, files, locks, Knows, NoPromise, At, Calls
<1>18. ASSUME NEW s \in Stores, Kill(s) PROVE Knowledge' /\ PromisedShardsStay'
  BY <1>18 DEF Kill, files, Knows, NoPromise, At
<1>20. ASSUME NEW h \in Hashes, Rot(h) PROVE Knowledge' /\ PromisedShardsStay'
  BY <1>20 DEF Rot, locks, Knows, NoPromise, At, Calls
<1>21. CASE UNCHANGED vars
  BY <1>21 DEF vars, Knows, NoPromise, At
<1> QED
  BY <1>1, <1>2, <1>3, <1>4, <1>5, <1>6, <1>7, <1>8, <1>9, <1>10, <1>11, <1>12, <1>13, <1>14, <1>15, <1>16, <1>17, <1>18, <1>20, <1>21
  DEF Next, Acquire, Work, Environment

(* Unless the power fails, a shard some writer was told is stored stays    *)
(* there until it is deleted, whatever Put, kill or failing system call    *)
(* comes in between.                                                       *)
THEOREM PromisesKept ==
    ASSUME "power" \notin Faults
    PROVE  Spec => []PromisedShardsStay
<1>1. IInv /\ [Next]_vars => IInv'
  BY InvStep DEF PowerLoss
<1>2. IInv => PromisedShardsStay
  BY DEF IInv
<1> QED
  BY <1>1, <1>2, InvInit, PTL DEF Spec

(* Unless the power fails, a delete that reports success has removed both  *)
(* the shard and its sidecar.                                              *)
THEOREM DeletesComplete ==
    ASSUME "power" \notin Faults
    PROVE  Spec => []DeleteComplete
<1>1. IInv /\ [Next]_vars => IInv'
  BY InvStep DEF PowerLoss
<1>2. IInv => DeleteComplete
  BY DEF IInv, Knowledge, Knows, DeleteComplete
<1> QED
  BY <1>1, <1>2, InvInit, PTL DEF Spec

-----------------------------------------------------------------------------
(* Power loss.                                                             *)

(* Where power is lost but no call fails and no process dies halfway, what *)
(* is visible is on disk, but for the shard a put is about to sync.        *)
OnDisk(h) == shard[h] # "none" => "none" \notin disk.shard[h]

Durable == \A h \in Hashes :
    OnDisk(h) \/ \E t \in Threads : pc[t] = "sync" /\ call[t].hash = h

DInv == IInv /\ Durable

LEMMA DurableInit == Init => Durable
  BY DEF Init, Durable, OnDisk

(* Nothing is published or removed, and nobody leaves the sync.            *)
LEMMA DurableElsewhere ==
    ASSUME Durable, NEW t \in Threads, pc[t] # "sync",
           \A r \in Threads \ {t} : pc'[r] = pc[r] /\ call'[r] = call[r],
           shard' = shard, disk'.shard = disk.shard
    PROVE  Durable'
<1> SUFFICES ASSUME NEW h \in Hashes,
                    ~ \E r \in Threads : pc[r] = "sync" /\ call[r].hash = h
             PROVE  OnDisk(h)'
  BY DEF Durable
<1> QED BY DEF Durable, OnDisk

LEMMA DurableStep ==
    ASSUME Faults \cap {"io", "kill"} = {}, DInv, [Next]_vars
    PROVE  DInv'
<1> USE DEF DInv, IInv, LInv, TInv, TypeOK, InCall, HoldsLocks
<1>1. CASE PowerLoss
  <2>1. LInv'
    BY LocksStep
  <2>2. Knowledge'
    BY <1>1 DEF PowerLoss, Knowledge, Knows, Creating, At
  <2>3. ASSUME NEW p \in promised' PROVE shard'[p[1]] # "none"
    <3>1. p \in promised /\ p[1] \in Hashes
      BY <1>1, <2>3 DEF PowerLoss
    <3>2. OnDisk(p[1])
      BY <3>1 DEF Durable, Knowledge, Knows, NoPromise, Creating
    <3>3. shard[p[1]] # "none" /\ shard'[p[1]] \in disk.shard[p[1]]
      BY <1>1, <3>1 DEF PowerLoss, PromisedShardsStay
    <3> QED BY <3>2, <3>3 DEF OnDisk
  <2>4. Durable'
    BY <1>1 DEF PowerLoss, Durable, OnDisk
  <2> QED BY <2>1, <2>2, <2>3, <2>4 DEF PromisedShardsStay
<1>2. CASE ~ PowerLoss
  <2>1. IInv'
    BY <1>2, InvStep
  <2> SUFFICES Durable'
    BY <2>1
  <2>2. ASSUME NEW t \in Threads, pc[t] # "sync",
               UNCHANGED <<shard, disk>>,
               \A r \in Threads \ {t} : pc'[r] = pc[r] /\ call'[r] = call[r]
        PROVE  Durable'
    BY <2>2, DurableElsewhere
  <2>3. ASSUME NEW t \in Threads,
               Begin(t) \/ LockMutex(t) \/ LockFile(t) \/ Unlock(t) \/ PutExists(t)
               \/ PutAdmit(t) \/ DeleteCheck(t)
        PROVE  Durable'
    <3>1. pc[t] # "sync" /\ UNCHANGED <<shard, disk>>
      BY <2>3 DEF Begin, LockMutex, LockFile, Unlock, PutExists, PutAdmit,
                  DeleteCheck, At, files
    <3>2. \A r \in Threads \ {t} : pc'[r] = pc[r] /\ call'[r] = call[r]
      BY <2>3 DEF Begin, LockMutex, LockFile, Unlock, PutExists, PutAdmit,
                  DeleteCheck, Return, GoTo
    <3> QED BY <2>2, <3>1, <3>2
(* The shard is linked by who is about to sync it.                         *)
  <2>4. ASSUME NEW t \in Threads, PutLink(t) PROVE Durable'
    <3>1. CASE UNCHANGED <<shard, disk>>
      <4>1. pc[t] # "sync" /\ \A r \in Threads \ {t} : pc'[r] = pc[r] /\ call'[r] = call[r]
        BY <2>4 DEF PutLink, At, Return, GoTo
      <4> QED BY <2>2, <3>1, <4>1
    <3>2. CASE SetShard(call[t].hash, "whole") /\ GoTo(t, "sync")
      <4>1. pc'[t] = "sync" /\ call' = call
        BY <2>4, <3>2 DEF PutLink, GoTo
      <4>2. ASSUME NEW h \in Hashes, h # call[t].hash, OnDisk(h) PROVE OnDisk(h)'
        BY <3>2, <4>2 DEF SetShard, OnDisk
      <4>3. \A r \in Threads \ {t} : pc'[r] = pc[r]
        BY <3>2 DEF GoTo
      <4>4. pc[t] # "sync"
        BY <2>4 DEF PutLink, At
      <4> QED BY <4>1, <4>2, <4>3, <4>4 DEF Durable
    <3> QED BY <2>4, <3>1, <3>2 DEF PutLink
(* A sync settles every name.                                              *)
  <2>5. ASSUME NEW t \in Threads, PutSync(t) \/ PutClaimSync(t) PROVE Durable'
    BY <2>5 DEF PutSync, PutClaimSync, SyncDir, Durable, OnDisk
  <2>6. ASSUME NEW t \in Threads, PutClaim(t) \/ DeleteSidecar(t) PROVE Durable'
    <3>1. pc[t] # "sync" /\ shard' = shard
      BY <2>6 DEF PutClaim, DeleteSidecar, At
    <3>2. disk'.shard = disk.shard
      BY <2>6 DEF PutClaim, DeleteSidecar, SetWriter
    <3>3. \A r \in Threads \ {t} : pc'[r] = pc[r] /\ call'[r] = call[r]
      BY <2>6 DEF PutClaim, DeleteSidecar, Return, GoTo
    <3> QED BY <3>1, <3>2, <3>3, DurableElsewhere
(* What is removed need not be on disk.                                    *)
  <2>7. ASSUME NEW t \in Threads, PutRollback(t) \/ DeleteShard(t) PROVE Durable'
    <3>1. pc[t] # "sync" /\ call' = call
          /\ \A r \in Threads \ {t} : pc'[r] = pc[r]
      BY <2>7 DEF PutRollback, DeleteShard, At, Return, GoTo
    <3>2. CASE UNCHANGED <<shard, disk>>
      BY <2>2, <3>1, <3>2
    <3>3. CASE SetShard(call[t].hash, "none")
      <4>1. call[t].hash \in Hashes
        BY <2>7 DEF PutRollback, DeleteShard, At, Calls
      <4>2. ASSUME NEW h \in Hashes, OnDisk(h) PROVE OnDisk(h)'
        BY <3>3, <4>1, <4>2 DEF SetShard, OnDisk
      <4> QED BY <3>1, <4>2 DEF Durable
    <3> QED BY <2>7, <3>2, <3>3 DEF PutRollback, DeleteShard
  <2>8. ASSUME NEW g \in Hashes, Rot(g) PROVE Durable'
    <3>1. ASSUME NEW h \in Hashes, OnDisk(h) PROVE OnDisk(h)'
      BY <2>8, <3>1 DEF Rot, OnDisk
    <3> QED BY <2>8, <3>1 DEF Rot, Durable
  <2>9. CASE UNCHANGED vars
    BY <2>9 DEF vars, Durable, OnDisk
  <2>10. \A t \in Threads : ~ LockFails(t) /\ ~ PutFails(t) /\ ~ DeleteFails(t)
    BY DEF LockFails, PutFails, DeleteFails
  <2>11. \A s \in Stores : ~ Kill(s)
    BY DEF Kill
  <2> QED
    BY <1>2, <2>3, <2>4, <2>5, <2>6, <2>7, <2>8, <2>9, <2>10, <2>11
    DEF Next, Acquire, Work, Environment
<1> QED BY <1>1, <1>2

(* A put that has reported success is durable: as long as no system call   *)
(* fails and no process dies between a link and its sync, the shard is     *)
(* there after any number of power losses (atomicfile.go:44-52, and        *)
(* localstore.go:72, 76).                                                  *)
THEOREM PromisesSurvivePowerLoss ==
    ASSUME Faults \cap {"io", "kill"} = {}
    PROVE  Spec => []PromisedShardsStay
<1>1. DInv /\ [Next]_vars => DInv'
  BY DurableStep
<1>2. DInv => PromisedShardsStay
  BY DEF DInv, IInv
<1>3. Init => DInv
  BY InvInit, DurableInit DEF DInv
<1> QED
  BY <1>1, <1>2, <1>3, PTL DEF Spec

-----------------------------------------------------------------------------
(* The quota.                                                              *)

LEMMA BytesFinite ==
    ASSUME NEW H \in SUBSET Hashes
    PROVE  IsFiniteSet(Bytes(H)) /\ Cardinality(Bytes(H)) \in Nat
<1> DEFINE B == {{h} \X (1..Size[h]) : h \in H}
           f == [h \in H |-> {h} \X (1..Size[h])]
<1>1. IsFiniteSet(H)
  BY FS_Subset
<1>2. f \in Surjection(H, B)
  BY DEF Surjection
<1>3. IsFiniteSet(B)
  BY <1>1, <1>2, FS_Surjection
<1>4. ASSUME NEW h \in H PROVE IsFiniteSet({h} \X (1..Size[h]))
  <2>1. PICK S, T : S = {h} /\ T = 1..Size[h]
    OBVIOUS
  <2>2. IsFiniteSet(S) /\ IsFiniteSet(T)
    <3>1. IsFiniteSet({h})
      BY FS_Singleton
    <3>2. IsFiniteSet(1..Size[h])
      BY FS_Interval
    <3> QED BY <2>1, <3>1, <3>2
  <2>3. IsFiniteSet(S \X T)
    BY <2>2, FS_Product
  <2> QED BY <2>1, <2>3
<1>5. IsFiniteSet(UNION B)
  BY <1>3, <1>4, FS_UNION
<1> QED BY <1>5, FS_CardinalityType DEF Bytes

(* Taking shards away frees bytes; a shard adds no more than its size.     *)
LEMMA BytesShrink ==
    ASSUME NEW H \in SUBSET Hashes, NEW G \in SUBSET H
    PROVE  Cardinality(Bytes(G)) <= Cardinality(Bytes(H))
<1>1. Bytes(G) \subseteq Bytes(H)
  BY DEF Bytes
<1> QED BY <1>1, BytesFinite, FS_Subset

LEMMA BytesGrow ==
    ASSUME NEW H \in SUBSET Hashes, NEW h \in Hashes
    PROVE  Cardinality(Bytes(H \cup {h})) <= Cardinality(Bytes(H)) + Size[h]
<1>1. PICK new : new = {h} \X (1..Size[h])
  OBVIOUS
<1>2. Bytes(H \cup {h}) = Bytes(H) \cup new
  BY <1>1 DEF Bytes
<1>3. IsFiniteSet(new) /\ Cardinality(new) = Size[h]
  <2>1. Size[h] \in Nat
    OBVIOUS
  <2>2. IsFiniteSet({h}) /\ Cardinality({h}) = 1
    BY FS_Singleton
  <2>3. IsFiniteSet(1..Size[h]) /\ Cardinality(1..Size[h]) = Size[h]
    BY <2>1, FS_Interval
  <2>4. /\ IsFiniteSet({h} \X (1..Size[h]))
        /\ Cardinality({h} \X (1..Size[h])) = 1 * Size[h]
    BY <2>2, <2>3, FS_Product
  <2> QED BY <1>1, <2>1, <2>4
<1>4. IsFiniteSet(Bytes(H)) /\ Cardinality(Bytes(H)) \in Nat
  BY BytesFinite
<1>5. PICK both : both = Bytes(H) \cap new
  OBVIOUS
<1>6. Cardinality(both) \in Nat
  BY <1>4, <1>5, FS_Subset, FS_CardinalityType
<1>7. Cardinality(Bytes(H) \cup new) =
        Cardinality(Bytes(H)) + Cardinality(new) - Cardinality(both)
  BY <1>3, <1>4, <1>5, FS_Union
<1>8. Size[h] \in Nat
  OBVIOUS
<1>9. Cardinality(Bytes(H \cup {h})) =
        Cardinality(Bytes(H)) + Size[h] - Cardinality(both)
  BY <1>2, <1>3, <1>7
<1> QED
  BY <1>4, <1>6, <1>8, <1>9

(* A put about to publish its shard still has the room it was admitted to: *)
(* nobody else can fill the directory while it holds the flock.            *)
Room == \A t \in Threads : pc[t] = "link" => Fits(t, call[t].hash)

QInv == LInv /\ Room

LEMMA QuotaInit == Init => QInv
  BY LocksInit DEF QInv, Room, Init

LEMMA UsageInNat == Usage \in Nat /\ Usage' \in Nat
  BY BytesFinite DEF Usage, Visible

(* What one thread publishes or removes, in possession of the flock.       *)
LEMMA PublishesOne ==
    ASSUME LInv, NEW t \in Threads, PutLink(t)
    PROVE  /\ call[t].hash \in Hashes
           /\ \/ Visible' = Visible
              \/ Visible' = Visible \cup {call[t].hash} /\ Publishes(t)
<1> USE DEF LInv, TInv, TypeOK, InCall
<1>1. call[t].hash \in Hashes
  BY DEF PutLink, At, Calls, NoCall
<1>2. CASE shard[call[t].hash] = "none"
  BY <1>1, <1>2 DEF PutLink, At, SetShard, GoTo, Visible, Publishes
<1>3. CASE shard[call[t].hash] # "none"
  BY <1>1, <1>3 DEF PutLink, Visible
<1> QED BY <1>1, <1>2, <1>3

LEMMA TakesAway ==
    ASSUME LInv, NEW t \in Threads, PutRollback(t) \/ DeleteShard(t)
    PROVE  Visible' \subseteq Visible
  BY DEF LInv, TInv, TypeOK, PutRollback, DeleteShard, SetShard, Visible

LEMMA QuotaStep ==
    ASSUME QInv, [Next]_vars
    PROVE  QInv'
<1>0. LInv'
  BY LocksStep DEF QInv
<1> SUFFICES Room'
  BY <1>0 DEF QInv
<1> USE DEF QInv, LInv, TInv, TypeOK, InCall, HoldsLocks
(* Steps that leave the names alone, and admit nobody.                     *)
<1>1. ASSUME Visible' = Visible,
             \A u \in Threads : pc'[u] = "link" => pc[u] = "link" /\ call'[u] = call[u]
      PROVE  Room'
  BY <1>1 DEF Room, Fits, Usage
<1>2. ASSUME NEW t \in Threads,
             \/ Begin(t) \/ Acquire(t) \/ PutExists(t) \/ PutSync(t)
             \/ PutClaim(t) \/ PutClaimSync(t) \/ PutFails(t) \/ DeleteCheck(t)
             \/ DeleteSidecar(t) \/ DeleteFails(t) \/ LockFails(t) \/ Unlock(t)
      PROVE  Room'
  <2>1. UNCHANGED shard
    BY <1>2
    DEF Begin, Acquire, LockMutex, LockFile, PutExists, PutSync, PutClaim,
        PutClaimSync, PutFails, DeleteCheck, DeleteSidecar, DeleteFails,
        LockFails, Unlock, files
  <2>2. /\ \A u \in Threads \ {t} : pc'[u] = pc[u] /\ call'[u] = call[u]
        /\ pc'[t] # "link"
    BY <1>2
    DEF Begin, Acquire, LockMutex, LockFile, PutExists, PutSync, PutClaim,
        PutClaimSync, PutFails, DeleteCheck, DeleteSidecar, DeleteFails,
        LockFails, Unlock, GoTo, Return
  <2> QED BY <1>1, <2>1, <2>2 DEF Visible
<1>3. ASSUME NEW t \in Threads, PutAdmit(t) PROVE Room'
  <2>1. Usage' = Usage /\ call' = call
    BY <1>3 DEF PutAdmit, files, Visible, Usage
  <2>2. \A u \in Threads : pc'[u] = "link" =>
            pc[u] = "link" \/ (u = t /\ Fits(t, call[t].hash))
    BY <1>3 DEF PutAdmit, GoTo, Return
  <2> QED BY <2>1, <2>2 DEF Room, Fits
(* The holder of the flock is the only one with a shard to publish.        *)
<1>4. ASSUME NEW t \in Threads,
             PutLink(t) \/ PutRollback(t) \/ DeleteShard(t)
      PROVE  Room'
  <2>1. pc[t] \in Critical \ {"check"} /\ pc[t] # "idle" /\ pc'[t] # "link"
    BY <1>4
    DEF PutLink, PutRollback, DeleteShard, At, GoTo, Return, Critical, Creating
  <2>2. \A u \in Threads \ {t} : pc[u] \notin Critical /\ pc'[u] = pc[u]
    BY <1>4, <2>1 DEF PutLink, PutRollback, DeleteShard, GoTo, Return
  <2> QED BY <2>1, <2>2 DEF Room, Critical
<1>5. ASSUME NEW s \in Stores, Kill(s) PROVE Room'
  <2>1. Visible' = Visible
    BY <1>5 DEF Kill, files, Visible
  <2>2. \A u \in Threads : pc'[u] = "link" => pc[u] = "link" /\ call'[u] = call[u]
    BY <1>5 DEF Kill
  <2> QED BY <1>1, <2>1, <2>2
<1>6. ASSUME NEW h \in Hashes, Rot(h) PROVE Room'
  <2>1. Visible' = Visible
    BY <1>6 DEF Rot, Visible
  <2> QED BY <1>1, <1>6, <2>1 DEF Rot
<1>7. CASE PowerLoss
  BY <1>7 DEF PowerLoss, Room
<1>8. CASE UNCHANGED vars
  BY <1>1, <1>8 DEF vars, Visible
<1> QED
  BY <1>2, <1>3, <1>4, <1>5, <1>6, <1>7, <1>8 DEF Next, Work, Environment

(* How a step changes the room the shards take.                            *)
LEMMA UsageStep ==
    ASSUME LInv, [Next]_vars
    PROVE  \/ PowerLoss
           \/ Usage' <= Usage
           \/ \E t \in Threads :
                 PutLink(t) /\ Publishes(t) /\ Usage' <= Usage + Size[call[t].hash]
<1>1. ASSUME Visible' \subseteq Visible PROVE Usage' <= Usage
  BY <1>1, BytesShrink DEF Usage, Visible
<1>2. ASSUME NEW t \in Threads, PutLink(t)
      PROVE  \/ Usage' <= Usage
             \/ Publishes(t) /\ Usage' <= Usage + Size[call[t].hash]
  <2>1. PICK h \in Hashes : h = call[t].hash
    BY <1>2, PublishesOne
  <2>2. \/ Visible' = Visible
        \/ Visible' = Visible \cup {h} /\ Publishes(t)
    BY <1>2, <2>1, PublishesOne
  <2>3. ASSUME Visible' = Visible \cup {h} PROVE Usage' <= Usage + Size[h]
    BY <2>3, BytesGrow DEF Usage, Visible
  <2> QED BY <1>1, <2>1, <2>2, <2>3
<1>3. ASSUME NEW t \in Threads, PutRollback(t) \/ DeleteShard(t)
      PROVE  Usage' <= Usage
  BY <1>1, <1>3, TakesAway
<1>4. ASSUME NEW t \in Threads,
             \/ Begin(t) \/ Acquire(t) \/ PutAdmit(t) \/ PutExists(t) \/ PutSync(t)
             \/ PutClaim(t) \/ PutClaimSync(t) \/ PutFails(t) \/ DeleteCheck(t)
             \/ DeleteSidecar(t) \/ DeleteFails(t) \/ LockFails(t) \/ Unlock(t)
      PROVE  Usage' <= Usage
  <2>1. UNCHANGED shard
    BY <1>4
    DEF Begin, Acquire, LockMutex, LockFile, PutAdmit, PutExists, PutSync,
        PutClaim, PutClaimSync, PutFails, DeleteCheck, DeleteSidecar,
        DeleteFails, LockFails, Unlock, files
  <2> QED BY <1>1, <2>1 DEF Visible
<1>5. ASSUME NEW s \in Stores, Kill(s) PROVE Usage' <= Usage
  BY <1>1, <1>5 DEF Kill, files, Visible
<1>6. ASSUME NEW h \in Hashes, Rot(h) PROVE Usage' <= Usage
  <2>1. Visible' = Visible
    BY <1>6 DEF Rot, Visible, LInv, TInv, TypeOK
  <2> QED BY <1>1, <2>1
<1>7. CASE UNCHANGED vars
  BY <1>1, <1>7 DEF vars, Visible
<1> QED
  BY <1>2, <1>3, <1>4, <1>5, <1>6, <1>7 DEF Next, Work, Environment

(* A put that publishes its shard leaves the directory within its quota.   *)
LEMMA PublishesWithin ==
    ASSUME QInv, NEW t \in Threads, PutLink(t),
           Usage' <= Usage + Size[call[t].hash]
    PROVE  Quota[StoreOf[t]] = 0 \/ Usage' <= Quota[StoreOf[t]]
<1>1. PICK h \in Hashes : h = call[t].hash
  BY PublishesOne DEF QInv
<1>2. Fits(t, h)
  BY <1>1 DEF QInv, Room, PutLink, At
<1>3. Quota[StoreOf[t]] \in Nat /\ Size[h] \in Nat
  BY StoreAssumption
<1> QED BY <1>1, <1>2, <1>3, UsageInNat DEF Fits

(* Whatever threads and processes fill a directory, each Store with its    *)
(* own quota or none, and whichever of them fail or die: no put takes the  *)
(* directory beyond the quota of its own Store (localstore.go:69).         *)
THEOREM QuotaKept == Spec => WithinQuota
<1>1. QInv /\ [Next]_vars => QInv'
  BY QuotaStep
<1>2. QInv /\ [Next]_vars =>
        [Usage' > Usage =>
            \/ PowerLoss
            \/ \E t \in Threads :
                  /\ Publishes(t)
                  /\ Quota[StoreOf[t]] = 0 \/ Usage' <= Quota[StoreOf[t]]]_vars
  <2> SUFFICES ASSUME QInv, [Next]_vars, Usage' > Usage, ~ PowerLoss
               PROVE  \E t \in Threads :
                         /\ Publishes(t)
                         /\ Quota[StoreOf[t]] = 0 \/ Usage' <= Quota[StoreOf[t]]
    OBVIOUS
  <2>1. ~ (Usage' <= Usage)
    BY UsageInNat
  <2>2. PICK t \in Threads :
            PutLink(t) /\ Publishes(t) /\ Usage' <= Usage + Size[call[t].hash]
    BY <2>1, UsageStep DEF QInv
  <2> QED BY <2>2, PublishesWithin
<1> QED
  BY <1>1, <1>2, QuotaInit, PTL DEF Spec, WithinQuota

(* Where every Store of a directory has a quota, the largest one bounds    *)
(* the directory.  One process without a quota makes the others' worth     *)
(* nothing, and a power loss can bring a deleted shard back beside the one *)
(* admitted in its room, for DeleteOwned does not sync the directory       *)
(* (localstore.go:136-139).                                                *)
THEOREM QuotasBound ==
    ASSUME "power" \notin Faults,
           NEW most \in Nat, \A s \in Stores : Quota[s] \in 1..most
    PROVE  Spec => [](Usage <= most)
<1>1. Init => QInv /\ Usage <= most
  <2> SUFFICES ASSUME Init PROVE Usage <= most
    BY QuotaInit
  <2>1. Bytes(Visible) = {}
    BY DEF Init, Visible, Bytes
  <2>2. Usage = 0
    BY <2>1, FS_EmptySet DEF Usage
  <2> QED BY <2>2
<1>2. QInv /\ Usage <= most /\ [Next]_vars => QInv' /\ (Usage <= most)'
  <2> SUFFICES ASSUME QInv, Usage <= most, [Next]_vars PROVE Usage' <= most
    BY QuotaStep
  <2>1. ~ PowerLoss
    BY DEF PowerLoss
  <2>2. CASE Usage' <= Usage
    BY <2>2, UsageInNat
  <2>3. ASSUME NEW t \in Threads, PutLink(t),
               Usage' <= Usage + Size[call[t].hash]
        PROVE  Usage' <= most
    <3>1. Quota[StoreOf[t]] \in 1..most
      BY StoreAssumption
    <3>2. Usage' <= Quota[StoreOf[t]]
      BY <2>3, <3>1, PublishesWithin
    <3> QED BY <3>1, <3>2, UsageInNat
  <2> QED BY <2>1, <2>2, <2>3, UsageStep DEF QInv
<1> QED
  BY <1>1, <1>2, PTL DEF Spec

-----------------------------------------------------------------------------
(* Unless the power fails, a visible shard vanishes only in a delete by    *)
(* its recorded writer, or in a rollback nobody was promised anything by.  *)
THEOREM OwnersRemove ==
    ASSUME "power" \notin Faults
    PROVE  Spec => OnlyOwnerRemoves
<1>1. ASSUME IInv, [Next]_vars, NEW h \in Hashes, Vanishes(h)
      PROVE  \E t \in Threads :
                /\ pc[t] \in {"remove", "rollback"}
                /\ call[t].hash = h
                /\ IF pc[t] = "remove" THEN call[t].writer = writer[h]
                                       ELSE \A p \in promised : p[1] # h
  <2> USE DEF Vanishes, IInv, LInv, TInv, TypeOK
  <2>1. ASSUME NEW t \in Threads, PutRollback(t) \/ DeleteShard(t)
        PROVE  call[t].hash = h
    BY <1>1, <2>1 DEF PutRollback, DeleteShard, SetShard
  <2>2. \E t \in Threads : PutRollback(t) \/ DeleteShard(t)
    <3>1. ~ UNCHANGED shard
      BY <1>1
    <3>2. ASSUME NEW t \in Threads PROVE ~ PutLink(t)
      BY <1>1 DEF PutLink, SetShard
    <3>3. ASSUME NEW g \in Hashes PROVE ~ Rot(g)
      BY <1>1 DEF Rot
    <3>4. ~ PowerLoss
      BY <1>1 DEF PowerLoss
    <3> QED
      BY <1>1, <3>1, <3>2, <3>3, <3>4
      DEF Next, Acquire, Work, Environment, vars, files,
          Begin, LockMutex, LockFile, LockFails, Unlock, PutExists, PutAdmit,
          PutSync, PutClaim, PutClaimSync, PutFails, DeleteCheck,
          DeleteSidecar, DeleteFails, Kill
  <2> QED
    BY <1>1, <2>1, <2>2
    DEF PutRollback, DeleteShard, At, Knowledge, Knows, NoPromise, Creating
<1>2. IInv /\ [Next]_vars => IInv'
  BY InvStep DEF PowerLoss
<1>3. IInv /\ [Next]_vars =>
        [\A h \in Hashes : Vanishes(h) =>
           \E t \in Threads :
              /\ pc[t] \in {"remove", "rollback"}
              /\ call[t].hash = h
              /\ IF pc[t] = "remove" THEN call[t].writer = writer[h]
                                     ELSE \A p \in promised : p[1] # h]_vars
  BY <1>1
<1> QED
  BY <1>2, <1>3, InvInit, PTL DEF Spec, OnlyOwnerRemoves

-----------------------------------------------------------------------------
(* The refinement.                                                         *)

LEMMA RegistryInit == Init => Registry!Init
  BY DEF Init, Registry!Init, Visible, Undecided

LEMMA RegistryStep ==
    ASSUME "power" \notin Faults, IInv, IInv', [Next]_vars
    PROVE  [Registry!Next]_(Registry!vars)
<1> USE DEF IInv, LInv, TInv, TypeOK, InCall, HoldsLocks, Creating, Critical
<1> DEFINE Stutter == /\ Visible' \ Undecided' = Visible \ Undecided
                      /\ writer' = writer
<1> USE DEF Visible, Undecided
<1>1. ASSUME NEW t \in Threads, Begin(t) PROVE Stutter
  BY <1>1 DEF Begin, GoTo, files, locks, At, Calls
<1>2. ASSUME NEW t \in Threads, LockMutex(t) PROVE Stutter
  BY <1>2 DEF LockMutex, GoTo, files, At, Calls
<1>3. ASSUME NEW t \in Threads, LockFile(t) PROVE Stutter
  BY <1>3 DEF LockFile, GoTo, files, FlockFree, At, Calls
<1>4. ASSUME NEW t \in Threads, LockFails(t) PROVE Stutter
  BY <1>4 DEF LockFails, GoTo, files, At, Calls
<1>5. ASSUME NEW t \in Threads, Unlock(t) PROVE Stutter
  BY <1>5 DEF Unlock, Unlocks, GoTo, files, At, Calls
<1>6. ASSUME NEW t \in Threads, PutExists(t) PROVE Stutter
  BY <1>6 DEF PutExists, Return, GoTo, files, locks, At, Calls
<1>7. ASSUME NEW t \in Threads, PutAdmit(t) PROVE Stutter
  BY <1>7 DEF PutAdmit, Return, GoTo, files, locks, At, Calls
<1>8. ASSUME NEW t \in Threads, PutLink(t) PROVE Stutter
  BY <1>8 DEF PutLink, SetShard, Return, GoTo, locks, At, Calls
<1>9. ASSUME NEW t \in Threads, DeleteCheck(t) PROVE Stutter
  BY <1>9 DEF DeleteCheck, Return, GoTo, files, locks, At, Calls
<1>10. ASSUME NEW t \in Threads, DeleteFails(t) PROVE Stutter
  BY <1>10 DEF DeleteFails, Return, GoTo, files, locks, At, Calls
(* Before the link nothing is visible, and the holder of the flock has the *)
(* only undecided shard: these steps decide it, claim it, or give it up.   *)
<1>11. ASSUME NEW t \in Threads, pc[t] \in Creating
       PROVE  /\ call[t].hash \in Hashes
              /\ Undecided = {call[t].hash}
              /\ call[t].hash \in Visible
  BY <1>11 DEF Knowledge, Knows, Calls
<1>12. ASSUME NEW t \in Threads, pc[t] \in Creating, pc' = [pc EXCEPT ![t] = "unlock"],
              UNCHANGED <<call, shard, writer>>
       PROVE  Registry!Admit(call[t].hash)
  <2>1. Undecided' = {}
    BY <1>12
  <2>2. Visible' = Visible
    BY <1>12
  <2> QED BY <1>11, <1>12, <2>1, <2>2 DEF Registry!Admit
<1>13. ASSUME NEW t \in Threads, PutSync(t)
       PROVE  Stutter \/ Registry!Admit(call[t].hash)
  <2>1. CASE call[t].writer = NoWriter
    BY <1>12, <1>13, <2>1 DEF PutSync, At, Return, GoTo
  <2>2. CASE call[t].writer # NoWriter
    BY <1>13, <2>2 DEF PutSync, At, GoTo, locks
  <2> QED BY <2>1, <2>2
<1>14. ASSUME NEW t \in Threads, PutClaim(t)
       PROVE  Stutter \/ \E w \in Writers : Registry!Reserve(call[t].hash, w)
  <2>1. CASE ~ NoSidecar(t)
    BY <1>14, <2>1 DEF PutClaim, NoSidecar, At, GoTo, locks
  <2>2. CASE NoSidecar(t)
    <3>1. /\ writer' = [writer EXCEPT ![call[t].hash] = call[t].writer]
          /\ Visible' \ Undecided' = Visible \ Undecided
      BY <1>14, <2>2 DEF PutClaim, NoSidecar, SetWriter, At, GoTo, locks
    <3>2. writer[call[t].hash] = NoWriter /\ call[t].hash \in Undecided
      BY <1>14, <2>2, <1>11 DEF PutClaim, NoSidecar, At
    <3>3. CASE call[t].writer \in Writers
      BY <3>1, <3>2, <3>3 DEF Registry!Reserve
    <3>4. CASE call[t].writer = NoWriter
      BY <3>1, <3>2, <3>4
    <3> QED BY <1>14, <3>3, <3>4 DEF PutClaim, At, Calls
  <2> QED BY <2>1, <2>2
<1>15. ASSUME NEW t \in Threads, PutClaimSync(t)
       PROVE  Registry!Admit(call[t].hash)
  BY <1>12, <1>15 DEF PutClaimSync, At, Return, GoTo
<1>16. ASSUME NEW t \in Threads, PutRollback(t)
       PROVE  Stutter \/ Registry!Admit(call[t].hash)
  <2>1. CASE UNCHANGED shard
    BY <1>12, <1>16, <2>1 DEF PutRollback, At, Return, GoTo
  <2>2. CASE SetShard(call[t].hash, "none")
    BY <1>11, <1>16, <2>2 DEF PutRollback, SetShard, At, Return, GoTo
  <2> QED BY <1>16, <2>1, <2>2 DEF PutRollback
<1>17. ASSUME NEW t \in Threads, PutFails(t)
       PROVE  Stutter \/ Registry!Admit(call[t].hash)
  <2>1. CASE pc[t] = "sync"
    BY <1>12, <1>17, <2>1 DEF PutFails, Return, GoTo, files
  <2>2. CASE pc[t] # "sync"
    BY <1>17, <2>2 DEF PutFails, Return, GoTo, files, locks
  <2> QED BY <2>1, <2>2
<1>18. ASSUME NEW t \in Threads, DeleteShard(t)
       PROVE  Stutter \/ Registry!Drop(call[t].hash)
  <2>1. Undecided = {} /\ Undecided' = {}
    <3>1. \A u \in Threads : pc[u] \notin Creating
      BY <1>18 DEF DeleteShard, At
    <3>2. \A u \in Threads : pc'[u] \notin Creating
      BY <1>18, <3>1 DEF DeleteShard, At, GoTo
    <3> QED BY <3>1, <3>2
  <2>2. /\ call[t].hash \in Hashes
        /\ writer[call[t].hash] # NoWriter
    <3>1. call[t] \in Calls /\ call[t].kind = "delete"
      BY <1>18 DEF DeleteShard, At
    <3>2. writer[call[t].hash] = call[t].writer
      BY <1>18 DEF DeleteShard, At, Knowledge, Knows
    <3> QED BY <3>1, <3>2 DEF Calls
  <2>3. CASE shard[call[t].hash] # "none"
    <3>1. shard' = [shard EXCEPT ![call[t].hash] = "none"] /\ writer' = writer
      BY <1>18, <2>3 DEF DeleteShard, SetShard
    <3>2. Visible' = Visible \ {call[t].hash} /\ call[t].hash \in Visible
      BY <2>2, <2>3, <3>1
    <3> HIDE DEF Visible, Undecided
    <3> QED BY <2>1, <2>2, <3>1, <3>2 DEF Registry!Drop
  <2>4. CASE shard[call[t].hash] = "none"
    <3>1. Visible' = Visible /\ writer' = writer
      BY <1>18, <2>4 DEF DeleteShard
    <3> HIDE DEF Visible, Undecided
    <3> QED BY <2>1, <3>1
  <2> QED BY <2>3, <2>4
<1>19. ASSUME NEW t \in Threads, DeleteSidecar(t)
       PROVE  Registry!Release(call[t].hash)
  <2>1. Undecided = {} /\ Undecided' = {}
    <3>1. \A u \in Threads : pc[u] \notin Creating
      BY <1>19 DEF DeleteSidecar, At
    <3>2. \A u \in Threads : pc'[u] \notin Creating
      BY <1>19, <3>1 DEF DeleteSidecar, At, Return, GoTo
    <3> QED BY <3>1, <3>2
  <2>2. /\ writer[call[t].hash] # NoWriter
        /\ shard[call[t].hash] = "none"
    <3>1. call[t] \in Calls /\ call[t].kind = "delete"
      BY <1>19 DEF DeleteSidecar, At
    <3>2. writer[call[t].hash] = call[t].writer /\ shard[call[t].hash] = "none"
      BY <1>19 DEF DeleteSidecar, At, Knowledge, Knows
    <3> QED BY <3>1, <3>2 DEF Calls
  <2>3. Visible' = Visible
    BY <1>19 DEF DeleteSidecar
  <2> QED
    BY <1>19, <2>1, <2>2, <2>3 DEF DeleteSidecar, SetWriter, Registry!Release
<1>20. ASSUME NEW s \in Stores, Kill(s)
       PROVE  Stutter \/ \E h \in Hashes : Registry!Admit(h)
  <2> DEFINE dead == {t \in Threads : StoreOf[t] = s}
  <2>1. CASE \E t \in dead : pc[t] \in Creating
    <3> PICK t \in dead : pc[t] \in Creating
      BY <2>1
    <3>1. Undecided' = {} /\ Visible' = Visible /\ writer' = writer
      BY <1>20 DEF Kill, files
    <3>2. /\ call[t].hash \in Hashes
          /\ Undecided = {call[t].hash}
          /\ call[t].hash \in Visible
      BY <1>11
    <3> HIDE DEF Visible, Undecided
    <3> QED BY <3>1, <3>2 DEF Registry!Admit
  <2>2. CASE \A t \in dead : pc[t] \notin Creating
    <3>1. \A u \in Threads : pc[u] \in Creating => pc'[u] = pc[u] /\ call'[u] = call[u]
      BY <1>20, <2>2 DEF Kill
    <3>2. \A u \in Threads : pc'[u] \in Creating => pc'[u] = pc[u] /\ call'[u] = call[u]
      BY <1>20 DEF Kill
    <3>3. Undecided' = Undecided
      BY <3>1, <3>2
    <3>4. Visible' = Visible /\ writer' = writer
      BY <1>20 DEF Kill, files
    <3> HIDE DEF Visible, Undecided
    <3> QED BY <3>3, <3>4
  <2> QED BY <2>1, <2>2
<1>21. ASSUME NEW h \in Hashes, Rot(h) PROVE Stutter
  BY <1>21 DEF Rot, locks
<1>22. ASSUME UNCHANGED vars PROVE Stutter
  BY <1>22 DEF vars
<1>23. Stutter => UNCHANGED Registry!vars
  BY DEF Registry!vars
<1>24. ASSUME NEW t \in Threads, Work(t), pc[t] \in Critical
       PROVE  call[t].hash \in Hashes
  BY <1>24 DEF Calls
<1>25. ASSUME NEW t \in Threads, Work(t)
       PROVE  [Registry!Next]_(Registry!vars)
  <2> HIDE DEF Visible, Undecided
  <2>1. \/ Stutter
        \/ \E h \in Hashes : \/ \E w \in Writers : Registry!Reserve(h, w)
                             \/ Registry!Admit(h)
                             \/ Registry!Drop(h)
                             \/ Registry!Release(h)
    <3>1. CASE PutSync(t) \/ PutClaimSync(t) \/ PutRollback(t) \/ PutFails(t)
      <4>1. call[t].hash \in Hashes
        BY <1>24, <1>25, <3>1
        DEF PutSync, PutClaimSync, PutRollback, PutFails, At
      <4> QED BY <1>13, <1>15, <1>16, <1>17, <3>1, <4>1
    <3>2. CASE PutClaim(t) \/ DeleteShard(t) \/ DeleteSidecar(t)
      <4>1. call[t].hash \in Hashes
        BY <1>24, <1>25, <3>2 DEF PutClaim, DeleteShard, DeleteSidecar, At
      <4> QED BY <1>14, <1>18, <1>19, <3>2, <4>1
    <3> QED
      BY <1>4, <1>5, <1>6, <1>7, <1>8, <1>9, <1>10, <1>25, <3>1, <3>2 DEF Work
  <2> QED BY <1>23, <2>1 DEF Registry!Next
<1>26. ~ PowerLoss
  BY DEF PowerLoss
<1> QED
  BY <1>1, <1>2, <1>3, <1>20, <1>21, <1>22, <1>23, <1>25, <1>26
  DEF Next, Acquire, Environment, Registry!Next

(* Unless the power fails, the directory, with its locks, its two-step     *)
(* publishing and its rollbacks, implements the registry of shards: no     *)
(* writer is ever replaced, and no shard without a writer disappears.      *)
THEOREM Refinement ==
    ASSUME "power" \notin Faults
    PROVE  Spec => ImplementsRegistry
<1>1. IInv /\ [Next]_vars => IInv'
  BY InvStep DEF PowerLoss
<1>2. IInv /\ IInv' /\ [Next]_vars => [Registry!Next]_(Registry!vars)
  BY RegistryStep
<1> QED
  BY <1>1, <1>2, InvInit, RegistryInit, PTL
  DEF Spec, ImplementsRegistry, Registry!Spec
=============================================================================
