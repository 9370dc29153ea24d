----------------------------- MODULE NodeProofs -----------------------------
(***************************************************************************)
(* Theorems about Node.tla, for any number of requests, shards, devices    *)
(* and members.                                                            *)
(***************************************************************************)
EXTENDS Node, TLAPS

(* Only bodies that hash to the path get as far as the store, and there is *)
(* an answer only in the end.                                              *)
Verified == \A r \in Requests : /\ pc[r] = "store" => call[r].body = call[r].path
                                /\ pc[r] # "reply" => answer[r] = "none"

(* With the types and the mutex this is inductive.                         *)
Safe == TypeOK /\ OneBody /\ Verified

LEMMA InitSafe == Init => Safe
BY NodeAssumption DEF Init, Safe, TypeOK, OneBody, Verified, All, Answers

(* The process starts, goes on, ends: the directory and the handlers are   *)
(* left alone.                                                             *)
Quiet == \/ Start \/ ListenFails \/ TakeServing \/ TakeWatching \/ SeeCancelled
         \/ DrainTimesOut \/ Drained \/ WaitServer \/ WaitWatcher
         \/ ServeFails \/ ServeStops \/ WatchStops \/ Signal

LEMMA QuietSafe == ASSUME Safe, Quiet PROVE Safe'
<1> USE NodeAssumption DEF Safe, TypeOK, OneBody, Verified, Stopping, requests, store
<1>1. CASE Start BY <1>1 DEF Start
<1>2. CASE ListenFails BY <1>2 DEF ListenFails
<1>3. CASE TakeServing BY <1>3 DEF TakeServing
<1>4. CASE TakeWatching BY <1>4 DEF TakeWatching, Closed
<1>5. CASE SeeCancelled BY <1>5 DEF SeeCancelled, Closed
<1>6. CASE DrainTimesOut BY <1>6 DEF DrainTimesOut
<1>7. CASE Drained BY <1>7 DEF Drained
<1>8. CASE WaitServer BY <1>8 DEF WaitServer
<1>9. CASE WaitWatcher BY <1>9 DEF WaitWatcher
<1>10. CASE ServeFails BY <1>10 DEF ServeFails
<1>11. CASE ServeStops BY <1>11 DEF ServeStops
<1>12. CASE WatchStops BY <1>12 DEF WatchStops
<1>13. CASE Signal BY <1>13 DEF Signal
<1> QED BY <1>1, <1>2, <1>3, <1>4, <1>5, <1>6, <1>7, <1>8, <1>9, <1>10,
           <1>11, <1>12, <1>13 DEF Quiet

(* Steps of a handler.                                                     *)
Working(r) == \/ Admit(r) \/ Get(r) \/ Refuse(r) \/ LockTransfer(r) \/ Handle(r)

LEMMA WorkingSafe == ASSUME Safe, NEW r \in Requests, Working(r) PROVE Safe'
<1> USE NodeAssumption DEF Safe, TypeOK, OneBody, Verified, lifecycle, store, Answers
<1>1. CASE Admit(r)
  <2>1. PICK op \in {"put", "delete"}, h \in Hashes, d \in Devices :
           call' = [call EXCEPT ![r] = [op |-> op, path |-> h, from |-> d,
                                        body |-> NoBody]]
    BY <1>1 DEF Admit
  <2>2. [op |-> op, path |-> h, from |-> d, body |-> NoBody] \in Calls
    BY DEF Calls
  <2> HIDE DEF Calls
  <2> QED BY <1>1, <2>1, <2>2 DEF Admit, Passes
<1>2. CASE Get(r)
  <2>1. PICK a \in {"ok", "refused", "failed"} : Answer(r, a)
    BY <1>2 DEF Get
  <2>2. pc[r] = "none" /\ UNCHANGED <<transfer, store>>
    BY <1>2 DEF Get, Passes
  <2> QED BY <2>1, <2>2 DEF Answer
<1>3. CASE Refuse(r) BY <1>3 DEF Refuse, Answer
<1>4. CASE LockTransfer(r) BY <1>4 DEF LockTransfer, MutexFree
<1>5. CASE ReadBody(r)
  <2>1. PICK h \in Hashes : /\ call' = [call EXCEPT ![r].body = h]
                             /\ h = call[r].path
    BY <1>5 DEF ReadBody, Matches
  <2> DEFINE c == [call[r] EXCEPT !.body = h]
  <2>2. c \in Calls /\ c.body = h /\ c.path = call[r].path
    BY <1>5 DEF ReadBody, Calls
  <2>3. call' = [call EXCEPT ![r] = c]
    BY <2>1
  <2> HIDE DEF c
  <2>4. TypeOK' /\ OneBody'
    BY <1>5, <2>2, <2>3 DEF ReadBody
  <2>5. Verified'
    BY <1>5, <2>1, <2>2, <2>3 DEF ReadBody
  <2> QED BY <2>4, <2>5
<1>6. CASE RejectBody(r) BY <1>6 DEF RejectBody, Answer
<1>7. CASE Put(r)
  <2>1. call[r] \in Calls BY <1>7 DEF Put
  <2>2. stored' \subseteq Hashes /\ owner' \in [Hashes -> Devices \cup {NoWriter}]
    BY <1>7, <2>1 DEF Put, Calls, Claimant
  <2> QED BY <1>7, <2>2 DEF Put, Answer
<1>8. CASE PutFails(r) BY <1>8 DEF PutFails, Answer, Calls, Claimant
<1>9. CASE Delete(r)
  <2>1. PICK a \in {"ok", "refused"} : Answer(r, a) /\ UNCHANGED transfer
    BY <1>9 DEF Delete
  <2>2. stored' \subseteq Hashes /\ owner' \in [Hashes -> Devices \cup {NoWriter}]
    BY <1>9 DEF Delete
  <2> QED BY <1>9, <2>1, <2>2 DEF Delete, Answer
<1>10. CASE DeleteFails(r) BY <1>10 DEF DeleteFails, Answer, Calls
<1>11. CASE Reply(r) BY <1>11 DEF Reply
<1> QED BY <1>1, <1>2, <1>3, <1>4, <1>5, <1>6, <1>7, <1>8, <1>9, <1>10, <1>11
        DEF Working, Handle

(* What is left: the end of a process, and uploads of the watcher.         *)
LEMMA NextCases ==
    ASSUME [Next]_vars
    PROVE  \/ Quiet \/ Gone
           \/ \E h \in Hashes : WatchStores(h)
           \/ \E r \in Requests : Working(r)
           \/ UNCHANGED vars
BY DEF Next, Main, Quiet, Working, Exit, Kill

LEMMA NextSafe == ASSUME Safe, [Next]_vars PROVE Safe'
<1> USE NodeAssumption DEF Safe, TypeOK, OneBody, Verified
<1>1. CASE Quiet BY <1>1, QuietSafe
<1>2. CASE Gone BY <1>2 DEF Gone, All, store, Answers
<1>3. CASE \E h \in Hashes : WatchStores(h) BY <1>3 DEF WatchStores, lifecycle, requests
<1>4. CASE \E r \in Requests : Working(r) BY <1>4, WorkingSafe
<1>5. CASE UNCHANGED vars BY <1>5 DEF vars
<1> QED BY <1>1, <1>2, <1>3, <1>4, <1>5, NextCases

LEMMA AlwaysSafe == Spec => []Safe
BY InitSafe, NextSafe, PTL DEF Spec

(* The variables keep their types.                                         *)
THEOREM TypeCorrect == Spec => []TypeOK
<1>1. Safe => TypeOK BY DEF Safe
<1> QED BY <1>1, AlwaysSafe, PTL

(* server.go:99: at most one handler has a body in memory.                 *)
THEOREM OneBodyAtATime == Spec => []OneBody
<1>1. Safe => OneBody BY DEF Safe
<1> QED BY <1>1, AlwaysSafe, PTL

-----------------------------------------------------------------------------
(* The lifecycle.  What serveAndWatch knows of the goroutines where it is, *)
Ended ==
    /\ main = "off" => /\ serving = "off" /\ watching = "off"
                       /\ done = {} /\ ~ outer
    /\ main = "select" => done = {} /\ serving # "closing"
    /\ main \in {"draining", "server"} => serving # "accepting"
    /\ main \in {"watcher", "returned"} => serving \in {"off", "taken"}
    /\ main \in {"off", "select", "draining", "server"}
           => /\ "server" \in done => serving = "taken"
    /\ main \in {"off", "select", "draining", "server", "watcher"}
           => /\ "watcher" \in done => watching = "taken"
              /\ outcome = "none"
    /\ NothingLeftRunning

(* and why it has left the select.                                         *)
Caused ==
    /\ main \in {"off", "select"} => result = "none"
    /\ main = "select" /\ watching = "cancelled" => outer
    /\ main \in {"draining", "server", "watcher"} /\ result # "failed"
           => outer
    /\ NilMeansCancelled

Life == Ended /\ Caused

LEMMA InitLife == Init => Life
BY DEF Init, Life, Ended, Caused, NothingLeftRunning, NilMeansCancelled

LEMMA QuietLife == ASSUME TypeOK, Life, Quiet PROVE Life'
<1> USE DEF TypeOK, Life, Ended, Caused, NothingLeftRunning, NilMeansCancelled
<1>1. CASE Start BY <1>1 DEF Start
<1>2. CASE ListenFails BY <1>2 DEF ListenFails
<1>3. CASE TakeServing BY <1>3 DEF TakeServing
<1>4. CASE TakeWatching BY <1>4 DEF TakeWatching, Closed
<1>5. CASE SeeCancelled BY <1>5 DEF SeeCancelled, Closed
<1>6. CASE DrainTimesOut BY <1>6 DEF DrainTimesOut
<1>7. CASE Drained BY <1>7 DEF Drained
<1>8. CASE WaitServer BY <1>8 DEF WaitServer
<1>9. CASE WaitWatcher BY <1>9 DEF WaitWatcher, WatcherEnded
<1>10. CASE ServeFails BY <1>10 DEF ServeFails
<1>11. CASE ServeStops BY <1>11 DEF ServeStops
<1>12. CASE WatchStops BY <1>12 DEF WatchStops, Cancelled, Stopping
<1>13. CASE Signal BY <1>13 DEF Signal
<1> QED BY <1>1, <1>2, <1>3, <1>4, <1>5, <1>6, <1>7, <1>8, <1>9, <1>10,
           <1>11, <1>12, <1>13 DEF Quiet

(* Handlers and uploads do not touch it.                                   *)
LEMMA WorkingLife ==
    ASSUME NEW r \in Requests, Working(r) PROVE UNCHANGED lifecycle
BY DEF Working, Admit, Get, Refuse, LockTransfer, Handle, ReadBody, RejectBody,
       Put, PutFails, Delete, DeleteFails, Reply, Answer

LEMMA NextLife == ASSUME TypeOK, Life, [Next]_vars PROVE Life'
<1> USE DEF Life, Ended, Caused, NothingLeftRunning, NilMeansCancelled
<1>1. CASE Quiet BY <1>1, QuietLife
<1>2. CASE Gone BY <1>2 DEF Gone
<1>3. CASE UNCHANGED lifecycle BY <1>3 DEF lifecycle
<1>4. CASE \E h \in Hashes : WatchStores(h) BY <1>3, <1>4 DEF WatchStores
<1>5. CASE \E r \in Requests : Working(r) BY <1>3, <1>5, WorkingLife
<1>6. CASE UNCHANGED vars BY <1>3, <1>6 DEF vars, lifecycle
<1> QED BY <1>1, <1>2, <1>4, <1>5, <1>6, NextCases

LEMMA AlwaysLife == Spec => []Life
BY InitLife, NextLife, TypeCorrect, PTL DEF Spec

(* node.go:144-149: serveAndWatch leaves no goroutine of its own behind.   *)
THEOREM NothingLeft == Spec => []NothingLeftRunning
<1>1. Life => NothingLeftRunning BY DEF Life, Ended
<1> QED BY <1>1, AlwaysLife, PTL

(* node.go:150-153: success means that the node was told to stop.          *)
THEOREM NilCancelled == Spec => []NilMeansCancelled
<1>1. Life => NilMeansCancelled BY DEF Life, Caused
<1> QED BY <1>1, AlwaysLife, PTL

-----------------------------------------------------------------------------
(* The directory.  Whoever has passed the gates stays entitled while the   *)
(* request lasts; no request outlives its process.                         *)
Entitled ==
    \A r \in Requests :
        /\ pc[r] \notin {"none", "reply"} => (Restricted => call[r].from \in Members)
        /\ pc[r] \in {"lock", "body", "store"} => ~ readOnly
        /\ main = "off" => pc[r] = "none"

LEMMA InitEntitled == Init => Entitled
BY DEF Init, Entitled, All

LEMMA WorkingEntitled ==
    ASSUME Safe, Entitled, main # "off", NEW r \in Requests, Working(r)
    PROVE  Entitled'
<1> USE DEF Safe, TypeOK, Entitled, lifecycle
<1>1. CASE Admit(r)
  <2>1. PICK op \in {"put", "delete"}, h \in Hashes, d \in Devices :
           /\ Permitted(op, d)
           /\ call' = [call EXCEPT ![r] = [op |-> op, path |-> h, from |-> d,
                                           body |-> NoBody]]
           /\ pc' = [pc EXCEPT ![r] = IF op = "put" THEN "lock" ELSE "delete"]
    BY <1>1 DEF Admit, Passes
  <2> QED BY <1>1, <2>1 DEF Admit, Permitted
<1>2. CASE \E a \in Answers : Answer(r, a) BY <1>2 DEF Answer
<1>3. CASE Get(r) \/ Refuse(r) \/ RejectBody(r) \/ Put(r) \/ PutFails(r)
           \/ Delete(r) \/ DeleteFails(r)
  BY <1>2, <1>3 DEF Get, Refuse, RejectBody, Put, PutFails, Delete, DeleteFails, Answers
<1>4. CASE LockTransfer(r) BY <1>4 DEF LockTransfer
<1>5. CASE ReadBody(r) BY <1>5 DEF ReadBody, Calls
<1>6. CASE Reply(r) BY <1>6 DEF Reply
<1> QED BY <1>1, <1>3, <1>4, <1>5, <1>6 DEF Working, Handle

LEMMA NextEntitled == ASSUME Safe, Life, Entitled, [Next]_vars PROVE Entitled'
<1> USE DEF Entitled
<1>1. CASE Quiet
  <2>1. UNCHANGED requests /\ (main' = "off" => main = "off")
    BY <1>1 DEF Quiet, Start, ListenFails, TakeServing, TakeWatching, SeeCancelled,
       DrainTimesOut, Drained, WaitServer, WaitWatcher, ServeFails, ServeStops,
       WatchStops, Signal
  <2>2. Start \/ UNCHANGED readOnly
    BY <1>1 DEF Quiet, ListenFails, TakeServing, TakeWatching, SeeCancelled,
       DrainTimesOut, Drained, WaitServer, WaitWatcher, ServeFails, ServeStops,
       WatchStops, Signal
  <2> QED BY <2>1, <2>2 DEF Start, requests
<1>2. CASE Gone BY <1>2 DEF Gone, All
<1>3. CASE \E h \in Hashes : WatchStores(h)
  BY <1>3 DEF WatchStores, lifecycle, requests
<1>4. CASE \E r \in Requests : Working(r)
  <2>1. PICK r \in Requests : Working(r) BY <1>4
  <2>2. main # "off"
    BY <2>1 DEF Entitled, Connected, Working, Admit, Get, Passes, Refuse, LockTransfer,
       Handle, ReadBody, RejectBody, Put, PutFails, Delete, DeleteFails, Reply
  <2> QED BY <2>1, <2>2, WorkingEntitled
<1>5. CASE UNCHANGED vars BY <1>5 DEF vars
<1> QED BY <1>1, <1>2, <1>3, <1>4, <1>5, NextCases

LEMMA AlwaysEntitled == Spec => []Entitled
BY InitEntitled, NextEntitled, AlwaysSafe, AlwaysLife, PTL DEF Spec

(* Only these steps change the directory.                                  *)
LEMMA Changers ==
    ASSUME [Next]_vars
    PROVE  \/ UNCHANGED store
           \/ \E h \in Hashes : WatchStores(h)
           \/ \E r \in Requests : Put(r) \/ PutFails(r) \/ Delete(r) \/ DeleteFails(r)
<1>1. CASE Quiet
  BY <1>1 DEF Quiet, Start, ListenFails, TakeServing, TakeWatching, SeeCancelled,
     DrainTimesOut, Drained, WaitServer, WaitWatcher, ServeFails, ServeStops,
     WatchStops, Signal
<1>2. CASE Gone BY <1>2 DEF Gone
<1>3. ASSUME NEW r \in Requests, Working(r)
      PROVE  UNCHANGED store \/ Put(r) \/ PutFails(r) \/ Delete(r) \/ DeleteFails(r)
  BY <1>3 DEF Working, Admit, Get, Refuse, LockTransfer, Handle, ReadBody,
     RejectBody, Reply
<1>4. CASE UNCHANGED vars BY <1>4 DEF vars, store
<1> QED BY <1>1, <1>2, <1>3, <1>4, NextCases

(* server.go:47-63, 95-98 and localstore.go:129-139: the directory changes *)
(* only by this node's watcher and by those who may change it.             *)
THEOREM StoreGuarded == Spec => GuardedStore
<1> DEFINE G == store' # store =>
          \/ watching = "running" /\ stored \subseteq stored' /\ owner' = owner
          \/ \E r \in Requests :
                /\ pc[r] = "store" /\ ~ readOnly /\ stored \subseteq stored'
                /\ Restricted => call[r].from \in Members
                /\ stored' \subseteq stored \cup {call[r].path}
                /\ \/ owner' = owner
                   \/ /\ owner[call[r].path] = NoWriter
                      /\ owner' = [owner EXCEPT ![call[r].path] = call[r].from]
          \/ \E r \in Requests :
                /\ pc[r] = "delete" /\ owner[call[r].path] = call[r].from
                /\ Restricted => call[r].from \in Members
                /\ stored' \in {stored, stored \ {call[r].path}}
                /\ owner' \in {owner, [owner EXCEPT ![call[r].path] = NoWriter]}
<1>1. ASSUME Safe, Entitled, [Next]_vars PROVE G
  <2>1. CASE UNCHANGED store BY <2>1
  <2>2. CASE \E h \in Hashes : WatchStores(h) BY <2>2 DEF WatchStores
  <2>3. ASSUME NEW r \in Requests, Put(r) \/ PutFails(r) PROVE G
    BY <1>1, <2>3 DEF Put, PutFails, Safe, Verified, Entitled, Claimant, store
  <2>4. ASSUME NEW r \in Requests, Delete(r) \/ DeleteFails(r) PROVE G
    BY <1>1, <2>4 DEF Delete, DeleteFails, Entitled, store
  <2> QED BY <1>1, <2>1, <2>2, <2>3, <2>4, Changers
<1>2. ASSUME Safe, Entitled, [Next]_vars PROVE [G]_vars
  BY <1>1, <1>2
<1> QED BY <1>2, AlwaysSafe, AlwaysEntitled, PTL DEF Spec, GuardedStore

(* server.go:113-121: who is told that a shard was created finds it there. *)
THEOREM CreatedStored == Spec => CreatedIsStored
<1> DEFINE C == \A r \in Requests : pc[r] = "store" /\ answer'[r] = "ok"
                                    => call[r].path \in stored'
<1>1. ASSUME Safe, [Next]_vars PROVE C
  <2> USE DEF Safe, Verified
  <2>1. CASE Quiet
    <3>1. UNCHANGED requests
      BY <2>1 DEF Quiet, Start, ListenFails, TakeServing, TakeWatching, SeeCancelled,
         DrainTimesOut, Drained, WaitServer, WaitWatcher, ServeFails, ServeStops,
         WatchStops, Signal
    <3> QED BY <1>1, <3>1 DEF requests
  <2>2. CASE Gone BY <1>1, <2>2 DEF Gone, All
  <2>3. CASE \E h \in Hashes : WatchStores(h) BY <1>1, <2>3 DEF WatchStores, requests
  <2>4. ASSUME NEW s \in Requests, Working(s) PROVE C
    <3>1. SUFFICES ASSUME NEW r \in Requests, pc[r] = "store", answer'[r] = "ok"
                   PROVE  call[r].path \in stored'
      OBVIOUS
    <3>2. answer[r] = "none" /\ call[r] \in Calls BY <1>1, <3>1 DEF TypeOK
    <3>3. ASSUME NEW a \in Answers, Answer(s, a) PROVE s = r /\ a = "ok"
      BY <1>1, <3>1, <3>2, <3>3 DEF Answer, TypeOK
    <3>4. ~ Admit(s) /\ ~ LockTransfer(s) /\ ~ ReadBody(s) /\ ~ Reply(s)
      BY <1>1, <3>1, <3>2 DEF Admit, LockTransfer, ReadBody, Reply, TypeOK
    <3>5. ~ Get(s) /\ ~ Refuse(s) /\ ~ RejectBody(s) /\ ~ Delete(s)
      BY <3>1, <3>3 DEF Get, Passes, Refuse, RejectBody, Delete, Answers
    <3>6. ~ PutFails(s) /\ ~ DeleteFails(s)
      BY <3>1, <3>3 DEF PutFails, DeleteFails, Answers
    <3>7. Put(s) /\ s = r
      BY <2>4, <3>3, <3>4, <3>5, <3>6 DEF Working, Handle, Put, Answers
    <3> QED BY <1>1, <3>1, <3>7 DEF Put, store
  <2>5. CASE UNCHANGED vars BY <1>1, <2>5 DEF vars
  <2> QED BY <1>1, <2>1, <2>2, <2>3, <2>4, <2>5, NextCases
<1>2. ASSUME Safe, [Next]_vars PROVE [C]_vars
  BY <1>1, <1>2
<1> QED BY <1>2, AlwaysSafe, PTL DEF Spec, CreatedIsStored
=============================================================================
