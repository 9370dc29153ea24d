-------------------------------- MODULE Node --------------------------------
(***************************************************************************)
(* A node (serveAndWatch in cmd/dstore/node.go, the handler of             *)
(* internal/shardserver): one process with a server goroutine, a watcher   *)
(* goroutine and a handler per request, over one shard directory.  The     *)
(* first part to end, or a signal, stops the others; the process leaves    *)
(* when server and watcher have ended.                                     *)
(*                                                                         *)
(* A put or a delete is one step on the directory here, with what its      *)
(* error paths may leave there; LocalStore.tla has the steps it consists   *)
(* of, and Watcher.tla those of the watcher.                               *)
(***************************************************************************)
EXTENDS Naturals, FiniteSets

CONSTANTS Requests,    \* connections that may be busy at a time
          NoRequest,   \* "nobody": the mutex is free
          Hashes,      \* names of shards
          Devices,     \* mesh identities
          Members,     \* those the configuration lists
          Restricted,  \* RestrictMembers: only they are served
          NoWriter,    \* "nobody": a shard of this node's own pipeline
          NoBody       \* the body is not read yet

ASSUME NodeAssumption ==
    /\ NoRequest \notin Requests
    /\ Restricted \in BOOLEAN
    /\ NoWriter \notin Devices
    /\ NoBody \notin Hashes

VARIABLES
    main,      \* where serveAndWatch is; "off": no process
    readOnly,  \* the configuration's role is "client"
    outer,     \* the signal's context is cancelled
    serving,   \* the server goroutine and its channel
    watching,  \* the watcher goroutine and its channel
    done,      \* serverDone and watcherDone
    result,    \* what select received
    outcome,   \* what serveAndWatch returned
    pc,        \* pc[r]: where the handler of r is
    call,      \* call[r]: what it was asked for
    answer,    \* answer[r]: what it answers
    transfer,  \* who holds the mutex for bodies
    stored,    \* the shards in the directory
    owner      \* owner[h]: the sidecar of h

lifecycle == <<main, readOnly, outer, serving, watching, done, result, outcome>>
requests  == <<pc, call, answer, transfer>>
store     == <<stored, owner>>
vars      == <<main, readOnly, outer, serving, watching, done, result, outcome,
               pc, call, answer, transfer, stored, owner>>

NoCall == [op |-> "none"]

(* What is asked for, by whom, and what the body hashes to.                *)
Calls == [op : {"put", "delete"}, path : Hashes, from : Devices,
          body : Hashes \cup {NoBody}]

(* "ok" is 200, 201 and 204, "refused" 4xx, "failed" 5xx.                 *)
Answers == {"none", "ok", "refused", "failed"}

(* cancel() is called right after select, and deferred.                    *)
Stopping == {"draining", "server", "watcher", "returned"}

TypeOK ==
    /\ main \in {"off", "select"} \cup Stopping
    /\ readOnly \in BOOLEAN /\ outer \in BOOLEAN
    /\ serving \in {"off", "accepting", "closing", "closed", "failed", "taken"}
    /\ watching \in {"off", "running", "cancelled", "failed", "taken"}
    /\ done \subseteq {"server", "watcher"}
    /\ result \in {"none", "failed", "cancelled"}
    /\ outcome \in {"none", "nil", "error"}
    /\ pc \in [Requests -> {"none", "lock", "body", "store", "delete", "reply"}]
    /\ call \in [Requests -> Calls \cup {NoCall}]
    /\ \A r \in Requests : pc[r] \notin {"none", "reply"} => call[r] \in Calls
    /\ answer \in [Requests -> Answers]
    /\ transfer \in Requests \cup {NoRequest}
    /\ stored \subseteq Hashes
    /\ owner \in [Hashes -> Devices \cup {NoWriter}]

All(v) == [r \in Requests |-> v]

Init ==
    /\ main = "off" /\ readOnly = FALSE /\ outer = FALSE
    /\ serving = "off" /\ watching = "off" /\ done = {}
    /\ result = "none" /\ outcome = "none"
    /\ pc = All("none") /\ call = All(NoCall) /\ answer = All("none")
    /\ transfer = NoRequest
    /\ stored = {} /\ owner = [h \in Hashes |-> NoWriter]

-----------------------------------------------------------------------------
(* serveAndWatch.                                                          *)

(* Mutant: the watcher and the requests are given the caller's context.    *)
OuterOnly == outer

(* The derived context, the watcher's and every request's.                 *)
Cancelled == outer \/ main \in Stopping

(* The listener is open, the two goroutines are started; the watcher ends  *)
(* at once when its directories cannot be made.                            *)
Start ==
    /\ main = "off"
    /\ main' = "select"
    /\ readOnly' \in BOOLEAN
    /\ serving' = "accepting" /\ watching' \in {"running", "failed"}
    /\ UNCHANGED <<outer, done, result, outcome, requests, store>>

ListenFails ==
    /\ main = "off"
    /\ main' = "returned" /\ outcome' = "error"
    /\ UNCHANGED <<readOnly, outer, serving, watching, done, result, requests, store>>

(* select: whichever of the three is ready; then cancel(), and Shutdown    *)
(* closes the listener.                                                    *)
Closed == IF serving = "accepting" THEN "closing" ELSE serving

(* Mutant: the error is received into a variable of the case.              *)
TakesAndForgets ==
    /\ main = "select"
    /\ serving = "failed"
    /\ done' = {"server"} /\ serving' = "taken"
    /\ main' = "draining"
    /\ UNCHANGED <<readOnly, outer, watching, result, outcome, requests, store>>

TakeServing ==
    /\ main = "select"
    /\ serving = "failed"
    /\ result' = "failed" /\ done' = {"server"} /\ serving' = "taken"
    /\ main' = "draining"
    /\ UNCHANGED <<readOnly, outer, watching, outcome, requests, store>>

TakeWatching ==
    /\ main = "select"
    /\ watching \in {"failed", "cancelled"}
    /\ result' = watching /\ done' = {"watcher"} /\ watching' = "taken"
    /\ main' = "draining" /\ serving' = Closed
    /\ UNCHANGED <<readOnly, outer, outcome, requests, store>>

SeeCancelled ==
    /\ main = "select"
    /\ outer
    /\ main' = "draining" /\ serving' = Closed
    /\ UNCHANGED <<readOnly, outer, watching, done, result, outcome, requests, store>>

(* Shutdown gives the connections 5 s.                                     *)
Drained ==
    /\ main = "draining"
    /\ \A r \in Requests : pc[r] = "none"
    /\ main' = "server"
    /\ UNCHANGED <<readOnly, outer, serving, watching, done, result, outcome,
                   requests, store>>

(* Close takes the connections away; their handlers go on.                 *)
DrainTimesOut ==
    /\ main = "draining"
    /\ \E r \in Requests : pc[r] # "none"
    /\ main' = "server"
    /\ UNCHANGED <<readOnly, outer, serving, watching, done, result, outcome,
                   requests, store>>

WaitServer ==
    /\ main = "server"
    /\ "server" \in done \/ serving \in {"closed", "failed"}
    /\ serving' = "taken"
    /\ main' = "watcher"
    /\ UNCHANGED <<readOnly, outer, watching, done, result, outcome, requests, store>>

(* Mutant: the flag of the server is looked at.                            *)
EitherEnded == done # {} \/ watching \in {"cancelled", "failed"}

WatcherEnded == "watcher" \in done \/ watching \in {"cancelled", "failed"}

WaitWatcher ==
    /\ main = "watcher"
    /\ WatcherEnded
    /\ watching' = IF watching \in {"cancelled", "failed"} THEN "taken" ELSE watching
    /\ outcome' = IF result = "failed" THEN "error" ELSE "nil"
    /\ main' = "returned"
    /\ UNCHANGED <<readOnly, outer, serving, done, result, requests, store>>

(* The process ends, and with it every handler that is left.               *)
Gone ==
    /\ main' = "off" /\ readOnly' = FALSE /\ outer' = FALSE
    /\ serving' = "off" /\ watching' = "off" /\ done' = {}
    /\ result' = "none" /\ outcome' = "none"
    /\ pc' = All("none") /\ call' = All(NoCall) /\ answer' = All("none")
    /\ transfer' = NoRequest
    /\ UNCHANGED store

Exit == main = "returned" /\ Gone

-----------------------------------------------------------------------------
(* The two goroutines.                                                     *)

ServeFails ==
    /\ serving = "accepting"
    /\ serving' = "failed"
    /\ UNCHANGED <<main, readOnly, outer, watching, done, result, outcome,
                   requests, store>>

ServeStops ==
    /\ serving = "closing"
    /\ serving' = "closed"
    /\ UNCHANGED <<main, readOnly, outer, watching, done, result, outcome,
                   requests, store>>

(* An upload of the watcher keeps its local copy, under no writer's name.  *)
WatchStores(h) ==
    /\ watching = "running"
    /\ h \notin stored
    /\ stored' = stored \cup {h}
    /\ UNCHANGED <<lifecycle, requests, owner>>

WatchStops ==
    /\ watching = "running"
    /\ Cancelled
    /\ watching' = "cancelled"
    /\ UNCHANGED <<main, readOnly, outer, serving, done, result, outcome,
                   requests, store>>

-----------------------------------------------------------------------------
(* The handler of a request.                                               *)

(* Mutant: whoever has an identity is served.                              *)
AnyDevice(op, d) == op = "put" => ~ readOnly

Permitted(op, d) == /\ Restricted => d \in Members
                    /\ op = "put" => ~ readOnly

(* A request comes on a connection, which outlives the listener.           *)
Connected == main \in {"select", "draining"}

(* WhoIs gives up with its context.  That it may fail at any other time is *)
(* a matter of Refuse.                                                     *)
Identified == ~ Cancelled

(* A request passes the gates: the caller's identity, the membership, the  *)
(* group and the role of the node.                                         *)
Passes(r, op, d) == /\ Connected
                    /\ pc[r] = "none"
                    /\ Identified
                    /\ Permitted(op, d)

Admit(r) ==
    /\ \E op \in {"put", "delete"}, h \in Hashes, d \in Devices :
          /\ Passes(r, op, d)
          /\ call' = [call EXCEPT ![r] = [op |-> op, path |-> h, from |-> d,
                                         body |-> NoBody]]
          /\ pc' = [pc EXCEPT ![r] = IF op = "put" THEN "lock" ELSE "delete"]
    /\ UNCHANGED <<lifecycle, answer, transfer, store>>

(* The handler returns.                                                    *)
Answer(r, a) ==
    /\ pc' = [pc EXCEPT ![r] = "reply"]
    /\ call' = [call EXCEPT ![r] = NoCall]
    /\ answer' = [answer EXCEPT ![r] = a]
    /\ UNCHANGED lifecycle

(* A request that fails a gate, also one whose caller cannot be found out. *)
Refuse(r) ==
    /\ Connected
    /\ pc[r] = "none"
    /\ Answer(r, "refused")
    /\ UNCHANGED <<transfer, store>>

(* A GET reads one file and takes no lock.                                 *)
Get(r) ==
    /\ \E h \in Hashes, d \in Devices :
          /\ Passes(r, "get", d)
          /\ \/ Answer(r, IF h \in stored THEN "ok" ELSE "refused")
             \/ Answer(r, "failed")
    /\ UNCHANGED <<transfer, store>>

(* The reply is written, or lost with its connection.                      *)
Reply(r) ==
    /\ pc[r] = "reply"
    /\ pc' = [pc EXCEPT ![r] = "none"]
    /\ answer' = [answer EXCEPT ![r] = "none"]
    /\ UNCHANGED <<lifecycle, call, transfer, store>>

MutexFree == transfer = NoRequest

LockTransfer(r) ==
    /\ pc[r] = "lock"
    /\ MutexFree
    /\ transfer' = r
    /\ pc' = [pc EXCEPT ![r] = "body"]
    /\ UNCHANGED <<lifecycle, call, answer, store>>

(* Mutant: the body is stored under its hash, whatever the path says.      *)
AnyBody(r, h) == TRUE

Matches(r, h) == h = call[r].path

(* The body is read, is short enough, and hashes to the path.              *)
ReadBody(r) ==
    /\ pc[r] = "body"
    /\ \E h \in Hashes :
          /\ Matches(r, h)
          /\ call' = [call EXCEPT ![r].body = h]
    /\ pc' = [pc EXCEPT ![r] = "store"]
    /\ UNCHANGED <<lifecycle, answer, transfer, store>>

(* Mutant: the mutex is released where the put succeeds.                   *)
RejectAndKeep(r) ==
    /\ pc[r] = "body"
    /\ Answer(r, "refused")
    /\ UNCHANGED <<transfer, store>>

(* It is too long, has another hash, or cannot be read: the sender stops,  *)
(* the connection is closed, the minute is over.                           *)
RejectBody(r) ==
    /\ pc[r] = "body"
    /\ Answer(r, "refused")
    /\ transfer' = NoRequest
    /\ UNCHANGED store

(* Mutant: the sidecar is given the name of the shard.                     *)
NameOfShard(c) == c.body

(* What the sidecar says.                                                  *)
Claimant(c) == c.from

(* PutOwned names the shard by the body's hash.  A shard that is there is  *)
(* acknowledged; a sidecar that is there makes a new one fail.             *)
Put(r) ==
    /\ pc[r] = "store"
    /\ LET h == call[r].body IN
       \/ h \in stored /\ UNCHANGED store
       \/ /\ h \notin stored
          /\ owner[h] = NoWriter
          /\ stored' = stored \cup {h}
          /\ owner' = [owner EXCEPT ![h] = Claimant(call[r])]
    /\ Answer(r, "ok")
    /\ transfer' = NoRequest

(* A failing put may leave the shard (its directory sync failed), the      *)
(* sidecar (its sync failed, the shard was removed), or both (and could    *)
(* not be removed).                                                        *)
PutFails(r) ==
    /\ pc[r] = "store"
    /\ LET h == call[r].body IN
       \/ UNCHANGED store
       \/ /\ h \notin stored
          /\ stored' = stored \cup {h}
          /\ UNCHANGED owner
       \/ /\ h \notin stored
          /\ owner[h] = NoWriter
          /\ stored' \in {stored, stored \cup {h}}
          /\ owner' = [owner EXCEPT ![h] = Claimant(call[r])]
    /\ Answer(r, "failed")
    /\ transfer' = NoRequest

(* DeleteOwned: no sidecar, another writer's, or this caller's.            *)
Delete(r) ==
    /\ pc[r] = "delete"
    /\ LET h == call[r].path IN
       \/ /\ owner[h] # call[r].from
          /\ Answer(r, "refused")
          /\ UNCHANGED store
       \/ /\ owner[h] = call[r].from
          /\ Answer(r, "ok")
          /\ stored' = stored \ {h}
          /\ owner' = [owner EXCEPT ![h] = NoWriter]
    /\ UNCHANGED transfer

(* A failing one of the owner's may have removed the shard already.        *)
DeleteFails(r) ==
    /\ pc[r] = "delete"
    /\ LET h == call[r].path IN
       \/ UNCHANGED stored
       \/ owner[h] = call[r].from /\ stored' = stored \ {h}
    /\ Answer(r, "failed")
    /\ UNCHANGED <<transfer, owner>>

Handle(r) == \/ ReadBody(r) \/ RejectBody(r)
             \/ Put(r) \/ PutFails(r)
             \/ Delete(r) \/ DeleteFails(r)
             \/ Reply(r)

-----------------------------------------------------------------------------
(* The signal, and a process that dies at any other moment.                *)

Signal ==
    /\ main \notin {"off", "returned"}
    /\ ~ outer
    /\ outer' = TRUE
    /\ UNCHANGED <<main, readOnly, serving, watching, done, result, outcome,
                   requests, store>>

Kill == main # "off" /\ Gone

Main == \/ TakeServing \/ TakeWatching \/ SeeCancelled
        \/ Drained \/ DrainTimesOut
        \/ WaitServer \/ WaitWatcher \/ Exit

Next == \/ Start \/ ListenFails \/ Main
        \/ ServeFails \/ ServeStops
        \/ WatchStops \/ \E h \in Hashes : WatchStores(h)
        \/ \E r \in Requests : \/ Admit(r) \/ Get(r) \/ Refuse(r)
                               \/ LockTransfer(r) \/ Handle(r)
        \/ Signal \/ Kill

Spec == Init /\ [][Next]_vars

(* serveAndWatch goes on, Serve returns once its listener is closed, the   *)
(* watcher stops when it is cancelled (Watcher.tla), a handler goes on,    *)
(* since its reads have a deadline, and sync.Mutex serves who has waited   *)
(* longest.                                                                *)
FairSpec ==
    /\ Spec
    /\ WF_vars(Main) /\ WF_vars(ServeStops) /\ WF_vars(WatchStops)
    /\ \A r \in Requests : WF_vars(Handle(r)) /\ SF_vars(LockTransfer(r))

-----------------------------------------------------------------------------
(* server.go:44: only the holder of the mutex has a body in memory, so     *)
(* that there is one at a time, also while the node stops.                 *)
OneBody == \A r \in Requests : pc[r] \in {"body", "store"} => transfer = r

(* server.go:113-121: a sender is told "created" only if the shard it      *)
(* named is in the directory, through every path a put can take.           *)
CreatedIsStored ==
    [][\A r \in Requests : pc[r] = "store" /\ answer'[r] = "ok"
                           => call[r].path \in stored']_vars

(* security_test.go:27: the directory changes only by the running watcher, *)
(* which removes nothing and claims nothing; by the put of a member at a   *)
(* node that contributes, which touches the shard it named and may claim   *)
(* it, for itself, if nobody has; or by the delete of a member that owns   *)
(* the shard, which takes nobody else's claim away.                        *)
GuardedStore ==
    [][store' # store =>
          \/ watching = "running" /\ stored \subseteq stored' /\ owner' = owner
          \/ \E r \in Requests :
                /\ pc[r] = "store" /\ ~ readOnly /\ stored \subseteq stored'
                /\ Restricted => call[r].from \in Members
                /\ stored' \subseteq stored \cup {call[r].path}
                /\ \/ owner' = owner
                   \/ /\ owner[call[r].path] = NoWriter
                      /\ owner' = [owner EXCEPT ![call[r].path] = call[r].from]
          \/ \E r \in Requests :
                /\ pc[r] = "delete" /\ owner[call[r].path] = call[r].from
                /\ Restricted => call[r].from \in Members
                /\ stored' \in {stored, stored \ {call[r].path}}
                /\ owner' \in {owner, [owner EXCEPT ![call[r].path] = NoWriter]}]_vars

(* node.go:144-149: neither goroutine is left when serveAndWatch returns;  *)
(* in particular no upload is cut short by the end of the process.         *)
NothingLeftRunning ==
    main = "returned" => /\ serving \in {"off", "taken"}
                         /\ watching \in {"off", "taken"}

(* node.go:150-153: a node reports success only if it was told to stop: no *)
(* failure of one of its parts is taken for that.                          *)
NilMeansCancelled == outcome = "nil" => outer

(* node.go:131-153: the signal, or the end of one part, ends the node,     *)
(* however long its requests take.                                         *)
Returns == (main # "off" /\ (outer \/ "failed" \in {serving, watching}))
               ~> main \in {"returned", "off"}

(* Every request ends, also those waiting for the mutex and those in the   *)
(* way of a node that stops.                                               *)
RequestsEnd == \A r \in Requests : pc[r] # "none" ~> pc[r] = "none"
=============================================================================
