------------------------------ MODULE Placement ------------------------------
(***************************************************************************)
(* Choosing the peers of a file's shards (shardPeers of internal/dstore,   *)
(* Inspect and Probe of internal/peer).  The candidates are those of the   *)
(* configuration or those the VPN client lists; of each machine one is     *)
(* taken; each is asked for its capacity by a goroutine of its own, Slots  *)
(* of them at a time; when all have ended, those with room share the       *)
(* shards in turn.                                                         *)
(*                                                                         *)
(* What a peer says is one of Answers, NoAnswer standing for every failure *)
(* of Probe: unreachable, three seconds over, not an agent of this group.  *)
(* The caller, and what cancels it, is a module that extends this one.     *)
(***************************************************************************)
EXTENDS NodeConfig, FiniteSets

CONSTANTS Slots,     \* probes at a time; 8 in the code
          Settings,  \* the configurations a process may have
          Lists,     \* what the VPN client may list: sequences of peers
          Answers,   \* what agents may say
          NoAnswer

Peers == [host : STRING, ip : STRING, online : BOOLEAN]

ASSUME PlacementAssumption ==
    /\ Slots \in Nat \ {0}
    /\ Lists \subseteq Seq(Peers)
    /\ \A s \in Settings : /\ s.peers \in Seq(Peers) /\ s.minPeers \in Nat
                           /\ s.maxFile \in Int /\ s.chunk \in Int
    /\ NoAnswer \notin Answers

VARIABLES
    cfg,        \* the configuration of the process; never changes
    cancelled,  \* its context is cancelled
    phase,      \* of the call: none, "asking", "placed" or "refused"
    need,       \* the bytes a peer must have room for
    list,       \* the candidates
    pool,       \* the indices of list whose peers are asked
    probe,      \* probe[i]: where the goroutine of list[i] is
    answer,     \* answer[i]: what list[i] said
    slots,      \* room left in the channel that limits the probes
    place       \* place[k]: the peer shard k is for

call == <<phase, need, list, pool, probe, answer, slots, place>>
placement == <<cfg, cancelled, call>>

NoCall == /\ phase = "none" /\ need = 0
          /\ list = <<>> /\ pool = {} /\ probe = <<>> /\ answer = <<>>
          /\ slots = Slots /\ place = <<>>

PlacementInit == cfg \in Settings /\ cancelled = FALSE /\ NoCall

PlacementTypeOK ==
    /\ cfg \in Settings
    /\ cancelled \in BOOLEAN
    /\ phase \in {"none", "asking", "placed", "refused"}
    /\ need \in Nat
    /\ list \in Seq(Peers)
    /\ pool \subseteq DOMAIN list
    /\ probe \in [pool -> {"waiting", "asking", "ended"}]
    /\ answer \in [pool -> Answers \cup {NoAnswer}]
    /\ slots \in 0..Slots
    /\ \/ place = <<>>
       \/ phase = "placed" /\ place \in [1..Total -> Peers]

-----------------------------------------------------------------------------
Configured == cfg.peers # <<>>

Port(p) == IF p.host \in DOMAIN cfg.ports THEN cfg.ports[p.host] ELSE cfg.port

Admitted(p) == /\ p.online
               /\ p.host \notin cfg.exclude
               /\ cfg.members = {} \/ p.host \in cfg.members

(* Mutant: machines are told apart by their names.                         *)
Name(p) == IF cfg.minPeers = 0 /\ Configured THEN <<p.ip, Port(p)>> ELSE <<p.host>>
(* "IP, not hostname, represents a failure domain on the VPN": but for     *)
(* configured peers no number of which is required, several ports of one   *)
(* machine count.                                                          *)
Id(p) == IF cfg.minPeers = 0 /\ Configured THEN <<p.ip, Port(p)>> ELSE <<p.ip>>

(* The first of each that the list admits.                                 *)
Eligible(l) == {i \in DOMAIN l :
    /\ Admitted(l[i])
    /\ \A j \in 1..(i - 1) : Admitted(l[j]) => Id(l[j]) # Id(l[i])}

Asks == cfg.ask \/ ~ Configured

(* Inspect's "ready", and room for a shard.                                *)
HasRoom(a) == /\ a.storage
              /\ a.quota = 0 \/ a.used < a.quota
              /\ a.max >= need
              /\ a.quota = 0 \/ a.quota - a.used >= need

Required == IF cfg.minPeers > 0 THEN cfg.minPeers
            ELSE IF Configured THEN 1 ELSE Total

-----------------------------------------------------------------------------
(* The call, for shards of up to n bytes.                                  *)
Ask(n) ==
    /\ phase = "none"
    /\ need' = n
    /\ \/ /\ phase' = "asking"
          /\ list' \in (IF Configured THEN {cfg.peers} ELSE Lists)
          /\ pool' = Eligible(list')
          /\ probe' = [i \in pool' |-> IF Asks THEN "waiting" ELSE "ended"]
          /\ answer' = [i \in pool' |-> NoAnswer]
       \/ /\ ~ Configured   \* the VPN client does not answer
          /\ phase' = "refused"
          /\ UNCHANGED <<list, pool, probe, answer>>
    /\ UNCHANGED <<cfg, cancelled, slots, place>>

(* Mutant: the goroutines do not wait for a slot.                          *)
TakeNoSlot(i) ==
    /\ probe[i] = "waiting"
    /\ slots' = slots - 1
    /\ probe' = [probe EXCEPT ![i] = "asking"]
    /\ UNCHANGED <<cfg, cancelled, phase, need, list, pool, answer, place>>

(* The goroutine of peer i: the channel has room, or the context ends.     *)
TakeSlot(i) ==
    /\ probe[i] = "waiting"
    /\ slots > 0
    /\ slots' = slots - 1
    /\ probe' = [probe EXCEPT ![i] = "asking"]
    /\ UNCHANGED <<cfg, cancelled, phase, need, list, pool, answer, place>>

GiveUp(i) ==
    /\ probe[i] = "waiting"
    /\ cancelled
    /\ probe' = [probe EXCEPT ![i] = "ended"]
    /\ UNCHANGED <<cfg, cancelled, phase, need, list, pool, answer, slots, place>>

(* Mutant: a failed probe keeps its slot.                                  *)
KeepsSlot(i) ==
    /\ probe[i] = "asking"
    /\ \E a \in Answers \cup {NoAnswer} :
          /\ answer' = [answer EXCEPT ![i] = a]
          /\ slots' = IF a = NoAnswer THEN slots ELSE slots + 1
    /\ probe' = [probe EXCEPT ![i] = "ended"]
    /\ UNCHANGED <<cfg, cancelled, phase, need, list, pool, place>>

(* Probe returns, within three seconds, and the slot is given back.        *)
Answer(i) ==
    /\ probe[i] = "asking"
    /\ \E a \in Answers \cup {NoAnswer} : answer' = [answer EXCEPT ![i] = a]
    /\ slots' = slots + 1
    /\ probe' = [probe EXCEPT ![i] = "ended"]
    /\ UNCHANGED <<cfg, cancelled, phase, need, list, pool, place>>

Found == IF Asks THEN {i \in pool : answer[i] # NoAnswer /\ HasRoom(answer[i])}
                 ELSE pool

(* Discovered peers are shuffled, configured ones keep their order.        *)
Orders(S) == {o \in [1..Cardinality(S) -> S] :
    \A i, j \in 1..Cardinality(S) :
        i < j => IF Configured THEN o[i] < o[j] ELSE o[i] # o[j]}

(* wg.Wait is over: all have ended.                                        *)
Place ==
    /\ phase = "asking"
    /\ \A i \in pool : probe[i] = "ended"
    /\ IF Cardinality(Found) >= Required
       THEN /\ phase' = "placed"
            /\ \E o \in Orders(Found) :
                  place' = [k \in 1..Total |->
                              list[o[1 + ((k - 1) % Cardinality(Found))]]]
       ELSE phase' = "refused" /\ UNCHANGED place
    /\ UNCHANGED <<cfg, cancelled, need, list, pool, probe, answer, slots>>

(* The caller has the result.                                              *)
Forget == /\ phase' = "none" /\ need' = 0
          /\ list' = <<>> /\ pool' = {} /\ probe' = <<>> /\ answer' = <<>>
          /\ slots' = Slots /\ place' = <<>>

Probes == \E i \in pool : TakeSlot(i) \/ GiveUp(i) \/ Answer(i)

(* The context ends at any moment; a new process has a new one.            *)
Cancel == ~ cancelled /\ cancelled' = TRUE /\ UNCHANGED <<cfg, call>>
Renew == cancelled' = FALSE /\ UNCHANGED cfg

PlacementNext == \/ \E n \in Nat : Ask(n)
                 \/ Probes \/ Place \/ Cancel
                 \/ Forget /\ (Renew \/ UNCHANGED <<cfg, cancelled>>)
                 \/ Renew /\ UNCHANGED call

PlacementSpec == PlacementInit /\ [][PlacementNext]_placement

-----------------------------------------------------------------------------
(* Machines are counted, not names or ports.                               *)
PerMachine == cfg.minPeers >= Total \/ (cfg.minPeers = 0 /\ ~ Configured)

(* The peers that are to store a file have said in this very call that     *)
(* they have room for its shards; and when as many are required as there   *)
(* are shards, which is so for `dstore add` and `dstore node`, any         *)
(* Total - Data machines may be lost and enough shards of every chunk are  *)
(* on others (dstore.go:373; AGENT.md:23).                                 *)
PlacedSafely == phase = "placed" =>
    /\ Asks => \A k \in 1..Total : \E i \in pool :
                  /\ place[k] = list[i]
                  /\ answer[i] # NoAnswer
                  /\ HasRoom(answer[i])
    /\ PerMachine =>
          \A lost \in SUBSET {list[i].ip : i \in pool} :
             Cardinality(lost) <= Total - Data =>
                Cardinality({k \in 1..Total : place[k].ip \notin lost}) >= Data
=============================================================================
