---------------------------- MODULE PlacementProofs ----------------------------
(***************************************************************************)
(* The peers chosen for the shards of a file have room for them and, where *)
(* as many machines as shards are required, survive the losses that the    *)
(* parity shards are for.                                                  *)
(***************************************************************************)
EXTENDS Placement, FiniteSetTheorems, TLAPS

(* All goroutines have ended once the peers are chosen, and the choice is  *)
(* in turn over those found, of which no two are one machine.              *)
Distinct == \A i, j \in pool : i # j => Id(list[i]) # Id(list[j])

InTurn == \E o \in Orders(Found) :
    place = [k \in 1..Total |-> list[o[1 + ((k - 1) % Cardinality(Found))]]]

Chosen == phase = "placed" =>
    /\ \A i \in pool : probe[i] = "ended"
    /\ Cardinality(Found) >= Required
    /\ InTurn

(* A slot is taken for every probe that is being answered, and for nothing *)
(* else: without this slots would not keep its type.                       *)
Holders == {i \in pool : probe[i] = "asking"}
SlotsKept == /\ slots + Cardinality(Holders) = Slots
             /\ phase = "none" => pool = {}

PInv == PlacementTypeOK /\ Distinct /\ Chosen /\ SlotsKept

-----------------------------------------------------------------------------
(* What is assumed of the settings is so of every configuration that       *)
(* Validate accepts and of every agent's flags.                            *)
LEMMA PipelinesFit ==
    ASSUME NEW s \in Pipelines
    PROVE  /\ s.peers \in Seq(Peers) /\ s.minPeers \in Nat
           /\ s.maxFile \in Int /\ s.chunk \in Int
<1>1. ASSUME NEW specs \in Seq(PeerSpec)
      PROVE  PeersOf(specs) \in Seq(Peers)
  <2>1. \A i \in 1..Len(specs) : specs[i] \in PeerSpec
    OBVIOUS
  <2>2. PeersOf(specs) = [i \in 1..Len(specs) |->
            [host |-> specs[i].name, ip |-> specs[i].host, online |-> TRUE]]
    BY DEF PeersOf
  <2>3. \A i \in 1..Len(specs) :
           [host |-> specs[i].name, ip |-> specs[i].host, online |-> TRUE] \in Peers
    BY <2>1 DEF PeerSpec, Peers
  <2>4. Len(specs) \in Nat
    OBVIOUS
  <2>. QED
    BY <2>2, <2>3, <2>4
<1>2. CASE s \in {ConfiguredPipeline(c) : c \in {d \in NodeConfigs : Validate(d)}}
  BY <1>1, <1>2, ManifestAssumption DEF ConfiguredPipeline, NodeConfigs
<1>3. CASE s \in {AgentPipeline(f) : f \in Flags}
  BY <1>1, <1>3 DEF AgentPipeline, Flags
<1>. QED
  BY <1>2, <1>3 DEF Pipelines

-----------------------------------------------------------------------------
(* Numbers and sets.                                                       *)
LEMMA TurnInRange ==
    ASSUME NEW k \in Nat \ {0}, NEW n \in Nat \ {0}
    PROVE  /\ 1 + ((k - 1) % n) \in 1..n
           /\ k <= n => 1 + ((k - 1) % n) = k
<1>. DEFINE a == k - 1
<1>1. a \in Nat
  OBVIOUS
<1>2. a % n \in 0..(n - 1) /\ (a < n => a % n = a)
  BY <1>1
<1>. QED
  BY <1>1, <1>2

LEMMA PoolFinite ==
    ASSUME NEW P, NEW l, l \in Seq(Peers), P \subseteq DOMAIN l
    PROVE  IsFiniteSet(P)
  BY FS_Interval, FS_Subset

LEMMA Totals == Total \in Nat /\ Data \in Nat /\ Data > 0 /\ Total > Data
  BY ManifestAssumption

LEMMA RequiredPositive ==
    ASSUME cfg \in Settings
    PROVE  Required \in Nat \ {0}
  BY Totals, PlacementAssumption DEF Required

LEMMA FoundInPool == Found \subseteq pool
  BY DEF Found

(* An order of a finite set lists its elements, none of them twice.        *)
LEMMA OrdersList ==
    ASSUME NEW S, IsFiniteSet(S), S \subseteq Nat, NEW o \in Orders(S)
    PROVE  /\ o \in [1..Cardinality(S) -> S]
           /\ \A i, j \in 1..Cardinality(S) : i # j => o[i] # o[j]
<1>1. o \in [1..Cardinality(S) -> S] /\ Cardinality(S) \in Nat
  BY FS_CardinalityType DEF Orders
<1>2. ASSUME NEW i \in 1..Cardinality(S), NEW j \in 1..Cardinality(S), i < j
      PROVE  o[i] # o[j]
  <2>1. o[i] \in Nat /\ o[j] \in Nat
    BY <1>1
  <2>2. IF Configured THEN o[i] < o[j] ELSE o[i] # o[j]
    BY <1>2 DEF Orders
  <2>. QED
    BY <2>1, <2>2
<1>. QED
  BY <1>1, <1>2

-----------------------------------------------------------------------------
(* The invariant.                                                          *)
LEMMA NoCallTypes ==
    cfg \in Settings /\ cancelled \in BOOLEAN /\ NoCall => PInv
<1>. SUFFICES ASSUME cfg \in Settings, cancelled \in BOOLEAN, NoCall
              PROVE  PInv
  OBVIOUS
<1>1. pool = {} /\ phase = "none" /\ list = <<>>
  BY DEF NoCall
<1>2. probe \in [pool -> {"waiting", "asking", "ended"}]
  BY <1>1 DEF NoCall
<1>3. answer \in [pool -> Answers \cup {NoAnswer}]
  BY <1>1 DEF NoCall
<1>4. slots \in 0..Slots
  BY PlacementAssumption DEF NoCall
<1>5. list \in Seq(Peers) /\ pool \subseteq DOMAIN list
  BY <1>1
<1>6. PlacementTypeOK
  BY <1>1, <1>2, <1>3, <1>4, <1>5 DEF NoCall, PlacementTypeOK
<1>7. SlotsKept
  <2>1. Holders = {}
    BY <1>1 DEF Holders
  <2>. QED
    BY <1>1, <2>1, FS_EmptySet, PlacementAssumption DEF SlotsKept, NoCall
<1>. QED
  BY <1>1, <1>6, <1>7 DEF PInv, Distinct, Chosen

LEMMA InitPInv == PlacementInit => PInv
  BY NoCallTypes DEF PlacementInit

(* The probes that hold a slot are finitely many.                          *)
LEMMA HoldersFinite ==
    ASSUME PlacementTypeOK
    PROVE  IsFiniteSet(Holders) /\ Cardinality(Holders) \in Nat
<1>1. IsFiniteSet(pool)
  BY PoolFinite DEF PlacementTypeOK
<1>. QED
  BY <1>1, FS_Subset, FS_CardinalityType DEF Holders

(* What leaves the configuration, the candidates and the pool alone leaves *)
(* them distinct.                                                          *)
LEMMA SamePool ==
    ASSUME PInv, UNCHANGED <<cfg, list, pool>>
    PROVE  Distinct'
  BY DEF PInv, Distinct, Id, Port, Configured

LEMMA AskPInv ==
    ASSUME PInv, NEW n \in Nat, Ask(n)
    PROVE  PInv'
<1>. USE DEF PInv
<1>1. /\ phase = "none" /\ pool = {} /\ place = <<>>
      /\ need' = n /\ cfg' = cfg /\ UNCHANGED <<cancelled, slots, place>>
  BY DEF Ask, PlacementTypeOK, SlotsKept
<1>2. slots = Slots
  <2>1. Holders = {}
    BY <1>1 DEF Holders
  <2>. QED
    BY <2>1, FS_EmptySet, PlacementAssumption DEF SlotsKept, PlacementTypeOK
<1>3. CASE phase' = "refused" /\ UNCHANGED <<list, pool, probe, answer>>
  <2>1. Distinct'
    BY <1>1, <1>3, SamePool
  <2>2. PlacementTypeOK'
    BY <1>1, <1>3 DEF PlacementTypeOK
  <2>3. SlotsKept'
    BY <1>1, <1>3 DEF SlotsKept, Holders
  <2>. QED
    BY <1>3, <2>1, <2>2, <2>3 DEF Chosen
<1>4. CASE phase' = "asking"
  <2>1. /\ list' \in Seq(Peers) /\ pool' = Eligible(list')
        /\ probe' = [i \in pool' |-> IF Asks THEN "waiting" ELSE "ended"]
        /\ answer' = [i \in pool' |-> NoAnswer]
    BY <1>4, PlacementAssumption DEF Ask, PlacementTypeOK
  <2>2. PlacementTypeOK'
    BY <1>1, <1>4, <2>1 DEF PlacementTypeOK, Eligible
  <2>3. Distinct'
    <3>1. ASSUME NEW i \in pool', NEW j \in pool', i < j
          PROVE  Id(list'[i]) # Id(list'[j])
      BY <2>1, <3>1 DEF Eligible
    <3>2. \A i, j \in pool' : i \in Int /\ j \in Int
      BY <2>1 DEF Eligible
    <3>3. \A i, j \in pool' : i # j => Id(list'[i]) # Id(list'[j])
      BY <3>1, <3>2
    <3>. QED
      BY <1>1, <2>1, <3>3 DEF Distinct, Id, Port, Configured
  <2>4. SlotsKept'
    <3>1. Holders' = {}
      BY <2>1 DEF Holders
    <3>. QED
      BY <1>1, <1>2, <1>4, <3>1, FS_EmptySet, PlacementAssumption DEF SlotsKept
  <2>. QED
    BY <1>4, <2>2, <2>3, <2>4 DEF Chosen
<1>. QED
  BY <1>3, <1>4 DEF Ask

(* Who takes a slot holds it, who has asked gives it back, and a cancelled *)
(* one never had it.                                                       *)
LEMMA ProbesSlots ==
    ASSUME PInv, NEW i \in pool, TakeSlot(i) \/ GiveUp(i) \/ Answer(i)
    PROVE  slots' \in 0..Slots /\ SlotsKept'
<1>. USE DEF PInv
<1>1. /\ IsFiniteSet(Holders) /\ Cardinality(Holders) \in Nat
      /\ slots \in Nat /\ Slots \in Nat /\ slots + Cardinality(Holders) = Slots
  BY HoldersFinite, PlacementAssumption DEF SlotsKept, PlacementTypeOK
<1>2. pool' = pool /\ phase' = phase /\ pool # {} /\ probe \in [pool -> {"waiting", "asking", "ended"}]
  BY DEF TakeSlot, GiveUp, Answer, PlacementTypeOK
<1>3. CASE TakeSlot(i)
  <2>1. Holders' = Holders \cup {i} /\ i \notin Holders
    BY <1>2, <1>3 DEF TakeSlot, Holders
  <2>2. Cardinality(Holders') = Cardinality(Holders) + 1
    BY <1>1, <2>1, FS_AddElement
  <2>3. slots > 0 /\ slots' = slots - 1
    BY <1>3 DEF TakeSlot
  <2>. QED
    BY <1>1, <1>2, <2>2, <2>3 DEF SlotsKept
<1>4. CASE GiveUp(i)
  <2>1. Holders' = Holders /\ slots' = slots
    BY <1>2, <1>4 DEF GiveUp, Holders
  <2>. QED
    BY <1>1, <1>2, <2>1 DEF SlotsKept
<1>5. CASE Answer(i)
  <2>1. Holders' = Holders \ {i} /\ i \in Holders
    BY <1>2, <1>5 DEF Answer, Holders
  <2>2. Cardinality(Holders') = Cardinality(Holders) - 1
    BY <1>1, <2>1, FS_RemoveElement
  <2>3. IsFiniteSet(Holders') /\ Cardinality(Holders') \in Nat
    BY <1>1, <2>1, FS_RemoveElement, FS_CardinalityType
  <2>4. slots' = slots + 1
    BY <1>5 DEF Answer
  <2>. QED
    BY <1>1, <1>2, <2>2, <2>3, <2>4 DEF SlotsKept
<1>. QED
  BY <1>3, <1>4, <1>5

LEMMA ProbesPInv ==
    ASSUME PInv, NEW i \in pool, TakeSlot(i) \/ GiveUp(i) \/ Answer(i)
    PROVE  PInv'
<1>. USE DEF PInv
<1>1. phase # "placed" /\ phase' = phase
  BY DEF TakeSlot, GiveUp, Answer, Chosen
<1>2. Distinct'
  BY SamePool DEF TakeSlot, GiveUp, Answer
<1>3. slots' \in 0..Slots /\ SlotsKept'
  BY ProbesSlots
<1>4. PlacementTypeOK'
  <2>1. probe' \in [pool -> {"waiting", "asking", "ended"}]
    BY DEF TakeSlot, GiveUp, Answer, PlacementTypeOK
  <2>2. answer' \in [pool -> Answers \cup {NoAnswer}]
    BY DEF TakeSlot, GiveUp, Answer, PlacementTypeOK
  <2>. QED
    BY <1>3, <2>1, <2>2 DEF TakeSlot, GiveUp, Answer, PlacementTypeOK
<1>. QED
  BY <1>1, <1>2, <1>3, <1>4 DEF Chosen

(* The choice itself.                                                      *)
LEMMA TurnTypes ==
    ASSUME PlacementTypeOK, Cardinality(Found) >= Required,
           NEW o \in Orders(Found), NEW k \in 1..Total
    PROVE  /\ Cardinality(Found) \in Nat \ {0}
           /\ 1 + ((k - 1) % Cardinality(Found)) \in 1..Cardinality(Found)
           /\ o[1 + ((k - 1) % Cardinality(Found))] \in Found
           /\ list[o[1 + ((k - 1) % Cardinality(Found))]] \in Peers
<1>1. IsFiniteSet(Found) /\ Cardinality(Found) \in Nat /\ Found \subseteq Nat
  BY PoolFinite, FoundInPool, FS_Subset, FS_CardinalityType DEF PlacementTypeOK
<1>2. Required \in Nat \ {0}
  BY RequiredPositive DEF PlacementTypeOK
<1>3. Cardinality(Found) \in Nat \ {0}
  BY <1>1, <1>2
<1>4. 1 + ((k - 1) % Cardinality(Found)) \in 1..Cardinality(Found)
  BY <1>3, TurnInRange, Totals
<1>5. o \in [1..Cardinality(Found) -> Found]
  BY <1>1, OrdersList
<1>6. \A i \in Found : list[i] \in Peers
  BY FoundInPool DEF PlacementTypeOK
<1>. QED
  BY <1>3, <1>4, <1>5, <1>6

LEMMA PlacePInv ==
    ASSUME PInv, Place
    PROVE  PInv'
<1>. USE DEF PInv
<1>1. UNCHANGED <<cfg, cancelled, need, list, pool, probe, answer, slots>>
  BY DEF Place
<1>2. Distinct'
  BY <1>1, SamePool
<1>3. SlotsKept'
  BY <1>1 DEF Place, SlotsKept, Holders
<1>4. Found' = Found /\ Required' = Required
  BY <1>1 DEF Found, Asks, Configured, HasRoom, Required
<1>5. Orders(Found)' = Orders(Found)
  BY <1>1, <1>4 DEF Orders, Configured
<1>6. CASE Cardinality(Found) >= Required
  <2>1. phase' = "placed"
    BY <1>6 DEF Place
  <2>2. PICK o \in Orders(Found) :
            place' = [k \in 1..Total |->
                        list[o[1 + ((k - 1) % Cardinality(Found))]]]
    BY <1>6 DEF Place
  <2>3. place' \in [1..Total -> Peers]
    BY <1>6, <2>2, TurnTypes
  <2>4. InTurn'
    BY <1>1, <1>4, <1>5, <2>2 DEF InTurn
  <2>5. Chosen'
    BY <1>1, <1>4, <1>6, <2>4 DEF Chosen, Place
  <2>. QED
    BY <1>1, <1>2, <1>3, <2>1, <2>3, <2>5 DEF PlacementTypeOK
<1>7. CASE ~ (Cardinality(Found) >= Required)
  BY <1>1, <1>2, <1>3, <1>7 DEF Place, PlacementTypeOK, Chosen
<1>. QED
  BY <1>6, <1>7

(* Cancellation, a new context, and steps that are not the placement's.    *)
LEMMA IdlePInv ==
    ASSUME PInv, UNCHANGED <<cfg, call>>, cancelled' \in BOOLEAN
    PROVE  PInv'
<1>. USE DEF PInv, call
<1>1. Found' = Found /\ Required' = Required
  BY DEF Found, Asks, Configured, HasRoom, Required
<1>2. Orders(Found)' = Orders(Found)
  BY <1>1 DEF Orders, Configured
<1>3. Distinct' /\ SlotsKept'
  BY SamePool DEF SlotsKept, Holders
<1>4. Chosen'
  BY <1>1, <1>2 DEF Chosen, InTurn
<1>5. PlacementTypeOK'
  BY DEF PlacementTypeOK
<1>. QED
  BY <1>3, <1>4, <1>5

LEMMA ForgetPInv ==
    ASSUME PInv, Forget, cfg' = cfg, cancelled' \in BOOLEAN
    PROVE  PInv'
<1>1. (cfg \in Settings /\ cancelled \in BOOLEAN /\ NoCall)'
  BY DEF Forget, NoCall, PInv, PlacementTypeOK
<1>. QED
  BY <1>1, NoCallTypes, PTL

THEOREM PlacementInvariant == PlacementSpec => []PInv
<1>1. PInv /\ [PlacementNext]_placement => PInv'
  <2>. SUFFICES ASSUME PInv, [PlacementNext]_placement PROVE PInv'
    OBVIOUS
  <2>1. ASSUME NEW n \in Nat, Ask(n) PROVE PInv'
    BY <2>1, AskPInv
  <2>2. CASE Probes
    BY <2>2, ProbesPInv DEF Probes
  <2>3. CASE Place
    BY <2>3, PlacePInv
  <2>4. CASE Cancel
    BY <2>4, IdlePInv DEF Cancel
  <2>5. CASE Forget /\ (Renew \/ UNCHANGED <<cfg, cancelled>>)
    <3>1. cfg' = cfg /\ cancelled' \in BOOLEAN
      BY <2>5 DEF Renew, PInv, PlacementTypeOK
    <3>. QED
      BY <2>5, <3>1, ForgetPInv
  <2>6. CASE Renew /\ UNCHANGED call
    BY <2>6, IdlePInv DEF Renew
  <2>7. CASE UNCHANGED placement
    <3>1. UNCHANGED <<cfg, call>> /\ cancelled' \in BOOLEAN
      BY <2>7 DEF placement, PInv, PlacementTypeOK
    <3>. QED
      BY <3>1, IdlePInv
  <2>. QED
    BY <2>1, <2>2, <2>3, <2>4, <2>5, <2>6, <2>7 DEF PlacementNext
<1>. QED
  BY <1>1, InitPInv, PTL DEF PlacementSpec

-----------------------------------------------------------------------------
(* What the invariant says of the shards of a file.                        *)

(* Every shard is for a peer that was found to have room.                  *)
LEMMA PlacedHaveRoom ==
    ASSUME PInv, phase = "placed", Asks, NEW k \in 1..Total
    PROVE  \E i \in pool : /\ place[k] = list[i]
                           /\ answer[i] # NoAnswer
                           /\ HasRoom(answer[i])
<1>1. PICK o \in Orders(Found) :
          place = [j \in 1..Total |-> list[o[1 + ((j - 1) % Cardinality(Found))]]]
  BY DEF PInv, Chosen, InTurn
<1>. DEFINE i == o[1 + ((k - 1) % Cardinality(Found))]
<1>2. i \in Found
  BY TurnTypes DEF PInv, Chosen
<1>3. place[k] = list[i]
  BY <1>1
<1>. QED
  BY <1>2, <1>3 DEF Found

(* Where as many machines as shards are required, no two shards are for    *)
(* the same one.                                                           *)
LEMMA PlacedApart ==
    ASSUME PInv, phase = "placed", PerMachine,
           NEW j \in 1..Total, NEW k \in 1..Total, j # k
    PROVE  place[j].ip # place[k].ip
<1>. DEFINE n == Cardinality(Found)
<1>1. PICK o \in Orders(Found) :
          place = [m \in 1..Total |-> list[o[1 + ((m - 1) % n)]]]
  BY DEF PInv, Chosen, InTurn
<1>2. n \in Nat \ {0} /\ n >= Required
  BY TurnTypes DEF PInv, Chosen
<1>3. n >= Total
  <2>1. Required >= Total /\ Required \in Nat
    <3>1. Required \in Nat \ {0} /\ cfg.minPeers \in Nat
      BY RequiredPositive, PlacementAssumption DEF PInv, PlacementTypeOK
    <3>2. Required >= Total
      BY <3>1, Totals DEF PerMachine, Required
    <3>. QED
      BY <3>1, <3>2
  <2>. QED
    BY <1>2, <2>1, Totals
<1>4. 1 + ((j - 1) % n) = j /\ 1 + ((k - 1) % n) = k /\ j \in 1..n /\ k \in 1..n
  BY <1>2, <1>3, TurnInRange, Totals
<1>5. place[j] = list[o[j]] /\ place[k] = list[o[k]]
  BY <1>1, <1>4
<1>6. o[j] \in pool /\ o[k] \in pool /\ o[j] # o[k]
  <2>1. IsFiniteSet(Found) /\ Found \subseteq Nat
    BY PoolFinite, FoundInPool, FS_Subset DEF PInv, PlacementTypeOK
  <2>2. /\ o \in [1..n -> Found]
        /\ \A a, b \in 1..n : a # b => o[a] # o[b]
    BY <2>1, OrdersList
  <2>. QED
    BY <1>4, <2>2, FoundInPool
<1>7. Id(list[o[j]]) # Id(list[o[k]])
  BY <1>6 DEF PInv, Distinct
<1>8. ~ (cfg.minPeers = 0 /\ Configured)
  BY Totals DEF PerMachine
<1>. QED
  BY <1>5, <1>7, <1>8 DEF Id

(* One pigeonhole for each machine that is lost.                           *)
LEMMA EnoughRemain ==
    ASSUME PInv, phase = "placed", PerMachine,
           NEW lost \in SUBSET {list[i].ip : i \in pool},
           Cardinality(lost) <= Total - Data
    PROVE  Cardinality({k \in 1..Total : place[k].ip \notin lost}) >= Data
<1>. DEFINE Gone == {k \in 1..Total : place[k].ip \in lost}
            Left == {k \in 1..Total : place[k].ip \notin lost}
            ip == [i \in pool |-> list[i].ip]
<1>1. IsFiniteSet(lost) /\ Cardinality(lost) \in Nat
  <2>1. IsFiniteSet(pool)
    BY PoolFinite DEF PInv, PlacementTypeOK
  <2>2. ip \in Surjection(pool, {list[i].ip : i \in pool})
    BY DEF Surjection
  <2>3. IsFiniteSet({list[i].ip : i \in pool})
    BY <2>1, <2>2, FS_Surjection
  <2>. QED
    BY <2>3, FS_Subset, FS_CardinalityType
<1>2. IsFiniteSet(1..Total) /\ Cardinality(1..Total) = Total
  BY FS_Interval, Totals
<1>3. IsFiniteSet(Gone) /\ IsFiniteSet(Left)
      /\ Cardinality(Gone) \in Nat /\ Cardinality(Left) \in Nat
  BY <1>2, FS_Subset, FS_CardinalityType
<1>4. Cardinality(Gone) <= Cardinality(lost)
  <2>. DEFINE f == [k \in Gone |-> place[k].ip]
  <2>. SUFFICES ASSUME Cardinality(lost) < Cardinality(Gone) PROVE FALSE
    BY <1>1, <1>3
  <2>1. f \in [Gone -> lost]
    OBVIOUS
  <2>2. \E j, k \in Gone : j # k /\ f[j] = f[k]
    <3>. HIDE DEF Gone, f
    <3>. QED
      BY <1>1, <1>3, <2>1, FS_PigeonHole
  <2>3. PICK j, k \in Gone : j # k /\ place[j].ip = place[k].ip
    BY <2>2
  <2>. QED
    BY <2>3, PlacedApart
<1>5. Cardinality(Left) = Total - Cardinality(Gone)
  <2>1. Left = (1..Total) \ Gone /\ (1..Total) \cap Gone = Gone
    OBVIOUS
  <2>. QED
    BY <1>2, <2>1, FS_Difference
<1>. QED
  BY <1>1, <1>3, <1>4, <1>5, Totals

LEMMA PInvSafe == PInv => PlacedSafely
<1>. SUFFICES ASSUME PInv, phase = "placed" PROVE PlacedSafely
  BY DEF PlacedSafely
<1>1. Asks => \A k \in 1..Total : \E i \in pool :
          /\ place[k] = list[i] /\ answer[i] # NoAnswer /\ HasRoom(answer[i])
  BY PlacedHaveRoom
<1>2. PerMachine =>
          \A lost \in SUBSET {list[i].ip : i \in pool} :
             Cardinality(lost) <= Total - Data =>
                Cardinality({k \in 1..Total : place[k].ip \notin lost}) >= Data
  BY EnoughRemain
<1>. QED
  BY <1>1, <1>2 DEF PlacedSafely

(* For any candidates, answers and number of shards: the peers chosen have *)
(* said in this call that they have room, and the shards survive the loss  *)
(* of any Total - Data machines where as many machines as shards are       *)
(* required (dstore.go:352-411).                                           *)
THEOREM PlacementSafe == PlacementSpec => []PlacedSafely
  BY PlacementInvariant, PInvSafe, PTL
=============================================================================
