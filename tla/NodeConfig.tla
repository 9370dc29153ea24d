------------------------------ MODULE NodeConfig ------------------------------
(***************************************************************************)
(* Where the configuration of an upload comes from: the node.json of       *)
(* `dstore node` and `dstore add` (internal/nodeconfig, configuredPipeline)*)
(* or the flags of `dstore agent`, `process` and `watch`.  Operators only. *)
(*                                                                         *)
(* A peer is given as name=host[:port], here a record whose port is "" if  *)
(* none is given; peerPorts gives ports by name alone.  "sound" says that  *)
(* version, name, sharing group, role, port, member names and directories  *)
(* are as Validate wants them.                                             *)
(***************************************************************************)
EXTENDS Manifest, Sequences

PeerSpec == [name : STRING, host : STRING, port : STRING]

Ports == UNION {[names -> STRING] : names \in SUBSET STRING}

NodeConfigs == [sound : BOOLEAN, members : SUBSET STRING, allowMesh : BOOLEAN,
                port : STRING, peers : Seq(PeerSpec), peerPorts : Ports,
                quota : Int, maxFile : Int, maxShard : Int, chunk : Int]

Flags == [port : STRING, peers : Seq(PeerSpec), peerPorts : Ports,
          exclude : SUBSET STRING, maxFile : Int, chunk : Int]

(* What load accepts.                                                      *)
Validate(c) ==
    /\ c.sound
    /\ c.quota > 0
    /\ c.maxFile \in 1..MaxTotal
    /\ c.maxShard \in 1..MaxChunk
    /\ c.chunk \in 0..MaxChunk
    /\ c.allowMesh \/ c.members # {}

(* parsePeers: the peers, and the ports by name, the last one given for it *)
(* being the one that counts.                                              *)
PeersOf(specs) == [i \in DOMAIN specs |->
    [host |-> specs[i].name, ip |-> specs[i].host, online |-> TRUE]]

GivesPort(specs, i, name) == specs[i].name = name /\ specs[i].port # ""

PortsOf(specs) ==
    [name \in {specs[i].name : i \in {j \in DOMAIN specs : specs[j].port # ""}} |->
        LET last == CHOOSE i \in DOMAIN specs :
                        /\ GivesPort(specs, i, name)
                        /\ \A j \in DOMAIN specs : j > i => ~ GivesPort(specs, j, name)
        IN specs[last].port]

(* mergePeerPorts: a port given with a peer replaces one given by name.    *)
Merged(dst, src) == [name \in DOMAIN dst \cup DOMAIN src |->
                        IF name \in DOMAIN src THEN src[name] ELSE dst[name]]

(* configuredPipeline: as many machines as shards (the layout is the       *)
(* default one), and each asked for its capacity.                          *)
ConfiguredPipeline(c) ==
    [peers |-> PeersOf(c.peers), ports |-> Merged(c.peerPorts, PortsOf(c.peers)),
     port |-> c.port,
     members |-> IF c.allowMesh THEN {} ELSE c.members, exclude |-> {},
     minPeers |-> Total, ask |-> TRUE, maxFile |-> c.maxFile, chunk |-> c.chunk]

(* The older commands require nothing of peers that are listed.            *)
AgentPipeline(f) ==
    [peers |-> PeersOf(f.peers), ports |-> Merged(f.peerPorts, PortsOf(f.peers)),
     port |-> f.port,
     members |-> {}, exclude |-> f.exclude,
     minPeers |-> 0, ask |-> FALSE, maxFile |-> f.maxFile, chunk |-> f.chunk]

Pipelines == {ConfiguredPipeline(c) : c \in {d \in NodeConfigs : Validate(d)}}
                \cup {AgentPipeline(f) : f \in Flags}
=============================================================================
