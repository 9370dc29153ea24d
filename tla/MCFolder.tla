------------------------------- MODULE MCFolder -------------------------------
(***************************************************************************)
(* Constants of Folder for TLC: three machines, one of them under two      *)
(* names, one slot fewer than there are machines to ask, and sources that  *)
(* get into each other's way.                                              *)
(***************************************************************************)
EXTENDS Folder, TLC

Device(host, ip, online) == [host |-> host, ip |-> ip, online |-> online]

(* a and e are one machine, x is excluded or no member, d is offline.      *)
Mesh == <<Device("a", "m1", TRUE), Device("e", "m1", TRUE), Device("x", "m3", TRUE),
          Device("b", "m2", TRUE), Device("d", "m4", FALSE)>>

(* `dstore add` and `dstore node` over the mesh, an agent that leaves      *)
(* everything at its default, and one with two peers on one machine.       *)
Node == [sound |-> TRUE, members |-> {"a", "b", "e"}, allowMesh |-> FALSE,
         port |-> "1", peers |-> <<>>, peerPorts |-> <<>>, quota |-> 1,
         maxFile |-> MaxTotal, maxShard |-> 3, chunk |-> 2]
DefaultAgent == [port |-> "1", peers |-> <<>>, peerPorts |-> <<>>, exclude |-> {"x"},
                 maxFile |-> 0, chunk |-> 2]
TwoPorts == [port |-> "1", exclude |-> {"x"}, maxFile |-> MaxTotal, chunk |-> 2,
             peerPorts |-> "e" :> "1",
             peers |-> <<[name |-> "a", host |-> "m1", port |-> ""],
                         [name |-> "e", host |-> "m1", port |-> "2"]>>]
AnySetting == {ConfiguredPipeline(c) : c \in {d \in {Node} : Validate(d)}}
                 \cup {AgentPipeline(DefaultAgent), AgentPipeline(TwoPorts)}
OneSetting == {ConfiguredPipeline(Node)}

Agent(storage, quota, used) ==
    [storage |-> storage, max |-> 3, quota |-> quota, used |-> used]
Agents == {Agent(TRUE, 4, 2), Agent(FALSE, 0, 0)}

File(rel, size) == [rel |-> rel, kind |-> "file", size |-> size]
Folder(rel) == [rel |-> rel, kind |-> "dir", size |-> 0]
Link(rel) == [rel |-> rel, kind |-> "other", size |-> 0]

n == <<1, 0>>
o == <<2, 0>>
nStub == <<1, 1>>

(* A directory n with a file in a subdirectory and an empty file; another  *)
(* of the same name with a file and a directory of its stub's name; a file *)
(* n, as long as one can be; and a directory of that file's stub's name    *)
(* with a link.                                                            *)
Nested == [name |-> n, entries |-> <<Folder(<<>>), Folder(<<n>>),
                                     File(<<n, n>>, 3), File(<<o>>, 0)>>]
Clash == [name |-> n, entries |-> <<Folder(<<>>), File(<<n>>, 1), Folder(<<nStub>>)>>]
SingleFile == [name |-> n, entries |-> <<File(<<>>, 5)>>]
Linked == [name |-> nStub, entries |-> <<Folder(<<>>), Link(<<n>>)>>]
Ordinary == {Nested, Clash, SingleFile, Linked}

(* A file of 1 TiB but for less than its tags, and one with a backslash.   *)
Huge == [name |-> n, entries |-> <<File(<<>>, 6)>>]
Backslash == [name |-> <<9, 0>>, entries |-> <<File(<<>>, 1)>>]
Extraordinary == {Huge, Backslash}

Root == <<>> :> Dir
Old(version, layout, size) ==
    Stub(NewWithLayout(version, layout, 1, size), Elsewhere, 0)
Inherited == (<<>> :> Dir) @@ (<<<<3, 0>>>> :> [kind |-> "file"])
             @@ (<<<<4, 1>>>> :> Old(0, [data |-> 0, parity |-> 0], 1))
             @@ (<<<<5, 1>>>> :> Old(1, [data |-> 2, parity |-> 1], 3))
WithOld == {Inherited}
Empty == {Root}

Meshes == {Mesh}

Mishaps == {"io", "kill"}
NoFault == {}
=============================================================================
