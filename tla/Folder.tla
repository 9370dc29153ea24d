-------------------------------- MODULE Folder --------------------------------
(***************************************************************************)
(* The folder commands (AddPath and RestoreDirectory of internal/dstore,   *)
(* `dstore add` and `dstore restore-tree`): one process adds files and     *)
(* directories to a library of stubs, file after file, each with a         *)
(* placement of its own (Placement.tla) and a stub that a restore has to   *)
(* accept (Manifest.tla); another, at the same time, walks the library or  *)
(* a part of it and restores what it finds into a new directory.           *)
(*                                                                         *)
(* A path is the sequence of its names below the library, or the output;   *)
(* a name is a pair: what it says, in the order WalkDir visits it, and how *)
(* many ".dstore" it ends with.  The upload between placement and stub is  *)
(* one step that succeeds or fails: Upload.tla is about what it does.      *)
(*                                                                         *)
(* Faults the environment may inject, each only if named in Faults:        *)
(*   "io"    a step fails: a system call, the peers, the user's change of  *)
(*           the file, or missing shards                                   *)
(*   "kill"  the adding process dies                                       *)
(***************************************************************************)
EXTENDS Placement, SequencesExt

CONSTANTS Sources,    \* what may be added: see Source
          Libraries,  \* what the library may hold at first
          MaxAdds,    \* bound: calls of AddPath
          Faults

Names == Nat \X Nat
Dir == [kind |-> "dir"]

(* A source has a name and its entries in the order of WalkDir: the file   *)
(* itself, or the directory and all below it, each after its directory.    *)
Source == [name : Names,
           entries : Seq([rel : Seq(Names),
                          kind : {"dir", "file", "other"}, size : Nat])]
Walked(entries) ==
    /\ entries # <<>> /\ entries[1].rel = <<>>
    /\ \A i \in 2..Len(entries) :
          /\ entries[i].rel # <<>>
          /\ \E j \in 1..(i - 1) : /\ entries[j].kind = "dir"
                                   /\ entries[j].rel = Front(entries[i].rel)

(* What a file system can hold: whatever is on the way to a path is a      *)
(* directory.                                                              *)
Tree(l) ==
    /\ DOMAIN l \subseteq Seq(Names) /\ IsFiniteSet(DOMAIN l)
    /\ <<>> \in DOMAIN l /\ l[<<>>] = Dir
    /\ \A p \in DOMAIN l : /\ l[p].kind \in {"dir", "stub", "file", "other"}
                            /\ \A k \in 0..(Len(p) - 1) :
                                  /\ SubSeq(p, 1, k) \in DOMAIN l
                                  /\ l[SubSeq(p, 1, k)] = Dir

ASSUME FolderAssumption ==
    /\ Sources \subseteq Source
    /\ \A s \in Sources : Walked(s.entries)
    /\ \A l \in Libraries :
          Tree(l) /\ \A p \in DOMAIN l : l[p].kind = "stub" => l[p].by = 0
    /\ MaxAdds \in Nat
    /\ Faults \subseteq {"io", "kill"}

VARIABLES
    lib,       \* lib[p]: what the library holds under path p
    adding,    \* of the add: none, "walk", "place", "publish"
    source,    \* the source being added
    at,        \* the entry it is at
    results,   \* the stubs it has to report
    added,     \* how the last add ended: none, "ok", "error", "killed"
    adds       \* calls of AddPath so far

add == <<adding, source, at, results, added, adds>>

VARIABLES
    out,       \* out[p]: what the output directory holds
    restoring, \* of the restore: none, "walk"
    base,      \* the directory of the library it restores
    todo,      \* the paths WalkDir has yet to visit, the next one first
    found,     \* history: what was below base when it began
    restored   \* how it ended: none, "ok", "error"

restore == <<out, restoring, base, todo, found, restored>>
vars == <<placement, lib, add, restore>>

NoSource == [name |-> <<0, 0>>, entries |-> <<>>]
Elsewhere == <<NoSource, 0>>   \* what a stub is for that no add here wrote
Stub(m, of, by) == [kind |-> "stub", manifest |-> m, of |-> of, by |-> by]

Init ==
    /\ PlacementInit
    /\ lib \in Libraries
    /\ adding = "none" /\ source = NoSource /\ at = 0
    /\ results = {} /\ added = "none" /\ adds = 0
    /\ out = <<>>
    /\ restoring = "none" /\ base = <<>> /\ todo = <<>>
    /\ found = {} /\ restored = "none"

TypeOK ==
    /\ PlacementTypeOK
    /\ Tree(lib)
    /\ adding \in {"none", "walk", "place", "publish"}
    /\ source \in Sources \cup {NoSource}
    /\ at \in 0..Len(source.entries)
    /\ results \subseteq DOMAIN lib
    /\ added \in {"none", "ok", "error", "killed"}
    /\ adds \in 0..MaxAdds
    /\ \A p \in DOMAIN out : out[p].kind \in {"dir", "file"}
    /\ restoring \in {"none", "walk"}
    /\ {base} \cup Range(todo) \cup found \subseteq DOMAIN lib
    /\ restored \in {"none", "ok", "error"}

-----------------------------------------------------------------------------
(* Names.                                                                  *)
Target(s) == <<s.name>>
Dest(s, e) == Target(s) \o e.rel

IsStubName(p) == Last(p)[2] > 0
StubOf(p) == Front(p) \o <<<<Last(p)[1], Last(p)[2] + 1>>>>
Trimmed(p) == Front(p) \o <<<<Last(p)[1], Last(p)[2] - 1>>>>

Below(d) == {p \in DOMAIN lib : IsPrefix(d, p)}
Rel(d, p) == SubSeq(p, Len(d) + 1, Len(p))

With(f, p, v) == [q \in DOMAIN f \cup {p} |-> IF q = p THEN v ELSE f[q]]

-----------------------------------------------------------------------------
(* AddPath.                                                                *)
Entry == source.entries[at]
IsFile(s) == s.entries[1].kind # "dir"

AddEnds(how) == adding' = "none" /\ added' = how /\ at' = 0

(* The walk goes on with the next entry, or is over.                       *)
Advance == IF at < Len(source.entries)
           THEN adding' = "walk" /\ at' = at + 1 /\ UNCHANGED added
           ELSE AddEnds("ok")

(* Mutant: a directory that is there already is filled up.                 *)
AnyTarget(s) == TRUE
(* os.Mkdir: the directory of a source must be new.                        *)
NewTarget(s) == Target(s) \notin DOMAIN lib

(* A single file has no directory; its stub is looked for like any other.  *)
(* The next source of a command has the context of the one before.         *)
AddBegin(s) ==
    /\ adding = "none"
    /\ adds < MaxAdds
    /\ adds' = adds + 1
    /\ source' = s
    /\ results' = {}
    /\ cancelled' \in {FALSE, cancelled}
    /\ IF IsFile(s) \/ NewTarget(s)
       THEN /\ adding' = "walk" /\ added' = "none"
            /\ at' = 1
            /\ lib' = IF IsFile(s) THEN lib ELSE With(lib, Target(s), Dir)
       ELSE AddEnds("error") /\ UNCHANGED lib
    /\ UNCHANGED <<cfg, call, restore>>

AddFails == AddEnds("error") /\ UNCHANGED <<lib, results>>

(* os.MkdirAll: what is there already must be a directory.                 *)
AddDir ==
    LET d == Dest(source, Entry) IN
    /\ Entry.kind = "dir"
    /\ IF d \notin DOMAIN lib \/ lib[d] = Dir
       THEN /\ lib' = With(lib, d, Dir)
            /\ Advance
            /\ UNCHANGED results
       ELSE AddFails
    /\ UNCHANGED call

(* Links and special files end the batch.                                  *)
AddOther == Entry.kind = "other" /\ AddFails /\ UNCHANGED call

(* processFile's tests of the file's name, of its stub's and of its size.  *)
Addable(s, e) ==
    /\ ~ IsStubName(Dest(s, e))
    /\ StubOf(Dest(s, e)) \notin DOMAIN lib
    /\ Accepts(e.size, cfg.maxFile, cfg.chunk)

AddFile ==
    /\ Entry.kind = "file"
    /\ IF Addable(source, Entry)
       THEN /\ Ask(ShardBytes(Entry.size, ChunkOf(cfg.chunk)))
            /\ adding' = "place"
            /\ UNCHANGED <<lib, at, results, added>>
       ELSE AddFails /\ UNCHANGED call

(* The next entry, if the context has not been cancelled.                  *)
AddVisit == /\ adding = "walk"
            /\ IF cancelled THEN AddFails /\ UNCHANGED call
               ELSE AddDir \/ AddOther \/ AddFile
            /\ UNCHANGED <<cfg, cancelled, source, adds, restore>>

(* shardPeers has returned.                                                *)
AddPlaced == /\ adding = "place"
             /\ phase \in {"placed", "refused"}
             /\ Forget
             /\ IF phase = "placed"
                THEN adding' = "publish" /\ UNCHANGED <<lib, at, results, added>>
                ELSE AddFails
             /\ UNCHANGED <<cfg, cancelled, source, adds, restore>>

NameOf(s, e) == IF e.rel = <<>> THEN s.name[1] ELSE Last(e.rel)[1]

Published ==
    With(lib, StubOf(Dest(source, Entry)),
         Stub(NewChunked(NameOf(source, Entry), Entry.size, ChunkOf(cfg.chunk)),
              <<source, at>>, adds))

(* Mutant: the stub is renamed over what is there.                         *)
Replaces(p) == TRUE
(* os.Link: nothing may have the stub's name by now.                       *)
Free(p) == p \notin DOMAIN lib

(* The upload is done and the stub linked; cfg.KeepOriginal is set for all *)
(* that AddPath does, and the original stays.                              *)
AddPublish ==
    LET p == StubOf(Dest(source, Entry)) IN
    /\ adding = "publish"
    /\ IF ~ cancelled /\ Free(p)
       THEN /\ lib' = Published
            /\ results' = results \cup {p}
            /\ Advance
       ELSE AddFails
    /\ UNCHANGED <<placement, source, adds, restore>>

(* Linked, but the directory sync fails: a stub, and an error.             *)
AddUnsynced ==
    /\ "io" \in Faults
    /\ adding = "publish"
    /\ ~ cancelled
    /\ Free(StubOf(Dest(source, Entry)))
    /\ lib' = Published
    /\ AddEnds("error")
    /\ UNCHANGED <<placement, source, results, adds, restore>>

(* Mutant: the batch goes on after a file that failed.                     *)
SkipsFailed ==
    /\ "io" \in Faults
    /\ adding \in {"walk", "publish"}
    /\ Advance
    /\ UNCHANGED <<placement, lib, source, results, adds, restore>>
(* Any other error ends the batch at the entry where it occurs.            *)
AddStops ==
    /\ "io" \in Faults
    /\ adding \in {"walk", "publish"}
    /\ AddFails
    /\ UNCHANGED <<placement, source, adds, restore>>

(* The process dies, its goroutines with it.                               *)
AddKilled ==
    /\ "kill" \in Faults
    /\ adding # "none"
    /\ AddEnds("killed")
    /\ Forget
    /\ UNCHANGED <<cfg, cancelled, lib, source, results, adds, restore>>

(* The goroutines of the placement.                                        *)
AddProbes == (Probes \/ Place) /\ UNCHANGED <<lib, add, restore>>

AddCancelled == adding # "none" /\ Cancel /\ UNCHANGED <<lib, add, restore>>

(* Another process adds to the same library, and gets as far as the one    *)
(* stub of a file or the directory of anything else.                       *)
OtherAdds(s) ==
    LET p == IF IsFile(s) THEN StubOf(Target(s)) ELSE Target(s) IN
    /\ Free(p)
    /\ s.entries[1].kind # "other"
    /\ lib' = With(lib, p, IF IsFile(s)
                           THEN Stub(NewWithLayout(1, DefaultLayout, s.name[1], 0),
                                     Elsewhere, 0)
                           ELSE Dir)
    /\ UNCHANGED <<placement, add, restore>>

-----------------------------------------------------------------------------
(* RestoreDirectory.                                                       *)
RestoreEnds(how) == /\ restoring' = "none"
                    /\ restored' = how
                    /\ IF how = "ok" THEN UNCHANGED <<base, found>>
                                     ELSE base' = <<>> /\ found' = {}

(* The output must be new.                                                 *)
RestoreBegin(d) ==
    /\ restoring = "none"
    /\ restored # "ok"
    /\ d \in DOMAIN lib /\ lib[d] = Dir
    /\ IF <<>> \in DOMAIN out
       THEN RestoreEnds("error") /\ UNCHANGED <<out, todo>>
       ELSE /\ out' = With(out, <<>>, Dir)
            /\ base' = d
            /\ todo' = <<d>>
            /\ found' = Below(d)
            /\ restoring' = "walk" /\ UNCHANGED restored
    /\ UNCHANGED <<placement, lib, add>>

(* WalkDir lists a directory when it comes to it, and visits by name.      *)
Before(p, q) == \/ Last(p)[1] < Last(q)[1]
                \/ Last(p)[1] = Last(q)[1] /\ Last(p)[2] <= Last(q)[2]
Listing(d) ==
    LET S == {p \in DOMAIN lib : p # <<>> /\ Front(p) = d}
    IN [i \in 1..Cardinality(S) |->
           CHOOSE p \in S : Cardinality({q \in S : Before(q, p)}) = i]

Follow(rest) == /\ todo' = rest
                /\ IF rest = <<>> THEN RestoreEnds("ok")
                                  ELSE UNCHANGED <<restoring, restored, base, found>>

RestoreFails == RestoreEnds("error") /\ todo' = <<>> /\ UNCHANGED out

RestoreDir(d) ==
    LET o == Rel(base, d) IN
    /\ lib[d].kind = "dir"
    /\ IF o \notin DOMAIN out \/ out[o] = Dir
       THEN /\ out' = With(out, o, Dir)
            /\ Follow(Listing(d) \o Tail(todo))
       ELSE RestoreFails

(* A file that is no stub is passed over; a link is an error.              *)
RestoreOther(p) ==
    /\ lib[p].kind \in {"file", "other"}
    /\ IF lib[p].kind = "file" THEN Follow(Tail(todo)) /\ UNCHANGED out
                               ELSE RestoreFails

(* Mutant: an output that is there already is taken for restored.          *)
KeepsExisting(p) ==
    LET o == Rel(base, Trimmed(p)) IN
    /\ lib[p].kind = "stub"
    /\ IF Readable(lib[p].manifest)
       THEN /\ out' = IF o \in DOMAIN out THEN out
                      ELSE With(out, o, [kind |-> "file", of |-> lib[p].of])
            /\ Follow(Tail(todo))
       ELSE RestoreFails
(* RestoreFile: the stub is read, its shards fetched, and the file linked  *)
(* under the stub's name without ".dstore", where nothing may be.          *)
RestoreStub(p) ==
    LET o == Rel(base, Trimmed(p)) IN
    /\ lib[p].kind = "stub"
    /\ IF Readable(lib[p].manifest) /\ o \notin DOMAIN out
       THEN /\ out' = With(out, o, [kind |-> "file", of |-> lib[p].of])
            /\ Follow(Tail(todo))
       ELSE RestoreFails

RestoreVisit ==
    /\ restoring = "walk"
    /\ LET p == Head(todo) IN RestoreDir(p) \/ RestoreOther(p) \/ RestoreStub(p)
    /\ UNCHANGED <<placement, lib, add>>

(* The step fails, is cancelled, or the process dies; a file may have been *)
(* linked before.                                                          *)
RestoreStops ==
    /\ "io" \in Faults
    /\ restoring = "walk"
    /\ RestoreEnds("error")
    /\ todo' = <<>>
    /\ LET p == Head(todo)
           o == Rel(base, Trimmed(p)) IN
       \/ UNCHANGED out
       \/ /\ lib[p].kind = "stub"
          /\ Readable(lib[p].manifest)
          /\ o \notin DOMAIN out
          /\ out' = With(out, o, [kind |-> "file", of |-> lib[p].of])
    /\ UNCHANGED <<placement, lib, add>>

-----------------------------------------------------------------------------
Adding == AddVisit \/ AddPlaced \/ AddPublish \/ AddProbes

Next == \/ \E s \in Sources : AddBegin(s)
        \/ Adding
        \/ AddUnsynced \/ AddStops \/ AddKilled \/ AddCancelled
        \/ \E s \in Sources : OtherAdds(s)
        \/ \E d \in DOMAIN lib : RestoreBegin(d)
        \/ RestoreVisit
        \/ RestoreStops

Spec == Init /\ [][Next]_vars

(* Every goroutine of an add goes on; a probe ends within three seconds,   *)
(* and every request of an upload within thirty.                           *)
FairSpec == /\ Spec
            /\ WF_vars(AddVisit \/ AddPlaced \/ AddPublish)
            /\ WF_vars(AddProbes)

-----------------------------------------------------------------------------
(* Properties.                                                             *)

(* Neither command removes or replaces anything: what is in the library    *)
(* stays as it is, whoever put it there, and so does what is in the output *)
(* directory (docs/ROADMAP.md:25, "with collision protection").            *)
Extends(f, g) == \A p \in DOMAIN f : p \in DOMAIN g /\ g[p] = f[p]
NothingLost == [][Extends(lib, lib') /\ Extends(out, out')]_vars

(* paths.go:13: a batch may end half way, by an error, a cancellation or a *)
(* kill, and what it returns then names the stubs it has written, all of   *)
(* them but one whose directory could not be synced; and a directory of    *)
(* the library never mixes the stubs of two batches, the second of which   *)
(* repeats the first.                                                      *)
Stubs(b) == {p \in DOMAIN lib : lib[p].kind = "stub" /\ lib[p].by = b}
ResultsIdentifyStubs ==
    /\ adds > 0 /\ added # "killed" =>
          /\ results \subseteq Stubs(adds)
          /\ Cardinality(Stubs(adds) \ results) <= (IF added = "error" THEN 1 ELSE 0)
    /\ \A b \in 1..adds : \A p \in Stubs(b), q \in DOMAIN lib :
          lib[q].kind = "stub" /\ p[1] = q[1] => lib[q].by = b

Included(i) ==
    LET d == Dest(source, source.entries[i]) IN
    IF source.entries[i].kind = "dir" THEN d \in DOMAIN lib /\ lib[d] = Dir
    ELSE StubOf(d) \in results /\ lib[StubOf(d)].of = <<source, i>>

(* docs/ROADMAP.md:22: a directory that was added without an error is in   *)
(* the library with its hierarchy, a stub for each of its files and        *)
(* nothing left out.                                                       *)
AddComplete == added = "ok" => \A i \in DOMAIN source.entries : Included(i)

Holds(o, v) == o \in DOMAIN out /\ out[o] = v
IsRestored(p) ==
    CASE lib[p].kind = "dir"   -> Holds(Rel(base, p), Dir)
      [] lib[p].kind = "stub"  -> Holds(Rel(base, Trimmed(p)),
                                        [kind |-> "file", of |-> lib[p].of])
      [] lib[p].kind = "file"  -> TRUE
      [] lib[p].kind = "other" -> FALSE

(* A restore that reports no error has restored everything that was there  *)
(* when it began, each file with the content its stub is for and under the *)
(* name it had, while adds were writing to the same library.               *)
RestoreComplete == restored = "ok" => \A p \in found : IsRestored(p)

(* What an add publishes, a restore accepts (README.md:5, "a portable      *)
(* `.dstore` manifest that can restore the original file").                *)
PublishedIsReadable ==
    \A b \in 1..adds : \A p \in Stubs(b) : Readable(lib[p].manifest)

(* Every add ends, however slow, few or full the peers are and whenever    *)
(* the context is cancelled: no probe waits for ever for a slot another    *)
(* one has kept (discovery.go:66).                                         *)
AddsEnd == adding # "none" ~> adding = "none"
=============================================================================
