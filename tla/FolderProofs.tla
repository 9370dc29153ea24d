----------------------------- MODULE FolderProofs -----------------------------
(***************************************************************************)
(* The folder commands replace nothing, place every file as Placement.tla  *)
(* says, and publish only stubs that a restore accepts, but for the names  *)
(* and sizes the code does not look at; an add or a restore that succeeds  *)
(* is complete, and the results of an add name its stubs.  For any sources *)
(* and libraries a file system can hold, any peers, and any faults.        *)
(***************************************************************************)
EXTENDS Folder, PlacementProofs, ManifestProofs, FiniteSetTheorems, SequenceTheorems

-----------------------------------------------------------------------------
(* An add that has not ended is at an entry of its source, which the       *)
(* upload has accepted if it is past the walk.                             *)
AtEntry ==
    /\ adding \in {"none", "walk", "place", "publish"}
    /\ adds \in Nat
    /\ adding # "none" => source \in Sources /\ at \in 1..Len(source.entries)
    /\ adding \in {"place", "publish"} =>
          Entry.kind = "file" /\ Accepts(Entry.size, cfg.maxFile, cfg.chunk)

(* The configuration is one of the settings and never changes.             *)
Configuration == cfg \in Settings

AInv == Configuration /\ AtEntry

LEMMA EntryTypes ==
    ASSUME NEW s \in Sources
    PROVE  /\ s.entries \in Seq([rel : Seq(Names),
                                 kind : {"dir", "file", "other"}, size : Nat])
           /\ Len(s.entries) \in Nat \ {0}
           /\ s.name \in Names
<1>1. s \in Source /\ s.entries # <<>>
  BY FolderAssumption DEF Walked
<1>2. /\ s.entries \in Seq([rel : Seq(Names),
                             kind : {"dir", "file", "other"}, size : Nat])
      /\ s.name \in Names
  BY <1>1 DEF Source
<1>. QED
  BY <1>1, <1>2, EmptySeq

LEMMA SeqElement ==
    ASSUME NEW S, NEW q \in Seq(S), NEW i \in 1..Len(q)
    PROVE  q[i] \in S
  OBVIOUS

LEMMA EntryType ==
    ASSUME AtEntry, adding # "none"
    PROVE  /\ Entry \in [rel : Seq(Names),
                         kind : {"dir", "file", "other"}, size : Nat]
           /\ Entry.size \in Nat
<1>1. source \in Sources /\ at \in 1..Len(source.entries)
  BY DEF AtEntry
<1>2. Entry \in [rel : Seq(Names), kind : {"dir", "file", "other"}, size : Nat]
  <2>1. source.entries \in Seq([rel : Seq(Names),
                                kind : {"dir", "file", "other"}, size : Nat])
    BY <1>1, EntryTypes
  <2>. QED
    BY <1>1, <2>1, SeqElement DEF Entry
<1>. QED
  BY <1>2

LEMMA AdvanceKeeps ==
    ASSUME AtEntry, adding # "none", Advance, UNCHANGED source
    PROVE  /\ adding' \in {"none", "walk"}
           /\ adding' # "none" => at' \in 1..Len(source'.entries)
  BY EntryTypes DEF AtEntry, Advance, AddEnds

LEMMA AInvStep == AInv /\ [Next]_vars => AInv'
<1>. SUFFICES ASSUME AInv, [Next]_vars PROVE AInv'
  OBVIOUS
<1>. USE DEF AInv, AddFails, AddEnds
<1>1. ASSUME NEW s \in Sources, AddBegin(s) PROVE AInv'
  BY <1>1, EntryTypes DEF AddBegin, AtEntry, Configuration
<1>2. CASE AddVisit
  <2>1. source' = source /\ cfg' = cfg /\ adds' = adds /\ adding = "walk"
    BY <1>2 DEF AddVisit
  <2>2. CASE cancelled \/ AddOther
    BY <1>2, <2>1, <2>2 DEF AddVisit, AddOther, AtEntry, Configuration, AddDir, AddFile
  <2>3. CASE AddDir
    BY <1>2, <2>1, <2>3, AdvanceKeeps DEF AddDir, AtEntry, Configuration
  <2>4. CASE AddFile
    BY <2>1, <2>4 DEF AddFile, Addable, AtEntry, Configuration, Entry
  <2>. QED
    BY <1>2, <2>2, <2>3, <2>4 DEF AddVisit
<1>3. CASE AddPlaced
  BY <1>3 DEF AddPlaced, AtEntry, Configuration, Entry
<1>4. CASE AddPublish
  <2>1. source' = source /\ cfg' = cfg /\ adds' = adds /\ adding = "publish"
    BY <1>4 DEF AddPublish, placement
  <2>. QED
    BY <1>4, <2>1, AdvanceKeeps DEF AddPublish, AtEntry, Configuration
<1>5. CASE AddUnsynced \/ AddStops \/ AddKilled
  BY <1>5 DEF AddUnsynced, AddStops, AddKilled, AtEntry, Configuration, placement
<1>6. CASE AddProbes \/ AddCancelled
  BY <1>6 DEF AddProbes, AddCancelled, Probes, TakeSlot, GiveUp, Answer, Place,
              Cancel, add, AtEntry, Configuration, Entry
<1>7. ASSUME NEW s \in Sources, OtherAdds(s) PROVE AInv'
  BY <1>7 DEF OtherAdds, add, placement, AtEntry, Configuration, Entry
<1>8. ASSUME NEW d, RestoreBegin(d) PROVE AInv'
  BY <1>8 DEF RestoreBegin, add, placement, AtEntry, Configuration, Entry
<1>9. CASE RestoreVisit \/ RestoreStops
  BY <1>9 DEF RestoreVisit, RestoreStops, add, placement, AtEntry, Configuration, Entry
<1>10. CASE UNCHANGED vars
  BY <1>10 DEF vars, add, placement, AtEntry, Configuration, Entry
<1>. QED
  BY <1>1, <1>2, <1>3, <1>4, <1>5, <1>6, <1>7, <1>8, <1>9, <1>10
     DEF Next, Adding

LEMMA AInvAlways == Spec => []AInv
<1>1. Init => AInv
  BY DEF Init, PlacementInit, AInv, AtEntry, Configuration
<1>. QED
  BY <1>1, AInvStep, PTL DEF Spec

-----------------------------------------------------------------------------
(* What is asked of the peers is a number.                                 *)
LEMMA ShardBytesType ==
    ASSUME NEW size \in Nat, NEW chunk \in Nat
    PROVE  ShardBytes(size, chunk) \in Nat
<1>. DEFINE a == (IF size < chunk THEN size ELSE chunk) + Overhead + Data - 1
<1>1. a \in Nat /\ Data \in Nat \ {0}
  BY ManifestAssumption
<1>. QED
  BY <1>1, Division DEF ShardBytes

(* The add of a file is a caller of the placement: for every source, every *)
(* library and every mishap, its variables behave as PlacementSpec says.   *)
THEOREM ImplementsPlacement == Spec => PlacementSpec
<1>1. Init => PlacementInit
  BY DEF Init
<1>2. AInv /\ [Next]_vars => [PlacementNext]_placement
  <2>. SUFFICES ASSUME AInv, [Next]_vars PROVE [PlacementNext]_placement
    OBVIOUS
  <2>1. ASSUME NEW s \in Sources, AddBegin(s) PROVE [PlacementNext]_placement
    BY <2>1 DEF AddBegin, PlacementNext, Renew, placement
  <2>2. CASE AddVisit
    <3>1. CASE AddFile /\ Addable(source, Entry)
      <4>1. Entry.size \in Nat
        BY <2>2, EntryType DEF AddVisit, AInv
      <4>2. ChunkOf(cfg.chunk) \in Nat
        BY PlacementAssumption, ManifestAssumption DEF AInv, Configuration, ChunkOf
      <4>3. ShardBytes(Entry.size, ChunkOf(cfg.chunk)) \in Nat
        BY <4>1, <4>2, ShardBytesType
      <4>4. Ask(ShardBytes(Entry.size, ChunkOf(cfg.chunk)))
        BY <3>1 DEF AddFile
      <4>. QED
        BY <4>3, <4>4 DEF PlacementNext
    <3>2. CASE ~ (AddFile /\ Addable(source, Entry))
      BY <2>2, <3>2 DEF AddVisit, AddDir, AddOther, AddFile, placement
    <3>. QED
      BY <3>1, <3>2
  <2>3. CASE AddPlaced \/ AddKilled
    BY <2>3 DEF AddPlaced, AddKilled, PlacementNext
  <2>4. CASE AddProbes \/ AddCancelled
    BY <2>4 DEF AddProbes, AddCancelled, PlacementNext
  <2>5. CASE AddPublish \/ AddUnsynced \/ AddStops
    BY <2>5 DEF AddPublish, AddUnsynced, AddStops
  <2>6. ASSUME NEW s \in Sources, OtherAdds(s) PROVE UNCHANGED placement
    BY <2>6 DEF OtherAdds
  <2>7. ASSUME NEW d, RestoreBegin(d) PROVE UNCHANGED placement
    BY <2>7 DEF RestoreBegin
  <2>8. CASE RestoreVisit \/ RestoreStops \/ UNCHANGED vars
    BY <2>8 DEF RestoreVisit, RestoreStops, vars
  <2>. QED
    BY <2>1, <2>2, <2>3, <2>4, <2>5, <2>6, <2>7, <2>8 DEF Next, Adding
<1>. QED
  BY <1>1, <1>2, AInvAlways, PTL DEF Spec, PlacementSpec

(* Hence the peers of every file that is added have room for its shards,   *)
(* and no machine gets two of them where enough are required.              *)
THEOREM AddsPlaceSafely == Spec => []PlacedSafely
  BY ImplementsPlacement, PlacementSafe, PTL

-----------------------------------------------------------------------------
(* A name that is free, or that has this value, is the only one With sets. *)
LEMMA WithExtends ==
    ASSUME NEW f, NEW p, NEW v, p \notin DOMAIN f \/ f[p] = v
    PROVE  Extends(f, With(f, p, v))
  BY DEF Extends, With

LEMMA ExtendsItself ==
    ASSUME NEW f
    PROVE  Extends(f, f)
  BY DEF Extends

(* No step of an add or a restore, whether it succeeds, fails or is the    *)
(* last of its process, removes or replaces what is in the library or in   *)
(* the output directory.                                                   *)
THEOREM NothingIsLost == Spec => NothingLost
<1>1. [Next]_vars => [Extends(lib, lib') /\ Extends(out, out')]_vars
  <2>. SUFFICES ASSUME Next PROVE Extends(lib, lib') /\ Extends(out, out')
    OBVIOUS
  <2>. USE WithExtends, ExtendsItself DEF AddFails
  <2>1. ASSUME NEW s \in Sources, AddBegin(s)
        PROVE  Extends(lib, lib') /\ Extends(out, out')
    BY <2>1 DEF AddBegin, NewTarget, restore
  <2>2. CASE AddVisit
    BY <2>2 DEF AddVisit, AddDir, AddOther, AddFile, restore
  <2>3. CASE AddPlaced
    BY <2>3 DEF AddPlaced, restore
  <2>4. CASE AddPublish \/ AddUnsynced
    BY <2>4 DEF AddPublish, AddUnsynced, Published, Free, restore
  <2>5. CASE AddStops \/ AddKilled \/ AddProbes \/ AddCancelled
    BY <2>5 DEF AddStops, AddKilled, AddProbes, AddCancelled, restore
  <2>6. ASSUME NEW s \in Sources, OtherAdds(s)
        PROVE  Extends(lib, lib') /\ Extends(out, out')
    BY <2>6 DEF OtherAdds, Free, restore
  <2>7. ASSUME NEW d, RestoreBegin(d)
        PROVE  Extends(lib, lib') /\ Extends(out, out')
    BY <2>7 DEF RestoreBegin
  <2>8. CASE RestoreVisit
    <3>1. lib' = lib
      BY <2>8 DEF RestoreVisit
    <3>2. Extends(out, out')
      BY <2>8 DEF RestoreVisit, RestoreDir, RestoreOther, RestoreStub, RestoreFails
    <3>. QED
      BY <3>1, <3>2
  <2>9. CASE RestoreStops
    BY <2>9 DEF RestoreStops
  <2>. QED
    BY <2>1, <2>2, <2>3, <2>4, <2>5, <2>6, <2>7, <2>8, <2>9 DEF Next, Adding
<1>. QED
  BY <1>1, PTL DEF Spec, NothingLost

-----------------------------------------------------------------------------
(* What the code does not look at: names that are plain, and files that    *)
(* the upload accepts only if their ciphertext is no longer than 1 TiB.    *)
Describable ==
    \A s \in Sources : \A i \in 1..Len(s.entries) :
        /\ NameOf(s, s.entries[i]) \in PlainNames
        /\ \A c \in Settings :
              Accepts(s.entries[i].size, c.maxFile, c.chunk) =>
                  Cipher(Chunks(s.entries[i].size, ChunkOf(c.chunk)), ChunkOf(c.chunk))
                     <= MaxTotal

(* Inductive with AInv: a stub was there, is another process's, or can be  *)
(* read.                                                                   *)
StubsOK == \A p \in DOMAIN lib :
               lib[p].kind = "stub" => lib[p].by = 0 \/ Readable(lib[p].manifest)

LEMMA WithKeepsStubs ==
    ASSUME StubsOK, NEW p, NEW v,
           v.kind = "stub" => v.by = 0 \/ Readable(v.manifest),
           lib' = With(lib, p, v)
    PROVE  StubsOK'
<1>. SUFFICES ASSUME NEW q \in DOMAIN lib', lib'[q].kind = "stub"
              PROVE  lib'[q].by = 0 \/ Readable(lib'[q].manifest)
  BY DEF StubsOK, Readable, Chunked, FitsChunk, Single
<1>1. CASE q = p
  BY <1>1 DEF With
<1>2. CASE q # p
  BY <1>2 DEF With, StubsOK
<1>. QED
  BY <1>1, <1>2

LEMMA WhatIsPublished ==
    ASSUME Describable, AInv, StubsOK, adding = "publish", lib' = Published
    PROVE  StubsOK'
<1>. DEFINE mf == NewChunked(NameOf(source, Entry), Entry.size, ChunkOf(cfg.chunk))
<1>1. source \in Sources /\ at \in 1..Len(source.entries) /\ cfg \in Settings
  BY DEF AInv, AtEntry, Configuration
<1>2. /\ Entry.size \in Nat
      /\ Accepts(Entry.size, cfg.maxFile, cfg.chunk)
      /\ cfg.maxFile \in Int /\ cfg.chunk \in Int
  BY <1>1, EntryType, PlacementAssumption DEF AInv, AtEntry
<1>3. /\ NameOf(source, Entry) \in PlainNames
      /\ Cipher(Chunks(Entry.size, ChunkOf(cfg.chunk)), ChunkOf(cfg.chunk)) <= MaxTotal
  BY <1>1, <1>2 DEF Describable, Entry
<1>4. Readable(mf)
  BY <1>2, <1>3, StubReadable
<1>. DEFINE v == Stub(mf, <<source, at>>, adds)
<1>5. v.manifest = mf /\ lib' = With(lib, StubOf(Dest(source, Entry)), v)
  BY DEF Stub, Published
<1>. HIDE DEF v, mf
<1>. QED
  BY <1>4, <1>5, WithKeepsStubs

(* For any files, configurations, peers and mishaps: as long as names and  *)
(* sizes are Describable, whatever an add publishes can be restored.       *)
THEOREM PublishedReadable ==
    ASSUME Describable
    PROVE  Spec => []PublishedIsReadable
<1>1. Init => StubsOK
  BY FolderAssumption DEF Init, StubsOK
<1>2. AInv /\ StubsOK /\ [Next]_vars => StubsOK'
  <2>. SUFFICES ASSUME AInv, StubsOK, [Next]_vars PROVE StubsOK'
    OBVIOUS
  <2>0. ASSUME UNCHANGED lib PROVE StubsOK'
    BY <2>0 DEF StubsOK
  <2>d. ASSUME NEW p, lib' = With(lib, p, Dir) PROVE StubsOK'
    BY <2>d, WithKeepsStubs DEF Dir
  <2>1. ASSUME NEW s \in Sources, AddBegin(s) PROVE StubsOK'
    BY <2>0, <2>d, <2>1 DEF AddBegin
  <2>2. CASE AddVisit
    BY <2>0, <2>d, <2>2 DEF AddVisit, AddDir, AddOther, AddFile, AddFails
  <2>3. CASE AddPublish \/ AddUnsynced
    BY <2>0, <2>3, WhatIsPublished DEF AddPublish, AddUnsynced, AddFails
  <2>4. ASSUME NEW s \in Sources, OtherAdds(s) PROVE StubsOK'
    <3>. DEFINE v == Stub(NewWithLayout(1, DefaultLayout, s.name[1], 0), Elsewhere, 0)
    <3>1. v.by = 0
      BY DEF Stub
    <3>. HIDE DEF v
    <3>2. ASSUME NEW p, lib' = With(lib, p, v) PROVE StubsOK'
      BY <3>1, <3>2, WithKeepsStubs
    <3>. QED
      BY <2>d, <2>4, <3>2 DEF OtherAdds, v
  <2>5. CASE AddPlaced \/ AddStops \/ AddKilled \/ AddProbes \/ AddCancelled
    BY <2>0, <2>5 DEF AddPlaced, AddStops, AddKilled, AddProbes, AddCancelled, AddFails
  <2>6. ASSUME NEW d, RestoreBegin(d) PROVE StubsOK'
    BY <2>0, <2>6 DEF RestoreBegin
  <2>7. CASE RestoreVisit \/ RestoreStops \/ UNCHANGED vars
    BY <2>0, <2>7 DEF RestoreVisit, RestoreStops, vars
  <2>. QED
    BY <2>1, <2>2, <2>3, <2>4, <2>5, <2>6, <2>7 DEF Next, Adding
<1>3. AInv /\ StubsOK => PublishedIsReadable
  <2>. SUFFICES ASSUME AInv, StubsOK, NEW b \in 1..adds, NEW p \in Stubs(b)
                PROVE  Readable(lib[p].manifest)
    BY DEF PublishedIsReadable
  <2>1. b # 0
    BY DEF AInv, AtEntry
  <2>. QED
    BY <2>1 DEF Stubs, StubsOK
<1>. QED
  BY <1>1, <1>2, <1>3, AInvAlways, PTL DEF Spec
-----------------------------------------------------------------------------
(* Paths.                                                                  *)
LEMMA PrefixFacts ==
    ASSUME NEW p \in Seq(Names), NEW k \in 0..Len(p)
    PROVE  /\ SubSeq(p, 1, k) \in Seq(Names)
           /\ Len(SubSeq(p, 1, k)) = k
           /\ \A i \in 1..k : SubSeq(p, 1, k)[i] = p[i]
<1>1. Len(p) \in Nat /\ \A i \in 1..k : p[i] \in Names
  BY LenProperties, ElementOfSeq
<1>. QED
  BY <1>1, SubSeqProperties

LEMMA PrefixOfPrefix ==
    ASSUME NEW p \in Seq(Names), NEW k \in 0..Len(p), NEW j \in 0..k
    PROVE  SubSeq(SubSeq(p, 1, k), 1, j) = SubSeq(p, 1, j)
<1>. DEFINE q == SubSeq(p, 1, k)
<1>0. Len(p) \in Nat /\ j \in 0..Len(p)
  BY LenProperties
<1>1. /\ q \in Seq(Names) /\ Len(q) = k
      /\ \A i \in 1..k : q[i] = p[i]
  BY PrefixFacts
<1>. HIDE DEF q
<1>2. /\ SubSeq(q, 1, j) \in Seq(Names) /\ Len(SubSeq(q, 1, j)) = j
      /\ \A i \in 1..j : SubSeq(q, 1, j)[i] = q[i]
  BY <1>1, PrefixFacts
<1>3. /\ SubSeq(p, 1, j) \in Seq(Names) /\ Len(SubSeq(p, 1, j)) = j
      /\ \A i \in 1..j : SubSeq(p, 1, j)[i] = p[i]
  BY <1>0, PrefixFacts
<1>4. SubSeq(q, 1, j) = SubSeq(p, 1, j)
  BY <1>0, <1>1, <1>2, <1>3, SeqEqual
<1>. QED
  BY <1>4 DEF q

LEMMA FrontFacts ==
    ASSUME NEW p \in Seq(Names), p # <<>>
    PROVE  /\ Len(p) \in Nat \ {0}
           /\ Front(p) \in Seq(Names) /\ Len(Front(p)) = Len(p) - 1
           /\ \A i \in 1..(Len(p) - 1) : Front(p)[i] = p[i]
           /\ Last(p) \in Names
<1>1. Len(p) \in Nat \ {0}
  BY EmptySeq
<1>2. Len(p) \in 1..Len(p) /\ Len(p) - 1 \in 0..Len(p)
  BY <1>1
<1>. QED
  BY <1>1, <1>2, ElementOfSeq, PrefixFacts DEF Front, Last

LEMMA LenOfEmpty ==
    ASSUME NEW p \in Seq(Names)
    PROVE  p = <<>> <=> Len(p) = 0
  BY EmptySeq

(* A directory's child, by the directory and its name in it.               *)
LEMMA Joined ==
    ASSUME NEW d \in Seq(Names), NEW t \in Seq(Names), Len(t) = 1
    PROVE  /\ d \o t \in Seq(Names) /\ d \o t # <<>> /\ Len(d \o t) = Len(d) + 1
           /\ Front(d \o t) = d /\ Last(d \o t) = t[1]
           /\ \A i \in 1..Len(d) : (d \o t)[i] = d[i]
<1>. DEFINE p == d \o t
<1>1. Len(d) \in Nat
  BY LenProperties
<1>2. /\ p \in Seq(Names) /\ Len(p) = Len(d) + 1
      /\ \A i \in 1..(Len(d) + 1) : p[i] = IF i <= Len(d) THEN d[i] ELSE t[i - Len(d)]
  <2>1. /\ p \in Seq(Names) /\ Len(p) = Len(d) + Len(t)
        /\ \A i \in 1..(Len(d) + Len(t)) :
              p[i] = IF i <= Len(d) THEN d[i] ELSE t[i - Len(d)]
    BY ConcatProperties
  <2>. QED
    BY <2>1
<1>. HIDE DEF p
<1>3. p # <<>> /\ Last(p) = t[1]
  BY <1>1, <1>2, EmptySeq DEF Last
<1>4. \A i \in 1..Len(d) : p[i] = d[i]
  BY <1>1, <1>2
<1>5. Front(p) = d
  <2>1. Len(p) - 1 = Len(d)
    BY <1>1, <1>2
  <2>2. /\ Front(p) \in Seq(Names) /\ Len(Front(p)) = Len(d)
        /\ \A i \in 1..Len(d) : Front(p)[i] = p[i]
    BY <1>2, <1>3, <2>1, FrontFacts
  <2>. QED
    BY <1>4, <2>2, SeqEqual
<1>6. p \in Seq(Names) /\ p # <<>> /\ Len(p) = Len(d) + 1
      /\ Front(p) = d /\ Last(p) = t[1] /\ \A i \in 1..Len(d) : p[i] = d[i]
  BY <1>2, <1>3, <1>4, <1>5
<1>. QED
  BY <1>6 DEF p

LEMMA StubPath ==
    ASSUME NEW p \in Seq(Names), p # <<>>
    PROVE  /\ StubOf(p) \in Seq(Names) /\ StubOf(p) # <<>>
           /\ Len(StubOf(p)) = Len(p) /\ Front(StubOf(p)) = Front(p)
           /\ Len(p) > 1 => StubOf(p)[1] = p[1]
<1>. DEFINE t == <<<<Last(p)[1], Last(p)[2] + 1>>>>
<1>1. /\ Len(p) \in Nat \ {0} /\ Front(p) \in Seq(Names)
      /\ Len(Front(p)) = Len(p) - 1 /\ Last(p) \in Names
      /\ \A i \in 1..(Len(p) - 1) : Front(p)[i] = p[i]
  BY FrontFacts
<1>2. <<Last(p)[1], Last(p)[2] + 1>> \in Names
  BY <1>1 DEF Names
<1>3. t \in Seq(Names) /\ Len(t) = 1
  BY <1>2
<1>4. StubOf(p) = Front(p) \o t
  BY DEF StubOf
<1>. HIDE DEF t
<1>5. /\ StubOf(p) \in Seq(Names) /\ StubOf(p) # <<>>
      /\ Len(StubOf(p)) = Len(Front(p)) + 1 /\ Front(StubOf(p)) = Front(p)
      /\ \A i \in 1..Len(Front(p)) : StubOf(p)[i] = Front(p)[i]
  BY <1>1, <1>3, <1>4, Joined
<1>6. ASSUME Len(p) > 1 PROVE StubOf(p)[1] = p[1]
  <2>1. 1 \in 1..(Len(p) - 1) /\ 1 \in 1..Len(Front(p))
    BY <1>1, <1>6
  <2>. QED
    BY <1>1, <1>5, <2>1
<1>. QED
  BY <1>1, <1>5, <1>6

(* A path is its directory's and its last name.                            *)
LEMMA PathEqual ==
    ASSUME NEW p \in Seq(Names), NEW q \in Seq(Names), p # <<>>, q # <<>>,
           Front(p) = Front(q), Last(p) = Last(q)
    PROVE  p = q
<1>1. Len(p) = Len(q) /\ Len(p) \in Nat \ {0}
  BY FrontFacts
<1>2. \A i \in 1..(Len(p) - 1) : p[i] = q[i]
  BY <1>1, FrontFacts
<1>3. p[Len(p)] = q[Len(p)]
  BY <1>1 DEF Last
<1>. QED
  BY <1>1, <1>2, <1>3, SeqEqual

-----------------------------------------------------------------------------
(* Trees.                                                                  *)
LEMMA TopOf ==
    ASSUME NEW l, Tree(l), NEW p \in DOMAIN l, p # <<>>
    PROVE  /\ p[1] \in Names /\ <<p[1]>> \in DOMAIN l
           /\ p = <<p[1]>> \/ l[<<p[1]>>] = Dir
<1>1. p \in Seq(Names) /\ Len(p) \in Nat \ {0}
  BY EmptySeq DEF Tree
<1>2. p[1] \in Names
  BY <1>1, ElementOfSeq
<1>3. <<p[1]>> \in Seq(Names) /\ Len(<<p[1]>>) = 1 /\ <<p[1]>>[1] = p[1]
  BY <1>2
<1>4. CASE Len(p) = 1
  <2>1. p = <<p[1]>>
    BY <1>1, <1>3, <1>4, SeqEqual
  <2>. QED
    BY <1>2, <2>1
<1>5. CASE Len(p) > 1
  <2>1. SubSeq(p, 1, 1) = <<p[1]>>
    <3>1. /\ SubSeq(p, 1, 1) \in Seq(Names) /\ Len(SubSeq(p, 1, 1)) = 1
          /\ SubSeq(p, 1, 1)[1] = p[1]
      BY <1>1, PrefixFacts
    <3>2. \A i \in 1..1 : SubSeq(p, 1, 1)[i] = <<p[1]>>[i]
      BY <1>3, <3>1
    <3>. QED
      BY <1>3, <3>1, <3>2, SeqEqual
  <2>2. 1 \in 0..(Len(p) - 1)
    BY <1>1, <1>5
  <2>. QED
    BY <1>2, <2>1, <2>2 DEF Tree
<1>. QED
  BY <1>1, <1>4, <1>5

(* What is put into a directory leaves a tree.                             *)
LEMMA TreeGrows ==
    ASSUME NEW l, Tree(l), NEW p \in Seq(Names), NEW v, p # <<>>,
           Front(p) \in DOMAIN l, l[Front(p)] = Dir,
           p \notin DOMAIN l \/ l[p] = v,
           v.kind \in {"dir", "stub", "file", "other"}
    PROVE  Tree(With(l, p, v))
<1>. DEFINE m == With(l, p, v)
<1>1. DOMAIN m = DOMAIN l \cup {p} /\ m[p] = v
  BY DEF With
<1>2. \A q \in DOMAIN l : q \in DOMAIN m /\ m[q] = l[q]
  BY DEF With
<1>. HIDE DEF m
<1>3. DOMAIN m \subseteq Seq(Names) /\ <<>> \in DOMAIN m /\ m[<<>>] = Dir
  BY <1>1, <1>2 DEF Tree
<1>4. IsFiniteSet(DOMAIN m)
  BY <1>1, FS_AddElement DEF Tree
<1>5. ASSUME NEW q \in DOMAIN m, q # p
      PROVE  /\ m[q].kind \in {"dir", "stub", "file", "other"}
             /\ \A k \in 0..(Len(q) - 1) :
                   SubSeq(q, 1, k) \in DOMAIN m /\ m[SubSeq(q, 1, k)] = Dir
  BY <1>1, <1>2, <1>5 DEF Tree
<1>6. ASSUME NEW k \in 0..(Len(p) - 1)
      PROVE  SubSeq(p, 1, k) \in DOMAIN l /\ l[SubSeq(p, 1, k)] = Dir
  <2>1. Len(p) \in Nat \ {0} /\ Len(Front(p)) = Len(p) - 1
    BY FrontFacts
  <2>2. CASE k = Len(p) - 1
    BY <2>2 DEF Front
  <2>3. CASE k < Len(p) - 1
    <3>1. SubSeq(Front(p), 1, k) = SubSeq(p, 1, k)
      <4>1. Len(p) - 1 \in 0..Len(p) /\ k \in 0..(Len(p) - 1)
        BY <2>1
      <4>. QED
        BY <4>1, PrefixOfPrefix DEF Front
    <3>2. k \in 0..(Len(Front(p)) - 1)
      BY <2>1, <2>3
    <3>. QED
      BY <3>1, <3>2 DEF Tree
  <2>. QED
    BY <2>1, <2>2, <2>3
<1>7. Tree(m)
  BY <1>1, <1>2, <1>3, <1>4, <1>5, <1>6 DEF Tree
<1>. QED
  BY <1>7 DEF m

-----------------------------------------------------------------------------
(* Sources.                                                                *)
LEMMA EntryOf ==
    ASSUME NEW s \in Sources, NEW i \in 1..Len(s.entries)
    PROVE  /\ s.entries[i] \in [rel : Seq(Names),
                                kind : {"dir", "file", "other"}, size : Nat]
           /\ s.entries[i].rel \in Seq(Names)
<1>1. s.entries[i] \in [rel : Seq(Names), kind : {"dir", "file", "other"}, size : Nat]
  BY EntryTypes, SeqElement
<1>. QED
  BY <1>1

(* What is in the library itself, and not in a directory of it.            *)
LEMMA TargetFacts ==
    ASSUME NEW s \in Sources
    PROVE  /\ Target(s) \in Seq(Names) /\ Target(s) # <<>> /\ Len(Target(s)) = 1
           /\ Target(s)[1] = s.name /\ Front(Target(s)) = <<>>
           /\ StubOf(Target(s)) \in Seq(Names) /\ StubOf(Target(s)) # <<>>
           /\ Len(StubOf(Target(s))) = 1 /\ Front(StubOf(Target(s))) = <<>>
<1>. DEFINE t == Target(s)
<1>0. t[1] = s.name
  BY DEF Target
<1>1. t \in Seq(Names) /\ Len(t) = 1
  BY EntryTypes DEF Target
<1>. HIDE DEF t
<1>2. t # <<>> /\ Front(t) \in Seq(Names) /\ Len(Front(t)) = 0
  <2>1. t # <<>>
    BY <1>1, LenOfEmpty
  <2>2. Front(t) \in Seq(Names) /\ Len(Front(t)) = Len(t) - 1
    BY <1>1, <2>1, FrontFacts
  <2>. QED
    BY <1>1, <2>1, <2>2
<1>3. Front(t) = <<>>
  BY <1>2, EmptySeq
<1>4. /\ StubOf(t) \in Seq(Names) /\ StubOf(t) # <<>>
      /\ Len(StubOf(t)) = 1 /\ Front(StubOf(t)) = <<>>
  BY <1>1, <1>2, <1>3, StubPath
<1>. QED
  BY <1>0, <1>1, <1>2, <1>3, <1>4 DEF t

(* An entry's place is the target, or in the place of a directory before.  *)
LEMMA DestFacts ==
    ASSUME NEW s \in Sources, NEW i \in 1..Len(s.entries),
           NEW d, d = Dest(s, s.entries[i])
    PROVE  /\ d \in Seq(Names) /\ d # <<>> /\ d[1] = s.name
           /\ i = 1 => d = Target(s)
           /\ i > 1 => /\ Len(d) > 1
                       /\ \E j \in 1..(i - 1) :
                             /\ s.entries[j].kind = "dir"
                             /\ Dest(s, s.entries[j]) = Front(d)
<1>. DEFINE t == Target(s)
            r == s.entries[i].rel
<1>1. /\ t \in Seq(Names) /\ Len(t) = 1 /\ t[1] = s.name
      /\ r \in Seq(Names) /\ Len(r) \in Nat
  BY TargetFacts, EntryOf, LenProperties
<1>2. d = t \o r
  BY DEF Dest
<1>3. i \in Nat /\ Walked(s.entries)
  BY EntryTypes, FolderAssumption
<1>4. i = 1 => r = <<>>
  BY <1>3 DEF Walked
<1>. HIDE DEF t, r
<1>5. /\ d \in Seq(Names) /\ Len(d) = 1 + Len(r)
      /\ \A k \in 1..(1 + Len(r)) : d[k] = IF k <= 1 THEN t[k] ELSE r[k - 1]
  <2>1. /\ t \o r \in Seq(Names) /\ Len(t \o r) = Len(t) + Len(r)
        /\ \A k \in 1..(Len(t) + Len(r)) :
              (t \o r)[k] = IF k <= Len(t) THEN t[k] ELSE r[k - Len(t)]
    BY <1>1, ConcatProperties
  <2>. QED
    BY <1>1, <1>2, <2>1
<1>6. d # <<>> /\ d[1] = s.name
  BY <1>1, <1>5, EmptySeq
<1>7. ASSUME i = 1 PROVE d = Target(s)
  BY <1>1, <1>2, <1>4, <1>7, ConcatEmptySeq DEF t
<1>8. ASSUME i > 1
      PROVE  /\ Len(d) > 1
             /\ \E j \in 1..(i - 1) : /\ s.entries[j].kind = "dir"
                                      /\ Dest(s, s.entries[j]) = Front(d)
  <2>1. i \in 2..Len(s.entries)
    BY <1>3, <1>8, EntryTypes
  <2>2. r # <<>>
    BY <1>3, <2>1 DEF Walked, r
  <2>3. PICK j \in 1..(i - 1) : /\ s.entries[j].kind = "dir"
                                /\ s.entries[j].rel = Front(r)
    BY <1>3, <2>1 DEF Walked, r
  <2>4. /\ Len(r) \in Nat \ {0}
        /\ Front(r) \in Seq(Names) /\ Len(Front(r)) = Len(r) - 1
        /\ \A k \in 1..(Len(r) - 1) : Front(r)[k] = r[k]
    BY <1>1, <2>2, FrontFacts
  <2>5. /\ Front(d) \in Seq(Names) /\ Len(Front(d)) = Len(r)
        /\ \A k \in 1..Len(r) : Front(d)[k] = d[k]
    <3>1. Len(d) - 1 = Len(r)
      BY <1>1, <1>5
    <3>. QED
      BY <1>5, <1>6, <3>1, FrontFacts
  <2>. DEFINE u == t \o Front(r)
  <2>6. /\ u \in Seq(Names) /\ Len(u) = Len(r)
        /\ \A k \in 1..Len(r) : u[k] = IF k <= 1 THEN t[k] ELSE Front(r)[k - 1]
    <3>1. /\ u \in Seq(Names) /\ Len(u) = Len(t) + Len(Front(r))
          /\ \A k \in 1..(Len(t) + Len(Front(r))) :
                u[k] = IF k <= Len(t) THEN t[k] ELSE Front(r)[k - Len(t)]
      BY <1>1, <2>4, ConcatProperties
    <3>2. Len(t) + Len(Front(r)) = Len(r) /\ Len(t) = 1
      BY <1>1, <2>4
    <3>. QED
      BY <3>1, <3>2
  <2>7. Dest(s, s.entries[j]) = u
    BY <2>3 DEF Dest, t
  <2>. HIDE DEF u
  <2>8. \A k \in 1..Len(r) : u[k] = Front(d)[k]
    <3>. SUFFICES ASSUME NEW k \in 1..Len(r) PROVE u[k] = Front(d)[k]
      OBVIOUS
    <3>1. CASE k <= 1
      BY <1>5, <2>4, <2>5, <2>6, <3>1
    <3>2. CASE k > 1
      <4>1. k - 1 \in 1..(Len(r) - 1) /\ k \in 1..(1 + Len(r)) /\ ~ (k <= 1)
        BY <2>4, <3>2
      <4>2. d[k] = r[k - 1] /\ u[k] = Front(r)[k - 1]
        BY <1>5, <2>6, <4>1
      <4>. QED
        BY <2>4, <2>5, <4>1, <4>2
    <3>. QED
      BY <2>4, <3>1, <3>2
  <2>9. u = Front(d)
    BY <2>5, <2>6, <2>8, SeqEqual
  <2>. QED
    BY <1>5, <2>3, <2>4, <2>7, <2>9
<1>. QED
  BY <1>5, <1>6, <1>7, <1>8

-----------------------------------------------------------------------------
(* What an add has done so far: every entry it has passed is in the        *)
(* library, and stays there as nothing is lost.                            *)
AddedSoFar ==
    /\ results \subseteq DOMAIN lib
    /\ adding # "none" => /\ added = "none" /\ adds > 0
                          /\ \A i \in 1..(at - 1) : Included(i)
    /\ added = "ok" => adding = "none" /\ \A i \in DOMAIN source.entries : Included(i)

(* Each entry is put into a directory that is there by then.               *)
LEMMA EntryPlace ==
    ASSUME AInv, Tree(lib), AddedSoFar, adding # "none",
           NEW d, d = Dest(source, Entry)
    PROVE  /\ d \in Seq(Names) /\ d # <<>>
           /\ StubOf(d) \in Seq(Names) /\ StubOf(d) # <<>>
           /\ Front(StubOf(d)) = Front(d)
           /\ Front(d) \in DOMAIN lib /\ lib[Front(d)] = Dir
<1>1. source \in Sources /\ at \in 1..Len(source.entries)
  BY DEF AInv, AtEntry
<1>2. d = Dest(source, source.entries[at])
  BY DEF Entry
<1>3. /\ d \in Seq(Names) /\ d # <<>>
      /\ at = 1 => d = Target(source)
      /\ at > 1 => \E j \in 1..(at - 1) : /\ source.entries[j].kind = "dir"
                                          /\ Dest(source, source.entries[j]) = Front(d)
  BY <1>1, <1>2, DestFacts
<1>4. /\ StubOf(d) \in Seq(Names) /\ StubOf(d) # <<>>
      /\ Front(StubOf(d)) = Front(d)
  BY <1>3, StubPath
<1>5. Front(d) \in DOMAIN lib /\ lib[Front(d)] = Dir
  <2>1. CASE at = 1
    BY <1>1, <1>3, <2>1, TargetFacts DEF Tree
  <2>2. CASE at > 1
    BY <1>3, <2>2 DEF AddedSoFar, Included
  <2>. QED
    BY <1>1, <2>1, <2>2, EntryTypes
<1>. QED
  BY <1>3, <1>4, <1>5

(* A place in the library for v.                                           *)
Room(p, v) ==
    /\ p \in Seq(Names) /\ p # <<>>
    /\ Front(p) \in DOMAIN lib /\ lib[Front(p)] = Dir
    /\ p \notin DOMAIN lib \/ lib[p] = v
    /\ v.kind \in {"dir", "stub", "file", "other"}

LEMMA LibStep ==
    ASSUME AInv, Tree(lib), AddedSoFar, [Next]_vars
    PROVE  lib' = lib \/ \E p, v : Room(p, v) /\ lib' = With(lib, p, v)
<1>0. /\ Dir.kind = "dir" /\ <<>> \in DOMAIN lib /\ lib[<<>>] = Dir
      /\ \A mf, of, by : Stub(mf, of, by).kind = "stub"
  BY DEF Dir, Stub, Tree
<1>. USE DEF Room
<1>1. ASSUME NEW s \in Sources, AddBegin(s), lib' # lib
      PROVE  \E p, v : Room(p, v) /\ lib' = With(lib, p, v)
  <2>1. lib' = With(lib, Target(s), Dir) /\ Target(s) \notin DOMAIN lib
    BY <1>1 DEF AddBegin, NewTarget
  <2>2. Room(Target(s), Dir)
    BY <1>0, <2>1, TargetFacts
  <2>. QED
    BY <2>1, <2>2
<1>2. CASE AddVisit /\ lib' # lib
  <2>. DEFINE d == Dest(source, Entry)
  <2>1. /\ adding # "none" /\ lib' = With(lib, d, Dir)
        /\ d \notin DOMAIN lib \/ lib[d] = Dir
    BY <1>2 DEF AddVisit, AddDir, AddOther, AddFile, AddFails
  <2>2. Room(d, Dir)
    BY <1>0, <2>1, EntryPlace
  <2>. HIDE DEF d
  <2>. QED
    BY <2>1, <2>2
<1>3. CASE (AddPublish \/ AddUnsynced) /\ lib' # lib
  <2>. DEFINE p == StubOf(Dest(source, Entry))
              v == Stub(NewChunked(NameOf(source, Entry), Entry.size,
                                   ChunkOf(cfg.chunk)), <<source, at>>, adds)
  <2>1. /\ adding # "none" /\ lib' = With(lib, p, v) /\ p \notin DOMAIN lib
    BY <1>3 DEF AddPublish, AddUnsynced, AddFails, Published, Free
  <2>2. v.kind = "stub"
    BY <1>0
  <2>3. /\ p \in Seq(Names) /\ p # <<>>
        /\ Front(p) \in DOMAIN lib /\ lib[Front(p)] = Dir
    BY <2>1, EntryPlace
  <2>. HIDE DEF p, v
  <2>. QED
    BY <2>1, <2>2, <2>3
<1>4. ASSUME NEW s \in Sources, OtherAdds(s)
      PROVE  \E p, v : Room(p, v) /\ lib' = With(lib, p, v)
  <2>. DEFINE u == Stub(NewWithLayout(1, DefaultLayout, s.name[1], 0), Elsewhere, 0)
  <2>0. u.kind = "stub"
    BY <1>0
  <2>. HIDE DEF u
  <2>1. CASE IsFile(s)
    <3>1. StubOf(Target(s)) \notin DOMAIN lib /\ lib' = With(lib, StubOf(Target(s)), u)
      BY <1>4, <2>1 DEF OtherAdds, Free, u
    <3>2. Room(StubOf(Target(s)), u)
      BY <1>0, <2>0, <3>1, TargetFacts
    <3>. QED
      BY <3>1, <3>2
  <2>2. CASE ~ IsFile(s)
    <3>1. Target(s) \notin DOMAIN lib /\ lib' = With(lib, Target(s), Dir)
      BY <1>4, <2>2 DEF OtherAdds, Free
    <3>2. Room(Target(s), Dir)
      BY <1>0, <3>1, TargetFacts
    <3>. QED
      BY <3>1, <3>2
  <2>. QED
    BY <2>1, <2>2
<1>5. CASE AddPlaced \/ AddStops \/ AddKilled \/ AddProbes \/ AddCancelled
  BY <1>5 DEF AddPlaced, AddStops, AddKilled, AddProbes, AddCancelled, AddFails
<1>6. ASSUME NEW d, RestoreBegin(d) PROVE lib' = lib
  BY <1>6 DEF RestoreBegin
<1>7. CASE RestoreVisit \/ RestoreStops \/ UNCHANGED vars
  BY <1>7 DEF RestoreVisit, RestoreStops, vars
<1>. QED
  BY <1>1, <1>2, <1>3, <1>4, <1>5, <1>6, <1>7 DEF Next, Adding

LEMMA TreeStep ==
    ASSUME AInv, Tree(lib), AddedSoFar, [Next]_vars
    PROVE  Tree(lib') /\ Extends(lib, lib')
<1>1. CASE lib' = lib
  BY <1>1, ExtendsItself
<1>2. CASE \E p, v : Room(p, v) /\ lib' = With(lib, p, v)
  <2>1. PICK p, v : Room(p, v) /\ lib' = With(lib, p, v)
    BY <1>2
  <2>2. Tree(With(lib, p, v))
    BY <2>1, TreeGrows DEF Room
  <2>3. Extends(lib, With(lib, p, v))
    BY <2>1, WithExtends DEF Room
  <2>. QED
    BY <2>1, <2>2, <2>3
<1>. QED
  BY <1>1, <1>2, LibStep

LEMMA IncludedStays ==
    ASSUME results \subseteq DOMAIN lib, Extends(lib, lib'), results \subseteq results',
           UNCHANGED source, NEW i, Included(i)
    PROVE  Included(i)'
  BY DEF Included, Extends, Dest, Target, StubOf

(* The entry an add was at is included when it goes on.                    *)
LEMMA Passed ==
    ASSUME AInv, AddedSoFar, adding # "none", UNCHANGED source, UNCHANGED adds,
           results' \subseteq DOMAIN lib', results \subseteq results',
           Extends(lib, lib'), NEW a, a = at, Included(a)', Advance
    PROVE  AddedSoFar'
<1>1. source \in Sources /\ at \in 1..Len(source.entries) /\ Len(source.entries) \in Nat
      /\ DOMAIN source.entries = 1..Len(source.entries)
  BY EntryTypes DEF AInv, AtEntry
<1>2. \A i \in 1..at : Included(i)'
  <2>. SUFFICES ASSUME NEW i \in 1..at PROVE Included(i)'
    OBVIOUS
  <2>1. CASE i = at
    <3>1. i = a
      BY <2>1
    <3>. QED
      BY <3>1
  <2>2. CASE i # at
    <3>1. i \in 1..(at - 1)
      BY <1>1, <2>2
    <3>. QED
      BY <3>1, IncludedStays DEF AddedSoFar
  <2>. QED
    BY <2>1, <2>2
<1>3. CASE at < Len(source.entries)
  BY <1>1, <1>2, <1>3 DEF AddedSoFar, Advance
<1>4. CASE ~ (at < Len(source.entries))
  BY <1>1, <1>2, <1>4 DEF AddedSoFar, Advance, AddEnds
<1>. QED
  BY <1>3, <1>4

LEMMA AddedSoFarStep ==
    ASSUME AInv, Tree(lib), AddedSoFar, [Next]_vars
    PROVE  AddedSoFar'
<1>0. /\ Extends(lib, lib') /\ DOMAIN lib \subseteq DOMAIN lib'
      /\ results \subseteq DOMAIN lib /\ adds \in Nat
  BY TreeStep DEF Extends, AddedSoFar, AInv, AtEntry
<1>. USE DEF AddFails, AddEnds
(* A step that leaves the add where it is.                                 *)
<1>a. ASSUME UNCHANGED <<adding, source, results, added, adds>>,
             adding # "none" => at' = at
      PROVE  AddedSoFar'
  <2>1. ASSUME NEW i, Included(i) PROVE Included(i)'
    BY <1>0, <1>a, <2>1, IncludedStays
  <2>. QED
    BY <1>0, <1>a, <2>1 DEF AddedSoFar
(* A step that ends it, but not with success.                              *)
<1>b. ASSUME adding' = "none", added' \in {"error", "killed"},
             results' \subseteq DOMAIN lib
      PROVE  AddedSoFar'
  BY <1>0, <1>b DEF AddedSoFar
(* One that only moves from the walk to the placement or the upload.       *)
<1>c. ASSUME adding # "none", UNCHANGED <<source, results, added, adds, at>>
      PROVE  AddedSoFar'
  <2>1. ASSUME NEW i, Included(i) PROVE Included(i)'
    BY <1>0, <1>c, <2>1, IncludedStays
  <2>. QED
    BY <1>0, <1>c, <2>1 DEF AddedSoFar
<1>1. ASSUME NEW s \in Sources, AddBegin(s) PROVE AddedSoFar'
  BY <1>0, <1>1 DEF AddBegin, AddedSoFar
<1>2. CASE AddVisit
  <2>1. /\ adding = "walk" /\ UNCHANGED <<source, adds>>
        /\ (cancelled \/ AddOther) => AddFails
        /\ ~ cancelled => AddDir \/ AddOther \/ AddFile
    BY <1>2 DEF AddVisit, AddOther
  <2>2. CASE AddFails
    BY <1>0, <1>b, <2>2
  <2>3. CASE AddDir /\ ~ AddFails
    <3>. DEFINE d == Dest(source, Entry)
    <3>1. /\ Entry.kind = "dir" /\ lib' = With(lib, d, Dir)
          /\ Advance /\ UNCHANGED results
      BY <2>3 DEF AddDir
    <3>2. PICK a : a = at
      OBVIOUS
    <3>3. source.entries[a].kind = "dir" /\ d = Dest(source, source.entries[a])
      BY <3>1, <3>2 DEF Entry
    <3>4. d \in DOMAIN lib' /\ lib'[d] = Dir
      BY <3>1 DEF With
    <3>5. Included(a)'
      BY <2>1, <3>3, <3>4 DEF Included, Dest, Target
    <3>. HIDE DEF d
    <3>. QED
      BY <1>0, <2>1, <3>1, <3>2, <3>5, Passed
  <2>4. CASE AddFile /\ ~ AddFails
    BY <1>c, <2>1, <2>4 DEF AddFile
  <2>. QED
    BY <2>1, <2>2, <2>3, <2>4
<1>3. CASE AddPlaced
  <2>1. adding # "none" /\ UNCHANGED <<source, adds>>
    BY <1>3 DEF AddPlaced
  <2>2. CASE AddFails
    BY <1>0, <1>b, <2>2
  <2>3. CASE ~ AddFails
    BY <1>3, <1>c, <2>1, <2>3 DEF AddPlaced
  <2>. QED
    BY <2>2, <2>3
<1>4. CASE AddPublish
  <2>1. adding # "none" /\ UNCHANGED <<source, adds>>
    BY <1>4 DEF AddPublish
  <2>2. CASE AddFails
    BY <1>0, <1>b, <2>2
  <2>3. CASE ~ AddFails
    <3>. DEFINE p == StubOf(Dest(source, Entry))
                v == Stub(NewChunked(NameOf(source, Entry), Entry.size,
                                     ChunkOf(cfg.chunk)), <<source, at>>, adds)
    <3>1. /\ lib' = With(lib, p, v) /\ results' = results \cup {p}
          /\ Advance
      BY <1>4, <2>3 DEF AddPublish, Published
    <3>2. PICK a : a = at
      OBVIOUS
    <3>3. p = StubOf(Dest(source, source.entries[a])) /\ v.of = <<source, a>>
      BY <3>2 DEF Entry, Stub
    <3>4. source.entries[a].kind # "dir"
      BY <1>4, <3>2 DEF AddPublish, AInv, AtEntry, Entry
    <3>5. p \in DOMAIN lib' /\ lib'[p] = v
      BY <3>1 DEF With
    <3>. HIDE DEF p, v
    <3>6. Included(a)'
      <4>1. p = StubOf(Dest(source', source'.entries[a]))
        BY <2>1, <3>3
      <4>2. p \in results' /\ lib'[p].of = <<source', a>> /\ source'.entries[a].kind # "dir"
        BY <2>1, <3>1, <3>3, <3>4, <3>5
      <4>. QED
        BY <4>1, <4>2 DEF Included
    <3>7. results' \subseteq DOMAIN lib' /\ results \subseteq results'
      BY <1>0, <3>1, <3>5
    <3>. QED
      BY <1>0, <2>1, <3>1, <3>2, <3>6, <3>7, Passed
  <2>. QED
    BY <2>2, <2>3
<1>5. CASE AddUnsynced \/ AddStops \/ AddKilled
  BY <1>0, <1>5, <1>b DEF AddUnsynced, AddStops, AddKilled
<1>6. CASE AddProbes \/ AddCancelled
  BY <1>6, <1>a DEF AddProbes, AddCancelled, add
<1>7. ASSUME NEW s \in Sources, OtherAdds(s) PROVE AddedSoFar'
  BY <1>7, <1>a DEF OtherAdds, add
<1>8. ASSUME NEW d, RestoreBegin(d) PROVE AddedSoFar'
  BY <1>8, <1>a DEF RestoreBegin, add
<1>9. CASE RestoreVisit \/ RestoreStops \/ UNCHANGED vars
  BY <1>9, <1>a DEF RestoreVisit, RestoreStops, vars, add
<1>. QED
  BY <1>1, <1>2, <1>3, <1>4, <1>5, <1>6, <1>7, <1>8, <1>9 DEF Next, Adding

(* The library stays a tree and each add is complete as far as it got, for *)
(* any sources, faults and other adds.                                     *)
LInv == AInv /\ Tree(lib) /\ AddedSoFar

LEMMA LInvAlways == Spec => []LInv
<1>1. Init => Tree(lib) /\ AddedSoFar
  BY FolderAssumption DEF Init, AddedSoFar
<1>2. AInv /\ Tree(lib) /\ AddedSoFar /\ [Next]_vars => Tree(lib)' /\ AddedSoFar'
  BY TreeStep, AddedSoFarStep DEF Tree
<1>. QED
  BY <1>1, <1>2, AInvAlways, PTL DEF Spec, LInv

(* An add that ends without an error has left nothing out.                 *)
THEOREM AddsComplete == Spec => []AddComplete
<1>1. LInv => AddComplete
  BY DEF LInv, AddedSoFar, AddComplete
<1>. QED
  BY <1>1, LInvAlways, PTL

-----------------------------------------------------------------------------
(* Which add a stub is of.                                                 *)
Identified ==
    /\ \A p \in DOMAIN lib : lib[p].kind = "stub" => lib[p].by \in 0..adds
    /\ adds > 0 => /\ results \subseteq Stubs(adds)
                   /\ added # "error" => Stubs(adds) \subseteq results
                   /\ added = "error" => \E p : Stubs(adds) \subseteq results \cup {p}

(* Under a name of the library there are the stubs of one add, if of any   *)
(* here, and in the directory that an add has made only its own.           *)
OfAdd(q, b) == lib[q].kind = "stub" => lib[q].by = b
Unmixed ==
    \A p, q \in DOMAIN lib :
        lib[p].kind = "stub" /\ lib[p].by # 0 /\ p[1] = q[1] => OfAdd(q, lib[p].by)
OwnDirectory ==
    adding # "none" /\ ~ IsFile(source) =>
        /\ Target(source) \in DOMAIN lib
        /\ \A q \in DOMAIN lib : q # <<>> /\ q[1] = source.name => OfAdd(q, adds)
Apart == Unmixed /\ OwnDirectory

(* A step adds no stub, or one.                                            *)
SameStubs == \A q \in DOMAIN lib' :
                lib'[q].kind = "stub" => q \in DOMAIN lib /\ lib'[q] = lib[q]
NewStub(p, b) ==
    /\ p \notin DOMAIN lib /\ p \in DOMAIN lib'
    /\ lib'[p].kind = "stub" /\ lib'[p].by = b
    /\ \A q \in DOMAIN lib' : q # p => q \in DOMAIN lib /\ lib'[q] = lib[q]

LEMMA SameIfDir ==
    ASSUME NEW p, lib' = lib \/ lib' = With(lib, p, Dir)
    PROVE  SameStubs
<1>1. Dir.kind # "stub"
  BY DEF Dir
<1>2. CASE lib' = lib
  BY <1>2 DEF SameStubs
<1>3. CASE lib' = With(lib, p, Dir)
  <2>. SUFFICES ASSUME NEW q \in DOMAIN lib', lib'[q].kind = "stub"
                PROVE  q \in DOMAIN lib /\ lib'[q] = lib[q]
    BY DEF SameStubs
  <2>1. q # p
    BY <1>1, <1>3 DEF With
  <2>. QED
    BY <1>3, <2>1 DEF With
<1>. QED
  BY <1>2, <1>3

LEMMA NewIfStub ==
    ASSUME NEW p, NEW m, NEW of, NEW b, p \notin DOMAIN lib,
           lib' = With(lib, p, Stub(m, of, b))
    PROVE  NewStub(p, b)
<1>. DEFINE v == Stub(m, of, b)
<1>1. v.kind = "stub" /\ v.by = b
  BY DEF Stub
<1>. HIDE DEF v
<1>2. lib' = With(lib, p, v)
  BY DEF v
<1>. QED
  BY <1>1, <1>2 DEF With, NewStub

(* The publication of a stub.                                              *)
Publishes == /\ adding = "publish"
             /\ NewStub(StubOf(Dest(source, Entry)), adds)
             /\ UNCHANGED <<source, adds>>

LEMMA PublishesStub ==
    ASSUME AddPublish \/ AddUnsynced, ~ AddFails
    PROVE  Publishes
<1>1. /\ adding = "publish" /\ UNCHANGED <<source, adds>>
      /\ lib' = Published /\ StubOf(Dest(source, Entry)) \notin DOMAIN lib
  BY DEF AddPublish, AddUnsynced, Free
<1>. QED
  BY <1>1, NewIfStub DEF Published, Publishes

(* What each step does to the stubs, to the results and to the outcome.    *)
LEMMA StubStep ==
    ASSUME AInv, AddedSoFar, [Next]_vars
    PROVE  \/ /\ SameStubs /\ UNCHANGED <<source, adds, results>>
              /\ added' = added \/ adding # "none"
              /\ adding' # "none" => adding # "none"
           \/ \E s \in Sources : AddBegin(s) /\ SameStubs
           \/ Publishes /\ AddPublish /\ results' = results \cup {StubOf(Dest(source, Entry))}
           \/ Publishes /\ AddUnsynced
           \/ \E s \in Sources : /\ UNCHANGED add
                                 /\ NewStub(StubOf(Target(s)), 0)
<1>. USE DEF AddEnds
<1>0. ASSUME UNCHANGED lib PROVE SameStubs
  BY <1>0 DEF SameStubs
<1>1. ASSUME NEW s \in Sources, AddBegin(s) PROVE SameStubs
  BY <1>1, SameIfDir DEF AddBegin
<1>2. CASE AddVisit
  <2>1. SameStubs
    BY <1>2, SameIfDir DEF AddVisit, AddDir, AddOther, AddFile, AddFails
  <2>. QED
    BY <1>2, <2>1 DEF AddVisit, AddDir, AddOther, AddFile, AddFails
<1>3. CASE AddPublish
  <2>1. CASE AddFails
    BY <1>0, <1>3, <2>1 DEF AddPublish, AddFails
  <2>2. CASE ~ AddFails
    BY <1>3, <2>2, PublishesStub DEF AddPublish
  <2>. QED
    BY <2>1, <2>2
<1>4. CASE AddUnsynced
  <2>1. StubOf(Dest(source, Entry)) \notin DOMAIN lib /\ lib' = Published
    BY <1>4 DEF AddUnsynced, Free
  <2>2. lib' # lib
    BY <2>1 DEF Published, With
  <2>3. ~ AddFails
    BY <2>2 DEF AddFails
  <2>. QED
    BY <1>4, <2>3, PublishesStub
<1>5. CASE AddPlaced \/ AddStops \/ AddKilled
  BY <1>0, <1>5 DEF AddPlaced, AddStops, AddKilled, AddFails
<1>6. CASE AddProbes \/ AddCancelled
  BY <1>0, <1>6 DEF AddProbes, AddCancelled, add
<1>7. ASSUME NEW s \in Sources, OtherAdds(s)
      PROVE  UNCHANGED add /\ (SameStubs \/ NewStub(StubOf(Target(s)), 0))
  <2>1. CASE IsFile(s)
    BY <1>7, <2>1, NewIfStub DEF OtherAdds, Free
  <2>2. CASE ~ IsFile(s)
    BY <1>7, <2>2, SameIfDir DEF OtherAdds
  <2>. QED
    BY <1>7, <2>1, <2>2 DEF OtherAdds
<1>8. ASSUME NEW d, RestoreBegin(d) PROVE UNCHANGED <<lib, add>>
  BY <1>8 DEF RestoreBegin
<1>9. CASE RestoreVisit \/ RestoreStops \/ UNCHANGED vars
  BY <1>0, <1>9 DEF RestoreVisit, RestoreStops, vars, add
<1>. QED
  BY <1>0, <1>1, <1>2, <1>3, <1>4, <1>5, <1>6, <1>7, <1>8, <1>9 DEF Next, Adding, add

LEMMA IdentifiedStep ==
    ASSUME AInv, AddedSoFar, Identified, [Next]_vars, Extends(lib, lib')
    PROVE  Identified'
<1>0. adds \in Nat /\ (adding # "none" => added = "none" /\ adds > 0)
  BY DEF AInv, AtEntry, AddedSoFar
<1>1. CASE /\ SameStubs /\ UNCHANGED <<source, adds, results>>
           /\ added' = added \/ adding # "none"
  BY <1>0, <1>1 DEF Identified, SameStubs, Stubs, Extends
<1>2. ASSUME NEW s \in Sources, AddBegin(s), SameStubs PROVE Identified'
  <2>1. adds' = adds + 1 /\ results' = {}
    BY <1>2 DEF AddBegin
  <2>2. ASSUME NEW p \in DOMAIN lib', lib'[p].kind = "stub"
        PROVE  lib'[p].by \in 0..adds
    BY <1>2, <2>2 DEF Identified, SameStubs
  <2>3. Stubs(adds)' = {}
    BY <1>0, <2>1, <2>2 DEF Stubs
  <2>. QED
    BY <1>0, <2>1, <2>2, <2>3 DEF Identified
<1>3. ASSUME NEW p, NewStub(p, adds), adding # "none", UNCHANGED adds,
             \/ results' = results \cup {p}
             \/ results' = results /\ added' = "error"
      PROVE  Identified'
  <2>1. ASSUME NEW q \in DOMAIN lib', lib'[q].kind = "stub"
        PROVE  lib'[q].by \in 0..adds'
    BY <1>0, <1>3, <2>1 DEF Identified, NewStub
  <2>2. Stubs(adds)' = Stubs(adds) \cup {p}
    BY <1>3 DEF Stubs, NewStub, Extends
  <2>3. results \subseteq Stubs(adds) /\ Stubs(adds) \subseteq results
    BY <1>0, <1>3 DEF Identified
  <2>. QED
    BY <1>3, <2>1, <2>2, <2>3 DEF Identified
<1>4. ASSUME NEW p, NewStub(p, 0), UNCHANGED add PROVE Identified'
  <2>1. ASSUME NEW q \in DOMAIN lib', lib'[q].kind = "stub"
        PROVE  lib'[q].by \in 0..adds'
    BY <1>0, <1>4, <2>1 DEF Identified, NewStub, add
  <2>2. adds > 0 => Stubs(adds)' = Stubs(adds)
    BY <1>4 DEF Stubs, NewStub, Extends, add
  <2>. QED
    BY <1>4, <2>1, <2>2 DEF Identified, add
<1>5. CASE Publishes /\ AddPublish /\ results' = results \cup {StubOf(Dest(source, Entry))}
  BY <1>3, <1>5 DEF Publishes
<1>6. CASE Publishes /\ AddUnsynced
  BY <1>3, <1>6 DEF Publishes, AddUnsynced, AddEnds
<1>. QED
  BY <1>1, <1>2, <1>4, <1>5, <1>6, StubStep

(* Nothing is under a name of the library itself that is free.             *)
LEMMA NothingBelow ==
    ASSUME Tree(lib), NEW p \in Seq(Names), Len(p) = 1, p \notin DOMAIN lib,
           NEW q \in DOMAIN lib, q # <<>>
    PROVE  q[1] # p[1]
<1>. SUFFICES ASSUME q[1] = p[1] PROVE FALSE
  OBVIOUS
<1>1. <<q[1]>> \in DOMAIN lib /\ <<q[1]>> \in Seq(Names)
  BY TopOf DEF Tree
<1>2. Len(<<q[1]>>) = 1 /\ <<q[1]>>[1] = q[1]
  OBVIOUS
<1>3. \A i \in 1..1 : <<q[1]>>[i] = p[i]
  BY <1>2
<1>4. <<q[1]>> = p
  BY <1>1, <1>2, <1>3, SeqEqual
<1>. QED
  BY <1>1, <1>4

(* A stub that has no neighbour under its name.                            *)
LEMMA AloneUnmixed ==
    ASSUME Tree(lib), Unmixed, NEW p, NEW b, NewStub(p, b),
           \A q \in DOMAIN lib : q # <<>> => q[1] # p[1] \/ OfAdd(q, b)
    PROVE  Unmixed'
<1>. SUFFICES ASSUME NEW r \in DOMAIN lib', NEW q \in DOMAIN lib',
                     lib'[r].kind = "stub", lib'[r].by # 0, r[1] = q[1],
                     lib'[q].kind = "stub"
              PROVE  lib'[q].by = lib'[r].by
  BY DEF Unmixed, OfAdd
<1>0. <<>> \in DOMAIN lib /\ lib[<<>>] = Dir /\ Dir.kind # "stub"
  BY DEF Tree, Dir
<1>1. CASE r = p \/ q = p
  BY <1>0, <1>1 DEF NewStub, OfAdd
<1>2. CASE r # p /\ q # p
  BY <1>2 DEF NewStub, Unmixed, OfAdd
<1>. QED
  BY <1>1, <1>2

LEMMA ApartStep ==
    ASSUME AInv, Tree(lib), AddedSoFar, Apart, [Next]_vars, Extends(lib, lib')
    PROVE  Apart'
<1>a. ASSUME SameStubs PROVE Unmixed'
  BY <1>a DEF Apart, Unmixed, SameStubs, OfAdd
<1>1. CASE /\ SameStubs /\ UNCHANGED <<source, adds, results>>
           /\ adding' # "none" => adding # "none"
  BY <1>1, <1>a DEF Apart, OwnDirectory, SameStubs, OfAdd, Extends
<1>2. ASSUME NEW s \in Sources, AddBegin(s), SameStubs PROVE Apart'
  <2>1. CASE IsFile(s) \/ adding' = "none"
    BY <1>2, <1>a, <2>1 DEF AddBegin, Apart, OwnDirectory, IsFile
  <2>2. CASE ~ IsFile(s) /\ adding' # "none"
    <3>1. /\ source' = s /\ lib' = With(lib, Target(s), Dir)
          /\ Target(s) \notin DOMAIN lib
      BY <1>2, <2>2 DEF AddBegin, NewTarget, AddEnds
    <3>2. Target(s) \in DOMAIN lib'
      BY <3>1 DEF With
    <3>3. \A q \in DOMAIN lib : q # <<>> => q[1] # s.name
      BY <3>1, TargetFacts, NothingBelow
    <3>4. \A q \in DOMAIN lib' : q # <<>> /\ q[1] = source'.name => OfAdd(q, adds)'
      BY <1>2, <3>1, <3>3 DEF SameStubs, OfAdd
    <3>. QED
      BY <1>2, <1>a, <3>1, <3>2, <3>4 DEF Apart, OwnDirectory
  <2>. QED
    BY <2>1, <2>2
<1>3. CASE Publishes
  <2>. DEFINE d == Dest(source, Entry)
              p == StubOf(d)
  <2>1. /\ adding = "publish" /\ NewStub(p, adds) /\ UNCHANGED <<source, adds>>
        /\ Entry.kind = "file" /\ source \in Sources /\ at \in 1..Len(source.entries)
    BY <1>3 DEF Publishes, AInv, AtEntry
  <2>2. d \in Seq(Names) /\ d # <<>> /\ p \in Seq(Names) /\ Len(p) = Len(d)
    BY <2>1, EntryPlace, StubPath
  <2>3. /\ d[1] = source.name
        /\ at = 1 => d = Target(source)
        /\ at > 1 => Len(d) > 1
    BY <2>1, DestFacts DEF Entry
  <2>4. CASE IsFile(source)
    <3>1. at = 1
      <4>1. Walked(source.entries) /\ source.entries[1].kind # "dir"
        BY <2>1, <2>4, FolderAssumption DEF IsFile
      <4>2. Len(source.entries) \in Nat \ {0} /\ ~ (2 \in 2..Len(source.entries))
        BY <2>1, <4>1, EntryTypes DEF Walked
      <4>. QED
        BY <2>1, <4>2
    <3>2. Len(p) = 1
      <4>1. d = Target(source) /\ Len(Target(source)) = 1
        BY <2>1, <2>3, <3>1, TargetFacts
      <4>. HIDE DEF p, d
      <4>. QED
        BY <2>2, <4>1
    <3>. HIDE DEF p, d
    <3>3. \A q \in DOMAIN lib : q # <<>> => q[1] # p[1]
      BY <2>1, <2>2, <3>2, NothingBelow DEF NewStub
    <3>. QED
      BY <2>1, <2>4, <3>3, AloneUnmixed DEF Apart, OwnDirectory, IsFile
  <2>5. CASE ~ IsFile(source)
    <3>1. at > 1
      BY <2>1, <2>5, EntryTypes DEF IsFile, Entry
    <3>2. p[1] = source.name
      <4>1. p[1] = d[1]
        BY <2>2, <2>3, <3>1, StubPath
      <4>. HIDE DEF p, d
      <4>. QED
        BY <2>3, <4>1
    <3>3. /\ Target(source) \in DOMAIN lib
          /\ \A q \in DOMAIN lib : q # <<>> /\ q[1] = source.name => OfAdd(q, adds)
      BY <2>1, <2>5 DEF Apart, OwnDirectory
    <3>. HIDE DEF p, d
    <3>4. Unmixed'
      BY <2>1, <3>2, <3>3, AloneUnmixed DEF Apart
    <3>5. Target(source) \in DOMAIN lib'
      BY <3>3 DEF Extends
    <3>6. \A q \in DOMAIN lib' : q # <<>> /\ q[1] = source.name => OfAdd(q, adds)'
      BY <2>1, <3>3 DEF NewStub, OfAdd
    <3>. QED
      BY <2>1, <3>4, <3>5, <3>6 DEF Apart, OwnDirectory
  <2>. QED
    BY <2>4, <2>5
<1>4. ASSUME NEW s \in Sources, UNCHANGED add, NewStub(StubOf(Target(s)), 0)
      PROVE  Apart'
  <2>. DEFINE p == StubOf(Target(s))
  <2>1. p \in Seq(Names) /\ Len(p) = 1 /\ p \notin DOMAIN lib /\ NewStub(p, 0)
    BY <1>4, TargetFacts DEF NewStub
  <2>. HIDE DEF p
  <2>2. \A q \in DOMAIN lib : q # <<>> => q[1] # p[1]
    BY <2>1, NothingBelow
  <2>3. Unmixed'
    BY <2>1, <2>2, AloneUnmixed DEF Apart
  <2>4. ASSUME adding # "none", ~ IsFile(source)
        PROVE  /\ Target(source) \in DOMAIN lib'
               /\ \A q \in DOMAIN lib' :
                     q # <<>> /\ q[1] = source.name => OfAdd(q, adds)'
    <3>1. Target(source) \in DOMAIN lib /\ source \in Sources
      BY <2>4 DEF Apart, OwnDirectory, AInv, AtEntry
    <3>2. p[1] # source.name
      BY <2>2, <3>1, TargetFacts
    <3>. QED
      BY <1>4, <2>1, <2>4, <3>1, <3>2 DEF Apart, OwnDirectory, NewStub, OfAdd, Extends, add
  <2>. QED
    BY <1>4, <2>3, <2>4 DEF Apart, OwnDirectory, add
<1>. QED
  BY <1>1, <1>2, <1>3, <1>4, StubStep

(* What an add returns names its stubs, and no directory of the library    *)
(* mixes those of two, for any sources, libraries, faults and other adds.  *)
THEOREM ResultsIdentify == Spec => []ResultsIdentifyStubs
<1>1. Init => Identified /\ Apart
  <2>. SUFFICES ASSUME Init PROVE Identified /\ Apart
    OBVIOUS
  <2>1. \A p \in DOMAIN lib : lib[p].kind = "stub" => lib[p].by = 0
    BY FolderAssumption DEF Init
  <2>. QED
    BY <2>1 DEF Init, Identified, Apart, Unmixed, OwnDirectory
<1>2. LInv /\ Identified /\ Apart /\ [Next]_vars => Identified' /\ Apart'
  <2>. SUFFICES ASSUME LInv, Identified, Apart, [Next]_vars
                PROVE  Identified' /\ Apart'
    OBVIOUS
  <2>1. Extends(lib, lib')
    BY TreeStep DEF LInv
  <2>. QED
    BY <2>1, IdentifiedStep, ApartStep DEF LInv
<1>3. LInv /\ Identified /\ Apart => ResultsIdentifyStubs
  <2>. SUFFICES ASSUME LInv, Identified, Apart PROVE ResultsIdentifyStubs
    OBVIOUS
  <2>1. ASSUME adds > 0, added # "killed"
        PROVE  /\ results \subseteq Stubs(adds)
               /\ Cardinality(Stubs(adds) \ results) <= (IF added = "error" THEN 1 ELSE 0)
    <3>1. CASE added # "error"
      <4>1. Stubs(adds) \ results = {}
        BY <2>1, <3>1 DEF Identified
      <4>. QED
        BY <2>1, <3>1, <4>1, FS_EmptySet DEF Identified
    <3>2. CASE added = "error"
      <4>1. PICK p : Stubs(adds) \ results \subseteq {p}
        BY <2>1, <3>2 DEF Identified
      <4>2. IsFiniteSet({p}) /\ Cardinality({p}) = 1
        BY FS_Singleton
      <4>3. Cardinality(Stubs(adds) \ results) <= 1
        BY <4>1, <4>2, FS_Subset
      <4>. QED
        BY <2>1, <3>2, <4>3 DEF Identified
    <3>. QED
      BY <3>1, <3>2
  <2>2. \A b \in 1..adds : \A p \in Stubs(b), q \in DOMAIN lib :
           lib[q].kind = "stub" /\ p[1] = q[1] => lib[q].by = b
    BY DEF Apart, Unmixed, OfAdd, Stubs
  <2>. QED
    BY <2>1, <2>2 DEF ResultsIdentifyStubs
<1>. QED
  BY <1>1, <1>2, <1>3, LInvAlways, PTL DEF Spec

-----------------------------------------------------------------------------
(* The listing of a directory has each of its entries, as a rank among     *)
(* them is of one only.                                                    *)
EntriesOf(d) == {p \in DOMAIN lib : p # <<>> /\ Front(p) = d}
Until(S, p) == {q \in S : Before(q, p)}

LEMMA NameOrder ==
    ASSUME Tree(lib), NEW d, NEW p \in EntriesOf(d), NEW q \in EntriesOf(d)
    PROVE  /\ Before(p, p)
           /\ Before(p, q) \/ Before(q, p)
           /\ Before(p, q) /\ Before(q, p) => p = q
           /\ \A r \in EntriesOf(d) : Before(r, p) /\ Before(p, q) => Before(r, q)
<1>1. \A r \in EntriesOf(d) : /\ r \in Seq(Names) /\ r # <<>> /\ Front(r) = d
                              /\ Last(r) \in Nat \X Nat
  BY FrontFacts DEF EntriesOf, Tree, Names
<1>2. \A r \in EntriesOf(d) : /\ Last(r)[1] \in Nat /\ Last(r)[2] \in Nat
                              /\ Last(r) = <<Last(r)[1], Last(r)[2]>>
  BY <1>1
<1>3. Before(p, p) /\ (Before(p, q) \/ Before(q, p))
  BY <1>2 DEF Before
<1>4. ASSUME Before(p, q), Before(q, p) PROVE p = q
  <2>1. Last(p)[1] = Last(q)[1] /\ Last(p)[2] = Last(q)[2]
    BY <1>2, <1>4 DEF Before
  <2>2. Last(p) = Last(q)
    BY <1>2, <2>1
  <2>. QED
    BY <1>1, <2>2, PathEqual
<1>5. ASSUME NEW r \in EntriesOf(d), Before(r, p), Before(p, q) PROVE Before(r, q)
  BY <1>2, <1>5 DEF Before
<1>. QED
  BY <1>3, <1>4, <1>5

LEMMA RankGrows ==
    ASSUME Tree(lib), NEW d, NEW p \in EntriesOf(d), NEW q \in EntriesOf(d),
           p # q, Before(p, q)
    PROVE  Cardinality(Until(EntriesOf(d), p)) # Cardinality(Until(EntriesOf(d), q))
<1>. DEFINE S == EntriesOf(d)
<1>1. IsFiniteSet(S)
  BY FS_Subset DEF EntriesOf, Tree
<1>2. Until(S, p) \subseteq Until(S, q)
  BY NameOrder DEF Until
<1>3. q \in Until(S, q) /\ q \notin Until(S, p)
  BY NameOrder DEF Until
<1>4. IsFiniteSet(Until(S, q))
  BY <1>1, FS_Subset DEF Until
<1>. HIDE DEF S
<1>5. Until(S, p) # Until(S, q)
  BY <1>3
<1>6. Cardinality(Until(S, p)) # Cardinality(Until(S, q))
  BY <1>2, <1>4, <1>5, FS_Subset
<1>. QED
  BY <1>6 DEF S

LEMMA ListingComplete ==
    ASSUME Tree(lib), NEW d
    PROVE  /\ Listing(d) \in Seq(EntriesOf(d))
           /\ \A q \in EntriesOf(d) : \E i \in 1..Len(Listing(d)) : Listing(d)[i] = q
<1>. DEFINE S == EntriesOf(d)
            n == Cardinality(S)
            Rank(p) == Cardinality(Until(S, p))
<1>1. IsFiniteSet(S)
  BY FS_Subset DEF EntriesOf, Tree
<1>2. n \in Nat
  BY <1>1, FS_CardinalityType
<1>3. ASSUME NEW p \in S PROVE Rank(p) \in 1..n
  <2>1. Until(S, p) \subseteq S /\ p \in Until(S, p)
    BY NameOrder DEF Until
  <2>2. IsFiniteSet(Until(S, p)) /\ Rank(p) <= n
    BY <1>1, <2>1, FS_Subset
  <2>3. Rank(p) \in Nat /\ Rank(p) # 0
    BY <2>1, <2>2, FS_CardinalityType, FS_EmptySet
  <2>. QED
    BY <1>2, <2>2, <2>3
<1>4. ASSUME NEW p \in S, NEW q \in S, Rank(p) = Rank(q) PROVE p = q
  BY <1>4, NameOrder, RankGrows
<1>5. \A i \in 1..n : \E p \in S : Rank(p) = i
  <2>. DEFINE f == [p \in S |-> Rank(p)]
  <2>1. IsFiniteSet(1..n) /\ Cardinality(1..n) = n
    <3>1. /\ IsFiniteSet(1..n)
          /\ Cardinality(1..n) = IF 1 > n THEN 0 ELSE n - 1 + 1
      BY <1>2, FS_Interval
    <3>. HIDE DEF n
    <3>. QED
      BY <1>2, <3>1
  <2>2. f \in [S -> 1..n]
    BY <1>3
  <2>3. \A p, q \in S : f[p] = f[q] => p = q
    BY <1>4
  <2>. HIDE DEF f
  <2>4. f \in Injection(S, 1..n)
    BY <2>2, <2>3 DEF Injection, IsInjective
  <2>5. f \in Surjection(S, 1..n)
    BY <2>1, <2>4, FS_Injection
  <2>6. \A i \in 1..n : \E p \in S : f[p] = i
    BY <2>5 DEF Surjection
  <2>. QED
    BY <2>6 DEF f
<1>. DEFINE l == [i \in 1..n |-> CHOOSE p \in S : Rank(p) = i]
<1>6. Listing(d) = l
  BY DEF Listing, EntriesOf, Until
<1>7. \A i \in 1..n : l[i] \in S /\ Rank(l[i]) = i
  BY <1>5
<1>. HIDE DEF l, n, S, Rank
<1>8. l \in [1..n -> S]
  BY <1>7 DEF l
<1>9. l \in Seq(S) /\ Len(l) = n
  BY <1>2, <1>8, SeqDef
<1>10. ASSUME NEW q \in S PROVE \E i \in 1..n : l[i] = q
  BY <1>3, <1>4, <1>7, <1>10
<1>. QED
  BY <1>6, <1>9, <1>10 DEF S

-----------------------------------------------------------------------------
(* The restore: whatever was there when it began is restored, or below a   *)
(* path that the walk has yet to visit.                                    *)
Remains(p, rest) == \E i \in 1..Len(rest) : IsPrefix(rest[i], p)
RInv ==
    /\ base \in DOMAIN lib
    /\ found \subseteq DOMAIN lib
    /\ todo \in Seq(DOMAIN lib)
    /\ restoring \in {"none", "walk"}
    /\ restored \in {"none", "ok", "error"}
    /\ \A p \in DOMAIN out : out[p].kind \in {"dir", "file"}
    /\ restoring = "walk" => /\ restored # "ok" /\ todo # <<>>
                             /\ \A p \in found : IsRestored(p) \/ Remains(p, todo)
    /\ restored = "ok" => \A p \in found : IsRestored(p)

LEMMA IsRestoredStays ==
    ASSUME Tree(lib), Extends(lib, lib'), Extends(out, out'), UNCHANGED base,
           NEW p \in DOMAIN lib, IsRestored(p)
    PROVE  IsRestored(p)'
<1>1. lib'[p] = lib[p] /\ lib[p].kind \in {"dir", "stub", "file", "other"}
  BY DEF Extends, Tree
<1>2. ASSUME NEW o, NEW v, Holds(o, v) PROVE Holds(o, v)'
  BY <1>2 DEF Holds, Extends
<1>. QED
  BY <1>1, <1>2 DEF IsRestored

LEMMA RInvFrame ==
    ASSUME Tree(lib), RInv, Extends(lib, lib'), UNCHANGED restore
    PROVE  RInv'
<1>1. DOMAIN lib \subseteq DOMAIN lib'
  BY DEF Extends
<1>2. todo' \in Seq(DOMAIN lib')
  BY <1>1, SeqMonotonic DEF RInv, restore
<1>3. \A p \in found : IsRestored(p) => IsRestored(p)'
  BY IsRestoredStays, ExtendsItself DEF RInv, restore
<1>4. \A p : Remains(p, todo)' <=> Remains(p, todo)
  BY DEF Remains, restore
<1>. QED
  BY <1>1, <1>2, <1>3, <1>4 DEF RInv, restore

(* What is below a path is the path, or below an entry of it.              *)
LEMMA BelowPath ==
    ASSUME Tree(lib), NEW h \in DOMAIN lib, NEW q \in DOMAIN lib,
           IsPrefix(h, q), q # h
    PROVE  /\ lib[h].kind = "dir"
           /\ \E c \in EntriesOf(h) : IsPrefix(c, q)
<1>1. /\ h \in Seq(Names) /\ q \in Seq(Names)
      /\ Len(h) \in Nat /\ Len(q) \in Nat /\ Len(h) <= Len(q)
  BY LenProperties DEF Tree, IsPrefix
<1>2. h = SubSeq(q, 1, Len(h))
  BY <1>1, SubSeqFull DEF IsPrefix
<1>3. Len(h) < Len(q)
  BY <1>1, <1>2, SubSeqFull
<1>. DEFINE k == Len(h) + 1
            c == SubSeq(q, 1, k)
<1>4. lib[h] = Dir
  <2>1. Len(h) \in 0..(Len(q) - 1)
    BY <1>1, <1>3
  <2>. QED
    BY <1>2, <2>1 DEF Tree
<1>5. k \in 0..Len(q) /\ Len(h) \in 0..k
  BY <1>1, <1>3
<1>6. c \in Seq(Names) /\ Len(c) = k
  BY <1>1, <1>5, PrefixFacts
<1>7. c \in DOMAIN lib
  <2>1. CASE k = Len(q)
    BY <1>1, <2>1, SubSeqFull
  <2>2. CASE k # Len(q)
    <3>1. k \in 0..(Len(q) - 1)
      BY <1>1, <1>5, <2>2
    <3>. QED
      BY <3>1 DEF Tree
  <2>. QED
    BY <2>1, <2>2
<1>8. SubSeq(c, 1, Len(h)) = h /\ SubSeq(c, 1, k) = c
  <2>1. SubSeq(c, 1, Len(h)) = SubSeq(q, 1, Len(h))
    BY <1>1, <1>5, PrefixOfPrefix
  <2>. HIDE DEF c
  <2>. QED
    BY <1>2, <1>6, <2>1, SubSeqFull
<1>. HIDE DEF c
<1>9. c # <<>>
  BY <1>1, <1>6, LenOfEmpty
<1>10. Front(c) = h
  <2>1. Len(c) - 1 = Len(h)
    BY <1>1, <1>6
  <2>. QED
    BY <1>8, <2>1 DEF Front
<1>11. IsPrefix(c, q)
  BY <1>5, <1>6, <1>8 DEF IsPrefix, c
<1>. QED
  BY <1>4, <1>7, <1>9, <1>10, <1>11 DEF EntriesOf, Dir

(* The walk goes on with rest, or has visited everything.                  *)
LEMMA FollowStep ==
    ASSUME RInv, UNCHANGED lib, restoring = "walk",
           NEW rest \in Seq(DOMAIN lib), Follow(rest),
           \A p \in DOMAIN out' : out'[p].kind \in {"dir", "file"},
           \A p \in found : IsRestored(p)' \/ Remains(p, rest)
    PROVE  RInv'
<1>1. /\ todo' = rest /\ UNCHANGED <<base, found>>
      /\ rest = <<>> => restoring' = "none" /\ restored' = "ok"
      /\ rest # <<>> => UNCHANGED <<restoring, restored>>
  BY DEF Follow, RestoreEnds
<1>2. CASE rest = <<>>
  <2>1. \A p : ~ Remains(p, rest)
    BY <1>2 DEF Remains
  <2>. QED
    BY <1>1, <1>2, <2>1 DEF RInv
<1>3. CASE rest # <<>>
  <2>1. \A p : Remains(p, rest) => Remains(p, todo)'
    BY <1>1 DEF Remains
  <2>. QED
    BY <1>1, <1>3, <2>1 DEF RInv
<1>. QED
  BY <1>2, <1>3

LEMMA FailedRestore ==
    ASSUME Tree(lib), RInv, UNCHANGED lib, RestoreEnds("error"),
           todo' \in Seq(DOMAIN lib),
           \A p \in DOMAIN out' : out'[p].kind \in {"dir", "file"}
    PROVE  RInv'
  BY DEF RInv, RestoreEnds, Tree

LEMMA WithKinds ==
    ASSUME NEW o, NEW v, v.kind \in {"dir", "file"},
           \A p \in DOMAIN out : out[p].kind \in {"dir", "file"}
    PROVE  \A p \in DOMAIN With(out, o, v) : With(out, o, v)[p].kind \in {"dir", "file"}
  BY DEF With

LEMMA VisitStep ==
    ASSUME Tree(lib), RInv, RestoreVisit, Extends(out, out')
    PROVE  RInv'
<1>h. PICK h, tl : h = Head(todo) /\ tl = Tail(todo)
  OBVIOUS
<1>0. /\ restoring = "walk" /\ UNCHANGED lib /\ base \in DOMAIN lib
      /\ found \subseteq DOMAIN lib /\ todo \in Seq(DOMAIN lib) /\ todo # <<>>
      /\ \A p \in DOMAIN out : out[p].kind \in {"dir", "file"}
      /\ \A p \in found : IsRestored(p) \/ Remains(p, todo)
      /\ \A p \in DOMAIN lib : lib[p].kind \in {"dir", "stub", "file", "other"}
  BY DEF RestoreVisit, RInv, Tree
<1>1. /\ h \in DOMAIN lib /\ tl \in Seq(DOMAIN lib)
      /\ Len(todo) \in Nat \ {0} /\ Len(tl) = Len(todo) - 1 /\ h = todo[1]
      /\ \A i \in 1..Len(tl) : tl[i] = todo[i + 1]
  <2>1. h = todo[1]
    BY <1>0, <1>h
  <2>. QED
    BY <1>0, <1>h, <2>1, HeadTailProperties, EmptySeq
(* What remained and is not restored yet is below h or what follows it.    *)
<1>2. ASSUME NEW p \in found, UNCHANGED base
      PROVE  IsRestored(p)' \/ IsPrefix(h, p) \/ Remains(p, tl)
  <2>1. CASE IsRestored(p)
    BY <1>0, <1>2, <2>1, IsRestoredStays, ExtendsItself
  <2>2. CASE ~ IsRestored(p)
    <3>1. PICK i \in 1..Len(todo) : IsPrefix(todo[i], p)
      BY <1>0, <2>2 DEF Remains
    <3>2. CASE i = 1
      BY <1>1, <3>1, <3>2
    <3>3. CASE i # 1
      <4>1. i - 1 \in 1..Len(tl) /\ tl[i - 1] = todo[i]
        BY <1>1, <3>3
      <4>. QED
        BY <3>1, <4>1 DEF Remains
    <3>. QED
      BY <3>2, <3>3
  <2>. QED
    BY <2>1, <2>2
<1>3. CASE RestoreFails
  BY <1>0, <1>3, FailedRestore DEF RestoreFails
<1>4. ASSUME lib[h].kind # "dir", Follow(tl), UNCHANGED base => IsRestored(h)',
             \A p \in DOMAIN out' : out'[p].kind \in {"dir", "file"}
      PROVE  RInv'
  <2>1. UNCHANGED base
    BY <1>4 DEF Follow, RestoreEnds
  <2>2. ASSUME NEW p \in found, IsPrefix(h, p) PROVE p = h
    BY <1>0, <1>1, <1>4, <2>2, BelowPath
  <2>3. \A p \in found : IsRestored(p)' \/ Remains(p, tl)
    BY <1>2, <1>4, <2>1, <2>2
  <2>. QED
    BY <1>0, <1>1, <1>4, <2>3, FollowStep
<1>5. CASE RestoreDir(h) /\ ~ RestoreFails
  <2>. DEFINE rest == Listing(h) \o tl
  <2>1. /\ lib[h].kind = "dir" /\ out' = With(out, Rel(base, h), Dir)
        /\ Follow(rest)
    BY <1>5, <1>h DEF RestoreDir
  <2>2. UNCHANGED base
    BY <2>1 DEF Follow, RestoreEnds
  <2>3. IsRestored(h)'
    BY <1>0, <2>1, <2>2 DEF IsRestored, Holds, With
  <2>4. /\ Listing(h) \in Seq(DOMAIN lib)
        /\ \A q \in EntriesOf(h) : \E i \in 1..Len(Listing(h)) : Listing(h)[i] = q
    <3>1. EntriesOf(h) \subseteq DOMAIN lib
      BY DEF EntriesOf
    <3>. QED
      BY <3>1, ListingComplete, SeqMonotonic
  <2>l. PICK l : l = Listing(h)
    OBVIOUS
  <2>5. /\ l \o tl \in Seq(DOMAIN lib)
        /\ Len(l \o tl) = Len(l) + Len(tl) /\ Len(l) \in Nat /\ Len(tl) \in Nat
        /\ \A i \in 1..(Len(l) + Len(tl)) :
              (l \o tl)[i] = IF i <= Len(l) THEN l[i] ELSE tl[i - Len(l)]
    <3>1. l \in Seq(DOMAIN lib) /\ tl \in Seq(DOMAIN lib)
      BY <1>1, <2>4, <2>l
    <3>. QED
      BY <3>1, ConcatProperties, LenProperties
  <2>6. rest = l \o tl
    BY <2>l
  <2>. HIDE DEF rest
  <2>7. \A p : Remains(p, tl) => Remains(p, rest)
    <3>. SUFFICES ASSUME NEW p, NEW i \in 1..Len(tl), IsPrefix(tl[i], p)
                  PROVE  Remains(p, rest)
      BY DEF Remains
    <3>1. /\ i + Len(l) \in 1..(Len(l) + Len(tl)) /\ ~ (i + Len(l) <= Len(l))
          /\ i + Len(l) - Len(l) = i
      BY <2>5
    <3>2. rest[i + Len(l)] = tl[i]
      BY <2>5, <2>6, <3>1
    <3>. QED
      BY <2>5, <2>6, <3>1, <3>2 DEF Remains
  <2>8. ASSUME NEW p \in found, IsPrefix(h, p), p # h PROVE Remains(p, rest)
    <3>1. PICK c \in EntriesOf(h) : IsPrefix(c, p)
      BY <1>0, <1>1, <2>8, BelowPath
    <3>2. PICK i \in 1..Len(l) : l[i] = c
      BY <2>4, <2>l
    <3>3. i \in 1..(Len(l) + Len(tl)) /\ i <= Len(l)
      BY <2>5
    <3>4. rest[i] = c
      BY <2>5, <2>6, <3>2, <3>3
    <3>. QED
      BY <2>5, <2>6, <3>1, <3>3, <3>4 DEF Remains
  <2>9. \A p \in found : IsRestored(p)' \/ Remains(p, rest)
    BY <1>2, <2>2, <2>3, <2>7, <2>8
  <2>10. \A p \in DOMAIN out' : out'[p].kind \in {"dir", "file"}
    <3>1. Dir.kind \in {"dir", "file"}
      BY DEF Dir
    <3>. QED
      BY <1>0, <2>1, <3>1, WithKinds
  <2>. QED
    BY <1>0, <2>1, <2>5, <2>6, <2>9, <2>10, FollowStep
<1>6. CASE RestoreOther(h) /\ ~ RestoreFails
  <2>1. lib[h].kind = "file" /\ Follow(tl) /\ UNCHANGED out
    BY <1>6, <1>h DEF RestoreOther
  <2>2. UNCHANGED base => IsRestored(h)'
    BY <1>0, <2>1 DEF IsRestored
  <2>. QED
    BY <1>0, <1>4, <2>1, <2>2
<1>7. CASE RestoreStub(h) /\ ~ RestoreFails
  <2>0. PICK o, v : o = Rel(base, Trimmed(h)) /\ v = [kind |-> "file", of |-> lib[h].of]
    OBVIOUS
  <2>1. lib[h].kind = "stub" /\ Follow(tl) /\ out' = With(out, o, v)
    BY <1>7, <1>h, <2>0 DEF RestoreStub
  <2>2. ASSUME UNCHANGED base PROVE IsRestored(h)'
    <3>1. o \in DOMAIN out' /\ out'[o] = v
      BY <2>1 DEF With
    <3>2. Holds(o, v)'
      BY <3>1 DEF Holds
    <3>3. lib'[h].kind = "stub" /\ o = Rel(base', Trimmed(h))
          /\ v = [kind |-> "file", of |-> lib'[h].of]
      BY <1>0, <2>0, <2>1, <2>2
    <3>. QED
      BY <3>2, <3>3 DEF IsRestored
  <2>3. \A p \in DOMAIN out' : out'[p].kind \in {"dir", "file"}
    <3>1. v.kind \in {"dir", "file"}
      BY <2>0
    <3>. QED
      BY <1>0, <2>1, <3>1, WithKinds
  <2>. QED
    BY <1>0, <1>4, <2>1, <2>2, <2>3
<1>. QED
  BY <1>h, <1>3, <1>5, <1>6, <1>7 DEF RestoreVisit

LEMMA RInvStep ==
    ASSUME Tree(lib), RInv, [Next]_vars, Extends(lib, lib'), Extends(out, out')
    PROVE  RInv'
<1>0. /\ \A p \in DOMAIN out : out[p].kind \in {"dir", "file"}
      /\ <<>> \in Seq(DOMAIN lib)
  BY EmptySeq DEF RInv
<1>1. ASSUME NEW d \in DOMAIN lib, RestoreBegin(d) PROVE RInv'
  <2>0. lib' = lib /\ restored # "ok" /\ todo \in Seq(DOMAIN lib)
    BY <1>1 DEF RestoreBegin, RInv
  <2>1. CASE <<>> \in DOMAIN out
    BY <1>0, <1>1, <2>0, <2>1, FailedRestore DEF RestoreBegin
  <2>2. CASE <<>> \notin DOMAIN out
    <3>1. /\ out' = With(out, <<>>, Dir) /\ base' = d /\ todo' = <<d>>
          /\ found' = Below(d) /\ restoring' = "walk" /\ restored' = restored
      BY <1>1, <2>2 DEF RestoreBegin
    <3>2. \A p \in DOMAIN out' : out'[p].kind \in {"dir", "file"}
      <4>1. Dir.kind \in {"dir", "file"}
        BY DEF Dir
      <4>. QED
        BY <1>0, <3>1, <4>1, WithKinds
    <3>3. todo' \in Seq(DOMAIN lib) /\ todo' # <<>> /\ Len(todo') = 1 /\ todo'[1] = d
      BY <3>1
    <3>4. \A p \in found' : p \in DOMAIN lib /\ Remains(p, todo')
      BY <3>1, <3>3 DEF Below, Remains
    <3>. QED
      BY <2>0, <3>1, <3>2, <3>3, <3>4 DEF RInv
  <2>. QED
    BY <2>1, <2>2
<1>2. CASE RestoreVisit
  BY <1>2, VisitStep
<1>3. CASE RestoreStops
  <2>1. PICK o, v : v.kind = "file" /\ (out' = out \/ out' = With(out, o, v))
    <3>1. PICK h, o, v : h = Head(todo) /\ o = Rel(base, Trimmed(h))
                         /\ v = [kind |-> "file", of |-> lib[h].of]
      OBVIOUS
    <3>2. v.kind = "file"
      BY <3>1
    <3>3. out' = out \/ out' = With(out, o, v)
      BY <1>3, <3>1 DEF RestoreStops
    <3>. QED
      BY <3>2, <3>3
  <2>2. \A p \in DOMAIN out' : out'[p].kind \in {"dir", "file"}
    BY <1>0, <2>1, WithKinds
  <2>. QED
    BY <1>0, <1>3, <2>2, FailedRestore DEF RestoreStops
<1>4. ASSUME NEW s \in Sources, AddBegin(s) \/ OtherAdds(s) PROVE UNCHANGED restore
  BY <1>4 DEF AddBegin, OtherAdds
<1>5. CASE AddVisit \/ AddPlaced \/ AddPublish
  BY <1>5, RInvFrame DEF AddVisit, AddPlaced, AddPublish
<1>6. CASE AddUnsynced \/ AddStops \/ AddKilled
  BY <1>6, RInvFrame DEF AddUnsynced, AddStops, AddKilled
<1>7. CASE AddProbes \/ AddCancelled \/ UNCHANGED vars
  BY <1>7, RInvFrame DEF AddProbes, AddCancelled, vars
<1>. QED
  BY <1>1, <1>2, <1>3, <1>4, <1>5, <1>6, <1>7, RInvFrame DEF Next, Adding

LEMMA RInvAlways == Spec => []RInv
<1>1. Init => RInv
  BY FolderAssumption, EmptySeq DEF Init, RInv, Tree
<1>2. LInv /\ RInv /\ [Next]_vars /\ [Extends(lib, lib') /\ Extends(out, out')]_vars
         => RInv'
  <2>1. UNCHANGED vars => Extends(lib, lib') /\ Extends(out, out')
    BY ExtendsItself DEF vars, restore
  <2>. QED
    BY <2>1, RInvStep DEF LInv
<1>. QED
  BY <1>1, <1>2, LInvAlways, NothingIsLost, PTL DEF Spec, NothingLost

(* A restore without an error has restored all there was when it began,    *)
(* whatever is added to the library meanwhile.                             *)
THEOREM RestoresComplete == Spec => []RestoreComplete
<1>1. RInv => RestoreComplete
  BY DEF RInv, RestoreComplete
<1>. QED
  BY <1>1, RInvAlways, PTL

(* What is left of the types.                                              *)
AddTypes ==
    /\ adds \in 0..MaxAdds
    /\ source \in Sources \cup {NoSource}
    /\ at \in 0..Len(source.entries)
    /\ added \in {"none", "ok", "error", "killed"}

LEMMA AddTypesStep ==
    ASSUME AInv, AddTypes, [Next]_vars
    PROVE  AddTypes'
<1>0. /\ \A s \in Sources : Len(s.entries) \in Nat \ {0}
      /\ Len(NoSource.entries) = 0 /\ MaxAdds \in Nat
      /\ Len(source.entries) \in Nat
      /\ adding # "none" => at \in 1..Len(source.entries)
  <2>1. Len(NoSource.entries) = 0
    BY DEF NoSource
  <2>. QED
    BY <2>1, EntryTypes, FolderAssumption DEF AddTypes, AInv, AtEntry
<1>. USE DEF AddFails, AddEnds
<1>1. ASSUME NEW s \in Sources, AddBegin(s) PROVE AddTypes'
  BY <1>0, <1>1 DEF AddBegin, AddTypes
<1>2. ASSUME adding # "none", UNCHANGED <<source, adds>>,
             Advance \/ AddFails \/ UNCHANGED <<at, added>>
      PROVE  AddTypes'
  BY <1>0, <1>2 DEF Advance, AddTypes
<1>3. CASE AddVisit
  BY <1>2, <1>3 DEF AddVisit, AddDir, AddOther, AddFile
<1>4. CASE AddPlaced \/ AddPublish
  BY <1>2, <1>4 DEF AddPlaced, AddPublish
<1>5. CASE AddUnsynced \/ AddStops \/ AddKilled
  BY <1>0, <1>5 DEF AddUnsynced, AddStops, AddKilled, AddTypes
<1>6. CASE AddProbes \/ AddCancelled \/ UNCHANGED vars
  BY <1>6 DEF AddProbes, AddCancelled, vars, add, AddTypes
<1>7. ASSUME NEW s \in Sources, OtherAdds(s) PROVE AddTypes'
  BY <1>7 DEF OtherAdds, add, AddTypes
<1>8. ASSUME NEW d, RestoreBegin(d) PROVE AddTypes'
  BY <1>8 DEF RestoreBegin, add, AddTypes
<1>9. CASE RestoreVisit \/ RestoreStops
  BY <1>9 DEF RestoreVisit, RestoreStops, add, AddTypes
<1>. QED
  BY <1>1, <1>3, <1>4, <1>5, <1>6, <1>7, <1>8, <1>9 DEF Next, Adding

(* The types, and that the library stays what a file system can hold: a    *)
(* stub is never put below a file, or where there is no directory.         *)
THEOREM FolderTypes == Spec => []TypeOK
<1>1. Init => AddTypes
  BY FolderAssumption DEF Init, AddTypes, NoSource
<1>2. AInv /\ AddTypes /\ [Next]_vars => AddTypes'
  BY AddTypesStep
<1>3. PInv /\ AddTypes /\ LInv /\ RInv => TypeOK
  <2>. SUFFICES ASSUME PInv, AddTypes, LInv, RInv PROVE TypeOK
    OBVIOUS
  <2>1. Range(todo) \subseteq DOMAIN lib
    BY RangeOfSeq DEF RInv
  <2>. QED
    BY <2>1 DEF PInv, AddTypes, LInv, AInv, AtEntry, AddedSoFar, RInv, TypeOK
<1>. QED
  BY <1>1, <1>2, <1>3, AInvAlways, LInvAlways, RInvAlways, ImplementsPlacement,
     PlacementInvariant, PTL DEF Spec
=============================================================================
