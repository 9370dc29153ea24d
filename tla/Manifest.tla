------------------------------- MODULE Manifest -------------------------------
(***************************************************************************)
(* What is in a stub (internal/manifest): what an upload writes into it    *)
(* and what a restore accepts of it.  Operators only.                      *)
(*                                                                         *)
(* The chunks of a file are as long as the chunk size but for the last, so *)
(* a list of them is the number of full ones and the length of the last.   *)
(* Keys, nonces and hashes are there or not: "sound" says that each has    *)
(* the length and the encoding Unmarshal asks for.  Sizes are those of the *)
(* code in other units: Overhead is the 16 bytes of an AES-GCM tag,        *)
(* MaxTotal 1<<40 (1 TiB), MaxChunk 1<<30 (1 GiB), MaxShards 64.           *)
(***************************************************************************)
EXTENDS Integers

CONSTANTS Data,        \* shards that suffice to decode a chunk
          Total,       \* shards per chunk
          Overhead,    \* bytes a chunk grows by when it is encrypted
          MaxTotal,    \* the largest file
          MaxChunk,    \* the largest chunk
          MaxShards,   \* the most shards of a chunk
          DefaultLimit, DefaultChunk,  \* processFile's own, for 0
          PlainNames   \* file names without a separator of any system

ASSUME ManifestAssumption ==
    /\ Data \in Nat \ {0}
    /\ Total \in Nat /\ Total > Data /\ Total <= MaxShards
    /\ MaxShards \in Nat /\ MaxTotal \in Nat /\ MaxChunk \in Nat
    /\ Overhead \in Nat \ {0}
    /\ DefaultLimit \in 1..MaxTotal
    /\ DefaultChunk \in 1..MaxChunk

DefaultLayout == [data |-> 2, parity |-> 1]

(* NewLayout: nothing said means 2+1.                                      *)
NewLayout(l) == IF l.data = 0 /\ l.parity = 0 THEN DefaultLayout ELSE l

Valid(l) == l.data >= 1 /\ l.parity >= 1 /\ l.data + l.parity <= MaxShards

(* processFile's limits, on the configuration and on the file.             *)
LimitOf(maxFile) == IF maxFile <= 0 THEN DefaultLimit ELSE maxFile
ChunkOf(chunkSize) == IF chunkSize <= 0 THEN DefaultChunk ELSE chunkSize

Accepts(size, maxFile, chunkSize) ==
    /\ LimitOf(maxFile) <= MaxTotal
    /\ size <= LimitOf(maxFile)
    /\ ChunkOf(chunkSize) <= MaxChunk

(* The reads of processFile: full chunks, and what is left; an empty file  *)
(* is one empty chunk, and no empty chunk follows a full one.              *)
Chunks(size, chunk) ==
    IF size = 0 THEN [full |-> 0, last |-> 0]
    ELSE [full |-> (size - 1) \div chunk, last |-> 1 + ((size - 1) % chunk)]

(* The largest shard of the file: asked of the peers before it is read.    *)
ShardBytes(size, chunk) ==
    ((IF size < chunk THEN size ELSE chunk) + Overhead + Data - 1) \div Data

Plain(c, chunk) == c.full * chunk + c.last
Cipher(c, chunk) == Plain(c, chunk) + (c.full + 1) * Overhead

(* validateChunk and the tests around it, for each of the chunks.          *)
FitsChunk(m) == m.chunks.last \in 0..m.chunk

(* Mutant: the tag is counted once, not for every chunk.                   *)
OneTag(name, size, chunk) ==
    [version |-> 2, layout |-> [data |-> Data, parity |-> Total - Data],
     name |-> name, plain |-> size, chunk |-> chunk, chunks |-> Chunks(size, chunk),
     cipher |-> size + Overhead, sound |-> TRUE]
(* NewChunked, the totals added up from the chunks that were read.         *)
NewChunked(name, size, chunk) ==
    LET c == Chunks(size, chunk) IN
    [version |-> 2, layout |-> [data |-> Data, parity |-> Total - Data],
     name |-> name, plain |-> size, chunk |-> chunk, chunks |-> c,
     cipher |-> Cipher(c, chunk), sound |-> TRUE]

(* NewWithLayout: one chunk, as older versions of the program wrote it;    *)
(* still older ones (version 0) gave no layout.                            *)
NewWithLayout(version, l, name, size) ==
    [version |-> version, layout |-> l,
     name |-> name, plain |-> 0, chunk |-> 0, chunks |-> [full |-> 0, last |-> 0],
     cipher |-> size + Overhead, sound |-> TRUE]

Chunked(m) ==
    /\ m.chunk \in 1..MaxChunk
    /\ m.plain \in 0..MaxTotal
    /\ m.cipher \in Overhead..MaxTotal
    /\ FitsChunk(m)
    /\ m.plain = Plain(m.chunks, m.chunk)
    /\ m.cipher = Cipher(m.chunks, m.chunk)

Single(m) == m.cipher \in Overhead..MaxChunk + Overhead

LayoutOf(m) == NewLayout(IF m.version = 0 THEN DefaultLayout ELSE m.layout)

(* Unmarshal accepts the stub.                                             *)
Readable(m) ==
    /\ m.version \in {0, 1, 2}
    /\ Valid(LayoutOf(m))
    /\ m.name \in PlainNames
    /\ m.sound
    /\ IF m.version = 2 THEN Chunked(m) ELSE Single(m)
=============================================================================
