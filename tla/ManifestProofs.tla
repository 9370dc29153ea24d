---------------------------- MODULE ManifestProofs ----------------------------
(***************************************************************************)
(* What an upload writes into a stub, a restore accepts: theorems about    *)
(* Manifest and NodeConfig.                                                *)
(***************************************************************************)
EXTENDS NodeConfig, TLAPS

LEMMA Division ==
    ASSUME NEW a \in Nat, NEW b \in Nat \ {0}
    PROVE  /\ a \div b \in Nat
           /\ a % b \in 0..(b - 1)
           /\ a = ((a \div b) * b) + (a % b)
  OBVIOUS

(* The chunks that are read add up to the file, none is longer than the    *)
(* chunk size, and their count is what the file needs.                     *)
LEMMA ChunksAddUp ==
    ASSUME NEW size \in Nat, NEW chunk \in Nat \ {0}
    PROVE  /\ Chunks(size, chunk).full \in Nat
           /\ Chunks(size, chunk).last \in 0..chunk
           /\ Plain(Chunks(size, chunk), chunk) = size
<1>1. CASE size = 0
  BY <1>1 DEF Chunks, Plain
<1>2. CASE size # 0
  <2>1. size - 1 \in Nat
    BY <1>2
  <2>2. /\ (size - 1) \div chunk \in Nat
        /\ (size - 1) % chunk \in 0..(chunk - 1)
        /\ size - 1 = (((size - 1) \div chunk) * chunk) + ((size - 1) % chunk)
    BY <2>1, Division
  <2>3. Chunks(size, chunk) = [full |-> (size - 1) \div chunk,
                               last |-> 1 + ((size - 1) % chunk)]
    BY <1>2 DEF Chunks
  <2>. DEFINE q == (size - 1) \div chunk
              r == (size - 1) % chunk
  <2>4. ASSUME NEW p \in Int, NEW s \in Int, size - 1 = p + s
        PROVE  p + (1 + s) = size
    BY <2>4
  <2>5. q * chunk \in Int /\ r \in Int
    BY <2>2
  <2>. QED
    BY <2>2, <2>3, <2>4, <2>5 DEF Plain
<1>. QED
  BY <1>1, <1>2

(* What the stub says of its ciphertext.                                   *)
LEMMA CipherBounds ==
    ASSUME NEW size \in Nat, NEW chunk \in Nat \ {0}
    PROVE  /\ Cipher(Chunks(size, chunk), chunk) \in Nat
           /\ Cipher(Chunks(size, chunk), chunk) >= Overhead
           /\ Cipher(Chunks(size, chunk), chunk) =
                 size + (Chunks(size, chunk).full + 1) * Overhead
<1>. DEFINE f == Chunks(size, chunk).full
<1>1. f \in Nat /\ Plain(Chunks(size, chunk), chunk) = size
  BY ChunksAddUp
<1>2. Overhead \in Nat \ {0}
  BY ManifestAssumption
<1>3. f * Overhead \in Nat
  BY <1>1, <1>2
<1>4. (f + 1) * Overhead = f * Overhead + Overhead
  BY <1>1, <1>2
<1>. QED
  BY <1>1, <1>2, <1>3, <1>4 DEF Cipher

(* A file that processFile accepts, whose name is plain and whose chunks   *)
(* do not outgrow the largest file when they are encrypted, gets a stub    *)
(* that Unmarshal accepts.  Nothing in the code sees to the two conditions *)
(* on the name and on the ciphertext.                                      *)
THEOREM StubReadable ==
    ASSUME NEW name \in PlainNames, NEW size \in Nat,
           NEW maxFile \in Int, NEW chunkSize \in Int,
           Accepts(size, maxFile, chunkSize),
           Cipher(Chunks(size, ChunkOf(chunkSize)), ChunkOf(chunkSize)) <= MaxTotal
    PROVE  Readable(NewChunked(name, size, ChunkOf(chunkSize)))
<1>. DEFINE chunk == ChunkOf(chunkSize)
            m == NewChunked(name, size, chunk)
<1>1. chunk \in 1..MaxChunk /\ size <= MaxTotal
  BY ManifestAssumption DEF Accepts, ChunkOf, LimitOf
<1>2. chunk \in Nat \ {0}
  BY <1>1, ManifestAssumption
<1>3. /\ m.version = 2 /\ m.name = name /\ m.sound /\ m.plain = size
      /\ m.chunk = chunk /\ m.chunks = Chunks(size, chunk)
      /\ m.cipher = Cipher(Chunks(size, chunk), chunk)
      /\ m.layout = [data |-> Data, parity |-> Total - Data]
  BY DEF NewChunked
<1>4. Valid(LayoutOf(m))
  <2>1. Data \in Nat \ {0} /\ Total \in Nat /\ Total > Data /\ Total <= MaxShards
        /\ MaxShards \in Nat
    BY ManifestAssumption
  <2>2. LayoutOf(m) = [data |-> Data, parity |-> Total - Data]
    BY <1>3, <2>1 DEF LayoutOf, NewLayout
  <2>. QED
    BY <2>1, <2>2 DEF Valid
<1>5. Chunked(m)
  <2>1. /\ m.cipher \in Nat /\ m.cipher >= Overhead /\ m.cipher <= MaxTotal
    BY <1>2, <1>3, CipherBounds
  <2>2. m.chunks.last \in 0..chunk /\ m.plain = Plain(m.chunks, m.chunk)
    BY <1>2, <1>3, ChunksAddUp
  <2>. QED
    BY <1>1, <1>3, <2>1, <2>2, ManifestAssumption DEF Chunked, FitsChunk
<1>. QED
  BY <1>3, <1>4, <1>5 DEF Readable

(* The node's configuration never contradicts the limits of the upload: a  *)
(* file within max_file_bytes is taken.                                    *)
THEOREM ConfiguredFilesAccepted ==
    ASSUME NEW c \in NodeConfigs, Validate(c),
           NEW size \in Nat, size <= c.maxFile
    PROVE  Accepts(size, ConfiguredPipeline(c).maxFile, ConfiguredPipeline(c).chunk)
<1>1. /\ c.maxFile \in 1..MaxTotal /\ c.chunk \in 0..MaxChunk
      /\ ConfiguredPipeline(c).maxFile = c.maxFile
      /\ ConfiguredPipeline(c).chunk = c.chunk
  BY DEF Validate, ConfiguredPipeline
<1>. QED
  BY <1>1, ManifestAssumption DEF Accepts, LimitOf, ChunkOf
=============================================================================
