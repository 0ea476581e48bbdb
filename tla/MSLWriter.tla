------------------------------ MODULE MSLWriter ------------------------------
(***************************************************************************)
(* msl/writer.py with msl/integrity.py and the encryptor of                *)
(* msl/encryption.py: the block stream of one .msl file.                   *)
(*                                                                         *)
(* Every block goes through _write_block: build the header with the        *)
(* PrevHash of the chain, write header and payload to the output (or hand  *)
(* both to the encryptor, which keeps them in memory until finalize), and  *)
(* only then feed the chain.  An I/O error between those steps leaves a    *)
(* torn block behind a chain that never saw it, and the caller's `finally' *)
(* still appends End-of-Capture after it.                                  *)
(*                                                                         *)
(* A block's digest is abstracted to its number in the chain: the n-th     *)
(* block fed has digest n, the file header has digest HeaderDigest.  A     *)
(* torn block hashes to nothing the chain ever produced.                   *)
(***************************************************************************)
EXTENDS Integers, Sequences

CONSTANTS
    BlockTypes,     \* types of ordinary blocks (ProcessIdentity, ...)
    MaxBlocks       \* bound of the model: ordinary blocks written to a file

ASSUME WriterAssumption ==
    /\ "EndOfCapture" \notin BlockTypes
    /\ MaxBlocks \in Nat

VARIABLES
    encrypted,  \* the writer was given an encryption key
    file,       \* the blocks after the file header, as they are on disk
    tag,        \* encrypted mode: the AEAD tag is on disk
    plaintext,  \* StreamingEncryptor._plaintext_chunks, block by block
    prevHash,   \* IntegrityChain._prev_hash
    hashed,     \* what IntegrityChain._file_hasher was fed, by digest
    blockIndex, \* MSLWriter._block_index
    accepted,   \* history: the blocks whose write call returned
    caller      \* where the caller is: "writing", "unwinding" (a call raised),
                \* "closed" or "failed" (finalize returned, raised), "killed"

writerVars == <<encrypted, file, tag, plaintext, prevHash, hashed, blockIndex, accepted, caller>>

HeaderDigest == 0
ZeroHash == -1      \* b"\x00" * 32

AllTypes == BlockTypes \cup {"EndOfCapture"}

------------------------------------------------------------------------------
(* Blocks                                                                    *)

\* The block _write_block builds now.  `sum' is the FileHash in the payload
\* of End-of-Capture: the digests hashed so far.
NewBlock(type) ==
    [type |-> type, num |-> blockIndex + 1, whole |-> TRUE,
     prev |-> IF encrypted THEN ZeroHash ELSE prevHash,
     sum  |-> IF type = "EndOfCapture" THEN hashed ELSE <<>>]

Torn(block) == [block EXCEPT !.whole = FALSE]

\* Mutants: the chain stays at the file header; it is reset after every block.
MutFeedChainStale(block) ==
    /\ hashed' = Append(hashed, block.num)
    /\ blockIndex' = blockIndex + 1
    /\ accepted' = Append(accepted, block)
    /\ UNCHANGED prevHash

MutFeedChainReset(block) ==
    /\ prevHash' = ZeroHash
    /\ hashed' = Append(hashed, block.num)
    /\ blockIndex' = blockIndex + 1
    /\ accepted' = Append(accepted, block)

\* IntegrityChain.feed_block_parts, and the counter beside it.
FeedChain(block) ==
    /\ prevHash' = block.num
    /\ hashed' = Append(hashed, block.num)
    /\ blockIndex' = blockIndex + 1
    /\ accepted' = Append(accepted, block)

------------------------------------------------------------------------------
(* Operations                                                                *)

\* MSLWriter.__init__: the file header is written and fed to the chain.
Init ==
    /\ encrypted \in BOOLEAN
    /\ file = <<>> /\ tag = FALSE /\ plaintext = <<>>
    /\ prevHash = HeaderDigest /\ hashed = <<HeaderDigest>>
    /\ blockIndex = 0 /\ accepted = <<>> /\ caller = "writing"

\* Mutant: a payload over the block length limit is dropped without raising.
MutWriteBlockDrops(type) ==
    LET block == NewBlock(type) IN
    /\ caller = "writing"
    /\ Len(accepted) < MaxBlocks
    /\ \/ /\ IF encrypted
             THEN plaintext' = Append(plaintext, block) /\ UNCHANGED file
             ELSE file' = Append(file, block) /\ UNCHANGED plaintext
          /\ FeedChain(block)
       \/ /\ accepted' = Append(accepted, block)
          /\ UNCHANGED <<file, plaintext, prevHash, hashed, blockIndex>>
    /\ UNCHANGED <<encrypted, tag, caller>>

\* _write_block, returning.
WriteBlock(type) ==
    LET block == NewBlock(type) IN
    /\ caller = "writing"
    /\ Len(file) + Len(plaintext) < MaxBlocks
    /\ IF encrypted
       THEN plaintext' = Append(plaintext, block) /\ UNCHANGED file
       ELSE file' = Append(file, block) /\ UNCHANGED plaintext
    /\ FeedChain(block)
    /\ UNCHANGED <<encrypted, tag, caller>>

\* _write_block, raising.  Before any byte: the payload is over the uint32
\* block length, or write_memory_region rejects the region.  Between the two
\* output.write calls or inside one: the disk is full.  The chain is not fed.
WriteBlockRaises(type) ==
    /\ caller = "writing"
    /\ Len(file) + Len(plaintext) < MaxBlocks
    /\ \/ UNCHANGED file
       \/ ~encrypted /\ file' = Append(file, Torn(NewBlock(type)))
    /\ caller' = "unwinding"
    /\ UNCHANGED <<encrypted, tag, plaintext, prevHash, hashed, blockIndex, accepted>>

\* What can be left of a byte stream that was not flushed to its end.
CutShort(blocks) ==
    {SubSeq(blocks, 1, n) : n \in 0 .. Len(blocks)}
    \cup {Append(SubSeq(blocks, 1, n - 1), Torn(blocks[n])) : n \in 1 .. Len(blocks)}

\* finalize, returning: End-of-Capture, then the ciphertext and its tag, then
\* flush.
Finalize ==
    LET eoc == NewBlock("EndOfCapture") IN
    /\ caller \in {"writing", "unwinding"}
    /\ IF encrypted
       THEN file' = Append(plaintext, eoc) /\ tag' = TRUE /\ plaintext' = <<>>
       ELSE file' = Append(file, eoc) /\ UNCHANGED <<tag, plaintext>>
    /\ FeedChain(eoc)
    /\ caller' = "closed"
    /\ UNCHANGED encrypted

\* finalize, raising: writing End-of-Capture fails, or writing or flushing
\* what was still in memory after it - in the clear the output buffer,
\* encrypted the whole ciphertext, which then lacks its tag.
FinalizeRaises ==
    LET eoc == NewBlock("EndOfCapture") IN
    /\ caller \in {"writing", "unwinding"}
    /\ caller' = "failed"
    /\ \/ /\ ~encrypted
          /\ file' \in {file, Append(file, Torn(eoc))}
          /\ UNCHANGED <<plaintext, prevHash, hashed, blockIndex, accepted>>
       \/ /\ file' \in CutShort(IF encrypted THEN Append(plaintext, eoc)
                                              ELSE Append(file, eoc))
          /\ plaintext' = <<>>
          /\ FeedChain(eoc)
    /\ UNCHANGED <<encrypted, tag>>

\* The process is killed before finalize: the output buffer is lost, the file
\* ends anywhere.
Kill ==
    /\ caller \in {"writing", "unwinding"}
    /\ caller' = "killed"
    /\ file' \in CutShort(file)
    /\ UNCHANGED <<encrypted, tag, plaintext, prevHash, hashed, blockIndex, accepted>>

Next ==
    \/ \E type \in BlockTypes : WriteBlock(type) \/ WriteBlockRaises(type)
    \/ Finalize \/ FinalizeRaises
    \/ Kill

Spec == Init /\ [][Next]_writerVars

------------------------------------------------------------------------------
(* What a reader who verifies the chain finds in the file                    *)

\* Block i is intact and carries the digest of what stands before it.
Linked(i) ==
    /\ file[i].whole
    /\ file[i].prev = IF encrypted THEN ZeroHash
                      ELSE IF i = 1 THEN HeaderDigest ELSE file[i - 1].num

LinkedUpTo(n) == \A i \in 1 .. n : Linked(i)

VerifiedLen == CHOOSE n \in 0 .. Len(file) :
    LinkedUpTo(n) /\ (n = Len(file) \/ ~Linked(n + 1))

\* Without its tag a ciphertext does not decrypt: the reader sees nothing.
Visible ==
    IF encrypted /\ ~tag THEN <<>> ELSE SubSeq(file, 1, VerifiedLen)

\* The digest of the file header and of the first n blocks.
DigestsUpTo(n) == [i \in 1 .. n + 1 |-> IF i = 1 THEN HeaderDigest ELSE file[i - 1].num]

Sealed ==
    LET n == Len(file) IN
    /\ n > 0 /\ Len(Visible) = n
    /\ file[n].type = "EndOfCapture"
    /\ file[n].sum = DigestsUpTo(n - 1)

------------------------------------------------------------------------------
(* Properties                                                                *)

Block == [type : AllTypes, num : Nat, prev : Nat \cup {ZeroHash},
          sum : Seq(Nat), whole : BOOLEAN]

TypeOK ==
    /\ file \in Seq(Block) /\ plaintext \in Seq(Block) /\ accepted \in Seq(Block)
    /\ encrypted \in BOOLEAN /\ tag \in BOOLEAN
    /\ prevHash \in Nat /\ hashed \in Seq(Nat) /\ blockIndex \in Nat
    /\ caller \in {"writing", "unwinding", "closed", "failed", "killed"}

\* Whatever a verifying reader accepts from the file was acknowledged to the
\* caller, in that order, with nothing missing in between: a torn block, a
\* kill or a failed finalize can only cost the end of the stream.
ReaderSeesPrefix ==
    /\ Len(Visible) <= Len(accepted)
    /\ \A i \in 1 .. Len(Visible) : Visible[i] = accepted[i]

\* A file that verifies up to a valid End-of-Capture holds every block the
\* writer acknowledged; the bytes of a block whose write raised void the seal.
SealedIsComplete == Sealed => Visible = accepted

\* A finalize that returned leaves a sealed file, also when it runs in the
\* `finally' after a write that raised, unless that write tore a block.
ClosedIsSealed ==
    caller = "closed" /\ (\A i \in 1 .. Len(file) : file[i].whole) => Sealed

\* In the clear the chain is never behind the file: until something raises, a
\* reader can verify everything acknowledged so far, at every moment.
ClearIsCurrent == ~encrypted /\ caller = "writing" => Visible = accepted

\* The writer implements the append-only sealed log.
Log == INSTANCE SealedLog WITH visible <- Visible, sealed <- Sealed
ImplementsSealedLog == Log!LogSpec
==============================================================================
