------------------------------ MODULE Scanner -------------------------------
(***************************************************************************)
(* The streaming scan of src/src/scanner.rs: the source is read in chunks  *)
(* into a buffer behind a carry of MaxPatLen - 1 bytes of the previous     *)
(* window, every window is matched against the pattern table, and a chunk  *)
(* that cannot be read is retried block by block.                          *)
(*                                                                         *)
(* A step is one call on the device (a positioned read that succeeds or    *)
(* fails) or the matching of one window.  The device is external: any      *)
(* read that touches a flaky address may fail, after filling any prefix of *)
(* the buffer, and may succeed when it is tried again.                     *)
(***************************************************************************)
EXTENDS Patterns

CONSTANTS
    MinBlock,    \* the smallest retry block, 512 in the code
    BlockArg,    \* block_size as the caller gave it
    ChunkArg,    \* chunk_size as the caller gave it
    MaxFlaky     \* bound on the number of flaky addresses

VARIABLES
    disk,           \* the bytes of the source
    flaky,          \* addresses at which a read may fail
    pc,             \* "read", "retry", "match" or "done"
    pos,            \* address of the next fresh read
    carry,          \* bytes kept from the previous window
    buf,            \* the window buffer
    off,            \* address of the next block to retry
    errors,         \* the regions reported as skipped
    found,          \* found[<<p, a>>]: how often p was recorded at address a
    bytes_scanned

vars == <<disk, flaky, pc, pos, carry, buf, off, errors, found, bytes_scanned>>

Larger(x, y) == IF x < y THEN y ELSE x
Smaller(x, y) == IF x < y THEN x ELSE y

BlockSize == Larger(BlockArg, MinBlock)
ChunkSize == Larger(ChunkArg, BlockSize)
Overlap == MaxPatLen - 1
Buffer == 0 .. (ChunkSize + Overlap - 1)

ASSUME ScanAssumption ==
    /\ MinBlock \in Nat \ {0}
    /\ BlockArg \in Nat
    /\ ChunkArg \in Nat
    /\ MaxFlaky \in Nat
    /\ Overlap <= MinBlock

NoneFound == [pa \in Patterns \X Addr |-> 0]

Init ==
    /\ disk \in [Addr -> Byte]
    /\ flaky \in {F \in SUBSET Addr : Cardinality(F) <= MaxFlaky}
    /\ pc = "read"
    /\ pos = 0
    /\ carry = 0
    /\ buf = [j \in Buffer |-> Zero]
    /\ off = 0
    /\ errors = {}
    /\ found = NoneFound
    /\ bytes_scanned = 0

-----------------------------------------------------------------------------
(* Reading.                                                                *)

(* The number of bytes this window asks for.                               *)
Want == Smaller(ChunkSize, TotalSize - pos)

(* The size of the block that starts at off; the last one may be short.    *)
BlockLen == Smaller(BlockSize, pos + Want - off)

Span(a, n) == a .. (a + n - 1)

MayFail(a, n) == Span(a, n) \cap flaky # {}

(* The buffer after the n bytes at address a were read into it.  Address   *)
(* pos is at index carry.                                                  *)
Filled(a, n) ==
    [j \in Buffer |-> IF j - carry + pos \in Span(a, n)
                      THEN disk[j - carry + pos] ELSE buf[j]]

(* The buffer after the n bytes at address a were zero-filled.             *)
Wiped(a, n) ==
    [j \in Buffer |-> IF j - carry + pos \in Span(a, n) THEN Zero ELSE buf[j]]

(* Slips: the report is lost; the whole chunk is reported as skipped.      *)
SkipReportLost(a, n) == errors' = errors
SkipReportChunk(a, n) == errors' = errors \cup {[off |-> pos, len |-> Want]}

SkipReport(a, n) == errors' = errors \cup {[off |-> a, len |-> n]}

(* read_span, first attempt: the whole chunk in one read.                  *)
ReadChunk ==
    /\ pc = "read"
    /\ pos < TotalSize
    /\ buf' = Filled(pos, Want)
    /\ pc' = "match"
    /\ UNCHANGED <<disk, flaky, pos, carry, off, errors, found, bytes_scanned>>

(* The read fails and the chunk is a single block: it is skipped.          *)
SkipChunk ==
    /\ pc = "read"
    /\ pos < TotalSize
    /\ MayFail(pos, Want)
    /\ Want <= BlockSize
    /\ SkipReport(pos, Want)
    /\ buf' = Wiped(pos, Want)
    /\ pc' = "match"
    /\ UNCHANGED <<disk, flaky, pos, carry, off, found, bytes_scanned>>

(* The read fails, having filled k bytes, and the chunk has several        *)
(* blocks: they are tried one by one.                                      *)
StartRetry ==
    /\ pc = "read"
    /\ pos < TotalSize
    /\ MayFail(pos, Want)
    /\ Want > BlockSize
    /\ \E k \in 0 .. (Want - 1) : buf' = Filled(pos, k)
    /\ off' = pos
    /\ pc' = "retry"
    /\ UNCHANGED <<disk, flaky, pos, carry, errors, found, bytes_scanned>>

(* Slip: the block position is not advanced.                               *)
AdvanceBlockStuck ==
    /\ off' = off
    /\ pc' = IF off' = pos + Want THEN "match" ELSE "retry"

(* After a block, the next one; after the last one, the window is matched. *)
AdvanceBlock ==
    /\ off' = off + BlockLen
    /\ pc' = IF off' = pos + Want THEN "match" ELSE "retry"

RetryBlock ==
    /\ pc = "retry"
    /\ buf' = Filled(off, BlockLen)
    /\ AdvanceBlock
    /\ UNCHANGED <<disk, flaky, pos, carry, errors, found, bytes_scanned>>

SkipBlock ==
    /\ pc = "retry"
    /\ MayFail(off, BlockLen)
    /\ SkipReport(off, BlockLen)
    /\ buf' = Wiped(off, BlockLen)
    /\ AdvanceBlock
    /\ UNCHANGED <<disk, flaky, pos, carry, found, bytes_scanned>>

-----------------------------------------------------------------------------
(* Matching.                                                               *)

WindowLen == carry + Want

(* Pattern p lies in the window at index i.                                *)
MatchesAt(p, i) ==
    /\ i + Len(p.bytes) <= WindowLen
    /\ \A j \in 1 .. Len(p.bytes) : buf[i + j - 1] = p.bytes[j]

(* Slip: a match that ends exactly where the carry ends counts as fresh.   *)
IsFreshOffByOne(p, abs) == abs + Len(p.bytes) >= pos

(* A match that ends inside the carry was recorded with the last window.   *)
IsFresh(p, abs) == abs + Len(p.bytes) > pos

(* The matches of this window, as absolute addresses.                      *)
NewMatches ==
    {pa \in Patterns \X Addr :
        /\ pa[2] >= pos - carry
        /\ MatchesAt(pa[1], pa[2] - (pos - carry))
        /\ IsFresh(pa[1], pa[2])}

(* Slip: one byte too few is carried over.                                 *)
KeptTailShort(nextpos) ==
    IF nextpos < TotalSize /\ WindowLen >= Overlap THEN Overlap - 1 ELSE 0

(* How much of the window's tail the next window keeps.                    *)
KeptTail(nextpos) ==
    IF nextpos < TotalSize /\ WindowLen >= Overlap THEN Overlap ELSE 0

(* Slip: the number of bytes scanned counts whole chunks.                  *)
ScannedWholeChunks == ChunkSize

ScannedInWindow == Want

MatchWindow ==
    /\ pc = "match"
    /\ found' = [pa \in Patterns \X Addr |->
                    IF pa \in NewMatches THEN found[pa] + 1 ELSE found[pa]]
    /\ bytes_scanned' = bytes_scanned + ScannedInWindow
    /\ pos' = pos + Want
    /\ carry' = KeptTail(pos')
    /\ buf' = [j \in Buffer |-> IF j < carry' THEN buf[WindowLen - carry' + j]
                                ELSE buf[j]]
    /\ pc' = "read"
    /\ UNCHANGED <<disk, flaky, off, errors>>

Return ==
    /\ pc = "read"
    /\ pos >= TotalSize
    /\ pc' = "done"
    /\ UNCHANGED <<disk, flaky, pos, carry, buf, off, errors, found, bytes_scanned>>

Next ==
    \/ ReadChunk
    \/ SkipChunk
    \/ StartRetry
    \/ RetryBlock
    \/ SkipBlock
    \/ MatchWindow
    \/ Return

Spec == Init /\ [][Next]_vars

(* The scan is one thread: while it has not returned it takes its next     *)
(* step, and a device call comes back with bytes or with an error.         *)
FairSpec == Spec /\ WF_vars(Next)
-----------------------------------------------------------------------------
(* Properties.                                                             *)

Reports == {[off |-> a, len |-> n] : a \in Addr, n \in 1 .. BlockSize}

(* The type invariant: the position and the counter of bytes scanned stay  *)
(* within the source, the carry within the buffer.                         *)
TypeOK ==
    /\ disk \in [Addr -> Byte]
    /\ flaky \in SUBSET Addr
    /\ pc \in {"read", "retry", "match", "done"}
    /\ pos \in 0 .. TotalSize
    /\ carry \in 0 .. Overlap
    /\ buf \in [Buffer -> Byte]
    /\ off \in 0 .. TotalSize
    /\ errors \subseteq Reports
    /\ found \in [Patterns \X Addr -> Nat]
    /\ bytes_scanned = pos

(* The addresses the scan has reported as unreadable.                      *)
Skipped == UNION {Span(e.off, e.len) : e \in errors}

(* The source as the scan may claim to have seen it: the device's bytes,   *)
(* except that reported regions are zero.                                  *)
Image == Zeroed(disk, Skipped)

(* Whatever the chunk size, and wherever reads fail: every occurrence of a *)
(* pattern in the image that ends in the part already scanned is recorded  *)
(* exactly once, those across a chunk boundary included, and nothing else  *)
(* is recorded.  A byte that was zero-filled without being reported would  *)
(* show here as an occurrence that is missed.                              *)
FoundExactlyOnce ==
    \A p \in Patterns, a \in Addr :
        found[<<p, a>>] = IF OccursIn(Image, p, a) /\ a + Len(p.bytes) <= pos
                      THEN 1 ELSE 0

(* One bad sector does not lose a whole chunk: a region that was given up  *)
(* is no longer than a retry block and contains an address that cannot be  *)
(* read reliably.                                                          *)
LossIsLocal ==
    \A e \in errors : e.len <= BlockSize /\ MayFail(e.off, e.len)

(* Zero-filling an unreadable block never makes a signature appear that is *)
(* not on the device: the comment of read_span says of zero-filled blocks  *)
(* that they match no signature.                                           *)
ZeroFillMatchesNothing ==
    \A p \in Patterns, a \in Addr : found[<<p, a>>] > 0 => OccursIn(disk, p, a)

(* The scan, seen from outside, is one search of the whole source: chunks, *)
(* carries and retries are not visible in its result.                      *)
Whole == INSTANCE SignatureSearch WITH
            lost  <- IF pc = "done" THEN Skipped ELSE {},
            found <- IF pc = "done" THEN found ELSE NoneFound,
            done  <- pc = "done"
ImplementsSearch == Whole!Spec

(* Bad sectors delay the scan but never stop it: it returns.               *)
Termination == <>(pc = "done")
=============================================================================
