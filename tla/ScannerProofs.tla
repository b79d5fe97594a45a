--------------------------- MODULE ScannerProofs ----------------------------
(***************************************************************************)
(* The scan is correct for every source, pattern table, chunk size, block  *)
(* size and pattern of read failures.                                      *)
(*                                                                         *)
(* FoundExactlyOnce is not inductive: whether a window is matched right    *)
(* depends on what is in the buffer and on how much of the last window is  *)
(* still there.  IInv adds these two facts: BufferHolds, the first n bytes *)
(* of the buffer are the image from pos - carry on, with n as far as the   *)
(* reading has come; and CarryFull, unless this is the first window the    *)
(* carry is all of Overlap, so no pattern that ends in this window begins  *)
(* before the carry.                                                       *)
(***************************************************************************)
EXTENDS Scanner, TLAPS

BufferHolds(n) == \A j \in 0 .. (n - 1) : buf[j] = Image[pos - carry + j]

CarryFull ==
    /\ carry <= pos
    /\ pos < TotalSize => pos = 0 \/ carry = Overlap

SkippedBelow(n) == Skipped \subseteq 0 .. (n - 1)

(* How far the reading has come, for each value of pc.                     *)
Progress ==
    /\ pc = "read" => BufferHolds(carry) /\ SkippedBelow(pos)
    /\ pc = "retry" => /\ off \in pos .. (pos + Want - 1)
                       /\ BufferHolds(carry + (off - pos))
                       /\ SkippedBelow(off)
    /\ pc = "match" => /\ pos < TotalSize
                       /\ BufferHolds(carry + Want)
                       /\ SkippedBelow(pos + Want)
    /\ pc = "done" => pos = TotalSize

IInv == TypeOK /\ CarryFull /\ Progress /\ FoundExactlyOnce /\ LossIsLocal

-----------------------------------------------------------------------------
(* The constants.                                                          *)

(* Every pattern is a non-empty sequence of bytes, at most MaxPatLen long. *)
LEMMA PatternFacts ==
    /\ MaxPatLen \in Nat \ {0}
    /\ Overlap \in Nat
    /\ \A p \in Patterns : /\ p.bytes \in Seq(Byte)
                           /\ Len(p.bytes) \in 1 .. MaxPatLen
<1>1. \A p \in Patterns : p.bytes \in Seq(Byte) /\ p.bytes # << >>
  BY TableAssumption DEF Patterns, NoFooter
<1>2. \A p \in Patterns : Len(p.bytes) \in Nat \ {0}
  BY <1>1
<1> DEFINE longest == CHOOSE p \in Patterns :
                        \A q \in Patterns : Len(q.bytes) <= Len(p.bytes)
<1>3. longest \in Patterns /\ \A q \in Patterns : Len(q.bytes) <= Len(longest.bytes)
  BY TableAssumption
<1>4. MaxPatLen = Len(longest.bytes)
  BY DEF MaxPatLen
<1> QED
  BY <1>1, <1>2, <1>3, <1>4 DEF Overlap

(* Blocks and chunks are not empty, and a chunk is as long as the carry.   *)
LEMMA SizeFacts ==
    /\ TotalSize \in Nat
    /\ BlockSize \in Nat \ {0}
    /\ ChunkSize \in Nat \ {0}
    /\ Overlap <= ChunkSize
BY SizeAssumption, ScanAssumption, PatternFacts DEF BlockSize, ChunkSize, Larger

(* While the scan has not come to the end, it asks for some bytes.         *)
LEMMA WantFacts ==
    ASSUME TypeOK
    PROVE  /\ Want \in Nat
           /\ Want <= ChunkSize
           /\ pos + Want <= TotalSize
           /\ pos < TotalSize => Want > 0
           /\ pos + Want < TotalSize => Want = ChunkSize
BY SizeFacts DEF TypeOK, Want, Smaller

-----------------------------------------------------------------------------
(* The image.                                                              *)

(* Reporting a region adds exactly its addresses to the skipped ones.      *)
LEMMA ReportSkips ==
    ASSUME NEW a, NEW n, SkipReport(a, n)
    PROVE  Skipped' = Skipped \cup Span(a, n)
<1> DEFINE new == [off |-> a, len |-> n]
<1>1. errors' = errors \cup {new}
  BY DEF SkipReport
<1>2. new.off = a /\ new.len = n
  OBVIOUS
<1>3. Skipped' = UNION {Span(e.off, e.len) : e \in errors'}
  BY DEF Skipped, Span
<1> HIDE DEF new
<1>4. UNION {Span(e.off, e.len) : e \in errors \cup {new}} =
         (UNION {Span(e.off, e.len) : e \in errors}) \cup Span(new.off, new.len)
  OBVIOUS
<1> QED
  BY <1>1, <1>2, <1>3, <1>4 DEF Skipped

(* Whether a pattern occurs depends only on the bytes it covers.           *)
LEMMA OccursLocally ==
    ASSUME NEW f, NEW g, NEW u \in Nat, NEW p \in Patterns, NEW a \in Addr,
           \A x \in Addr : x < u => f[x] = g[x],
           a + Len(p.bytes) <= u
    PROVE  OccursIn(f, p, a) <=> OccursIn(g, p, a)
<1>1. ASSUME a + Len(p.bytes) <= TotalSize, NEW j \in 1 .. Len(p.bytes)
      PROVE  a + j - 1 \in Addr /\ a + j - 1 < u
  BY <1>1, PatternFacts, SizeFacts DEF Addr
<1> QED
  BY <1>1 DEF OccursIn
-----------------------------------------------------------------------------
(* Reading keeps the buffer equal to the image.                            *)

(* An index into the window is an address of the source.                   *)
LEMMA BufferIndex ==
    ASSUME TypeOK, CarryFull, NEW j \in Nat, j < carry + Want
    PROVE  j \in Buffer /\ pos - carry + j \in Addr
BY PatternFacts, SizeFacts, WantFacts DEF TypeOK, CarryFull, Buffer, Addr

(* Bytes read at a fill the window from there on.                          *)
LEMMA FillExtends ==
    ASSUME TypeOK, CarryFull, NEW a \in Nat, NEW n \in Nat,
           pos <= a, a + n <= pos + Want,
           BufferHolds(carry + (a - pos)), SkippedBelow(a),
           buf' = Filled(a, n),
           UNCHANGED <<disk, pos, carry, errors>>
    PROVE  /\ BufferHolds(carry + (a - pos) + n)'
           /\ buf' \in [Buffer -> Byte]
<1>1. Image' = Image /\ Skipped' = Skipped
  BY DEF Image, Skipped, Zeroed, Span
<1>2. ASSUME NEW j \in 0 .. (carry + (a - pos) + n - 1)
      PROVE  buf'[j] = Image[pos - carry + j]
  <2>1. /\ j \in Nat /\ j < carry + Want
        /\ j \in Buffer /\ pos - carry + j \in Addr
    <3>1. j \in Nat /\ j < carry + Want
      BY WantFacts DEF TypeOK
    <3> QED
      BY <3>1, BufferIndex
  <2>2. buf'[j] = IF j - carry + pos \in Span(a, n)
                  THEN disk[j - carry + pos] ELSE buf[j]
    BY <2>1 DEF Filled
  <2>3. j - carry + pos = pos - carry + j
    BY <2>1 DEF TypeOK
  <2>4. CASE j - carry + pos \in Span(a, n)
    <3>1. pos - carry + j \notin Skipped
      BY <2>3, <2>4 DEF SkippedBelow, Span, TypeOK
    <3> QED
      BY <2>1, <2>2, <2>3, <2>4, <3>1 DEF Image, Zeroed
  <2>5. CASE j - carry + pos \notin Span(a, n)
    <3>1. j < carry + (a - pos)
      BY <2>1, <2>5 DEF Span, TypeOK
    <3> QED
      BY <2>1, <2>2, <2>5, <3>1 DEF BufferHolds, TypeOK
  <2> QED
    BY <2>4, <2>5
<1>3. buf' \in [Buffer -> Byte]
  <2>1. ASSUME NEW j \in Buffer, j - carry + pos \in Span(a, n)
        PROVE  j - carry + pos \in Addr
    BY <2>1, WantFacts, SizeFacts DEF Span, Addr, Buffer, TypeOK
  <2> QED
    BY <2>1 DEF Filled, TypeOK
<1>4. pos' = pos /\ carry' = carry
  OBVIOUS
<1>5. BufferHolds(carry + (a - pos) + n)'
  BY <1>1, <1>2, <1>4 DEF BufferHolds, TypeOK
<1> QED
  BY <1>3, <1>5

(* A region that is zero-filled and reported counts as read.               *)
LEMMA WipeExtends ==
    ASSUME TypeOK, CarryFull, NEW a \in Nat, NEW n \in Nat,
           pos <= a, a + n <= pos + Want,
           BufferHolds(carry + (a - pos)), SkippedBelow(a),
           buf' = Wiped(a, n), SkipReport(a, n),
           UNCHANGED <<disk, pos, carry>>
    PROVE  /\ BufferHolds(carry + (a - pos) + n)'
           /\ SkippedBelow(a + n)'
           /\ buf' \in [Buffer -> Byte]
           /\ \A x \in Addr : x < a => Image'[x] = Image[x]
<1>1. Skipped' = Skipped \cup Span(a, n)
  BY ReportSkips
<1>2. \A x \in Addr : Image'[x] = IF x \in Skipped' THEN Zero ELSE disk[x]
  BY DEF Image, Zeroed, Addr
<1>3. \A x \in Addr : x < a => Image'[x] = Image[x]
  BY <1>1, <1>2 DEF Image, Zeroed, Span, Addr
<1>4. SkippedBelow(a + n)'
  BY <1>1, SizeFacts DEF SkippedBelow, Span
<1>5. ASSUME NEW j \in 0 .. (carry + (a - pos) + n - 1)
      PROVE  buf'[j] = Image'[pos - carry + j]
  <2>1. /\ j \in Nat /\ j < carry + Want
        /\ j \in Buffer /\ pos - carry + j \in Addr
    <3>1. j \in Nat /\ j < carry + Want
      BY WantFacts DEF TypeOK
    <3> QED
      BY <3>1, BufferIndex
  <2>2. buf'[j] = IF j - carry + pos \in Span(a, n) THEN Zero ELSE buf[j]
    BY <2>1 DEF Wiped
  <2>3. j - carry + pos = pos - carry + j
    BY <2>1 DEF TypeOK
  <2>4. CASE j - carry + pos \in Span(a, n)
    BY <1>1, <1>2, <2>1, <2>2, <2>3, <2>4
  <2>5. CASE j - carry + pos \notin Span(a, n)
    <3>1. j < carry + (a - pos) /\ pos - carry + j < a
      BY <2>1, <2>5 DEF Span, TypeOK
    <3>2. buf[j] = Image[pos - carry + j]
      BY <2>1, <3>1 DEF BufferHolds, TypeOK
    <3> QED
      BY <1>3, <2>1, <2>2, <2>5, <3>1, <3>2
  <2> QED
    BY <2>4, <2>5
<1>6. buf' \in [Buffer -> Byte]
  BY BytesAssumption DEF Wiped, TypeOK
<1>7. pos' = pos /\ carry' = carry
  OBVIOUS
<1>8. BufferHolds(carry + (a - pos) + n)'
  BY <1>5, <1>7 DEF BufferHolds, TypeOK
<1> QED
  BY <1>3, <1>4, <1>6, <1>8

(* Reports that lie at or after pos leave what was found so far right.     *)
LEMMA FoundStays ==
    ASSUME TypeOK, FoundExactlyOnce, UNCHANGED <<pos, found>>,
           \A x \in Addr : x < pos => Image'[x] = Image[x]
    PROVE  FoundExactlyOnce'
<1>1. ASSUME NEW p \in Patterns, NEW a \in Addr, a + Len(p.bytes) <= pos
      PROVE  OccursIn(Image', p, a) <=> OccursIn(Image, p, a)
  <2>1. pos \in Nat
    BY SizeFacts DEF TypeOK
  <2> QED
    BY <1>1, <2>1, OccursLocally
<1>2. ASSUME NEW p \in Patterns, NEW a \in Addr
      PROVE  found[<<p, a>>] = IF OccursIn(Image', p, a) /\ a + Len(p.bytes) <= pos
                               THEN 1 ELSE 0
  <2>1. CASE a + Len(p.bytes) <= pos
    BY <1>1, <2>1 DEF FoundExactlyOnce
  <2>2. CASE ~ (a + Len(p.bytes) <= pos)
    BY <2>2 DEF FoundExactlyOnce
  <2> QED
    BY <2>1, <2>2
<1> QED
  BY <1>2, Zenon DEF FoundExactlyOnce, OccursIn
-----------------------------------------------------------------------------
(* The steps.                                                              *)

(* A region reported while the reading was at a is a legal report.         *)
LEMMA ReportOK ==
    ASSUME TypeOK, LossIsLocal, NEW a \in Addr, NEW n \in 1 .. BlockSize,
           MayFail(a, n), SkipReport(a, n), UNCHANGED flaky
    PROVE  errors' \subseteq Reports /\ LossIsLocal'
<1> DEFINE new == [off |-> a, len |-> n]
<1>1. new \in Reports /\ new.off = a /\ new.len = n
  BY DEF Reports
<1>2. errors' = errors \cup {new}
  BY DEF SkipReport
<1>3. \A e \in errors : e.len <= BlockSize /\ MayFail(e.off, e.len)'
  BY DEF LossIsLocal, MayFail, Span
<1>4. MayFail(a, n)' /\ n <= BlockSize
  BY SizeFacts DEF MayFail, Span
<1> HIDE DEF new
<1> QED
  BY <1>1, <1>2, <1>3, <1>4 DEF LossIsLocal, TypeOK

(* The whole chunk is read.                                                *)
LEMMA ReadChunkStep ==
    ASSUME IInv, ReadChunk
    PROVE  IInv'
<1> USE DEF IInv, ReadChunk
<1>1. pos \in Nat /\ Want \in Nat /\ Want' = Want
  BY WantFacts DEF TypeOK, Want
<1>2. BufferHolds(carry + (pos - pos)) /\ SkippedBelow(pos)
  BY <1>1 DEF Progress, TypeOK
<1>3. BufferHolds(carry + (pos - pos) + Want)' /\ buf' \in [Buffer -> Byte]
  BY <1>1, <1>2, FillExtends
<1>4. BufferHolds(carry + Want)'
  BY <1>1, <1>3 DEF TypeOK
<1>5. Skipped' = Skipped /\ Image' = Image
  BY DEF Skipped, Image, Zeroed, Span
<1>6. SkippedBelow(pos + Want)'
  BY <1>1, <1>2, <1>5 DEF SkippedBelow, TypeOK
<1>7. TypeOK'
  BY <1>3 DEF TypeOK
<1>8. Progress'
  BY <1>4, <1>6 DEF Progress
<1>9. FoundExactlyOnce'
  BY <1>5, FoundStays
<1> QED
  BY <1>7, <1>8, <1>9 DEF CarryFull, LossIsLocal, MayFail, Span

(* A chunk of a single block is skipped.                                   *)
LEMMA SkipChunkStep ==
    ASSUME IInv, SkipChunk
    PROVE  IInv'
<1> USE DEF IInv, SkipChunk
<1>1. /\ pos \in Nat /\ Want \in Nat /\ Want' = Want
      /\ pos \in Addr /\ Want \in 1 .. BlockSize
  BY WantFacts, SizeFacts DEF TypeOK, Want, Addr
<1>2. BufferHolds(carry + (pos - pos)) /\ SkippedBelow(pos)
  BY <1>1 DEF Progress, TypeOK
<1>3. /\ BufferHolds(carry + (pos - pos) + Want)'
      /\ SkippedBelow(pos + Want)'
      /\ buf' \in [Buffer -> Byte]
      /\ \A x \in Addr : x < pos => Image'[x] = Image[x]
  BY <1>1, <1>2, WipeExtends
<1>4. BufferHolds(carry + Want)' /\ SkippedBelow(pos + Want)'
  BY <1>1, <1>3 DEF TypeOK
<1>5. errors' \subseteq Reports /\ LossIsLocal'
  BY <1>1, ReportOK
<1>6. TypeOK'
  BY <1>3, <1>5 DEF TypeOK
<1>7. Progress'
  BY <1>1, <1>4 DEF Progress
<1>8. FoundExactlyOnce'
  BY <1>3, FoundStays
<1> QED
  BY <1>5, <1>6, <1>7, <1>8 DEF CarryFull

(* A chunk fails, part of it having been read.                             *)
LEMMA StartRetryStep ==
    ASSUME IInv, StartRetry
    PROVE  IInv'
<1> USE DEF IInv, StartRetry
<1>1. /\ pos \in Nat /\ Want \in Nat /\ Want > 0 /\ Want' = Want
      /\ pos + Want <= TotalSize
  BY WantFacts DEF TypeOK, Want
<1>2. BufferHolds(carry + (pos - pos)) /\ SkippedBelow(pos)
  BY <1>1 DEF Progress, TypeOK
<1>3. PICK k \in 0 .. (Want - 1) : buf' = Filled(pos, k)
  OBVIOUS
<1>4. BufferHolds(carry + (pos - pos) + k)' /\ buf' \in [Buffer -> Byte]
  BY <1>1, <1>2, <1>3, FillExtends
<1>5. BufferHolds(carry + (off - pos))'
  BY <1>1, <1>3, <1>4 DEF BufferHolds, TypeOK
<1>6. Skipped' = Skipped /\ Image' = Image
  BY DEF Skipped, Image, Zeroed, Span
<1>7. SkippedBelow(off)'
  BY <1>2, <1>6 DEF SkippedBelow
<1>8. TypeOK'
  BY <1>1, <1>4, SizeFacts DEF TypeOK
<1>9. Progress'
  BY <1>1, <1>5, <1>7 DEF Progress
<1>10. FoundExactlyOnce'
  BY <1>6, FoundStays
<1> QED
  BY <1>8, <1>9, <1>10 DEF CarryFull, LossIsLocal, MayFail, Span

(* The block at off lies in the window, and after it comes another block   *)
(* or the end of the window.                                               *)
LEMMA BlockFacts ==
    ASSUME TypeOK, pc = "retry", Progress
    PROVE  /\ off \in Addr /\ BlockLen \in 1 .. BlockSize
           /\ pos <= off /\ off + BlockLen <= pos + Want
           /\ off + BlockLen <= TotalSize
           /\ BufferHolds(carry + (off - pos)) /\ SkippedBelow(off)
           /\ pos < TotalSize
<1>1. /\ off \in pos .. (pos + Want - 1)
      /\ BufferHolds(carry + (off - pos)) /\ SkippedBelow(off)
  BY DEF Progress
<1>2. /\ TotalSize \in Nat /\ pos \in Nat /\ Want \in Nat /\ pos + Want <= TotalSize
      /\ BlockSize \in Nat \ {0}
  BY WantFacts, SizeFacts DEF TypeOK
<1>3. off \in Nat /\ pos <= off /\ off < pos + Want
  BY <1>1, <1>2
<1>4. BlockLen \in Nat \ {0} /\ BlockLen <= BlockSize /\ off + BlockLen <= pos + Want
  BY <1>2, <1>3 DEF BlockLen, Smaller
<1> QED
  BY <1>1, <1>2, <1>3, <1>4 DEF Addr

(* Where the retry stands after a block.                                   *)
LEMMA AdvanceFacts ==
    ASSUME TypeOK, pc = "retry", Progress, AdvanceBlock, UNCHANGED <<pos, carry>>,
           NEW a \in Nat, NEW n \in Nat, a = off, n = BlockLen,
           BufferHolds(carry + (a - pos) + n)',
           SkippedBelow(a + n)'
    PROVE  /\ Progress'
           /\ off' \in 0 .. TotalSize
           /\ pc' \in {"read", "retry", "match", "done"}
<1>1. /\ off' = a + n /\ Want' = Want /\ Want \in Nat
      /\ off' \in 0 .. TotalSize /\ pos <= off' /\ off' <= pos + Want
      /\ pos \in Nat /\ carry \in Nat /\ pos' = pos /\ carry' = carry
  BY BlockFacts, WantFacts, SizeFacts DEF AdvanceBlock, TypeOK, Want, Addr
<1>2. BufferHolds(carry + (off - pos))' /\ SkippedBelow(off)'
  <2>1. carry' + (off' - pos') = carry' + (a - pos') + n /\ off' = a + n
    BY <1>1
  <2> QED
    BY <2>1 DEF BufferHolds, SkippedBelow
<1>3. ASSUME off' = pos + Want PROVE Progress'
  <2>1. carry' + (off' - pos') = carry' + Want' /\ off' = pos' + Want'
    BY <1>1, <1>3
  <2>2. pc' = "match" /\ pos' < TotalSize
    BY <1>1, <1>3, BlockFacts DEF AdvanceBlock
  <2>3. BufferHolds(carry + Want)' /\ SkippedBelow(pos + Want)'
    BY <1>2, <2>1 DEF BufferHolds, SkippedBelow
  <2> QED
    BY <2>2, <2>3 DEF Progress
<1>4. ASSUME off' # pos + Want PROVE Progress'
  <2>1. pc' = "retry" /\ off' \in pos' .. (pos' + Want' - 1)
    BY <1>1, <1>4 DEF AdvanceBlock
  <2> QED
    BY <1>1, <1>2, <2>1, BlockFacts DEF Progress
<1> QED
  BY <1>1, <1>3, <1>4 DEF AdvanceBlock

(* A block is read when it is tried again.                                 *)
LEMMA RetryBlockStep ==
    ASSUME IInv, RetryBlock
    PROVE  IInv'
<1> USE DEF IInv, RetryBlock
<1>1. PICK a \in Addr : a = off
  BY BlockFacts
<1>2. PICK n \in 1 .. BlockSize : n = BlockLen
  BY BlockFacts
<1>3. /\ a \in Nat /\ n \in Nat /\ pos <= a /\ a + n <= pos + Want
      /\ a + n <= TotalSize
      /\ BufferHolds(carry + (a - pos)) /\ SkippedBelow(a)
      /\ buf' = Filled(a, n)
  BY <1>1, <1>2, BlockFacts, SizeFacts DEF Addr
<1>4. BufferHolds(carry + (a - pos) + n)' /\ buf' \in [Buffer -> Byte]
  BY <1>3, FillExtends
<1>5. Skipped' = Skipped /\ Image' = Image
  BY DEF Skipped, Image, Zeroed, Span
<1>6. SkippedBelow(a + n)'
  BY <1>3, <1>5 DEF SkippedBelow
<1>7. Progress' /\ off' \in 0 .. TotalSize /\ pc' \in {"read", "retry", "match", "done"}
  BY <1>1, <1>2, <1>3, <1>4, <1>6, AdvanceFacts
<1>8. TypeOK'
  BY <1>4, <1>7 DEF TypeOK
<1>9. FoundExactlyOnce'
  BY <1>5, FoundStays
<1>10. CarryFull' /\ LossIsLocal'
  BY DEF CarryFull, LossIsLocal, MayFail, Span
<1> QED
  BY <1>7, <1>8, <1>9, <1>10

(* A block is skipped.                                                     *)
LEMMA SkipBlockStep ==
    ASSUME IInv, SkipBlock
    PROVE  IInv'
<1> USE DEF IInv, SkipBlock
<1>1. PICK a \in Addr : a = off
  BY BlockFacts
<1>2. PICK n \in 1 .. BlockSize : n = BlockLen
  BY BlockFacts
<1>3. /\ a \in Nat /\ n \in Nat /\ pos <= a /\ a + n <= pos + Want
      /\ a + n <= TotalSize
      /\ BufferHolds(carry + (a - pos)) /\ SkippedBelow(a)
      /\ buf' = Wiped(a, n) /\ SkipReport(a, n) /\ MayFail(a, n)
  BY <1>1, <1>2, BlockFacts, SizeFacts DEF Addr
<1>4. /\ BufferHolds(carry + (a - pos) + n)'
      /\ SkippedBelow(a + n)'
      /\ buf' \in [Buffer -> Byte]
      /\ \A x \in Addr : x < a => Image'[x] = Image[x]
  BY <1>3, WipeExtends
<1>5. errors' \subseteq Reports /\ LossIsLocal'
  BY <1>3, ReportOK
<1>6. Progress' /\ off' \in 0 .. TotalSize /\ pc' \in {"read", "retry", "match", "done"}
  BY <1>1, <1>2, <1>3, <1>4, AdvanceFacts
<1>7. TypeOK'
  BY <1>4, <1>5, <1>6 DEF TypeOK
<1>8. \A x \in Addr : x < pos => Image'[x] = Image[x]
  BY <1>3, <1>4 DEF TypeOK, Addr
<1>9. FoundExactlyOnce'
  BY <1>8, FoundStays
<1>10. CarryFull'
  BY DEF CarryFull
<1> QED
  BY <1>5, <1>6, <1>7, <1>9, <1>10

(* The matches of a window are exactly the occurrences that end in the     *)
(* part of the source the window adds.                                     *)
LEMMA WindowMatches ==
    ASSUME IInv, pc = "match", NEW p \in Patterns, NEW a \in Addr
    PROVE  <<p, a>> \in NewMatches <=>
              OccursIn(Image, p, a) /\ pos < a + Len(p.bytes)
                                    /\ a + Len(p.bytes) <= pos + Want
<1>1. PICK l \in 1 .. (Overlap + 1) : l = Len(p.bytes)
  BY PatternFacts DEF Overlap
<1>2. /\ Overlap \in Nat /\ a \in Nat /\ pos \in Nat /\ carry \in Nat
      /\ Want \in Nat /\ carry <= pos /\ pos + Want <= TotalSize
      /\ TotalSize \in Nat /\ (pos = 0 \/ carry = Overlap)
      /\ BufferHolds(carry + Want)
  BY PatternFacts, WantFacts, SizeFacts DEF IInv, TypeOK, CarryFull, Addr, Progress
<1>3. PICK i \in Int : i = a - (pos - carry)
  BY <1>2
<1>4. <<p, a>> \in NewMatches <=> i >= 0 /\ MatchesAt(p, i) /\ pos < a + l
  <2>1. a >= pos - carry <=> i >= 0
    BY <1>2, <1>3
  <2>2. <<p, a>> \in NewMatches <=>
           a >= pos - carry /\ MatchesAt(p, i) /\ IsFresh(p, a)
    BY <1>3 DEF NewMatches
  <2>3. IsFresh(p, a) <=> pos < a + l
    BY <1>1, <1>2 DEF IsFresh
  <2> QED
    BY <2>1, <2>2, <2>3
<1>5. pos < a + l => i >= 0
  BY <1>1, <1>2, <1>3
<1>6. i + l <= WindowLen <=> a + l <= pos + Want
  <2>1. l \in Int /\ i = a - pos + carry
    BY <1>2, <1>3
  <2> QED
    BY <1>2, <2>1 DEF WindowLen
<1>7. ASSUME i >= 0, a + l <= pos + Want
      PROVE  MatchesAt(p, i) <=> OccursIn(Image, p, a)
  <2>1. a + l <= TotalSize
    BY <1>1, <1>2, <1>7
  <2>2. ASSUME NEW j \in 1 .. l
        PROVE  buf[i + j - 1] = Image[a + j - 1]
    <3>1. i + j - 1 \in 0 .. (carry + Want - 1)
      BY <1>1, <1>2, <1>3, <1>7
    <3>2. pos - carry + (i + j - 1) = a + j - 1
      BY <1>2, <1>3
    <3>3. buf[i + j - 1] = Image[pos - carry + (i + j - 1)]
      BY <1>2, <3>1 DEF BufferHolds
    <3> QED
      BY <3>2, <3>3
  <2> QED
    BY <1>1, <1>6, <1>7, <2>1, <2>2 DEF MatchesAt, OccursIn
<1>8. MatchesAt(p, i) => i + l <= WindowLen
  BY <1>1 DEF MatchesAt
<1> QED
  BY <1>1, <1>4, <1>5, <1>6, <1>7, <1>8

(* Matching a window counts each occurrence that ends in it once.          *)
LEMMA WindowCounts ==
    ASSUME IInv, MatchWindow
    PROVE  FoundExactlyOnce'
<1>1. /\ pos \in Nat /\ Want \in Nat /\ pos' = pos + Want
  BY WantFacts DEF IInv, TypeOK, MatchWindow
<1>2. Image' = Image
  BY DEF Skipped, Image, Zeroed, Span, MatchWindow
<1>3. ASSUME NEW p \in Patterns, NEW a \in Addr
      PROVE  found'[<<p, a>>] =
                IF OccursIn(Image, p, a) /\ a + Len(p.bytes) <= pos' THEN 1 ELSE 0
  <2> DEFINE P == OccursIn(Image, p, a)
             M == <<p, a>> \in NewMatches
             before == found[<<p, a>>]
             after == found'[<<p, a>>]
  <2>1. after = IF M THEN before + 1 ELSE before
    BY DEF MatchWindow
  <2>2. PICK e \in Nat : e = a + Len(p.bytes)
    BY PatternFacts DEF Addr
  <2>3. before = IF P /\ e <= pos THEN 1 ELSE 0
    BY <2>2 DEF IInv, FoundExactlyOnce
  <2>4. M <=> P /\ pos < e /\ e <= pos + Want
    BY <2>2, WindowMatches DEF MatchWindow
  <2> HIDE DEF P, M, before, after
  <2>5. after = IF P /\ e <= pos + Want THEN 1 ELSE 0
    <3>1. CASE ~ P
      BY <2>1, <2>3, <2>4, <3>1
    <3>2. CASE P /\ e <= pos
      BY <1>1, <2>1, <2>3, <2>4, <3>2
    <3>3. CASE P /\ pos < e
      BY <1>1, <2>1, <2>3, <2>4, <3>3
    <3> QED
      BY <1>1, <3>1, <3>2, <3>3
  <2> QED
    BY <1>1, <2>2, <2>5 DEF P, after
<1> QED
  BY <1>2, <1>3 DEF FoundExactlyOnce

(* The tail that is kept is the image just before the next read.           *)
LEMMA TailHolds ==
    ASSUME IInv, MatchWindow
    PROVE  BufferHolds(carry)'
<1>1. /\ pos \in Nat /\ Want \in Nat /\ carry \in Nat /\ pos' = pos + Want
      /\ BufferHolds(carry + Want) /\ Image' = Image
  BY WantFacts DEF IInv, TypeOK, Progress, MatchWindow, Skipped, Image, Zeroed, Span
<1>2. PICK c \in Nat : c = carry'
  BY <1>1, PatternFacts DEF MatchWindow, KeptTail
<1>3. c <= carry + Want /\ c <= Overlap
  BY <1>1, <1>2, PatternFacts DEF MatchWindow, KeptTail, WindowLen
<1>4. ASSUME NEW j \in 0 .. (c - 1)
      PROVE  buf'[j] = Image[pos' - c + j]
  <2>1. j \in Nat /\ j < c
    OBVIOUS
  <2>2. carry + Want - c + j \in 0 .. (carry + Want - 1)
    BY <1>1, <1>3, <2>1
  <2>3. PICK i \in 0 .. (carry + Want - 1) : i = carry + Want - c + j
    BY <2>2
  <2>4. j \in Buffer
    BY <1>3, <2>1, PatternFacts, SizeFacts DEF Buffer
  <2>5. buf'[j] = buf[i]
    BY <1>1, <1>2, <2>1, <2>3, <2>4 DEF MatchWindow, WindowLen
  <2>6. buf[i] = Image[pos - carry + i]
    BY <1>1 DEF BufferHolds
  <2>7. pos - carry + i = pos' - c + j
    BY <1>1, <2>3
  <2> QED
    BY <2>5, <2>6, <2>7
<1> QED
  BY <1>1, <1>2, <1>4 DEF BufferHolds

(* A window is matched and its tail kept.                                  *)
LEMMA MatchWindowStep ==
    ASSUME IInv, MatchWindow
    PROVE  IInv'
<1> USE DEF IInv, MatchWindow
<1>1. /\ pos \in Nat /\ Want \in Nat /\ carry \in Nat /\ Overlap \in Nat
      /\ pos + Want <= TotalSize /\ pos' = pos + Want /\ TotalSize \in Nat
      /\ carry <= pos
      /\ Want <= ChunkSize /\ carry <= Overlap /\ ChunkSize \in Nat
  BY WantFacts, PatternFacts, SizeFacts DEF TypeOK, CarryFull
<1>2. Skipped' = Skipped /\ Image' = Image
  BY DEF Skipped, Image, Zeroed, Span
<1>3. carry' \in 0 .. Overlap /\ carry' <= WindowLen /\ WindowLen = carry + Want
  BY <1>1 DEF KeptTail, WindowLen
<1>4. CarryFull'
  <2>1. pos' < TotalSize => WindowLen >= Overlap
    BY <1>1, <1>3, WantFacts, SizeFacts
  <2> QED
    BY <1>1, <1>3, <2>1 DEF CarryFull, KeptTail
<1>5. ASSUME NEW j \in Buffer
      PROVE  buf'[j] = IF j < carry' THEN buf[WindowLen - carry' + j] ELSE buf[j]
  OBVIOUS
<1>6. BufferHolds(carry)'
  BY TailHolds
<1>7. SkippedBelow(pos)'
  BY <1>1, <1>2 DEF Progress, SkippedBelow
<1>8. Progress'
  BY <1>6, <1>7 DEF Progress
<1>9. buf' \in [Buffer -> Byte]
  <2>1. ASSUME NEW j \in Buffer, j < carry'
        PROVE  WindowLen - carry' + j \in Buffer
    BY <1>1, <1>3, <2>1 DEF Buffer
  <2> QED
    BY <1>5, <2>1 DEF TypeOK
<1>10. found' \in [Patterns \X Addr -> Nat]
  BY DEF TypeOK
<1>11. TypeOK'
  BY <1>1, <1>3, <1>9, <1>10 DEF TypeOK, ScannedInWindow
<1>12. FoundExactlyOnce'
  BY WindowCounts
<1>13. LossIsLocal'
  BY DEF LossIsLocal, MayFail, Span
<1> QED
  BY <1>4, <1>8, <1>11, <1>12, <1>13

(* The scan returns.                                                       *)
LEMMA ReturnStep ==
    ASSUME IInv, Return
    PROVE  IInv'
<1> USE DEF IInv, Return
<1>1. TypeOK' /\ CarryFull'
  BY DEF TypeOK, CarryFull
<1>2. pos = TotalSize
  BY SizeFacts DEF TypeOK
<1>3. Progress'
  BY <1>2 DEF Progress
<1>4. FoundExactlyOnce' /\ LossIsLocal'
  BY DEF FoundExactlyOnce, LossIsLocal, Image, Skipped, MayFail, Span
<1> QED
  BY <1>1, <1>3, <1>4
-----------------------------------------------------------------------------
(* The theorems.                                                           *)

(* Nothing is read or found at first.                                      *)
LEMMA InitHolds ==
    ASSUME Init
    PROVE  IInv
<1> USE DEF Init
<1>1. TypeOK
  BY PatternFacts, SizeFacts, BytesAssumption DEF TypeOK, NoneFound
<1>2. Skipped = {}
  BY DEF Skipped
<1>3. FoundExactlyOnce
  <2>1. ASSUME NEW p \in Patterns, NEW a \in Addr
        PROVE  ~ (a + Len(p.bytes) <= pos)
    BY PatternFacts DEF Addr
  <2>2. ASSUME NEW p \in Patterns, NEW a \in Addr
        PROVE  found[<<p, a>>] = 0
    BY DEF NoneFound
  <2> QED
    BY <2>1, <2>2 DEF FoundExactlyOnce
<1>4. CarryFull /\ Progress
  BY <1>2 DEF CarryFull, Progress, BufferHolds, SkippedBelow
<1>5. LossIsLocal
  BY DEF LossIsLocal
<1> QED
  BY <1>1, <1>3, <1>4, <1>5 DEF IInv

LEMMA StepHolds ==
    ASSUME IInv, [Next]_vars
    PROVE  IInv'
<1>1. CASE UNCHANGED vars
  <2>1. Skipped' = Skipped /\ Image' = Image /\ Want' = Want
    BY <1>1 DEF vars, Skipped, Image, Zeroed, Span, Want
  <2>2. TypeOK' /\ CarryFull' /\ LossIsLocal'
    BY <1>1 DEF vars, IInv, TypeOK, CarryFull, LossIsLocal, MayFail, Span
  <2>3. Progress'
    BY <1>1, <2>1 DEF vars, IInv, Progress, BufferHolds, SkippedBelow
  <2>4. FoundExactlyOnce'
    BY <1>1, <2>1 DEF vars, IInv, FoundExactlyOnce
  <2> QED
    BY <2>2, <2>3, <2>4 DEF IInv
<1>2. CASE Next
  BY <1>2, ReadChunkStep, SkipChunkStep, StartRetryStep, RetryBlockStep,
     SkipBlockStep, MatchWindowStep, ReturnStep DEF Next
<1> QED
  BY <1>1, <1>2

(* The invariant the others follow from.                                   *)
THEOREM InductiveInvariant == Spec => []IInv
BY InitHolds, StepHolds, PTL DEF Spec

(* For every source, table, chunk and block size and every pattern of read *)
(* failures, the position, the carry and the buffer stay in bounds, and    *)
(* bytes_scanned counts what was scanned.                                  *)
THEOREM ScannerTypeOK == Spec => []TypeOK
<1>1. IInv => TypeOK
  BY DEF IInv
<1> QED
  BY <1>1, InductiveInvariant, PTL

(* For every source, table, chunk and block size and every pattern of read *)
(* failures, each occurrence is recorded exactly once, and nothing else.   *)
THEOREM ScannerFoundExactlyOnce == Spec => []FoundExactlyOnce
<1>1. IInv => FoundExactlyOnce
  BY DEF IInv
<1> QED
  BY <1>1, InductiveInvariant, PTL

(* However the reads fail, what is given up is at most a retry block, and  *)
(* only a block that has an unreliable address.                            *)
THEOREM ScannerLossIsLocal == Spec => []LossIsLocal
<1>1. IInv => LossIsLocal
  BY DEF IInv
<1> QED
  BY <1>1, InductiveInvariant, PTL

(* Both specifications speak of the same addresses, patterns and images.   *)
LEMMA SameTable ==
    /\ Whole!Addr = Addr
    /\ Whole!Patterns = Patterns
    /\ \A f, p, a : Whole!OccursIn(f, p, a) <=> OccursIn(f, p, a)
    /\ \A f, l : Whole!Zeroed(f, l) = Zeroed(f, l)
BY DEF Whole!Addr, Addr, Whole!Patterns, Patterns, Whole!NoFooter, NoFooter,
   Whole!OccursIn, OccursIn, Whole!Zeroed, Zeroed

LEMMA InitRefines ==
    ASSUME Init
    PROVE  Whole!Init
<1>1. pc # "done" /\ disk \in [Addr -> Byte]
  BY DEF Init
<1> QED
  BY <1>1, SameTable DEF Whole!Init, NoneFound, Whole!NoneFound

(* Before the scan returns nothing of it can be seen.                      *)
LEMMA HiddenStep ==
    ASSUME pc # "done", pc' # "done", disk' = disk
    PROVE  UNCHANGED Whole!svars
BY DEF Whole!svars

(* When it returns, it has done one search of the whole source.            *)
LEMMA ReturnRefines ==
    ASSUME IInv, Return
    PROVE  Whole!Search
<1>1. pc # "done" /\ pc' = "done" /\ UNCHANGED <<disk, found, errors>>
  BY DEF Return
<1>2. pos = TotalSize /\ TotalSize \in Nat
  BY SizeFacts DEF IInv, TypeOK, Return
<1>3. Skipped' = Skipped /\ Skipped \in SUBSET Addr
  BY <1>1, <1>2 DEF IInv, Progress, Return, SkippedBelow, Addr, Skipped, Span
<1>4. found = [pa \in Patterns \X Addr |->
                 IF OccursIn(Zeroed(disk, Skipped), pa[1], pa[2]) THEN 1 ELSE 0]
  <2>1. ASSUME NEW p \in Patterns, NEW a \in Addr
        PROVE  found[<<p, a>>] = IF OccursIn(Image, p, a) THEN 1 ELSE 0
    BY <1>2 DEF IInv, FoundExactlyOnce, OccursIn
  <2> QED
    BY <2>1 DEF IInv, TypeOK, Image
<1>5. found = [pa \in Whole!Patterns \X Whole!Addr |->
                 IF Whole!OccursIn(Whole!Zeroed(disk, Skipped), pa[1], pa[2])
                 THEN 1 ELSE 0]
  BY <1>4, SameTable
<1> QED
  BY <1>1, <1>3, <1>5, SameTable DEF Whole!Search

(* For every instance, the scan implements the one-shot search: chunking,  *)
(* carrying and retrying do not show in what it returns.                   *)
THEOREM ScannerImplementsSearch == Spec => ImplementsSearch
<1>1. ASSUME IInv, [Next]_vars
      PROVE  [Whole!Search]_Whole!svars
  <2>1. CASE Return
    BY <1>1, <2>1, ReturnRefines
  <2>2. CASE UNCHANGED vars
    BY <2>2 DEF vars, Whole!svars, Skipped, Span
  <2>3. CASE Next /\ ~ Return
    <3>1. pc # "done" /\ pc' # "done" /\ disk' = disk
      BY <2>3 DEF Next, ReadChunk, SkipChunk, StartRetry, RetryBlock, SkipBlock,
         MatchWindow, AdvanceBlock
    <3> QED
      BY <3>1, HiddenStep
  <2> QED
    BY <1>1, <2>1, <2>2, <2>3
<1> QED
  BY <1>1, InitRefines, InductiveInvariant, PTL DEF Spec, ImplementsSearch, Whole!Spec
=============================================================================
