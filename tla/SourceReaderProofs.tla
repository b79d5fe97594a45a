------------------------- MODULE SourceReaderProofs -------------------------
(***************************************************************************)
(* The read loop of src/src/disk.rs is an atomic read, for every source,   *)
(* every request and every way the operating system cuts the answer up.    *)
(***************************************************************************)
EXTENDS SourceReader, TLAPS

(* The bytes of the source from where the request begins.                  *)
FilledSoFar ==
    /\ Len(buf) > 0 => req.addr + Len(buf) <= Size
    /\ \A j \in 1 .. Len(buf) : buf[j] = source[req.addr + j - 1]

(* The inductive invariant: what is in the buffer is the front of what was *)
(* asked for, all of it exactly once the loop has returned Ok.             *)
RInv ==
    /\ source \in [Addr -> Byte] /\ flaky \subseteq Addr
    /\ req \in [addr : Nat, len : Nat]
    /\ buf \in Seq(Byte)
    /\ status \in {"idle", "reading", "ok", "err"}
    /\ status = "idle" => buf = << >>
    /\ status = "reading" => Len(buf) < req.len
    /\ status = "ok" => Len(buf) = req.len
    /\ FilledSoFar

-----------------------------------------------------------------------------
(* Every piece continues the buffer where it ended.                        *)
LEMMA PieceContinues ==
    ASSUME RInv, status = "reading",
           NEW n \in 1 .. Left, NextAddr + n <= Size,
           buf' = buf \o [j \in 1 .. n |-> source[NextAddr + j - 1]],
           UNCHANGED <<source, req>>
    PROVE  /\ buf' \in Seq(Byte)
           /\ Len(buf') = Len(buf) + n
           /\ FilledSoFar'
<1> DEFINE piece == [j \in 1 .. n |-> source[NextAddr + j - 1]]
<1>1. /\ req.addr \in Nat /\ req.len \in Nat /\ Len(buf) \in Nat
      /\ n \in Nat /\ Size \in Nat
  BY ReaderAssumption DEF RInv, Left
<1>2. \A j \in 1 .. n : NextAddr + j - 1 \in Addr
  BY <1>1 DEF NextAddr, Addr
<1>3. piece \in Seq(Byte) /\ Len(piece) = n
  BY <1>1, <1>2 DEF RInv
<1>4. buf' \in Seq(Byte) /\ Len(buf') = Len(buf) + n
  BY <1>1, <1>3 DEF RInv
<1>5. ASSUME NEW j \in 1 .. Len(buf')
      PROVE  buf'[j] = source[req.addr + j - 1]
  <2>1. CASE j \in 1 .. Len(buf)
    <3>1. buf'[j] = buf[j]
      BY <1>1, <1>3, <2>1 DEF RInv
    <3>2. QED
      BY <3>1, <2>1 DEF RInv, FilledSoFar
  <2>2. CASE j \notin 1 .. Len(buf)
    <3>1. j - Len(buf) \in 1 .. n
      BY <1>1, <1>4, <2>2
    <3>2. buf'[j] = piece[j - Len(buf)]
      BY <1>1, <1>3, <1>4, <2>2, <3>1 DEF RInv
    <3>3. NextAddr + (j - Len(buf)) - 1 = req.addr + j - 1
      BY <1>1 DEF NextAddr
    <3>4. QED
      BY <3>1, <3>2, <3>3
  <2>3. QED
    BY <2>1, <2>2
<1>6. req.addr + Len(buf') <= Size
  BY <1>1, <1>4 DEF NextAddr
<1>7. QED
  BY <1>4, <1>5, <1>6 DEF FilledSoFar

LEMMA ReaderInitRInv == ReaderInit => RInv
BY ReaderAssumption DEF ReaderInit, RInv, FilledSoFar

LEMMA ReaderStepRInv == RInv /\ [ReaderNext]_rvars => RInv'
<1> SUFFICES ASSUME RInv, [ReaderNext]_rvars PROVE RInv'
  OBVIOUS
<1>0. /\ req.addr \in Nat /\ req.len \in Nat /\ Len(buf) \in Nat
  BY DEF RInv
<1>1. ASSUME NEW a \in Nat, NEW n \in Nat \ {0}, Request(a, n) PROVE RInv'
  BY <1>1 DEF Request, RInv, FilledSoFar
<1>2. CASE ReadSome
  <2>1. PICK n \in 1 .. Left :
          /\ NextAddr + n <= Size
          /\ buf' = buf \o [j \in 1 .. n |-> source[NextAddr + j - 1]]
          /\ status' = IF n = Left THEN "ok" ELSE "reading"
    BY <1>2 DEF ReadSome
  <2>2. status = "reading" /\ UNCHANGED <<source, flaky, req>>
    BY <1>2 DEF ReadSome
  <2>3. /\ buf' \in Seq(Byte)
        /\ Len(buf') = Len(buf) + n
        /\ FilledSoFar'
    BY <2>1, <2>2, PieceContinues
  <2>4. n \in Nat /\ n <= req.len - Len(buf) /\ (n = Left <=> n = req.len - Len(buf))
    BY <1>0, <2>1 DEF Left
  <2>5. /\ status' = "reading" => Len(buf') < req'.len
        /\ status' = "ok" => Len(buf') = req'.len
        /\ status' \in {"ok", "reading"}
    BY <1>0, <2>1, <2>2, <2>3, <2>4
  <2>6. QED
    BY <2>2, <2>3, <2>5 DEF RInv
<1>3. CASE ReadNothing
  BY <1>3 DEF ReadNothing, RInv, FilledSoFar
<1>4. CASE ReadFails
  BY <1>4 DEF ReadFails, RInv, FilledSoFar
<1>5. CASE Release
  BY <1>5 DEF Release, RInv, FilledSoFar
<1>6. CASE UNCHANGED rvars
  BY <1>6 DEF rvars, RInv, FilledSoFar
<1>7. QED
  BY <1>1, <1>2, <1>3, <1>4, <1>5, <1>6 DEF ReaderNext, ReadStep

LEMMA ReaderRInv == ReaderSpec => []RInv
BY ReaderInitRInv, ReaderStepRInv, PTL DEF ReaderSpec

-----------------------------------------------------------------------------
LEMMA ReaderInitMaps == ReaderInit => Exact!Init
BY ReaderAssumption DEF ReaderInit, Exact!Init, Addr

LEMMA ReaderStepMaps ==
    RInv /\ [ReaderNext]_rvars =>
        [Exact!Ask \/ Exact!Answer \/ Exact!Refuse \/ Exact!Take]_(Exact!avars)
<1> DEFINE ENext == Exact!Ask \/ Exact!Answer \/ Exact!Refuse \/ Exact!Take
<1> SUFFICES ASSUME RInv, [ReaderNext]_rvars PROVE [ENext]_(Exact!avars)
  OBVIOUS
<1>0. /\ req.addr \in Nat /\ req.len \in Nat /\ Len(buf) \in Nat /\ Size \in Nat
  BY ReaderAssumption DEF RInv
<1>1. ASSUME NEW a \in Nat, NEW n \in Nat \ {0}, Request(a, n) PROVE Exact!Ask
  BY <1>1 DEF Request, Exact!Ask
<1>2. CASE ReadSome
  <2>1. PICK n \in 1 .. Left :
          /\ NextAddr + n <= Size
          /\ buf' = buf \o [j \in 1 .. n |-> source[NextAddr + j - 1]]
          /\ status' = IF n = Left THEN "ok" ELSE "reading"
    BY <1>2 DEF ReadSome
  <2>2. status = "reading" /\ UNCHANGED <<source, flaky, req>>
    BY <1>2 DEF ReadSome
  <2>3. CASE n = Left
    <3>1. buf' \in Seq(Byte) /\ Len(buf') = Len(buf) + n /\ FilledSoFar'
      BY <2>1, <2>2, PieceContinues
    <3>2. Len(buf') = req.len
      BY <1>0, <2>3, <3>1 DEF Left
    <3>3. req.addr + req.len <= Size
      BY <1>0, <2>1, <2>3 DEF Left, NextAddr
    <3>4. \A j \in 1 .. req.len : buf'[j] = source[req.addr + j - 1]
      BY <2>2, <3>1, <3>2 DEF FilledSoFar
    <3>5. buf' = [j \in 1 .. req.len |-> source[req.addr + j - 1]]
      <4>1. buf' = [j \in 1 .. req.len |-> buf'[j]]
        BY <3>1, <3>2
      <4>2. QED
        BY <3>4, <4>1
    <3>6. Exact!Answer
      BY <2>1, <2>2, <2>3, <3>3, <3>5 DEF Exact!Answer
    <3>7. QED
      BY <3>6
  <2>4. CASE n # Left
    BY <2>1, <2>2, <2>4 DEF Exact!avars
  <2>5. QED
    BY <2>3, <2>4
<1>3. CASE ReadNothing
  <2>1. req.addr + req.len > Size
    BY <1>0, <1>3 DEF ReadNothing, RInv, NextAddr
  <2>2. QED
    BY <1>3, <2>1 DEF ReadNothing, Exact!Refuse
<1>4. CASE ReadFails
  <2>1. NextAddr .. (NextAddr + Left - 1) \subseteq req.addr .. (req.addr + req.len - 1)
    BY <1>0 DEF NextAddr, Left
  <2>2. flaky \cap (req.addr .. (req.addr + req.len - 1)) # {}
    BY <1>4, <2>1 DEF ReadFails
  <2>3. QED
    BY <1>4, <2>2 DEF ReadFails, Exact!Refuse
<1>5. CASE status \in {"ok", "err"} /\ Release
  BY <1>5 DEF Release, Exact!Take
<1>6. CASE UNCHANGED rvars
  BY <1>6 DEF rvars, Exact!avars
<1>7. QED
  BY <1>1, <1>2, <1>3, <1>4, <1>5, <1>6 DEF ReaderNext, ReadStep

(* The read loop implements one atomic read: the caller gets all the bytes *)
(* at the address it asked for, or an error because they reach beyond the  *)
(* end or to a place that cannot be read reliably.                         *)
THEOREM ReaderReadsAtomically == ReaderSpec => ReadsAtomically
BY ReaderRInv, ReaderInitMaps, ReaderStepMaps, PTL
   DEF ReaderSpec, ReadsAtomically, Exact!Spec
=============================================================================
