---------------------------- MODULE SourceReader ----------------------------
(***************************************************************************)
(* read_exact_at of src/src/disk.rs: positioned reads of the source are    *)
(* repeated until the buffer is full.  A step is one read_at: it may       *)
(* return fewer bytes than asked for, none at the end of the source, or    *)
(* fail.  A read that is interrupted is repeated and changes nothing.      *)
(***************************************************************************)
EXTENDS Integers, Sequences

CONSTANTS
    Byte,        \* the byte values
    Size,        \* size of the source
    FlakySets    \* the sets of addresses at which reads may fail

VARIABLES
    source,      \* the bytes of the source
    flaky,       \* addresses at which a read may fail
    req,         \* what the caller asked for: address and number of bytes
    status,      \* "idle", "reading", "ok" or "err"
    buf          \* the bytes read so far

rvars == <<source, flaky, req, status, buf>>

Addr == 0 .. (Size - 1)

ASSUME ReaderAssumption ==
    /\ Size \in Nat
    /\ FlakySets \subseteq SUBSET Addr

ReaderInit ==
    /\ source \in [Addr -> Byte]
    /\ flaky \in FlakySets
    /\ req = [addr |-> 0, len |-> 0]
    /\ status = "idle"
    /\ buf = << >>

(* The caller asks for n bytes at address a.                               *)
Request(a, n) ==
    /\ status = "idle"
    /\ req' = [addr |-> a, len |-> n]
    /\ status' = "reading"
    /\ UNCHANGED <<source, flaky, buf>>

(* Slip: the loop reads at the same address again after a short read.      *)
NextAddrStuck == req.addr

(* Where the next read_at begins and how many bytes it asks for.           *)
NextAddr == req.addr + Len(buf)
Left == req.len - Len(buf)

ReadSome ==
    /\ status = "reading"
    /\ \E n \in 1 .. Left :
          /\ NextAddr + n <= Size
          /\ buf' = buf \o [j \in 1 .. n |-> source[NextAddr + j - 1]]
          /\ status' = IF n = Left THEN "ok" ELSE "reading"
    /\ UNCHANGED <<source, flaky, req>>

(* Ok(0): the end of the source.                                           *)
ReadNothing ==
    /\ status = "reading"
    /\ NextAddr >= Size
    /\ status' = "err"
    /\ UNCHANGED <<source, flaky, req, buf>>

ReadFails ==
    /\ status = "reading"
    /\ flaky \cap (NextAddr .. (NextAddr + Left - 1)) # {}
    /\ status' = "err"
    /\ UNCHANGED <<source, flaky, req, buf>>

ReadStep == ReadSome \/ ReadNothing \/ ReadFails

(* The caller goes on with the result.                                     *)
Release ==
    /\ status' = "idle"
    /\ buf' = << >>
    /\ UNCHANGED <<source, flaky, req>>

(* The reader by itself: its callers ask for at least one byte.            *)
ReaderNext ==
    \/ \E a \in Nat, n \in Nat \ {0} : Request(a, n)
    \/ ReadStep
    \/ status \in {"ok", "err"} /\ Release

ReaderSpec == ReaderInit /\ [][ReaderNext]_rvars
-----------------------------------------------------------------------------
(* Short reads and retries cannot be seen by the caller: it gets all the   *)
(* bytes at the address it asked for or an error with a cause.             *)
Exact == INSTANCE AtomicRead WITH answer <- IF status = "ok" THEN buf ELSE << >>
ReadsAtomically == Exact!Spec
=============================================================================
