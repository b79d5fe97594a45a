------------------------------ MODULE Patterns ------------------------------
(***************************************************************************)
(* What the scanner searches for and where: the source as an array of      *)
(* bytes, the pattern table built from the active signatures, and what it  *)
(* means for a pattern to occur in an image.  Shared by the streaming      *)
(* scanner (Scanner) and by the abstract search it implements              *)
(* (SignatureSearch).                                                      *)
(***************************************************************************)
EXTENDS Integers, Sequences, FiniteSets

CONSTANTS
    Byte,        \* the byte values
    Zero,        \* the byte 0
    TotalSize,   \* size of the source in bytes
    Active,      \* indices of the active signatures
    Header,      \* Header[s]: header bytes of signature s
    Footer       \* Footer[s]: footer bytes of s, or NoFooter

NoFooter == << >>

Addr == 0 .. (TotalSize - 1)

(* The pattern table: a header entry for every active signature and a      *)
(* footer entry for those that have one.                                   *)
Patterns ==
    {[bytes |-> Header[s], sig |-> s, is_footer |-> FALSE] : s \in Active}
    \cup
    {[bytes |-> Footer[s], sig |-> s, is_footer |-> TRUE] :
        s \in {t \in Active : Footer[t] # NoFooter}}

ASSUME BytesAssumption == Zero \in Byte

ASSUME SizeAssumption == TotalSize \in Nat

(* A type filter always leaves at least one signature active, headers are  *)
(* never empty (a test of signatures.rs), and the table is finite, so one  *)
(* of its patterns is longest.                                             *)
ASSUME TableAssumption ==
    /\ Active # {}
    /\ \A s \in Active : Header[s] \in Seq(Byte) \ {<< >>}
    /\ \A s \in Active : Footer[s] \in Seq(Byte)
    /\ \E p \in Patterns : \A q \in Patterns : Len(q.bytes) <= Len(p.bytes)

MaxPatLen == Len((CHOOSE p \in Patterns :
                    \A q \in Patterns : Len(q.bytes) <= Len(p.bytes)).bytes)

(* Pattern p occurs at address a of image img, entirely inside the source. *)
OccursIn(img, p, a) ==
    /\ a + Len(p.bytes) <= TotalSize
    /\ \A j \in 1 .. Len(p.bytes) : img[a + j - 1] = p.bytes[j]

(* The image with the bytes of the set lost replaced by zero.              *)
Zeroed(img, lost) == [a \in Addr |-> IF a \in lost THEN Zero ELSE img[a]]
=============================================================================
