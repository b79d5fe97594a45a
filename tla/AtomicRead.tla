----------------------------- MODULE AtomicRead -----------------------------
(***************************************************************************)
(* What read_exact_at promises its callers: one answer, which is all the   *)
(* bytes asked for or an error, and an error only if they reach beyond the *)
(* end of the source or to a place that cannot be read reliably.           *)
(***************************************************************************)
EXTENDS Integers, Sequences

CONSTANTS Byte, Size

VARIABLES
    source,    \* the bytes of the source
    flaky,     \* addresses at which a read may fail
    req,       \* the bytes asked for: address and number
    status,    \* "idle", "reading", "ok" or "err"
    answer     \* the bytes read, once status is "ok"

avars == <<source, flaky, req, status, answer>>

Init ==
    /\ source \in [0 .. (Size - 1) -> Byte]
    /\ flaky \subseteq 0 .. (Size - 1)
    /\ req = [addr |-> 0, len |-> 0]
    /\ status = "idle"
    /\ answer = << >>

Ask ==
    /\ status = "idle"
    /\ req' \in [addr : Nat, len : Nat]
    /\ status' = "reading"
    /\ UNCHANGED <<source, flaky, answer>>

Answer ==
    /\ status = "reading"
    /\ req.addr + req.len <= Size
    /\ status' = "ok"
    /\ answer' = [j \in 1 .. req.len |-> source[req.addr + j - 1]]
    /\ UNCHANGED <<source, flaky, req>>

Refuse ==
    /\ status = "reading"
    /\ \/ req.addr + req.len > Size
       \/ flaky \cap (req.addr .. (req.addr + req.len - 1)) # {}
    /\ status' = "err"
    /\ UNCHANGED <<source, flaky, req, answer>>

(* The caller has used the answer.                                         *)
Take ==
    /\ status \in {"ok", "err"}
    /\ status' = "idle"
    /\ answer' = << >>
    /\ UNCHANGED <<source, flaky, req>>

Spec == Init /\ [][Ask \/ Answer \/ Refuse \/ Take]_avars
=============================================================================
