-------------------------- MODULE SignatureSearch ---------------------------
(***************************************************************************)
(* What a scan promises its caller, with no chunks, windows or carries:    *)
(* one look at the whole source.  Some bytes may be unreadable; they count *)
(* as zero.  Every pattern that occurs in what is left is listed exactly   *)
(* once, and nothing else is listed.                                       *)
(***************************************************************************)
EXTENDS Patterns

VARIABLES
    disk,    \* the bytes of the source
    lost,    \* addresses the search had to do without
    found,   \* found[p, a]: how often p is listed at address a
    done     \* the search has returned

svars == <<disk, lost, found, done>>

NoneFound == [pa \in Patterns \X Addr |-> 0]

Init ==
    /\ disk \in [Addr -> Byte]
    /\ lost = {}
    /\ found = NoneFound
    /\ done = FALSE

Search ==
    /\ ~ done
    /\ done' = TRUE
    /\ \E l \in SUBSET Addr :
          /\ lost' = l
          /\ found' = [pa \in Patterns \X Addr |->
                          IF OccursIn(Zeroed(disk, l), pa[1], pa[2]) THEN 1 ELSE 0]
    /\ UNCHANGED disk

Spec == Init /\ [][Search]_svars
=============================================================================
