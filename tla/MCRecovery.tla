----------------------------- MODULE MCRecovery -----------------------------
(* Instance of Recovery for TLC: three plans of two types, the first of    *)
(* two chunks, so that it can fail half way.                               *)
EXTENDS Recovery

MCPlanLists == {<<[type |-> "jpg", size |-> 2],
                  [type |-> "jpg", size |-> 1],
                  [type |-> "pdf", size |-> 1]>>}
ShortPlanLists == {<<[type |-> "jpg", size |-> 2], [type |-> "jpg", size |-> 1]>>}

(* A file recovered_0001.jpg of unknown origin.                            *)
MCEarlier == {<<"jpg", 1>>}
=============================================================================
