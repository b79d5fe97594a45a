---------------------------- MODULE MCSafetyGate ----------------------------
(* Instance of SafetyGate for TLC: two volumes of one disk, of which one   *)
(* is in an APFS container and has a number of its own, and a second disk; *)
(* when devices are exchanged, the disks may swap their numbers.           *)
EXTENDS SafetyGate, TLC

MCDisk == ("a" :> 1) @@ ("b" :> 1) @@ ("c" :> 2)
MCNumberings == {("a" :> 0) @@ ("b" :> 1) @@ ("c" :> 4),
                 ("a" :> 4) @@ ("b" :> 1) @@ ("c" :> 0)}
=============================================================================
