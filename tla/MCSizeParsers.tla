--------------------------- MODULE MCSizeParsers ----------------------------
(* Instance of SizeParsers for TLC.  Of the four cell values, read as      *)
(* 64-bit sizes, one is shorter than the header it is in and one leads     *)
(* three cells back when it is added to an address.                        *)
EXTENDS SizeParsers, TLC

MCTable == (0 :> 0) @@ (1 :> 0) @@ (2 :> 0) @@ (3 :> 1)
MCLargeSize == (0 :> 0) @@ (1 :> 2) @@ (2 :> 4) @@ (3 :> 13)
MCPageSize == (0 :> 0) @@ (1 :> 4) @@ (2 :> 2) @@ (3 :> 0)
MCFlakySets == {{}, {4}}
=============================================================================
