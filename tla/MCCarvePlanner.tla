-------------------------- MODULE MCCarvePlanner ---------------------------
(* Instances of CarvePlanner for TLC: a format ended by a footer (png),    *)
(* one ended by an end record with a comment and resolved to one of two    *)
(* types (zip), one whose parser must succeed and whose pattern is not at  *)
(* its start (ftyp), one whose parser may fail (sqlite).                   *)
EXTENDS CarvePlanner, TLC

Png == [names |-> {"png"}, shift |-> 0, footer |-> 1, has_comment |-> FALSE,
        min_size |-> 3, max_size |-> 4,
        validated |-> FALSE, parser |-> FALSE, strict |-> FALSE]
Zip == [names |-> {"zip", "docx"}, shift |-> 0, footer |-> 1, has_comment |-> TRUE,
        min_size |-> 1, max_size |-> 4,
        validated |-> TRUE, parser |-> FALSE, strict |-> FALSE]
Ftyp == [names |-> {"mp4", "mov"}, shift |-> 1, footer |-> 0, has_comment |-> FALSE,
         min_size |-> 2, max_size |-> 5,
         validated |-> TRUE, parser |-> TRUE, strict |-> TRUE]
Sqlite == [names |-> {"sqlite"}, shift |-> 0, footer |-> 0, has_comment |-> FALSE,
           min_size |-> 1, max_size |-> 6,
           validated |-> FALSE, parser |-> TRUE, strict |-> FALSE]

MCDB == ("png" :> Png) @@ ("zip" :> Zip) @@ ("ftyp" :> Ftyp) @@ ("sqlite" :> Sqlite)
ZipDB == "zip" :> Zip
=============================================================================
