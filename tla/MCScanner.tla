----------------------------- MODULE MCScanner ------------------------------
(* Instance of Scanner for TLC: two byte values; signature 1 has a header  *)
(* that can overlap itself and a footer, signature 2 a header that ends in *)
(* a zero byte, as SQLite, TIFF and RAR do.  No footer of the database     *)
(* holds a zero byte: where that matters signature 1 has PlainFooter.      *)
EXTENDS Scanner, TLC

MCHeader == (1 :> <<1, 1>>) @@ (2 :> <<1, 1, 0>>)
MCFooter == (1 :> <<0, 1>>) @@ (2 :> << >>)
PlainFooter == (1 :> <<1, 1, 1>>) @@ (2 :> << >>)
=============================================================================
