--------------------------- MODULE MC_OutputBuffer ---------------------------
(* Model values for OutputBuffer: a three-byte ring so that both the      *)
(* wrap-around and the full buffer are reached within a few calls, and a  *)
(* two-byte kernel buffer so that send() writes partially and blocks.     *)
EXTENDS OutputBuffer

MC_Messages == {<<"x", "LF">>, <<"x", "x">>, <<"LF">>}
=============================================================================
