----------------------------- MODULE MCWindows ------------------------------
(***************************************************************************)
(* Windows for TLC: two days of two files, files of one or two bytes, and  *)
(* enough windows to look at two files of one day or of two, or to open    *)
(* any other window and come back to it.                                   *)
(***************************************************************************)
EXTENDS Windows

TwoDays == {"d1", "d2"}
TwoFiles == {"f1", "f2"}
=============================================================================
