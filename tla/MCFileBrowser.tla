--------------------------- MODULE MCFileBrowser ----------------------------
(***************************************************************************)
(* FileBrowser for TLC: two days of two files, files of one or two bytes,  *)
(* enough clicks to look at two files of one day or of two.                *)
(***************************************************************************)
EXTENDS FileBrowser

TwoDays == {"d1", "d2"}
TwoFiles == {"f1", "f2"}
=============================================================================
