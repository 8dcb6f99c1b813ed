---------------------------- MODULE MC_FileSource ----------------------------
(* An instance of FileSource for TLC: three files, of which the second does  *)
(* not fit the initial buffer and the third fits the grown one; the first    *)
(* holds the key frame, and a run wraps round the files.                     *)
EXTENDS FileSource

Sizes == <<1, 4, 3>>
=============================================================================
