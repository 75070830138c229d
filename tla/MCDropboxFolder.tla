--------------------------- MODULE MCDropboxFolder ---------------------------
(***************************************************************************)
(* DropboxFolder for TLC.  Its constants are model values and numbers,     *)
(* which the .cfg file gives.                                              *)
(***************************************************************************)
EXTENDS DropboxFolder

=============================================================================
