------------------------- MODULE MCStreamingHandler ------------------------
(***************************************************************************)
(* StreamingHandler for TLC.  Its constants are numbers and switches, which*)
(* the .cfg files give.                                                    *)
(***************************************************************************)
EXTENDS StreamingHandler

=============================================================================
