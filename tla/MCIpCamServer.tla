--------------------------- MODULE MCIpCamServer ---------------------------
(***************************************************************************)
(* IpCamServer for TLC.                                                    *)
(***************************************************************************)
EXTENDS IpCamServer, TLC

CONSTANTS d1, x1, s1, s2, p1, p2

OneCamera == x1 :> d1

\* "/x1" and "/x1/anything" name the same source.
TwoPathsOneSource == (p1 :> x1) @@ (p2 :> x1)

=============================================================================
