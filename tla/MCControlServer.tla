-------------------------- MODULE MCControlServer --------------------------
(***************************************************************************)
(* ControlServer for TLC.  Owner is one camera per device or two of one.   *)
(***************************************************************************)
EXTENDS ControlServer, TLC

CONSTANTS d1, d2, x1, x2, s1, s2

OneCamera == x1 :> d1
TwoCameras == (x1 :> d1) @@ (x2 :> d1)

\* Session addresses are interchangeable; so are the cameras of one device.
AnySession == Permutations({s1, s2})
AnySessionAnyCamera == AnySession \cup Permutations({x1, x2})

=============================================================================
