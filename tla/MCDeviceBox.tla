---------------------------- MODULE MCDeviceBox -----------------------------
(***************************************************************************)
(* DeviceBox for TLC.                                                      *)
(***************************************************************************)
EXTENDS DeviceBox

CONSTANTS s1, s2

Camera(s, megabytes) == [sources |-> s :> megabytes, token |-> FALSE]

OneCamera == {Camera(s1, 0)}
\* Two cameras without storage, or one with.
TwoCameras == {[sources |-> s1 :> 0 @@ s2 :> 0, token |-> FALSE], Camera(s2, 1)}
\* To the box, 4096 megabytes are none.
EitherStorage == {Camera(s1, 1), Camera(s1, 4096)}
=============================================================================
