--------------------------- MODULE DropboxRequests --------------------------
(***************************************************************************)
(* What DeviceBox/Dropbox.h promises its callers, the folder's mirror and  *)
(* the recorder: a request that is made is answered once, on the io        *)
(* thread.  A reset or a shutdown waits for the requests made before it,   *)
(* and drops those made while it waits that are not answered by its end.   *)
(* Nothing else makes a request disappear.  Dropbox.tla is shown to        *)
(* implement this.                                                         *)
(***************************************************************************)
CONSTANT Requests

VARIABLES
    request,    \* what has become of each request
    closing     \* a reset or a shutdown was called and has not finished

vars == <<request, closing>>

\* A late request was made while a reset or a shutdown was waiting.
Fate == {"new", "made", "late", "answered", "dropped"}

TypeOK ==
    /\ request \in [Requests -> Fate]
    /\ closing \in BOOLEAN

Init ==
    /\ request = [r \in Requests |-> "new"]
    /\ closing = FALSE

Make(r) ==
    /\ request[r] = "new"
    /\ request' =
          [request EXCEPT ![r] = IF closing THEN "late" ELSE "made"]
    /\ UNCHANGED closing

Answer(r) ==
    /\ request[r] \in {"made", "late"}
    /\ request' = [request EXCEPT ![r] = "answered"]
    /\ UNCHANGED closing

Close ==
    /\ ~closing
    /\ closing' = TRUE
    /\ UNCHANGED request

\* The object that had the late requests is destroyed.
Closed ==
    /\ closing
    /\ \A r \in Requests : request[r] # "made"
    /\ closing' = FALSE
    /\ request' = [r \in Requests |-> IF request[r] = "late" THEN "dropped"
                                      ELSE request[r]]

Next ==
    \/ \E r \in Requests : Make(r) \/ Answer(r)
    \/ Close
    \/ Closed

Spec == Init /\ [][Next]_vars

=============================================================================
