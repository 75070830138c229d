---------------------------- MODULE StreamDemand ---------------------------
(***************************************************************************)
(* What the server promises its viewers and its device boxes, without      *)
(* sessions, threads, timers or paths: the box of a camera is told to      *)
(* stream it because somebody watches, and is told to stop only when       *)
(* nobody does.  IpCamServer implements it.                                *)
(***************************************************************************)
CONSTANTS Source, Device, Owner

VARIABLES
    wanted,     \* cameras somebody watches
    online,     \* device boxes with an authenticated connection
    decided,    \* cameras found wanted, whose box is about to be told
    told        \* cameras whose box was last told to stream

vars == <<wanted, online, decided, told>>

Of(d) == {x \in Source : Owner[x] = d}

Init == wanted = {} /\ online = {} /\ decided = {} /\ told = {}

Want(x) ==
    /\ wanted' = wanted \cup {x}
    /\ UNCHANGED <<online, decided, told>>

Unwant(x) ==
    /\ wanted' = wanted \ {x}
    /\ UNCHANGED <<online, decided, told>>

Connect(d) ==
    /\ d \notin online
    /\ online' = online \cup {d}
    /\ UNCHANGED <<wanted, decided, told>>

\* The box forgets what it was told.
Disconnect(d) ==
    /\ d \in online
    /\ online' = online \ {d}
    /\ decided' = decided \ Of(d)
    /\ told' = told \ Of(d)
    /\ UNCHANGED wanted

Decide(x) ==
    /\ x \in wanted
    /\ Owner[x] \in online
    /\ decided' = decided \cup {x}
    /\ UNCHANGED <<wanted, online, told>>

\* Only what is wanted, or was when the decision was made.
Tell(x) ==
    /\ x \in wanted \cup decided
    /\ Owner[x] \in online
    /\ told' = told \cup {x}
    /\ decided' = decided \ {x}
    /\ UNCHANGED <<wanted, online>>

\* A request that is on its way is not called back.
TellNow(x) ==
    /\ x \in wanted
    /\ Owner[x] \in online
    /\ told' = told \cup {x}
    /\ UNCHANGED <<wanted, online, decided>>

TellToStop(x) ==
    /\ x \notin wanted
    /\ told' = told \ {x}
    /\ UNCHANGED <<wanted, online, decided>>

\* The box reports that it could not stream x.
Fail(x) ==
    /\ Owner[x] \in online
    /\ told' = told \ {x}
    /\ UNCHANGED <<wanted, online, decided>>

\* The server restarts: connections and viewers are gone.
Restart == wanted' = {} /\ online' = {} /\ decided' = {} /\ told' = {}

Next ==
    \/ \E x \in Source :
        \/ Want(x) \/ Unwant(x)
        \/ Decide(x) \/ Tell(x) \/ TellNow(x) \/ TellToStop(x) \/ Fail(x)
    \/ \E d \in Device : Connect(d) \/ Disconnect(d)
    \/ Restart

Spec == Init /\ [][Next]_vars

\* Whoever watches a camera of a connected box gets the box told about it,
\* unless the viewer or the connection goes away first.
WatchedIsTold ==
    \A x \in Source :
        (x \in wanted /\ Owner[x] \in online)
            ~> (x \in told \/ x \notin wanted \/ Owner[x] \notin online)

=============================================================================
