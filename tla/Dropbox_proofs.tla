--------------------------- MODULE Dropbox_proofs ---------------------------
(***************************************************************************)
(* The two components that use Dropbox, for any constants.                 *)
(*                                                                         *)
(* The requests to its API (Dropbox.tla), for any requests, any number of  *)
(* upload slots and any number of resets: none is lost, answered twice or  *)
(* left with its slot, and the component keeps what DropboxRequests        *)
(* promises its callers.                                                   *)
(*                                                                         *)
(* The copy of the folder (DropboxFolder.tla), for any files, sizes and    *)
(* limit: it is sound and misses no change, and a batch of deletions is    *)
(* of the oldest files and no larger than it must be.                      *)
(***************************************************************************)
EXTENDS Dropbox, DropboxFolder, DataFacts

\* In how many places the request r is: the queues, _actions, the answers.
Place(r) ==
    Count(curlQueue, {r}) + Count(ioQueue, {r}) + finished[r] +
        (IF transfer[r] = "none" THEN 0 ELSE 1)

Placed ==
    \A r \in Requests : Place(r) <= 1 /\ (r \notin made => Place(r) = 0)

\* The unread messages are those of the transfers that are done.
Unread ==
    \A r \in Requests :
        Count(messages, {r}) = IF transfer[r] = "done" THEN 1 ELSE 0

Running == runningCount = Cardinality(With("running"))

\* libcurl has nothing before the first curlPerform.
Unused ==
    ~performed => messages = <<>> /\ \A r \in Requests : transfer[r] = "none"

\* Every curlPerform brings about another one.
Driven ==
    performed =>
        /\ curlThread = "running"
        /\ timer \/ Count(curlQueue, {"curlPerform"}) > 0

\* What curlThreadMain posts in the end, and what is posted then.
Farewell == {"curlThreadMain", "shutdowned"}

LastHandler ==
    /\ Count(ioQueue, Farewell) <= 1
    /\ Count(ioQueue, Farewell) > 0 => curlThread = "ended"

\* What only curlPerform and the reset change.
Accounts == UploadSlots /\ Unread /\ Running /\ Unused

\* The inductive invariant.
IInv == TypeOK /\ Accounts /\ Placed /\ Driven /\ LastHandler

-----------------------------------------------------------------------------
(* Lemmas.                                                                 *)

\* The handlers are told apart.
LEMMA Handlers ==
  /\ "curlPerform" \notin Requests /\ "shutdown" \notin Requests
  /\ "curlThreadMain" \notin Requests /\ "shutdowned" \notin Requests
BY DropboxAssumption

\* The bounds are numbers.
LEMMA Limits == MaxUploads \in Nat /\ MaxResets \in Nat
BY DropboxAssumption

\* Any requests are finitely many.
LEMMA SomeFinite ==
  ASSUME NEW T \in SUBSET Requests
  PROVE  IsFiniteSet(T) /\ Cardinality(T) \in Nat
BY DropboxAssumption, FS_Subset, FS_CardinalityType

\* The queues' and the lists' counts are numbers.
LEMMA Counts ==
  ASSUME TypeOK, NEW X
  PROVE  /\ Count(curlQueue, X) \in Nat
         /\ Count(ioQueue, X) \in Nat
         /\ Count(messages, X) \in Nat
BY CountType DEF TypeOK

Numbers == \A r \in Requests : Place(r) \in Nat

\* A request is in some number of places.
LEMMA PlaceType == TypeOK => Numbers
BY Counts DEF TypeOK, Place, Numbers

\* The same, after a step.
LEMMA PlaceTypeNext == TypeOK' => Numbers'
BY PlaceType, PTL

\* A handler at the head of its queue is in it.
LEMMA HeadCounts ==
  ASSUME NEW S, NEW s \in Seq(S), s # <<>>, NEW X, Head(s) \in X
  PROVE  /\ Count(s, X) = Count(Tail(s), X) + 1
         /\ Count(s, X) > 0
<1>1. Tail(s) \in Seq(S)
  OBVIOUS
<1>2. Count(s, X) = Count(Tail(s), X) + 1
  BY CountTail
<1>3. Count(Tail(s), X) \in Nat
  BY <1>1, CountType
<1> QED BY <1>2, <1>3

\* Where a request is does not change when it stays in place.
LEMMA SamePlace ==
  ASSUME NEW r \in Requests,
         Count(curlQueue, {r})' = Count(curlQueue, {r}),
         Count(ioQueue, {r})' = Count(ioQueue, {r}),
         UNCHANGED <<transfer, finished>>
  PROVE  Place(r)' = Place(r)
BY DEF Place

\* A step that leaves the transfers alone leaves the accounts right.
LEMMA QuietAccounts ==
  ASSUME Accounts,
         UNCHANGED <<uploadCount, transfer, messages, runningCount, performed>>
  PROVE  Accounts'
BY DEF Accounts, UploadSlots, Unread, Running, With, Unused

\* A step that moves requests without losing or doubling one.
LEMMA KeptPlaced ==
  ASSUME Placed, \A r \in Requests : Place(r)' = Place(r), made' = made
  PROVE  Placed'
BY DEF Placed

\* A step that loses some of the requests.
LEMMA FewerPlaced ==
  ASSUME Placed, TypeOK, TypeOK', made' = made,
         \A r \in Requests : Place(r)' <= Place(r)
  PROVE  Placed'
<1>1. Numbers /\ Numbers'
  BY PlaceType, PlaceTypeNext
<1> QED BY <1>1 DEF Placed, Numbers

\* A step that leaves the thread's last handlers alone.
LEMMA KeptLastHandler ==
  ASSUME LastHandler, Count(ioQueue, Farewell)' = Count(ioQueue, Farewell),
         curlThread' = curlThread
  PROVE  LastHandler'
BY DEF LastHandler

-----------------------------------------------------------------------------
(* The steps, in the order of Next.  What each does to the requests'       *)
(* places is what the refinement needs of it.                              *)

\* In the beginning there are no requests.
LEMMA InitHolds ==
  ASSUME Init
  PROVE  IInv
<1>1. TypeOK
  <2>1. curlQueue \in Seq(CurlItem) /\ messages \in Seq(Requests)
        /\ ioQueue \in Seq(IoItem)
    BY DEF Init, NewInternal
  <2>2. /\ transfer \in [Requests -> {"none", "running", "done"}]
        /\ finished \in [Requests -> Nat]
    BY DEF Init, NewInternal
  <2>3. resets \in 0 .. MaxResets
    BY Limits DEF Init
  <2> QED BY <2>1, <2>2, <2>3 DEF Init, NewInternal, TypeOK
<1>2. \A X : Count(<<>>, X) = 0
  BY CountEmpty
<1>3. \A r \in Requests : transfer[r] = "none"
  BY DEF Init, NewInternal
<1>4. Accounts
  <2>1. {r \in Uploads : transfer[r] # "none"} = {} /\ With("running") = {}
    BY <1>3, DropboxAssumption DEF With
  <2>2. uploadCount = 0 /\ runningCount = 0 /\ messages = <<>>
    BY DEF Init, NewInternal
  <2>3. Cardinality({}) = 0
    BY FS_EmptySet
  <2>4. UploadSlots
    <3>1. 0 <= MaxUploads
      BY Limits
    <3> QED BY <2>1, <2>2, <2>3, <3>1 DEF UploadSlots
  <2>5. Running
    BY <2>1, <2>2, <2>3 DEF Running
  <2>6. Unread /\ Unused
    BY <1>2, <1>3, <2>2 DEF Unread, Unused
  <2> QED BY <2>4, <2>5, <2>6 DEF Accounts
<1>5. Placed
  BY <1>2, <1>3 DEF Placed, Place, Init
<1>6. Driven /\ LastHandler
  BY <1>2 DEF Driven, LastHandler, Init, NewInternal
<1> QED BY <1>1, <1>4, <1>5, <1>6 DEF IInv

\* Dropbox::upload and the others: r is posted, once.
LEMMA RequestKeeps ==
  ASSUME IInv, NEW r \in Requests, Request(r)
  PROVE  /\ IInv'
         /\ Place(r) = 0 /\ Place(r)' = 1
         /\ \A t \in Requests \ {r} : Place(t)' = Place(t)
<1>1. TypeOK'
  BY DEF IInv, TypeOK, Request, Post, internals, CurlItem
<1>2. Accounts' /\ LastHandler'
  BY QuietAccounts DEF IInv, Request, internals, LastHandler
<1>3. ASSUME NEW X
      PROVE  Count(curlQueue, X)' = Count(curlQueue, X) + (IF r \in X THEN 1 ELSE 0)
  <2>1. curlQueue \in Seq(CurlItem) /\ r \in CurlItem
    BY DEF IInv, TypeOK, CurlItem
  <2>2. curlQueue' = Append(curlQueue, r)
    BY DEF Request, Post
  <2> QED BY <2>1, <2>2, CountAppend
<1>4. \A X : Count(curlQueue, X) \in Nat /\ Count(ioQueue, X) \in Nat
  BY Counts DEF IInv
<1>5. \A t \in Requests \ {r} : Place(t)' = Place(t)
  BY <1>3, <1>4 DEF Place, Request, internals
<1>6. Place(r) = 0
  BY DEF IInv, Placed, Request
<1>7. Place(r)' = Place(r) + 1
  <2>1. Count(curlQueue, {r})' = Count(curlQueue, {r}) + 1
    BY <1>3
  <2>2. finished[r] \in Nat
    BY DEF IInv, TypeOK
  <2> QED BY <1>4, <2>1, <2>2 DEF Place, Request, internals
<1>8. Placed'
  BY <1>5, <1>6, <1>7 DEF IInv, Placed, Request
<1>9. Driven'
  BY <1>3, <1>4, Handlers DEF IInv, Driven, Request, internals
<1> QED BY <1>1, <1>2, <1>5, <1>6, <1>7, <1>8, <1>9 DEF IInv

\* Dropbox::reset and shutdown post a handler that is no request.
LEMMA PostShutdownKeeps ==
  ASSUME IInv, NEW then \in {"reset", "shutdown"}, PostShutdown(then),
         resets' \in 0 .. MaxResets
  PROVE  IInv' /\ \A t \in Requests : Place(t)' = Place(t)
<1>1. TypeOK'
  BY DEF IInv, TypeOK, PostShutdown, internals, CurlItem
<1>2. Accounts' /\ LastHandler'
  BY QuietAccounts DEF IInv, PostShutdown, internals, LastHandler
<1>3. ASSUME NEW X, "shutdown" \notin X
      PROVE  Count(curlQueue, X)' = Count(curlQueue, X)
  <2>1. curlQueue \in Seq(CurlItem) /\ "shutdown" \in CurlItem
    BY DEF IInv, TypeOK, CurlItem
  <2>2. curlQueue' = Append(curlQueue, "shutdown")
    BY DEF PostShutdown
  <2>3. Count(curlQueue, X)' = Count(curlQueue, X) + 0
    BY <1>3, <2>1, <2>2, CountAppend
  <2> QED BY <2>1, <2>3, CountType
<1>4. \A t \in Requests : Place(t)' = Place(t)
  BY <1>3, Handlers DEF Place, PostShutdown, internals
<1>5. Placed'
  BY <1>4, KeptPlaced DEF IInv, PostShutdown
<1>6. Driven'
  BY <1>3 DEF IInv, Driven, PostShutdown, internals
<1> QED BY <1>1, <1>2, <1>4, <1>5, <1>6 DEF IInv

\* The caller gets its answer: the request moves from the io thread's queue.
LEMMA RunFinishedKeeps ==
  ASSUME IInv, NEW r \in Requests, RunFinished(r)
  PROVE  /\ IInv'
         /\ finished[r] = 0
         /\ \A t \in Requests : Place(t)' = Place(t)
<1>1. TypeOK'
  BY DEF IInv, TypeOK, RunFinished, IoRuns, internals
<1>2. Accounts'
  BY QuietAccounts DEF IInv, RunFinished, internals
<1>3. \A X : Count(ioQueue, X) = Count(ioQueue, X)' + (IF r \in X THEN 1 ELSE 0)
  BY CountTail DEF IInv, TypeOK, RunFinished, IoRuns
<1>4. \A X : /\ Count(curlQueue, X) \in Nat /\ Count(ioQueue, X) \in Nat
             /\ Count(ioQueue, X)' \in Nat
  <2>1. ioQueue' \in Seq(IoItem)
    BY <1>1 DEF TypeOK
  <2> QED BY <2>1, Counts, CountType DEF IInv
<1>5. ASSUME NEW t \in Requests PROVE Place(t)' = Place(t)
  <2>1. curlQueue' = curlQueue /\ transfer' = transfer
    BY DEF RunFinished, internals
  <2>2. finished[t] \in Nat
    BY DEF IInv, TypeOK
  <2>3. CASE t = r
    <3>1. finished'[t] = finished[t] + 1
      BY <2>3 DEF RunFinished, IInv, TypeOK
    <3>2. Count(ioQueue, {t}) = Count(ioQueue, {t})' + 1
      BY <1>3, <2>3
    <3> QED BY <1>4, <2>1, <2>2, <3>1, <3>2 DEF Place
  <2>4. CASE t # r
    <3>1. finished'[t] = finished[t]
      BY <2>4 DEF RunFinished, IInv, TypeOK
    <3>2. Count(ioQueue, {t}) = Count(ioQueue, {t})' + 0
      BY <1>3, <2>4
    <3>3. Count(ioQueue, {t}) = Count(ioQueue, {t})'
      BY <1>4, <3>2
    <3> QED BY <2>1, <3>1, <3>3 DEF Place
  <2> QED BY <2>3, <2>4
<1>6. finished[r] = 0
  <2>1. Count(ioQueue, {r}) = Count(ioQueue, {r})' + 1
    BY <1>3
  <2>2. finished[r] \in Nat /\ Place(r) <= 1
    BY DEF IInv, TypeOK, Placed
  <2> QED BY <1>4, <2>1, <2>2 DEF Place
<1>7. Placed'
  BY <1>5, KeptPlaced DEF IInv, RunFinished
<1>8. Driven'
  BY DEF IInv, Driven, RunFinished, internals
<1>9. LastHandler'
  <2>1. Count(ioQueue, Farewell)' = Count(ioQueue, Farewell)
    BY <1>3, <1>4, Handlers DEF Farewell
  <2> QED BY <2>1, KeptLastHandler DEF IInv, RunFinished, internals
<1> QED BY <1>1, <1>2, <1>5, <1>6, <1>7, <1>8, <1>9 DEF IInv

\* The joined thread's last handler posts the next.
LEMMA JoinThreadKeeps ==
  ASSUME IInv, JoinThread
  PROVE  IInv' /\ \A t \in Requests : Place(t)' = Place(t)
<1>1. TypeOK'
  BY DEF IInv, TypeOK, JoinThread, IoRuns, internals, IoItem
<1>2. Accounts'
  BY QuietAccounts DEF IInv, JoinThread, internals
<1>3. ASSUME NEW X
      PROVE  /\ Count(ioQueue, X) \in Nat
             /\ Count(ioQueue, X)' =
                  Count(ioQueue, X) - (IF "curlThreadMain" \in X THEN 1 ELSE 0)
                    + (IF "shutdowned" \in X THEN 1 ELSE 0)
  <2>1. ioQueue \in Seq(IoItem) /\ ioQueue # <<>> /\ "shutdowned" \in IoItem
    BY DEF IInv, TypeOK, JoinThread, IoRuns, IoItem
  <2>2. Tail(ioQueue) \in Seq(IoItem)
    BY <2>1
  <2>3. Count(ioQueue, X) = Count(Tail(ioQueue), X) +
            (IF "curlThreadMain" \in X THEN 1 ELSE 0)
    BY <2>1, CountTail DEF JoinThread, IoRuns
  <2>4. Count(ioQueue, X)' = Count(Tail(ioQueue), X) +
            (IF "shutdowned" \in X THEN 1 ELSE 0)
    BY <2>1, <2>2, CountAppend DEF JoinThread
  <2>5. Count(Tail(ioQueue), X) \in Nat /\ Count(ioQueue, X) \in Nat
    BY <2>1, <2>2, CountType
  <2> QED BY <2>3, <2>4, <2>5
<1>4. \A t \in Requests : Place(t)' = Place(t)
  BY <1>3, Handlers DEF Place, JoinThread, internals
<1>5. Placed'
  BY <1>4, KeptPlaced DEF IInv, JoinThread
<1>6. Driven'
  BY DEF IInv, Driven, JoinThread, internals
<1>7. LastHandler'
  <2>1. Count(ioQueue, Farewell)' = Count(ioQueue, Farewell)
    BY <1>3 DEF Farewell
  <2> QED BY <2>1, KeptLastHandler DEF IInv, JoinThread, internals
<1> QED BY <1>1, <1>2, <1>4, <1>5, <1>6, <1>7 DEF IInv

\* The object is made anew: what it had to do is dropped.
LEMMA RecreateKeeps ==
  ASSUME IInv, Recreate
  PROVE  /\ IInv'
         /\ \A t \in Requests : Place(t)' <= Place(t)
<1>1. TypeOK'
  <2>1. ioQueue' \in Seq(IoItem)
    BY DEF IInv, TypeOK, Recreate, IoRuns
  <2>2. /\ transfer' \in [Requests -> {"none", "running", "done"}]
        /\ curlQueue' \in Seq(CurlItem) /\ messages' \in Seq(Requests)
    BY DEF Recreate
  <2> QED BY <2>1, <2>2 DEF IInv, TypeOK, Recreate
<1>2. /\ ioQueue \in Seq(IoItem) /\ ioQueue # <<>>
      /\ Head(ioQueue) = "shutdowned" /\ ioQueue' = Tail(ioQueue)
  BY DEF IInv, TypeOK, Recreate, IoRuns
<1>3. \A X : Count(curlQueue, X)' = 0
  BY CountEmpty DEF Recreate
<1>4. ASSUME NEW X
      PROVE  /\ Count(ioQueue, X) \in Nat /\ Count(ioQueue, X)' \in Nat
             /\ Count(ioQueue, X)' <= Count(ioQueue, X)
             /\ "shutdowned" \in X => Count(ioQueue, X)' + 1 = Count(ioQueue, X)
  <2>1. Count(ioQueue, X) =
          Count(ioQueue, X)' + (IF "shutdowned" \in X THEN 1 ELSE 0)
    BY <1>2, CountTail
  <2>2. Tail(ioQueue) \in Seq(IoItem)
    BY <1>2
  <2>3. Count(ioQueue, X) \in Nat /\ Count(ioQueue, X)' \in Nat
    BY <1>2, <2>2, CountType
  <2> QED BY <2>1, <2>3
<1>5. \A r \in Requests : transfer'[r] = "none"
  BY DEF Recreate
<1>6. Accounts'
  <2>1. With("running")' = {} /\ {r \in Uploads : transfer'[r] # "none"} = {}
    BY <1>5, DropboxAssumption DEF With
  <2>2. uploadCount' = 0 /\ runningCount' = 0 /\ messages' = <<>>
    BY DEF Recreate
  <2>3. Cardinality({}) = 0
    BY FS_EmptySet
  <2>4. UploadSlots'
    <3>1. 0 <= MaxUploads
      BY Limits
    <3> QED BY <2>1, <2>2, <2>3, <3>1 DEF UploadSlots
  <2>5. Running'
    BY <2>1, <2>2, <2>3 DEF Running
  <2>6. Unread' /\ Unused'
    BY <1>5, <2>2, CountEmpty DEF Unread, Unused
  <2> QED BY <2>4, <2>5, <2>6 DEF Accounts
<1>7. ASSUME NEW t \in Requests PROVE Place(t)' <= Place(t)
  <2>1. finished[t] \in Nat /\ finished'[t] = finished[t]
    BY DEF IInv, TypeOK, Recreate
  <2>2. Place(t)' = Count(ioQueue, {t})' + finished[t]
    BY <1>3, <1>4, <1>5, <2>1 DEF Place
  <2>3. /\ Count(curlQueue, {t}) \in Nat
        /\ (IF transfer[t] = "none" THEN 0 ELSE 1) \in Nat
    BY Counts DEF IInv
  <2> QED BY <1>4, <2>1, <2>2, <2>3 DEF Place
<1>8. Placed'
  BY <1>1, <1>7, FewerPlaced DEF IInv, Recreate
<1>9. Driven'
  BY DEF Driven, Recreate
<1>10. LastHandler'
  <2>1. Count(ioQueue, Farewell)' + 1 = Count(ioQueue, Farewell)
    BY <1>4 DEF Farewell
  <2>2. Count(ioQueue, Farewell) <= 1
    BY DEF IInv, LastHandler
  <2>3. Count(ioQueue, Farewell)' = 0
    BY <1>4, <2>1, <2>2
  <2> QED BY <2>3 DEF LastHandler
<1> QED BY <1>1, <1>6, <1>7, <1>8, <1>9, <1>10 DEF IInv

\* The object is destroyed.  Its thread has ended, so nothing was ever
\* transferred by it.
LEMMA ResetInternalKeeps ==
  ASSUME IInv, ResetInternal
  PROVE  /\ IInv'
         /\ \A t \in Requests : Place(t)' <= Place(t)
<1>1. TypeOK'
  <2>1. ioQueue' \in Seq(IoItem) /\ curlQueue' \in Seq(CurlItem)
    BY DEF IInv, TypeOK, ResetInternal, IoRuns
  <2> QED BY <2>1 DEF IInv, TypeOK, ResetInternal, internals
<1>2. /\ ioQueue \in Seq(IoItem) /\ ioQueue # <<>>
      /\ Head(ioQueue) = "shutdowned" /\ ioQueue' = Tail(ioQueue)
  BY DEF IInv, TypeOK, ResetInternal, IoRuns
<1>3. \A X : Count(curlQueue, X)' = 0
  BY CountEmpty DEF ResetInternal
<1>4. ASSUME NEW X
      PROVE  /\ Count(ioQueue, X) \in Nat /\ Count(ioQueue, X)' \in Nat
             /\ Count(ioQueue, X)' <= Count(ioQueue, X)
             /\ "shutdowned" \in X => Count(ioQueue, X)' + 1 = Count(ioQueue, X)
  <2>1. Count(ioQueue, X) =
          Count(ioQueue, X)' + (IF "shutdowned" \in X THEN 1 ELSE 0)
    BY <1>2, CountTail
  <2>2. Tail(ioQueue) \in Seq(IoItem)
    BY <1>2
  <2>3. Count(ioQueue, X) \in Nat /\ Count(ioQueue, X)' \in Nat
    BY <1>2, <2>2, CountType
  <2> QED BY <2>1, <2>3
<1>5. Accounts'
  BY QuietAccounts DEF IInv, ResetInternal, internals
<1>6. /\ Count(ioQueue, Farewell) = 1 /\ Count(ioQueue, Farewell)' = 0
      /\ curlThread = "ended"
  <2>1. /\ Count(ioQueue, Farewell)' + 1 = Count(ioQueue, Farewell)
        /\ Count(ioQueue, Farewell)' \in Nat
    BY <1>4 DEF Farewell
  <2>2. Count(ioQueue, Farewell) <= 1
    BY DEF IInv, LastHandler
  <2>3. Count(ioQueue, Farewell) = 1 /\ Count(ioQueue, Farewell)' = 0
    BY <2>1, <2>2
  <2> QED BY <2>3 DEF IInv, LastHandler
<1>7. ASSUME NEW t \in Requests PROVE Place(t)' <= Place(t)
  <2>1. /\ finished[t] \in Nat /\ finished' = finished
        /\ transfer' = transfer
    BY DEF IInv, TypeOK, ResetInternal, internals
  <2>2. Count(curlQueue, {t}) \in Nat /\ Count(curlQueue, {t})' = 0
    BY <1>3, Counts DEF IInv
  <2>3. (IF transfer[t] = "none" THEN 0 ELSE 1) \in Nat
    OBVIOUS
  <2> QED BY <1>4, <2>1, <2>2, <2>3 DEF Place
<1>8. Placed'
  BY <1>1, <1>7, FewerPlaced DEF IInv, ResetInternal
<1>9. Driven'
  BY <1>6 DEF IInv, Driven, ResetInternal, internals
<1>10. LastHandler'
  BY <1>6 DEF LastHandler
<1> QED BY <1>1, <1>5, <1>7, <1>8, <1>9, <1>10 DEF IInv

\* The curl thread starts to run.
LEMMA StartThreadKeeps ==
  ASSUME IInv, StartThread
  PROVE  IInv' /\ \A t \in Requests : Place(t)' = Place(t)
<1>1. TypeOK'
  BY DEF IInv, TypeOK, StartThread
<1>2. Accounts'
  BY QuietAccounts DEF IInv, StartThread
<1>3. \A t \in Requests : Place(t)' = Place(t)
  BY DEF Place, StartThread
<1>4. Placed'
  BY <1>3, KeptPlaced DEF IInv, StartThread
<1>5. Driven' /\ LastHandler'
  BY DEF IInv, Driven, LastHandler, StartThread
<1> QED BY <1>1, <1>2, <1>3, <1>4, <1>5 DEF IInv

\* The thread ends, which it does not once it has called curlPerform.
LEMMA RunReturnsKeeps ==
  ASSUME IInv, RunReturns
  PROVE  IInv' /\ \A t \in Requests : Place(t)' = Place(t)
<1>1. TypeOK'
  BY DEF IInv, TypeOK, RunReturns, IoItem
<1>2. Accounts'
  BY QuietAccounts DEF IInv, RunReturns
<1>3. ASSUME NEW X
      PROVE  /\ Count(ioQueue, X) \in Nat
             /\ Count(ioQueue, X)' =
                  Count(ioQueue, X) + (IF "curlThreadMain" \in X THEN 1 ELSE 0)
  <2>1. /\ ioQueue \in Seq(IoItem) /\ "curlThreadMain" \in IoItem
        /\ ioQueue' = Append(ioQueue, "curlThreadMain")
    BY DEF IInv, TypeOK, RunReturns, IoItem
  <2> QED BY <2>1, CountAppend, CountType
<1>4. \A t \in Requests : Place(t)' = Place(t)
  <2>1. \A t \in Requests : Count(ioQueue, {t})' = Count(ioQueue, {t})
    BY <1>3, Handlers
  <2> QED BY <2>1 DEF Place, RunReturns
<1>5. Placed'
  BY <1>4, KeptPlaced DEF IInv, RunReturns
<1>6. Driven'
  <2>1. ~performed
    BY CountEmpty DEF IInv, Driven, RunReturns
  <2> QED BY <2>1 DEF Driven, RunReturns
<1>7. LastHandler'
  <2>1. Count(ioQueue, Farewell) = 0
    BY <1>3 DEF IInv, LastHandler, RunReturns
  <2>2. Count(ioQueue, Farewell)' = 1
    BY <1>3, <2>1 DEF Farewell
  <2> QED BY <2>2 DEF LastHandler, RunReturns
<1> QED BY <1>1, <1>2, <1>4, <1>5, <1>6, <1>7 DEF IInv

\* The timer of curlPerform posts it.
LEMMA TimerExpiresKeeps ==
  ASSUME IInv, TimerExpires
  PROVE  IInv' /\ \A t \in Requests : Place(t)' = Place(t)
<1>1. TypeOK'
  <2>1. curlQueue' \in Seq(CurlItem)
    BY DEF IInv, TypeOK, TimerExpires, CurlItem
  <2> QED BY <2>1 DEF IInv, TypeOK, TimerExpires
<1>2. Accounts' /\ LastHandler'
  BY QuietAccounts DEF IInv, TimerExpires, LastHandler
<1>3. ASSUME NEW X
      PROVE  /\ Count(curlQueue, X) \in Nat
             /\ Count(curlQueue, X)' =
                  Count(curlQueue, X) + (IF "curlPerform" \in X THEN 1 ELSE 0)
  <2>1. /\ curlQueue \in Seq(CurlItem) /\ "curlPerform" \in CurlItem
        /\ curlQueue' = Append(curlQueue, "curlPerform")
    BY DEF IInv, TypeOK, TimerExpires, CurlItem
  <2> QED BY <2>1, CountAppend, CountType
<1>4. \A t \in Requests : Place(t)' = Place(t)
  <2>1. \A t \in Requests : Count(curlQueue, {t})' = Count(curlQueue, {t})
    BY <1>3, Handlers
  <2> QED BY <2>1 DEF Place, TimerExpires
<1>5. Placed'
  BY <1>4, KeptPlaced DEF IInv, TimerExpires
<1>6. Driven'
  <2>1. Count(curlQueue, {"curlPerform"})' > 0
    BY <1>3
  <2> QED BY <2>1 DEF IInv, Driven, TimerExpires
<1> QED BY <1>1, <1>2, <1>4, <1>5, <1>6 DEF IInv

\* The curl thread takes a handler, which is no request.
LEMMA RunShutdownKeeps ==
  ASSUME IInv, RunShutdown
  PROVE  IInv' /\ \A t \in Requests : Place(t)' = Place(t)
<1>1. TypeOK'
  <2>1. curlQueue' \in Seq(CurlItem)
    BY DEF IInv, TypeOK, RunShutdown, CurlRuns
  <2> QED BY <2>1 DEF IInv, TypeOK, RunShutdown
<1>2. Accounts' /\ LastHandler'
  BY QuietAccounts DEF IInv, RunShutdown, LastHandler
<1>3. ASSUME NEW X, "shutdown" \notin X
      PROVE  Count(curlQueue, X)' = Count(curlQueue, X)
  <2>1. /\ curlQueue \in Seq(CurlItem) /\ curlQueue # <<>>
        /\ Head(curlQueue) = "shutdown" /\ curlQueue' = Tail(curlQueue)
    BY DEF IInv, TypeOK, RunShutdown, CurlRuns
  <2>2. Count(curlQueue, X) = Count(Tail(curlQueue), X) + 0
    BY <1>3, <2>1, CountTail
  <2>3. Tail(curlQueue) \in Seq(CurlItem)
    BY <2>1
  <2>4. Count(Tail(curlQueue), X) \in Nat
    BY <2>3, CountType
  <2> QED BY <2>1, <2>2, <2>4
<1>4. \A t \in Requests : Place(t)' = Place(t)
  <2>1. \A t \in Requests : Count(curlQueue, {t})' = Count(curlQueue, {t})
    BY <1>3, Handlers
  <2> QED BY <2>1 DEF Place, RunShutdown
<1>5. Placed'
  BY <1>4, KeptPlaced DEF IInv, RunShutdown
<1>6. Driven'
  BY <1>3 DEF IInv, Driven, RunShutdown
<1> QED BY <1>1, <1>2, <1>4, <1>5, <1>6 DEF IInv

\* What the curl thread takes from its queue when it runs h.
LEMMA Taken ==
  ASSUME IInv, NEW h, CurlRuns(h), NEW X
  PROVE  /\ Tail(curlQueue) \in Seq(CurlItem)
         /\ Count(Tail(curlQueue), X) \in Nat
         /\ Count(curlQueue, X) =
              Count(Tail(curlQueue), X) + (IF h \in X THEN 1 ELSE 0)
<1>1. /\ curlQueue \in Seq(CurlItem) /\ curlQueue # <<>>
      /\ Head(curlQueue) = h
  BY DEF IInv, TypeOK, CurlRuns
<1>2. Tail(curlQueue) \in Seq(CurlItem)
  BY <1>1
<1>3. Count(Tail(curlQueue), X) \in Nat
  BY <1>2, CountType
<1>4. Count(curlQueue, X) =
          Count(Tail(curlQueue), X) + (IF h \in X THEN 1 ELSE 0)
  BY <1>1, CountTail
<1> QED BY <1>2, <1>3, <1>4

\* A request that comes to nothing is answered.
LEMMA ActionFinishedKeeps ==
  ASSUME IInv, NEW r \in Requests, CurlRuns(r), ActionFinished(r)
  PROVE  IInv' /\ \A t \in Requests : Place(t)' = Place(t)
<1>1. TypeOK'
  <2>1. curlQueue' \in Seq(CurlItem)
    BY Taken DEF ActionFinished
  <2>2. ioQueue' \in Seq(IoItem)
    BY DEF IInv, TypeOK, ActionFinished, IoItem
  <2> QED BY <2>1, <2>2 DEF IInv, TypeOK, ActionFinished, internals
<1>2. Accounts'
  BY QuietAccounts DEF IInv, ActionFinished, internals
<1>3. \A X : /\ Count(curlQueue, X)' \in Nat
             /\ Count(curlQueue, X) =
                  Count(curlQueue, X)' + (IF r \in X THEN 1 ELSE 0)
  BY Taken DEF ActionFinished
<1>4. ASSUME NEW X
      PROVE  /\ Count(ioQueue, X) \in Nat
             /\ Count(ioQueue, X)' =
                  Count(ioQueue, X) + (IF r \in X THEN 1 ELSE 0)
  <2>1. /\ ioQueue \in Seq(IoItem) /\ r \in IoItem
        /\ ioQueue' = Append(ioQueue, r)
    BY DEF IInv, TypeOK, ActionFinished, IoItem
  <2> QED BY <2>1, CountAppend, CountType
<1>5. ASSUME NEW t \in Requests PROVE Place(t)' = Place(t)
  <2>1. Count(curlQueue, {t}) + Count(ioQueue, {t}) =
          Count(curlQueue, {t})' + Count(ioQueue, {t})'
    <3>1. /\ Count(curlQueue, {t})' \in Nat /\ Count(ioQueue, {t}) \in Nat
          /\ Count(curlQueue, {t}) =
               Count(curlQueue, {t})' + (IF r \in {t} THEN 1 ELSE 0)
          /\ Count(ioQueue, {t})' =
               Count(ioQueue, {t}) + (IF r \in {t} THEN 1 ELSE 0)
      BY <1>3, <1>4
    <3> QED BY <3>1
  <2> QED BY <2>1 DEF Place, ActionFinished, internals
<1>6. Placed'
  BY <1>5, KeptPlaced DEF IInv, ActionFinished
<1>7. Driven'
  <2>1. Count(curlQueue, {"curlPerform"})' = Count(curlQueue, {"curlPerform"})
    BY <1>3, Handlers
  <2> QED BY <2>1 DEF IInv, Driven, ActionFinished, internals
<1>8. LastHandler'
  <2>1. Count(ioQueue, Farewell)' = Count(ioQueue, Farewell)
    BY <1>4, Handlers DEF Farewell
  <2> QED BY <2>1, KeptLastHandler DEF IInv, ActionFinished, internals
<1> QED BY <1>1, <1>2, <1>5, <1>6, <1>7, <1>8 DEF IInv

\* Which transfers there are when curlPerform has started and ended some.
\* A new one is of the request that is being run, so it was nowhere else.
LEMMA Transfers ==
  ASSUME IInv, NEW h, CurlRuns(h),
         NEW started, started = {h} \cap Requests,
         NEW ended \in MayEnd(started)
  PROVE  LET alive == (With("running") \cup started) \ ended
             over == With("done") \cup ended
         IN  /\ \A r \in started : transfer[r] = "none"
             /\ ended \subseteq Requests /\ alive \subseteq Requests
             /\ \A r \in ended : transfer[r] # "done"
             /\ alive \cap over = {}
             /\ alive \cup over =
                  {r \in Requests : transfer[r] # "none" \/ r \in started}
<1>1. \A r \in Requests : transfer[r] \in {"none", "running", "done"}
  BY DEF IInv, TypeOK
<1>2. \A r \in started : transfer[r] = "none"
  <2> SUFFICES ASSUME NEW r \in started PROVE transfer[r] = "none"
    OBVIOUS
  <2>1. r = h /\ r \in Requests
    OBVIOUS
  <2>2. /\ Count(curlQueue, {r}) =
             Count(Tail(curlQueue), {r}) + (IF h \in {r} THEN 1 ELSE 0)
        /\ Count(Tail(curlQueue), {r}) \in Nat
    BY Taken
  <2>3. Count(curlQueue, {r}) >= 1
    BY <2>1, <2>2
  <2>4. /\ Count(ioQueue, {r}) \in Nat /\ Count(curlQueue, {r}) \in Nat
        /\ finished[r] \in Nat
    BY <2>1, Counts DEF IInv, TypeOK
  <2>5. Place(r) <= 1
    BY <2>1 DEF IInv, Placed
  <2> QED BY <2>3, <2>4, <2>5 DEF Place
<1>3. ended \subseteq With("running") \cup started
  BY DEF MayEnd
<1> QED BY <1>1, <1>2, <1>3 DEF With

\* curlPerform, with what started just added: all the accounts agree again.
LEMMA CurlPerformKeeps ==
  ASSUME IInv, NEW h \in CurlItem, CurlRuns(h),
         NEW started, started = {h} \cap Requests,
         NEW uploads \in Nat, uploads <= MaxUploads,
         uploads = Cardinality(
            {r \in Uploads : transfer[r] # "none" \/ r \in started}),
         NEW ended \in MayEnd(started),
         CurlPerform(started, ended, uploads)
  PROVE  IInv' /\ \A t \in Requests : Place(t)' = Place(t)
<1> DEFINE alive == (With("running") \cup started) \ ended
           over == With("done") \cup ended
<1>1. PICK order \in SetToSeqs(ended) :
        LET unread == messages \o order
            read == Noticed(alive, unread)
        IN  /\ runningCount' = Cardinality(alive)
            /\ messages' = IF read = <<>> THEN unread ELSE <<>>
            /\ transfer' =
                  [r \in Requests |->
                      CASE r \in alive -> "running"
                        [] r \in ToSet(unread) \ ToSet(read) -> "done"
                        [] OTHER -> "none"]
            /\ HandleDone(read, uploads)
            /\ performed' = TRUE
            /\ CurlPerformAgain
            /\ UNCHANGED <<internal, curlThread, working, shutdowned, closing,
                           resets, made, late, finished>>
  BY DEF CurlPerform
<1> DEFINE unread == messages \o order
           read == Noticed(alive, unread)
<1>2. /\ \A r \in started : transfer[r] = "none"
      /\ ended \subseteq Requests /\ alive \subseteq Requests
      /\ \A r \in ended : transfer[r] # "done"
      /\ alive \cap over = {}
      /\ alive \cup over =
           {r \in Requests : transfer[r] # "none" \/ r \in started}
  BY Transfers
<1>3. /\ unread \in Seq(Requests)
      /\ \A r \in Requests :
            Count(unread, {r}) = IF r \in over THEN 1 ELSE 0
  <2>1. IsFiniteSet(ended)
    BY <1>2, SomeFinite
  <2>2. order \in Seq(ended) /\ messages \in Seq(Requests)
    BY <2>1, Ordered DEF IInv, TypeOK
  <2>3. order \in Seq(Requests)
    BY <1>2, <2>2
  <2>4. ASSUME NEW r \in Requests
        PROVE  Count(unread, {r}) = IF r \in over THEN 1 ELSE 0
    <3>1. Count(unread, {r}) = Count(messages, {r}) + Count(order, {r})
      BY <2>2, <2>3, CountConcat
    <3>2. Count(order, {r}) = IF r \in ended THEN 1 ELSE 0
      BY <2>1, CountOrdered
    <3>3. Count(messages, {r}) = IF transfer[r] = "done" THEN 1 ELSE 0
      BY DEF IInv, Accounts, Unread
    <3> QED BY <1>2, <3>1, <3>2, <3>3 DEF With
  <2> QED BY <2>2, <2>3, <2>4
<1>4. ToSet(unread) = over
  <2>1. over \subseteq Requests
    BY <1>2 DEF With
  <2>2. ToSet(unread) \subseteq Requests
    BY <1>3 DEF ToSet
  <2>3. \A r \in Requests : r \in ToSet(unread) <=> Count(unread, {r}) > 0
    BY <1>3, CountToSet
  <2>4. \A r \in Requests : Count(unread, {r}) > 0 <=> r \in over
    BY <1>3
  <2> HIDE DEF unread, over
  <2> QED BY <2>1, <2>2, <2>3, <2>4
<1>5. read = unread \/ read = <<>>
  BY DEF Noticed
<1> HIDE DEF alive, over, unread, read
<1>6. /\ runningCount' = Cardinality(alive)
      /\ messages' = IF read = <<>> THEN unread ELSE <<>>
      /\ \A r \in Requests :
            transfer'[r] = IF r \in alive THEN "running"
                           ELSE IF r \in over /\ read = <<>> THEN "done"
                           ELSE "none"
      /\ transfer' \in [Requests -> {"none", "running", "done"}]
      /\ HandleDone(read, uploads)
      /\ performed' = TRUE
      /\ CurlPerformAgain
      /\ UNCHANGED <<internal, curlThread, working, shutdowned, closing,
                     resets, made, late, finished>>
  <2>1. ToSet(<<>>) = {}
    BY DEF ToSet
  <2>2. \A r \in Requests : r \in ToSet(unread) \ ToSet(read) <=>
            r \in over /\ read = <<>>
    <3>1. CASE read = <<>>
      BY <1>4, <2>1, <3>1
    <3>2. CASE read # <<>>
      BY <1>5, <3>2
    <3> QED BY <3>1, <3>2
  <2>3. transfer' = [r \in Requests |->
            CASE r \in alive -> "running"
              [] r \in ToSet(unread) \ ToSet(read) -> "done"
              [] OTHER -> "none"]
    BY <1>1 DEF alive, unread, read
  <2>4. ASSUME NEW r \in Requests
        PROVE  transfer'[r] = IF r \in alive THEN "running"
                              ELSE IF r \in over /\ read = <<>> THEN "done"
                              ELSE "none"
    <3>1. transfer'[r] =
            CASE r \in alive -> "running"
              [] r \in ToSet(unread) \ ToSet(read) -> "done"
              [] OTHER -> "none"
      BY <2>3
    <3>2. CASE r \in alive
      BY <1>2, <2>2, <3>1, <3>2
    <3>3. CASE r \notin alive /\ r \in ToSet(unread) \ ToSet(read)
      BY <2>2, <3>1, <3>3
    <3>4. CASE r \notin alive /\ r \notin ToSet(unread) \ ToSet(read)
      BY <2>2, <3>1, <3>4
    <3> QED BY <3>2, <3>3, <3>4
  <2>5. transfer' \in [Requests -> {"none", "running", "done"}]
    BY <2>3
  <2> QED BY <1>1, <2>4, <2>5 DEF alive, unread, read
<1>7. read \in Seq(Requests)
  <2>1. <<>> \in Seq(Requests)
    OBVIOUS
  <2> QED BY <1>3, <1>5, <2>1
<1>8. /\ curlQueue' \in Seq(CurlItem)
      /\ \A r \in Requests : Count(curlQueue, {r})' \in Nat
      /\ \A r \in Requests : Count(curlQueue, {r}) =
            Count(curlQueue, {r})' + (IF h = r THEN 1 ELSE 0)
      /\ timer' \in BOOLEAN
      /\ timer' \/ Count(curlQueue, {"curlPerform"})' > 0
  <2>1. "curlPerform" \in CurlItem
    BY DEF CurlItem
  <2>2. /\ Tail(curlQueue) \in Seq(CurlItem)
        /\ \A X : /\ Count(Tail(curlQueue), X) \in Nat
                  /\ Count(curlQueue, X) =
                       Count(Tail(curlQueue), X) + (IF h \in X THEN 1 ELSE 0)
    BY Taken
  <2>3. CASE timer' = FALSE /\ curlQueue' = Append(Tail(curlQueue), "curlPerform")
    <3>1. ASSUME NEW X
          PROVE  Count(curlQueue, X)' = Count(Tail(curlQueue), X) +
                    (IF "curlPerform" \in X THEN 1 ELSE 0)
      <4> DEFINE rest == Tail(curlQueue)
      <4>1. rest \in Seq(CurlItem)
        BY <2>2
      <4>2. curlQueue' = Append(rest, "curlPerform")
        BY <2>3
      <4> HIDE DEF rest
      <4>3. Count(curlQueue', X) =
              Count(rest, X) + (IF "curlPerform" \in X THEN 1 ELSE 0)
        BY <2>1, <4>1, <4>2, CountAppend
      <4> QED BY <4>3 DEF rest
    <3>2. Count(curlQueue, {"curlPerform"})' > 0
      BY <2>2, <3>1
    <3>3. \A r \in Requests : Count(curlQueue, {r})' = Count(Tail(curlQueue), {r})
      BY <2>2, <3>1, Handlers
    <3>4. curlQueue' \in Seq(CurlItem)
      BY <2>1, <2>2, <2>3
    <3> QED BY <2>2, <2>3, <3>2, <3>3, <3>4
  <2>4. CASE timer' = TRUE /\ curlQueue' = Tail(curlQueue)
    BY <2>2, <2>4
  <2> QED BY <1>6, <2>3, <2>4 DEF CurlPerformAgain
<1>9. /\ ioQueue' \in Seq(IoItem)
      /\ \A X : /\ Count(ioQueue, X) \in Nat /\ Count(read, X) \in Nat
                /\ Count(ioQueue, X)' = Count(ioQueue, X) + Count(read, X)
  <2>1. ioQueue' = ioQueue \o read
    BY <1>6 DEF HandleDone
  <2>2. ioQueue \in Seq(IoItem) /\ read \in Seq(IoItem)
    BY <1>7 DEF IInv, TypeOK, IoItem
  <2> QED BY <2>1, <2>2, CountConcat, CountType
<1>10. /\ IsFiniteSet(alive) /\ Cardinality(alive) \in Nat
       /\ runningCount' \in Nat
  BY <1>2, <1>6, SomeFinite
<1>11. UploadSlots' /\ uploadCount' \in Nat
  <2> DEFINE before == {r \in Uploads : transfer[r] # "none" \/ r \in started}
             after == {r \in Uploads : transfer'[r] # "none"}
             given == ToSet(read) \cap Uploads
  <2>1. Uploads \subseteq Requests
    BY DropboxAssumption
  <2>2. before \subseteq Requests
    BY <2>1
  <2>3. /\ after = IF read = <<>> THEN before ELSE Uploads \cap alive
        /\ given = IF read = <<>> THEN {} ELSE Uploads \cap over
    <3>1. \A r \in Uploads : r \in before <=> r \in alive \cup over
      BY <1>2, <2>1
    <3>2. CASE read = <<>>
      <4>1. \A r \in Uploads : r \in after <=> r \in alive \cup over
        BY <1>6, <2>1, <3>2
      <4>2. ToSet(read) = {}
        BY <3>2 DEF ToSet
      <4> QED BY <3>1, <3>2, <4>1, <4>2
    <3>3. CASE read # <<>>
      <4>1. \A r \in Uploads : r \in after <=> r \in alive
        BY <1>6, <2>1, <3>3
      <4>2. ToSet(read) = over
        BY <1>4, <1>5, <3>3
      <4> QED BY <3>3, <4>1, <4>2
    <3> QED BY <3>2, <3>3
  <2>4. after = before \ given /\ given \subseteq before
    <3>1. \A r \in Uploads : r \in before <=> r \in alive \cup over
      BY <1>2, <2>1
    <3>2. \A r : ~(r \in alive /\ r \in over)
      BY <1>2
    <3>3. CASE read = <<>>
      BY <2>3, <3>3
    <3>4. CASE read # <<>>
      BY <2>3, <3>1, <3>2, <3>4
    <3> QED BY <3>3, <3>4
  <2> HIDE DEF after, given
  <2>5. IsFiniteSet(before) /\ Cardinality(before) = uploads
    BY <2>2, SomeFinite
  <2>6. /\ IsFiniteSet(given) /\ IsFiniteSet(after)
        /\ Cardinality(given) \in Nat /\ Cardinality(after) \in Nat
    BY <2>2, <2>4, SomeFinite
  <2>7. Cardinality(before) = Cardinality(after) + Cardinality(given)
    <3>1. Cardinality(before) - Cardinality(before \cap given) =
            Cardinality(before \ given)
      BY <2>5, FS_Difference
    <3>2. before \cap given = given /\ before \ given = after
      BY <2>4
    <3>3. Cardinality(before) - Cardinality(given) = Cardinality(after)
      BY <3>1, <3>2
    <3> HIDE DEF before
    <3> QED BY <2>5, <2>6, <3>3
  <2>8. uploadCount' = uploads - Cardinality(given)
    BY <1>6 DEF HandleDone, given
  <2>9. uploadCount' = Cardinality(after)
    BY <2>5, <2>6, <2>7, <2>8
  <2>10. uploadCount' <= MaxUploads
    BY <2>6, <2>8, <2>9, Limits
  <2> QED BY <2>6, <2>9, <2>10 DEF UploadSlots, after
<1>12. TypeOK'
  <2>1. messages' \in Seq(Requests)
    BY <1>3, <1>6
  <2> QED
    BY <1>6, <1>8, <1>9, <1>10, <1>11, <2>1 DEF IInv, TypeOK
<1>13. Unread'
  <2> SUFFICES ASSUME NEW r \in Requests
               PROVE  Count(messages, {r})' = IF transfer'[r] = "done" THEN 1 ELSE 0
    BY DEF Unread
  <2>1. CASE read = <<>>
    <3>1. messages' = unread
      BY <1>6, <2>1
    <3>2. transfer'[r] = "done" <=> r \in over
      BY <1>2, <1>6, <2>1
    <3> QED BY <1>3, <3>1, <3>2
  <2>2. CASE read # <<>>
    BY <1>6, <2>2, CountEmpty
  <2> QED BY <2>1, <2>2
<1>14. Running' /\ Unused'
  <2>1. With("running")' = alive
    BY <1>2, <1>6 DEF With
  <2> QED BY <1>6, <2>1 DEF Running, Unused
<1>15. ASSUME NEW t \in Requests PROVE Place(t)' = Place(t)
  <2>1. Count(read, {t}) = IF t \in over /\ read # <<>> THEN 1 ELSE 0
    BY <1>3, <1>5, CountEmpty
  <2>2. t \in started <=> h = t
    OBVIOUS
  <2>3. t \in alive \/ t \in over <=> transfer[t] # "none" \/ h = t
    BY <1>2, <2>2
  <2>4. ~(t \in alive /\ t \in over) /\ ~(h = t /\ transfer[t] # "none")
    BY <1>2, <2>2
  <2>5. /\ Count(curlQueue, {t})' \in Nat
        /\ Count(curlQueue, {t}) =
             Count(curlQueue, {t})' + (IF h = t THEN 1 ELSE 0)
    BY <1>8
  <2>6. /\ Count(ioQueue, {t}) \in Nat
        /\ Count(ioQueue, {t})' = Count(ioQueue, {t}) + Count(read, {t})
    BY <1>9
  <2>7. finished[t] \in Nat /\ finished'[t] = finished[t]
    BY <1>6 DEF IInv, TypeOK
  <2>8. (IF transfer'[t] = "none" THEN 0 ELSE 1) =
           IF t \in alive \/ (t \in over /\ read = <<>>) THEN 1 ELSE 0
    BY <1>6
  <2> QED BY <2>1, <2>3, <2>4, <2>5, <2>6, <2>7, <2>8 DEF Place
<1>16. Placed'
  BY <1>6, <1>15, KeptPlaced DEF IInv
<1>17. Driven'
  BY <1>6, <1>8 DEF Driven, CurlRuns
<1>18. LastHandler'
  <2>1. Count(read, Farewell) = 0
    BY <1>7, Handlers, CountNone DEF Farewell
  <2>2. Count(ioQueue, Farewell)' = Count(ioQueue, Farewell)
    BY <1>9, <2>1
  <2> QED BY <1>6, <2>2, KeptLastHandler DEF IInv
<1> QED
  BY <1>11, <1>12, <1>13, <1>14, <1>15, <1>16, <1>17, <1>18
  DEF IInv, Accounts

\* What starts: the next round of curlPerform, and a request that is begun.
\* An upload takes a slot, when there is one.
LEMMA RunCurlPerformKeeps ==
  ASSUME IInv, RunCurlPerform
  PROVE  IInv' /\ \A t \in Requests : Place(t)' = Place(t)
<1>1. PICK ended \in MayEnd({}) : CurlPerform({}, ended, uploadCount)
  BY DEF RunCurlPerform
<1>2. CurlRuns("curlPerform") /\ "curlPerform" \in CurlItem
  BY DEF RunCurlPerform, CurlItem
<1>3. {} = {"curlPerform"} \cap Requests
  BY Handlers
<1>4. uploadCount \in Nat /\ uploadCount <= MaxUploads
  BY DEF IInv, TypeOK, Accounts, UploadSlots
<1>5. uploadCount =
        Cardinality({r \in Uploads : transfer[r] # "none" \/ r \in {}})
  BY DEF IInv, Accounts, UploadSlots
<1> QED BY <1>1, <1>2, <1>3, <1>4, <1>5, CurlPerformKeeps

\* An action becomes a transfer.  uploads counts it when it is an upload.
LEMMA BeginKeeps ==
  ASSUME IInv, NEW r \in Requests, CurlRuns(r),
         NEW uploads, Begin(r, uploads),
         uploads <= MaxUploads,
         uploads = uploadCount + (IF r \in Uploads THEN 1 ELSE 0)
  PROVE  IInv' /\ \A t \in Requests : Place(t)' = Place(t)
<1>1. PICK ended \in MayEnd({r}) : CurlPerform({r}, ended, uploads)
  BY DEF Begin
<1>2. r \in CurlItem /\ {r} = {r} \cap Requests
  BY DEF CurlItem
<1>3. uploads \in Nat /\ uploadCount \in Nat
  BY DEF IInv, TypeOK
<1>4. uploads = Cardinality({t \in Uploads : transfer[t] # "none" \/ t \in {r}})
  <2> DEFINE busy == {t \in Uploads : transfer[t] # "none"}
             then == {t \in Uploads : transfer[t] # "none" \/ t \in {r}}
  <2>1. busy \subseteq Requests /\ uploadCount = Cardinality(busy)
    BY DropboxAssumption DEF IInv, Accounts, UploadSlots
  <2>2. IsFiniteSet(busy)
    BY <2>1, SomeFinite
  <2>3. r \notin busy
    <3>1. \E some \in {{r}} : r \in some
      OBVIOUS
    <3>2. transfer[r] = "none"
      <4>1. \A x \in {r} : transfer[x] = "none"
        BY <1>1, <1>2, Transfers
      <4> QED BY <4>1
    <3> QED BY <3>2
  <2>4. then = IF r \in Uploads THEN busy \cup {r} ELSE busy
    OBVIOUS
  <2> HIDE DEF busy, then
  <2>5. Cardinality(busy \cup {r}) = Cardinality(busy) + 1
    BY <2>2, <2>3, FS_AddElement
  <2>6. CASE r \in Uploads
    BY <2>1, <2>4, <2>5, <2>6 DEF then
  <2>7. CASE r \notin Uploads
    <3>1. then = busy
      BY <2>4, <2>7
    <3>2. uploads = Cardinality(then)
      BY <1>3, <2>1, <2>7, <3>1
    <3> QED BY <3>2 DEF then
  <2> QED BY <2>6, <2>7
<1> QED BY <1>1, <1>2, <1>3, <1>4, CurlPerformKeeps

\* An upload is begun while there is a slot, or answered at once.
LEMMA UploadKeeps ==
  ASSUME IInv, NEW r \in Requests, Upload(r)
  PROVE  IInv' /\ \A t \in Requests : Place(t)' = Place(t)
<1>1. CurlRuns(r) /\ r \in Uploads
  BY DEF Upload
<1>2. CASE ActionFinished(r)
  BY <1>1, <1>2, ActionFinishedKeeps
<1>3. CASE uploadCount < MaxUploads /\ Begin(r, uploadCount + 1)
  <2>1. uploadCount \in Nat /\ MaxUploads \in Nat
    BY Limits DEF IInv, TypeOK
  <2>2. /\ uploadCount + 1 <= MaxUploads
        /\ uploadCount + 1 = uploadCount + (IF r \in Uploads THEN 1 ELSE 0)
    BY <1>1, <1>3, <2>1
  <2> QED BY <1>1, <1>3, <2>2, BeginKeeps
<1> QED BY <1>2, <1>3 DEF Upload

\* The other requests take no slot.
LEMMA QueryKeeps ==
  ASSUME IInv, NEW r \in Requests, Query(r)
  PROVE  IInv' /\ \A t \in Requests : Place(t)' = Place(t)
<1>1. CurlRuns(r) /\ r \notin Uploads
  BY DEF Query
<1>2. CASE ActionFinished(r)
  BY <1>1, <1>2, ActionFinishedKeeps
<1>3. CASE Begin(r, uploadCount)
  <2>1. uploadCount \in Nat /\ uploadCount <= MaxUploads
    BY DEF IInv, TypeOK, Accounts, UploadSlots
  <2>2. uploadCount = uploadCount + (IF r \in Uploads THEN 1 ELSE 0)
    BY <1>1, <2>1
  <2> QED BY <1>1, <1>3, <2>1, <2>2, BeginKeeps
<1> QED BY <1>2, <1>3 DEF Query

\* A step of the rest of the program.
LEMMA StutterKeeps ==
  ASSUME IInv, UNCHANGED vars
  PROVE  IInv' /\ \A t \in Requests : Place(t)' = Place(t)
<1>1. TypeOK'
  BY DEF IInv, TypeOK, vars, internals
<1>2. Accounts'
  BY QuietAccounts DEF IInv, vars, internals
<1>3. \A t \in Requests : Place(t)' = Place(t)
  BY DEF Place, vars, internals
<1>4. Placed'
  BY <1>3, KeptPlaced DEF IInv, vars
<1>5. Driven' /\ LastHandler'
  BY DEF IInv, Driven, LastHandler, vars, internals
<1> QED BY <1>1, <1>2, <1>3, <1>4, <1>5 DEF IInv

\* Every other step leaves every request in its place.
Elsewhere ==
    \/ Reset \/ Shutdown
    \/ JoinThread
    \/ CurlNext

\* What holds of the steps one by one holds of all of these.
LEMMA ElsewhereKeeps ==
  ASSUME IInv, Elsewhere
  PROVE  IInv' /\ \A t \in Requests : Place(t)' = Place(t)
<1>1. CASE Reset
  <2>1. resets' \in 0 .. MaxResets
    BY <1>1, Limits DEF Reset, IInv, TypeOK
  <2> QED BY <1>1, <2>1, PostShutdownKeeps DEF Reset
<1>2. CASE Shutdown
  <2>1. resets' \in 0 .. MaxResets
    BY <1>2 DEF Shutdown, IInv, TypeOK
  <2> QED BY <1>2, <2>1, PostShutdownKeeps DEF Shutdown
<1>3. CASE JoinThread
  BY <1>3, JoinThreadKeeps
<1>4. CASE StartThread
  BY <1>4, StartThreadKeeps
<1>5. CASE RunReturns
  BY <1>5, RunReturnsKeeps
<1>6. CASE TimerExpires
  BY <1>6, TimerExpiresKeeps
<1>7. CASE RunCurlPerform
  BY <1>7, RunCurlPerformKeeps
<1>8. ASSUME NEW r \in Requests, Upload(r) \/ Query(r)
      PROVE  IInv' /\ \A t \in Requests : Place(t)' = Place(t)
  BY <1>8, UploadKeeps, QueryKeeps
<1>9. CASE RunShutdown
  BY <1>9, RunShutdownKeeps
<1> QED
  BY <1>1, <1>2, <1>3, <1>4, <1>5, <1>6, <1>7, <1>8, <1>9
  DEF Elsewhere, CurlNext

\* The invariant is inductive.
LEMMA Invariance == Spec => []IInv
<1>1. Init => IInv
  BY InitHolds
<1>2. IInv /\ [Next]_vars => IInv'
  <2> SUFFICES ASSUME IInv, [Next]_vars PROVE IInv'
    OBVIOUS
  <2>1. ASSUME NEW r \in Requests, Request(r) PROVE IInv'
    BY <2>1, RequestKeeps
  <2>2. ASSUME NEW r \in Requests, RunFinished(r) PROVE IInv'
    BY <2>2, RunFinishedKeeps
  <2>3. CASE Recreate
    BY <2>3, RecreateKeeps
  <2>4. CASE ResetInternal
    BY <2>4, ResetInternalKeeps
  <2>5. CASE Elsewhere
    BY <2>5, ElsewhereKeeps
  <2>6. CASE UNCHANGED vars
    BY <2>6, StutterKeeps
  <2> QED
    BY <2>1, <2>2, <2>3, <2>4, <2>5, <2>6 DEF Next, IoNext, Elsewhere
<1> QED BY <1>1, <1>2, PTL DEF Spec

-----------------------------------------------------------------------------
(* What follows.                                                           *)

\* No slot is lost or given up twice, no answer is given twice, no action is
\* freed twice, whatever transfers end in one call and whenever the component
\* is reset (Dropbox.cpp:353-393, 410-470, 1070-1134).
THEOREM RequestsAreAccounted == Spec => []RequestsAccounted
<1>1. IInv => RequestsAccounted
  <2> SUFFICES ASSUME IInv PROVE RequestsAccounted
    OBVIOUS
  <2>1. \A r, s : Occurrences(r, s) = Count(s, {r})
    BY DEF Occurrences, Count, At
  <2>2. OnePlace
    BY <2>1 DEF IInv, Placed, Place, OnePlace
  <2> QED BY <2>2 DEF IInv, Accounts, RequestsAccounted
<1> QED BY <1>1, Invariance, PTL

\* Once curlPerform has run, the curl thread never ends: _timeoutTimer or a
\* posted curlPerform always has something left for it to do
\* (Dropbox.cpp:353-393), which is why a shutdown after the first transfer
\* waits for ever.
THEOREM AUsedThreadNeverEnds == Spec => []UsedNeverEnds
<1>1. IInv => UsedNeverEnds
  BY DEF IInv, Driven, UsedNeverEnds
<1> QED BY <1>1, Invariance, PTL

\* What a step does to the messages nobody has read: they are left with nothing
\* running only by the call that starts and ends a transfer, and are read when
\* the next one runs.
Watches ==
    /\ LeftUnread' =>
          LeftUnread \/ \E r \in Requests : /\ transfer[r] = "none"
                                            /\ transfer'[r] = "done"
    /\ LeftUnread /\ With("running")' # {} => messages' = <<>>

\* A step that libcurl has no part in leaves the messages as they are.
LEMMA QuietWatches ==
  ASSUME UNCHANGED <<transfer, messages>>
  PROVE  Watches
BY DEF Watches, LeftUnread, With

\* No transfers run just when none are counted.
LEMMA NoneRunning ==
  ASSUME IInv
  PROVE  runningCount = 0 <=> With("running") = {}
<1>1. IsFiniteSet(With("running"))
  BY SomeFinite DEF With
<1> QED BY <1>1, FS_EmptySet DEF IInv, Accounts, Running

\* The same, after a step.
LEMMA NoneRunningNext ==
  ASSUME IInv'
  PROVE  runningCount' = 0 <=> With("running")' = {}
<1>1. IsFiniteSet(With("running")')
  BY SomeFinite DEF With
<1> QED BY <1>1, FS_EmptySet DEF IInv, Accounts, Running

\* curlPerform reads the messages when the count has changed.
LEMMA CurlPerformWatches ==
  ASSUME IInv, IInv', NEW h, CurlRuns(h),
         NEW started, started = {h} \cap Requests, NEW uploads,
         NEW ended \in MayEnd(started), CurlPerform(started, ended, uploads)
  PROVE  Watches
<1> DEFINE alive == (With("running") \cup started) \ ended
<1>1. PICK order \in SetToSeqs(ended) :
        LET unread == messages \o order
            read == Noticed(alive, unread)
        IN  /\ runningCount' = Cardinality(alive)
            /\ messages' = IF read = <<>> THEN unread ELSE <<>>
            /\ transfer' =
                  [r \in Requests |->
                      CASE r \in alive -> "running"
                        [] r \in ToSet(unread) \ ToSet(read) -> "done"
                        [] OTHER -> "none"]
  BY DEF CurlPerform
<1> DEFINE unread == messages \o order
           read == Noticed(alive, unread)
<1>2. messages' # <<>> => read = <<>> /\ runningCount' = runningCount
  BY <1>1 DEF Noticed
<1>3. ASSUME LeftUnread', ~LeftUnread
      PROVE  \E r \in Requests : transfer[r] = "none" /\ transfer'[r] = "done"
  <2>1. messages' # <<>> /\ With("running")' = {}
    BY <1>3 DEF LeftUnread
  <2>2. With("running") = {} /\ read = <<>>
    BY <1>2, <2>1, NoneRunning, NoneRunningNext
  <2>3. messages = <<>>
    BY <1>3, <2>2 DEF LeftUnread
  <2>4. ended \subseteq started /\ ended \subseteq Requests
        /\ \A r \in started : transfer[r] = "none"
    <3>1. ended \subseteq Requests /\ \A r \in started : transfer[r] = "none"
      BY Transfers
    <3> QED BY <2>2, <3>1 DEF MayEnd
  <2>5. IsFiniteSet(ended) /\ order \in Seq(ended)
    BY <2>4, SomeFinite, Ordered
  <2>6. unread = order
    BY <2>3, <2>5
  <2>7. order # <<>>
    BY <1>1, <2>1, <2>2, <2>6
  <2>8. PICK r : r \in ToSet(order) /\ r \in ended
    BY <2>5, <2>7 DEF ToSet
  <2>9. r \notin alive /\ r \in ToSet(unread) \ ToSet(read)
    BY <2>2, <2>6, <2>8 DEF ToSet
  <2>10. transfer'[r] = "done"
    BY <1>1, <2>4, <2>8, <2>9
  <2> QED BY <2>4, <2>8, <2>10
<1>4. ASSUME LeftUnread, With("running")' # {} PROVE messages' = <<>>
  <2>1. runningCount = 0 /\ runningCount' # 0
    BY <1>4, NoneRunning, NoneRunningNext DEF LeftUnread
  <2> QED BY <1>2, <2>1
<1> QED BY <1>3, <1>4 DEF Watches

\* The same of every step: only curlPerform and the reset touch the messages.
LEMMA WatchedStep ==
  ASSUME IInv, IInv', [Next]_vars
  PROVE  Watches
<1>1. CASE RunCurlPerform
  <2>1. PICK ended \in MayEnd({}) : CurlPerform({}, ended, uploadCount)
    BY <1>1 DEF RunCurlPerform
  <2>2. CurlRuns("curlPerform") /\ {"curlPerform"} \cap Requests = {}
    BY <1>1, Handlers DEF RunCurlPerform
  <2> QED BY <2>1, <2>2, CurlPerformWatches
<1>2. ASSUME NEW r \in Requests, NEW uploads, CurlRuns(r), Begin(r, uploads)
      PROVE  Watches
  <2>1. PICK ended \in MayEnd({r}) : CurlPerform({r}, ended, uploads)
    BY <1>2 DEF Begin
  <2>2. {r} \cap Requests = {r}
    OBVIOUS
  <2> QED BY <1>2, <2>1, <2>2, CurlPerformWatches
<1>3. ASSUME NEW r \in Requests, Upload(r) \/ Query(r)
      PROVE  Watches
  <2>1. /\ CurlRuns(r)
        /\ \/ ActionFinished(r)
           \/ Begin(r, uploadCount + 1)
           \/ Begin(r, uploadCount)
    BY <1>3 DEF Upload, Query
  <2>2. CASE ActionFinished(r)
    BY <2>2, QuietWatches DEF ActionFinished, internals
  <2> QED BY <1>2, <2>1, <2>2
<1>4. CASE Recreate
  <2>1. messages' = <<>>
    BY <1>4 DEF Recreate
  <2> QED BY <2>1 DEF Watches, LeftUnread
<1>5. CASE \/ \E r \in Requests : Request(r) \/ RunFinished(r)
           \/ Reset \/ Shutdown \/ JoinThread \/ ResetInternal
           \/ StartThread \/ RunReturns \/ TimerExpires \/ RunShutdown
           \/ UNCHANGED vars
  <2>1. UNCHANGED <<transfer, messages>>
    BY <1>5 DEF Request, RunFinished, Reset, Shutdown, PostShutdown, JoinThread,
                ResetInternal, StartThread, RunReturns, TimerExpires,
                RunShutdown, vars, internals
  <2> QED BY <2>1, QuietWatches
<1> QED BY <1>1, <1>3, <1>4, <1>5 DEF Next, IoNext, CurlNext

\* While libcurl has transfers, curl_multi_perform will be called again; an end
\* that was not noticed because another transfer began is noticed when that one
\* ends; and what is left unread with nothing running ended in the call that
\* started it, and is read with the next transfer (Dropbox.cpp:353-393).
THEOREM TransfersAreWatched == Spec => TransfersWatched
<1>1. IInv => PerformDriven
  <2> SUFFICES ASSUME IInv, With("running") # {} PROVE PerformDriven
    BY DEF PerformDriven
  <2>1. performed
    BY DEF IInv, Accounts, Unused, With
  <2>2. Occurrences("curlPerform", curlQueue) = Count(curlQueue, {"curlPerform"})
    BY DEF Occurrences, Count, At
  <2> QED BY <2>1, <2>2 DEF IInv, Driven, PerformDriven
<1>2. IInv /\ IInv' /\ [Next]_vars =>
        [LeftUnread' =>
            LeftUnread \/ \E r \in Requests : /\ transfer[r] = "none"
                                              /\ transfer'[r] = "done"]_vars
  BY WatchedStep DEF Watches
<1>3. IInv /\ IInv' /\ [Next]_vars =>
        [LeftUnread /\ With("running")' # {} => messages' = <<>>]_vars
  BY WatchedStep DEF Watches
<1> QED BY <1>1, <1>2, <1>3, Invariance, PTL DEF Spec, TransfersWatched

-----------------------------------------------------------------------------
(* The end of a reset or a shutdown: what the object that goes still has.  *)

\* Nothing is posted after what curlThreadMain posts last.
NothingAfter == ~Before(ioQueue, Farewell, Requests)

\* The thread only ends when the io thread waits for it.
WaitedFor ==
    closing = "none" =>
        /\ Count(ioQueue, Farewell) = 0
        /\ internal =>
              /\ Count(curlQueue, {"shutdown"}) = 0
              /\ curlThread # "ended"
              /\ curlThread = "running" => working

\* What the ended thread has not taken came while the io thread waited.
OnlyLateLeft ==
    curlThread = "ended" =>
        \A r \in Requests : Count(curlQueue, {r}) > 0 => r \in late

Closes == NothingAfter /\ WaitedFor /\ OnlyLateLeft

\* Before the thread has ended there is no farewell.
LEMMA NoFarewell ==
  IInv /\ curlThread # "ended" =>
      NothingAfter /\ OnlyLateLeft /\ Count(ioQueue, Farewell) = 0
<1> SUFFICES ASSUME IInv, curlThread # "ended"
             PROVE  NothingAfter /\ OnlyLateLeft /\ Count(ioQueue, Farewell) = 0
  OBVIOUS
<1>1. Count(ioQueue, Farewell) = 0
  BY Counts DEF IInv, LastHandler
<1>2. NothingAfter
  BY <1>1, OrderCounts DEF NothingAfter, IInv, TypeOK
<1> QED BY <1>1, <1>2 DEF OnlyLateLeft

\* The same, after a step.
LEMMA NoFarewellNext ==
  (IInv /\ curlThread # "ended" =>
      NothingAfter /\ OnlyLateLeft /\ Count(ioQueue, Farewell) = 0)'
BY NoFarewell, PTL

\* In the beginning nothing ends.
LEMMA InitCloses ==
  ASSUME Init
  PROVE  Closes
<1>1. /\ curlQueue = <<>> /\ ioQueue = <<>>
      /\ curlThread = "starting"
  BY DEF Init, NewInternal
<1>2. Count(curlQueue, {"shutdown"}) = 0 /\ Count(ioQueue, Farewell) = 0
  BY <1>1, CountEmpty
<1>3. NothingAfter
  BY <1>1, NoOrder DEF NothingAfter
<1> QED BY <1>1, <1>2, <1>3 DEF Closes, WaitedFor, OnlyLateLeft

\* What the running thread's own handlers do.
LEMMA RunningCloses ==
  ASSUME IInv, IInv', Closes, NEW h, CurlRuns(h),
         \/ curlQueue' = Tail(curlQueue)
         \/ curlQueue' = Append(Tail(curlQueue), "curlPerform"),
         UNCHANGED <<internal, curlThread, closing>>,
         working' = working \/ h = "shutdown"
  PROVE  Closes'
<1>1. curlThread' = "running"
  BY DEF CurlRuns
<1>2. NothingAfter' /\ OnlyLateLeft' /\ Count(ioQueue, Farewell)' = 0
  BY <1>1, NoFarewellNext
<1>3. SUFFICES ASSUME closing' = "none", internal'
               PROVE  Count(curlQueue, {"shutdown"})' = 0 /\ working'
  BY <1>1, <1>2 DEF Closes, WaitedFor
<1>4. Count(curlQueue, {"shutdown"}) = 0 /\ working
  BY <1>1, <1>3 DEF Closes, WaitedFor
<1>5. /\ Tail(curlQueue) \in Seq(CurlItem) /\ "curlPerform" \in CurlItem
      /\ Count(Tail(curlQueue), {"shutdown"}) \in Nat
      /\ Count(curlQueue, {"shutdown"}) =
           Count(Tail(curlQueue), {"shutdown"})
             + (IF h \in {"shutdown"} THEN 1 ELSE 0)
  BY Taken DEF CurlItem
<1>6. Count(Tail(curlQueue), {"shutdown"}) = 0 /\ h # "shutdown"
  BY <1>4, <1>5
<1>7. Count(Append(Tail(curlQueue), "curlPerform"), {"shutdown"}) = 0
  <2>1. Added(Tail(curlQueue), "curlPerform",
              Append(Tail(curlQueue), "curlPerform"))
    BY <1>5, Adding
  <2> QED BY <1>6, <2>1 DEF Added
<1> QED BY <1>4, <1>6, <1>7

\* The handlers of requests and curlPerform itself.
LEMMA TransferringCloses ==
  ASSUME IInv, IInv', Closes,
         RunCurlPerform \/ \E r \in Requests : Upload(r) \/ Query(r)
  PROVE  Closes'
<1>1. ASSUME NEW started, NEW ended, NEW uploads,
             CurlPerform(started, ended, uploads)
      PROVE  /\ \/ curlQueue' = Tail(curlQueue)
                \/ curlQueue' = Append(Tail(curlQueue), "curlPerform")
             /\ UNCHANGED <<internal, curlThread, working, closing>>
  BY <1>1 DEF CurlPerform, CurlPerformAgain
<1>2. PICK h :
         /\ CurlRuns(h)
         /\ \/ curlQueue' = Tail(curlQueue)
            \/ curlQueue' = Append(Tail(curlQueue), "curlPerform")
         /\ UNCHANGED <<internal, curlThread, working, closing>>
  <2>1. CASE RunCurlPerform
    BY <1>1, <2>1 DEF RunCurlPerform
  <2>2. ASSUME NEW r \in Requests, Upload(r) \/ Query(r)
        PROVE  /\ CurlRuns(r)
               /\ \/ curlQueue' = Tail(curlQueue)
                  \/ curlQueue' = Append(Tail(curlQueue), "curlPerform")
               /\ UNCHANGED <<internal, curlThread, working, closing>>
    <3>1. /\ CurlRuns(r)
          /\ \/ ActionFinished(r)
             \/ Begin(r, uploadCount + 1)
             \/ Begin(r, uploadCount)
      BY <2>2 DEF Upload, Query
    <3>2. CASE ActionFinished(r)
      BY <3>1, <3>2 DEF ActionFinished, internals
    <3>3. ASSUME NEW uploads, Begin(r, uploads)
          PROVE  /\ \/ curlQueue' = Tail(curlQueue)
                    \/ curlQueue' = Append(Tail(curlQueue), "curlPerform")
                 /\ UNCHANGED <<internal, curlThread, working, closing>>
      BY <1>1, <3>3 DEF Begin
    <3> QED BY <3>1, <3>2, <3>3
  <2> QED BY <2>1, <2>2
<1> QED BY <1>2, RunningCloses

\* A request, which is late when the thread may have ended.
LEMMA RequestCloses ==
  ASSUME IInv, Closes, NEW r \in Requests, Request(r)
  PROVE  Closes'
<1>1. /\ internal /\ curlQueue' = Append(curlQueue, r)
      /\ late' = IF closing = "none" THEN late ELSE late \cup {r}
      /\ UNCHANGED <<internal, curlThread, working, ioQueue, closing>>
  BY DEF Request, Post, internals
<1>2. curlQueue \in Seq(CurlItem) /\ r \in CurlItem
  BY DEF IInv, TypeOK, CurlItem
<1>3. Added(curlQueue, r, curlQueue')
  BY <1>1, <1>2, Adding
<1>4. NothingAfter'
  BY <1>1 DEF Closes, NothingAfter
<1>5. WaitedFor'
  <2>1. Count(curlQueue', {"shutdown"}) = Count(curlQueue, {"shutdown"})
    BY <1>3, Handlers DEF Added
  <2> QED BY <1>1, <2>1 DEF Closes, WaitedFor
<1>6. OnlyLateLeft'
  <2> SUFFICES ASSUME curlThread' = "ended", NEW t \in Requests,
                      Count(curlQueue, {t})' > 0
               PROVE  t \in late'
    BY DEF OnlyLateLeft
  <2>1. closing # "none"
    BY <1>1 DEF Closes, WaitedFor
  <2>2. CASE t = r
    BY <1>1, <2>1, <2>2
  <2>3. CASE t # r
    <3>1. Count(curlQueue', {t}) = Count(curlQueue, {t})
      BY <1>3, <2>3 DEF Added
    <3> QED BY <1>1, <3>1 DEF Closes, OnlyLateLeft
  <2> QED BY <2>2, <2>3
<1> QED BY <1>4, <1>5, <1>6 DEF Closes

\* What the io thread runs until it makes or destroys the object.
LEMMA IoCloses ==
  ASSUME IInv, Closes, JoinThread \/ \E r \in Requests : RunFinished(r)
  PROVE  Closes'
<1>1. /\ ioQueue \in Seq(IoItem) /\ ioQueue # <<>>
      /\ ioQueue' = Tail(ioQueue) \/ ioQueue' = Append(Tail(ioQueue), "shutdowned")
      /\ JoinThread => Head(ioQueue) = "curlThreadMain"
      /\ ~JoinThread => ioQueue' = Tail(ioQueue)
      /\ UNCHANGED <<internal, curlQueue, curlThread, working, closing, late>>
  BY DEF IInv, TypeOK, JoinThread, RunFinished, IoRuns, internals
<1> DEFINE t == Tail(ioQueue)
<1>2. t \in Seq(IoItem) /\ Removed(ioQueue, Head(ioQueue), t)
  BY <1>1, Removing
<1>3. "shutdowned" \in IoItem
  BY DEF IoItem
<1>4. Added(t, "shutdowned", Append(t, "shutdowned"))
  BY <1>2, <1>3, Adding
<1> HIDE DEF t
<1>5. NothingAfter'
  <2>1. ~Before(t, Farewell, Requests)
    BY <1>2 DEF Closes, NothingAfter, Removed
  <2>2. ~Before(Append(t, "shutdowned"), Farewell, Requests)
    BY <1>4, <2>1, Handlers DEF Added
  <2> QED BY <1>1, <2>1, <2>2 DEF NothingAfter, t
<1>6. WaitedFor'
  <2> SUFFICES ASSUME closing = "none" PROVE Count(ioQueue, Farewell)' = 0
    BY <1>1 DEF Closes, WaitedFor
  <2>1. Count(ioQueue, Farewell) = 0
    BY DEF Closes, WaitedFor
  <2>2. Head(ioQueue) \notin Farewell /\ Count(t, Farewell) = 0
    BY <1>2, <2>1 DEF Removed
  <2>3. ~JoinThread
    BY <1>1, <2>2 DEF Farewell
  <2> QED BY <1>1, <2>2, <2>3 DEF t
<1>7. OnlyLateLeft'
  BY <1>1 DEF Closes, OnlyLateLeft
<1> QED BY <1>5, <1>6, <1>7 DEF Closes

\* The reset or shutdown is called.
LEMMA PostShutdownCloses ==
  ASSUME IInv, Closes, NEW then \in {"reset", "shutdown"}, PostShutdown(then)
  PROVE  Closes'
<1>1. /\ closing' # "none" /\ curlQueue' = Append(curlQueue, "shutdown")
      /\ UNCHANGED <<curlThread, ioQueue, late>>
  BY DEF PostShutdown, internals
<1>2. curlQueue \in Seq(CurlItem) /\ "shutdown" \in CurlItem
  BY DEF IInv, TypeOK, CurlItem
<1>3. Added(curlQueue, "shutdown", curlQueue')
  BY <1>1, <1>2, Adding
<1>4. \A r \in Requests : Count(curlQueue', {r}) = Count(curlQueue, {r})
  BY <1>3, Handlers DEF Added
<1> QED
  BY <1>1, <1>4 DEF Closes, NothingAfter, WaitedFor, OnlyLateLeft

\* The thread's last handler is run: what is left is late, and no answer is.
LEMMA LeftAtTheEnd ==
  ASSUME IInv, Closes, IoRuns("shutdowned")
  PROVE  /\ closing # "none" /\ curlThread = "ended"
         /\ Count(Tail(ioQueue), Farewell) = 0
         /\ \A r \in Requests :
               /\ Count(ioQueue, {r}) = 0 /\ transfer[r] = "none"
               /\ Count(curlQueue, {r}) > 0 => r \in late
<1>1. /\ ioQueue \in Seq(IoItem) /\ ioQueue # <<>>
      /\ Head(ioQueue) = "shutdowned"
  BY DEF IInv, TypeOK, IoRuns
<1> DEFINE t == Tail(ioQueue)
<1>2. Removed(ioQueue, "shutdowned", t)
  BY <1>1, Removing
<1> HIDE DEF t
<1>3. "shutdowned" \in Farewell /\ "shutdowned" \notin Requests
  BY Handlers DEF Farewell
<1>4. Count(ioQueue, Farewell) = 1 /\ Count(t, Farewell) = 0
  <2>1. /\ Count(ioQueue, Farewell) = Count(t, Farewell) + 1
        /\ Count(t, Farewell) \in Nat
    BY <1>2, <1>3 DEF Removed
  <2> QED BY <2>1 DEF IInv, LastHandler
<1>5. closing # "none" /\ curlThread = "ended"
  BY <1>4 DEF Closes, WaitedFor, IInv, LastHandler
<1>6. \A r \in Requests : transfer[r] = "none"
  BY <1>5 DEF IInv, Driven, Accounts, Unused
<1>7. Count(t, Requests) = 0
  BY <1>2, <1>3 DEF Closes, NothingAfter, Removed
<1>8. ASSUME NEW r \in Requests PROVE Count(ioQueue, {r}) = 0
  <2>1. t \in Seq(IoItem)
    BY <1>1 DEF t
  <2>2. Count(t, {r}) <= Count(t, Requests) /\ Count(t, {r}) \in Nat
    BY <2>1, CountFewer, CountType
  <2>3. Count(ioQueue, {r}) = Count(t, {r})
    BY <1>2, <1>3 DEF Removed
  <2> QED BY <1>7, <2>2, <2>3
<1> QED BY <1>4, <1>5, <1>6, <1>8 DEF Closes, OnlyLateLeft, t

\* The object is made anew or destroyed.
LEMMA EndCloses ==
  ASSUME IInv, Closes, Recreate \/ ResetInternal
  PROVE  Closes'
<1>1. /\ curlQueue' = <<>> /\ ioQueue' = Tail(ioQueue)
      /\ ioQueue \in Seq(IoItem) /\ ioQueue # <<>>
      /\ curlThread' # "ended" \/ ~internal'
      /\ curlThread' = "running" => ~internal'
  <2>1. CASE Recreate
    BY <2>1 DEF Recreate, IoRuns, IInv, TypeOK
  <2>2. CASE ResetInternal
    BY <2>2 DEF ResetInternal, IoRuns, IInv, TypeOK
  <2> QED BY <2>1, <2>2
<1>2. Count(Tail(ioQueue), Farewell) = 0
  BY LeftAtTheEnd DEF Recreate, ResetInternal
<1>3. NothingAfter'
  BY <1>1, Removing DEF Closes, NothingAfter, Removed
<1>4. \A X : Count(curlQueue', X) = 0
  BY <1>1, CountEmpty
<1> QED BY <1>1, <1>2, <1>3, <1>4 DEF Closes, WaitedFor, OnlyLateLeft

\* Every step keeps it.
LEMMA ClosesStep ==
  ASSUME IInv, IInv', Closes, [Next]_vars
  PROVE  Closes'
<1>1. ASSUME NEW r \in Requests, Request(r) PROVE Closes'
  BY <1>1, RequestCloses
<1>2. CASE JoinThread \/ \E r \in Requests : RunFinished(r)
  BY <1>2, IoCloses
<1>3. CASE Reset \/ Shutdown
  BY <1>3, PostShutdownCloses DEF Reset, Shutdown
<1>4. CASE Recreate \/ ResetInternal
  BY <1>4, EndCloses
<1>5. CASE StartThread
  <2>1. /\ curlThread' = "running" /\ working' /\ curlThread = "starting"
        /\ internal /\ UNCHANGED <<internal, curlQueue, closing>>
    BY <1>5 DEF StartThread, IInv, TypeOK
  <2>2. NothingAfter' /\ OnlyLateLeft' /\ Count(ioQueue, Farewell)' = 0
    BY <2>1, NoFarewellNext
  <2> QED BY <2>1, <2>2 DEF Closes, WaitedFor
<1>6. CASE RunReturns
  <2>1. /\ internal /\ curlThread = "running" /\ ~working
        /\ curlQueue' = <<>> /\ closing' = closing
        /\ ioQueue' = Append(ioQueue, "curlThreadMain")
    BY <1>6 DEF RunReturns
  <2>2. closing # "none"
    BY <2>1 DEF Closes, WaitedFor
  <2>3. ioQueue \in Seq(IoItem) /\ "curlThreadMain" \in IoItem
    BY DEF IInv, TypeOK, IoItem
  <2>4. NothingAfter'
    BY <2>1, <2>3, Adding, Handlers DEF Closes, NothingAfter, Added
  <2>5. \A X : Count(curlQueue', X) = 0
    BY <2>1, CountEmpty
  <2> QED BY <2>1, <2>2, <2>4, <2>5 DEF Closes, WaitedFor, OnlyLateLeft
<1>7. CASE TimerExpires
  <2>1. /\ curlQueue' = Append(curlQueue, "curlPerform")
        /\ UNCHANGED <<internal, curlThread, working, ioQueue, closing, late>>
    BY <1>7 DEF TimerExpires
  <2>2. curlQueue \in Seq(CurlItem) /\ "curlPerform" \in CurlItem
    BY DEF IInv, TypeOK, CurlItem
  <2>3. Added(curlQueue, "curlPerform", curlQueue')
    BY <2>1, <2>2, Adding
  <2>4. /\ Count(curlQueue', {"shutdown"}) = Count(curlQueue, {"shutdown"})
        /\ \A r \in Requests : Count(curlQueue', {r}) = Count(curlQueue, {r})
    BY <2>3, Handlers DEF Added
  <2> QED BY <2>1, <2>4 DEF Closes, NothingAfter, WaitedFor, OnlyLateLeft
<1>8. CASE RunCurlPerform \/ \E r \in Requests : Upload(r) \/ Query(r)
  BY <1>8, TransferringCloses
<1>9. CASE RunShutdown
  BY <1>9, RunningCloses DEF RunShutdown
<1>10. CASE UNCHANGED vars
  BY <1>10 DEF vars, internals, Closes, NothingAfter, WaitedFor, OnlyLateLeft
<1> QED
  BY <1>1, <1>2, <1>3, <1>4, <1>5, <1>6, <1>7, <1>8, <1>9, <1>10
  DEF Next, IoNext, CurlNext

\* What goes with the object is always late.
LEMMA Closings == Spec => []Closes
<1>1. Init => Closes
  BY InitCloses
<1>2. IInv /\ IInv' /\ Closes /\ [Next]_vars => Closes'
  BY ClosesStep
<1> QED BY <1>1, <1>2, Invariance, PTL DEF Spec

-----------------------------------------------------------------------------
(* The refinement: what has become of a request.                           *)

Fate(r) ==
    IF r \notin made THEN "new"
    ELSE IF finished[r] > 0 THEN "answered"
    ELSE IF ~Pending(r) THEN "dropped"
    ELSE IF r \in late THEN "late"
    ELSE "made"

Fates == [r \in Requests |-> Fate(r)]

\* A request that is not answered is pending while it is in some place.
FatesArePlaces ==
    \A r \in Requests : Fate(r) =
        IF r \notin made THEN "new"
        ELSE IF finished[r] > 0 THEN "answered"
        ELSE IF Place(r) = 0 THEN "dropped"
        ELSE IF r \in late THEN "late"
        ELSE "made"

\* What has become of a request is seen from its places.
LEMMA FateIsThePlace == IInv => FatesArePlaces
<1> SUFFICES ASSUME IInv, NEW r \in Requests
             PROVE  finished[r] = 0 => (~Pending(r) <=> Place(r) = 0)
  BY DEF IInv, TypeOK, Fate, FatesArePlaces
<1>1. /\ Occurrences(r, curlQueue) = Count(curlQueue, {r})
      /\ Occurrences(r, ioQueue) = Count(ioQueue, {r})
  BY DEF Occurrences, Count, At
<1>2. Count(curlQueue, {r}) \in Nat /\ Count(ioQueue, {r}) \in Nat
  BY Counts DEF IInv
<1> QED BY <1>1, <1>2 DEF Pending, Place

\* The same, after a step.
LEMMA FateIsThePlaceNext == IInv' => FatesArePlaces'
BY FateIsThePlace, PTL

\* Nothing becomes of the requests that stay in their places.
LEMMA SameFates ==
  ASSUME IInv, IInv', UNCHANGED <<made, late, finished>>,
         \A r \in Requests : Place(r)' = Place(r)
  PROVE  Fates' = Fates
<1>1. FatesArePlaces /\ FatesArePlaces'
  BY FateIsThePlace, FateIsThePlaceNext
<1>2. \A r \in Requests : Fate(r)' = Fate(r)
  BY <1>1 DEF FatesArePlaces
<1> QED BY <1>2 DEF Fates

\* A request that is made is late when the io thread waits.
LEMMA MadeFates ==
  ASSUME IInv, IInv', NEW r \in Requests, Request(r)
  PROVE  /\ Fates[r] = "new"
         /\ Fates' = [Fates EXCEPT ![r] = IF closing # "none" THEN "late"
                                          ELSE "made"]
<1>1. FatesArePlaces /\ FatesArePlaces'
  BY FateIsThePlace, FateIsThePlaceNext
<1>2. /\ \A t \in Requests \ {r} : Place(t)' = Place(t)
      /\ Place(r) = 0 /\ Place(r)' = 1
  BY RequestKeeps
<1>3. /\ r \notin made /\ made' = made \cup {r} /\ finished' = finished
      /\ late' = IF closing = "none" THEN late ELSE late \cup {r}
  BY DEF Request
<1>4. finished[r] = 0 /\ r \notin late
  <2>1. finished[r] \in Nat /\ late \subseteq made
    BY DEF IInv, TypeOK
  <2>2. Count(curlQueue, {r}) \in Nat /\ Count(ioQueue, {r}) \in Nat
    BY Counts DEF IInv
  <2> QED BY <1>2, <1>3, <2>1, <2>2 DEF Place
<1>5. Fate(r) = "new"
      /\ Fate(r)' = IF closing # "none" THEN "late" ELSE "made"
  BY <1>1, <1>2, <1>3, <1>4 DEF FatesArePlaces
<1>6. \A t \in Requests \ {r} : Fate(t)' = Fate(t)
  BY <1>1, <1>2, <1>3 DEF FatesArePlaces
<1> QED BY <1>5, <1>6 DEF Fates

\* The caller's handler is run with the answer.
LEMMA AnsweredFates ==
  ASSUME IInv, IInv', NEW r \in Requests, RunFinished(r)
  PROVE  /\ Fates[r] \in {"made", "late"}
         /\ Fates' = [Fates EXCEPT ![r] = "answered"]
<1>1. FatesArePlaces /\ FatesArePlaces'
  BY FateIsThePlace, FateIsThePlaceNext
<1>2. /\ \A t \in Requests : Place(t)' = Place(t)
      /\ finished[r] = 0
  BY RunFinishedKeeps
<1>3. /\ made' = made /\ late' = late
      /\ finished' = [finished EXCEPT ![r] = @ + 1]
  BY DEF RunFinished
<1>4. Place(r) > 0
  <2>1. r \in {r} /\ ioQueue \in Seq(IoItem) /\ ioQueue # <<>>
        /\ Head(ioQueue) = r
    BY DEF IInv, TypeOK, RunFinished, IoRuns
  <2>2. Count(ioQueue, {r}) > 0
    BY <2>1, HeadCounts
  <2>3. Count(curlQueue, {r}) \in Nat /\ Count(ioQueue, {r}) \in Nat
    BY Counts DEF IInv
  <2> QED BY <1>2, <2>2, <2>3 DEF Place
<1>5. r \in made
  BY <1>4 DEF IInv, Placed
<1>6. finished'[r] = 1 /\ \A t \in Requests \ {r} : finished'[t] = finished[t]
  BY <1>2, <1>3 DEF IInv, TypeOK
<1>7. Fate(r) \in {"made", "late"} /\ Fate(r)' = "answered"
  BY <1>1, <1>2, <1>3, <1>4, <1>5, <1>6 DEF FatesArePlaces
<1>8. \A t \in Requests \ {r} : Fate(t)' = Fate(t)
  BY <1>1, <1>2, <1>3, <1>6 DEF FatesArePlaces
<1> QED BY <1>7, <1>8 DEF Fates

\* The object that goes had late requests only, and drops them.
LEMMA DroppedFates ==
  ASSUME IInv, IInv', Closes, Recreate \/ ResetInternal
  PROVE  /\ closing # "none" /\ closing' = "none"
         /\ \A r \in Requests : Fates[r] # "made"
         /\ Fates' = [r \in Requests |-> IF Fates[r] = "late" THEN "dropped"
                                         ELSE Fates[r]]
<1>1. FatesArePlaces /\ FatesArePlaces'
  BY FateIsThePlace, FateIsThePlaceNext
<1>2. /\ IoRuns("shutdowned") /\ closing' = "none" /\ curlQueue' = <<>>
      /\ ioQueue' = Tail(ioQueue) /\ UNCHANGED <<made, late, finished>>
  BY DEF Recreate, ResetInternal
<1>3. /\ closing # "none"
      /\ \A r \in Requests :
            /\ Count(ioQueue, {r}) = 0 /\ transfer[r] = "none"
            /\ Count(curlQueue, {r}) > 0 => r \in late
  BY <1>2, LeftAtTheEnd
<1>4. ASSUME NEW r \in Requests
      PROVE  /\ Fate(r) # "made"
             /\ Fate(r)' = IF Fate(r) = "late" THEN "dropped" ELSE Fate(r)
  <2>1. finished[r] \in Nat /\ Count(curlQueue, {r}) \in Nat
    BY Counts DEF IInv, TypeOK
  <2>2. Place(r) = Count(curlQueue, {r}) + finished[r]
    BY <1>3, <2>1 DEF Place
  <2>3. Place(r)' = finished[r]
    <3>1. transfer'[r] = "none"
      BY <1>3 DEF Recreate, ResetInternal, internals
    <3>2. Count(curlQueue, {r})' = 0
      BY <1>2, CountEmpty
    <3>3. Count(ioQueue, {r})' = 0
      <4>1. ioQueue \in Seq(IoItem) /\ ioQueue # <<>>
        BY <1>2 DEF IInv, TypeOK, IoRuns
      <4>2. Removed(ioQueue, "shutdowned", Tail(ioQueue))
        BY <1>2, <4>1, Removing DEF IoRuns
      <4>3. "shutdowned" \notin {r}
        BY Handlers
      <4> QED BY <1>2, <1>3, <4>2, <4>3 DEF Removed
    <3> QED BY <1>2, <2>1, <3>1, <3>2, <3>3 DEF Place
  <2>4. Fate(r) = IF r \notin made THEN "new"
                  ELSE IF finished[r] > 0 THEN "answered"
                  ELSE IF Count(curlQueue, {r}) = 0 THEN "dropped"
                  ELSE "late"
    BY <1>1, <1>3, <2>1, <2>2 DEF FatesArePlaces
  <2>5. Fate(r)' = IF r \notin made THEN "new"
                   ELSE IF finished[r] > 0 THEN "answered"
                   ELSE "dropped"
    BY <1>1, <1>2, <2>1, <2>3 DEF FatesArePlaces
  <2> QED BY <2>4, <2>5
<1>5. Fates' = [r \in Requests |-> IF Fates[r] = "late" THEN "dropped"
                                   ELSE Fates[r]]
  BY <1>4 DEF Fates
<1> QED BY <1>2, <1>3, <1>4, <1>5 DEF Fates

\* Every step makes a request, answers one, begins or ends a reset or shutdown,
\* or leaves all alone: a request is answered once, on the io thread; a reset or
\* shutdown waits for those made before it, and only those made while it waits
\* may disappear with its end (Dropbox.cpp:353-393, 410-470, 1070-1134).
THEOREM RequestsAreImplemented == Spec => ImplementsRequests
<1> DEFINE R == [r \in Requests |->
        IF r \notin made THEN "new"
        ELSE IF finished[r] > 0 THEN "answered"
        ELSE IF ~Pending(r) THEN "dropped"
        ELSE IF r \in late THEN "late"
        ELSE "made"]
           C == closing # "none"
<1>1. R = Fates
  BY DEF Fates, Fate
<1>2. Init => Requested!Init
  BY DEF Init, Requested!Init
<1>3. IInv /\ IInv' /\ Closes /\ [Next]_vars => [Requested!Next]_<<R, C>>
  <2> SUFFICES ASSUME IInv, IInv', Closes, [Next]_vars
               PROVE  Requested!Next \/ (R' = R /\ C' = C)
    OBVIOUS
  <2>1. R' = Fates'
    BY DEF Fates, Fate
  <2> HIDE DEF R
  <2>2. ASSUME NEW r \in Requests, Request(r)
        PROVE  Requested!Make(r)
    <3>1. /\ R[r] = "new" /\ C' = C
          /\ R' = [R EXCEPT ![r] = IF C THEN "late" ELSE "made"]
      BY <1>1, <2>1, <2>2, MadeFates DEF Request
    <3> QED BY <3>1 DEF Requested!Make, R
  <2>3. ASSUME NEW r \in Requests, RunFinished(r)
        PROVE  Requested!Answer(r)
    <3>1. /\ R[r] \in {"made", "late"} /\ C' = C
          /\ R' = [R EXCEPT ![r] = "answered"]
      BY <1>1, <2>1, <2>3, AnsweredFates DEF RunFinished
    <3> QED BY <3>1 DEF Requested!Answer, R
  <2>4. CASE Recreate \/ ResetInternal
    <3>1. /\ C /\ C' = FALSE
          /\ \A r \in Requests : R[r] # "made"
          /\ R' = [r \in Requests |-> IF R[r] = "late" THEN "dropped" ELSE R[r]]
      BY <1>1, <2>1, <2>4, DroppedFates
    <3>2. Requested!Closed
      BY <3>1 DEF Requested!Closed, R
    <3> QED BY <3>2 DEF Requested!Next
  <2>5. CASE Elsewhere
    <3>1. \A r \in Requests : Place(r)' = Place(r)
      BY <2>5, ElsewhereKeeps
    <3>2. UNCHANGED <<made, late, finished>>
      BY <2>5 DEF Elsewhere, CurlNext, Reset, Shutdown, PostShutdown, JoinThread,
                  StartThread, RunReturns, TimerExpires, RunCurlPerform, Upload,
                  Query, Begin, ActionFinished, CurlPerform, RunShutdown
    <3>3. R' = R
      BY <1>1, <2>1, <3>1, <3>2, SameFates
    <3>4. CASE Reset \/ Shutdown
      <4>1. ~C /\ C' = TRUE
        BY <3>4 DEF Reset, Shutdown, PostShutdown
      <4>2. Requested!Close
        BY <3>3, <4>1 DEF Requested!Close, R
      <4> QED BY <4>2 DEF Requested!Next
    <3>5. CASE ~(Reset \/ Shutdown)
      <4>1. closing' = closing
        BY <2>5, <3>5
        DEF Elsewhere, CurlNext, JoinThread, StartThread, RunReturns,
            TimerExpires, RunCurlPerform, Upload, Query, Begin,
            ActionFinished, CurlPerform, RunShutdown
      <4> QED BY <3>3, <4>1
    <3> QED BY <3>4, <3>5
  <2>6. CASE UNCHANGED vars
    <3>1. \A r \in Requests : Place(r)' = Place(r)
      BY <2>6, StutterKeeps
    <3>2. R' = R
      BY <1>1, <2>1, <2>6, <3>1, SameFates DEF vars
    <3> QED BY <2>6, <3>2 DEF vars
  <2> QED
    BY <2>2, <2>3, <2>4, <2>5, <2>6
    DEF Next, IoNext, Elsewhere, Requested!Next
<1> QED
  BY <1>2, <1>3, Invariance, Closings, PTL
  DEF Spec, ImplementsRequests, Requested!Spec, Requested!vars

-----------------------------------------------------------------------------
(* The copy of the folder.                                                 *)

\* What _items may be.
Tables == UNION {[T -> [time : Nat, size : Nat]] : T \in SUBSET Paths}

\* The index is sorted by time.
Sorted(f) ==
    \A i, j \in 1 .. Len(f.index) :
        i < j => f.items[f.index[i]].time <= f.items[f.index[j]].time

\* The copies as they should be.
Folders ==
    {f \in [items : Tables, index : Seq(Paths), size : Nat] :
        /\ Lists(f.index, DOMAIN f.items)
        /\ Sorted(f)
        /\ f.size = SizeOf(f.items, DOMAIN f.items)}

-----------------------------------------------------------------------------
(* The items and their sizes.                                              *)

\* The items of a table.
LEMMA TableFacts ==
  ASSUME NEW g \in Tables
  PROVE  /\ DOMAIN g \in SUBSET Paths /\ IsFiniteSet(DOMAIN g)
         /\ g = [p \in DOMAIN g |-> g[p]]
         /\ \A p \in DOMAIN g :
               g[p] \in [time : Nat, size : Nat] /\ g[p].time \in Nat /\ g[p].size \in Nat
<1>1. PICK T \in SUBSET Paths : g \in [T -> [time : Nat, size : Nat]]
  BY DEF Tables
<1>2. IsFiniteSet(T)
  BY CloudAssumption, FS_Subset
<1>3. DOMAIN g = T /\ g = [p \in T |-> g[p]]
  BY <1>1
<1> QED BY <1>1, <1>2, <1>3

\* What is such a table.
LEMMA TableIs ==
  ASSUME NEW T \in SUBSET Paths, NEW g, g = [p \in T |-> g[p]],
         \A p \in T : g[p] \in [time : Nat, size : Nat]
  PROVE  g \in Tables /\ DOMAIN g = T
<1>1. g \in [T -> [time : Nat, size : Nat]]
  OBVIOUS
<1> QED BY <1>1 DEF Tables

\* Their sizes add up.
LEMMA PartSizes ==
  ASSUME NEW g \in Tables
  PROVE  /\ SizeOf(g, {}) = 0
         /\ \A T \in SUBSET DOMAIN g : SizeOf(g, T) \in Nat
         /\ \A T \in SUBSET DOMAIN g : \A p \in T :
               SizeOf(g, T) = g[p].size + SizeOf(g, T \ {p})
         /\ \A T \in SUBSET DOMAIN g :
               SizeOf(g, DOMAIN g) = SizeOf(g, T) + SizeOf(g, DOMAIN g \ T)
<1> DEFINE D == DOMAIN g
           w == [p \in D |-> g[p].size]
<1>1. IsFiniteSet(D) /\ w \in [D -> Nat]
  BY TableFacts
<1>2. ASSUME NEW T \in SUBSET D PROVE SizeOf(g, T) = Total(w, T)
  <2>1. [p \in T |-> g[p].size] = [x \in T |-> w[x]]
    OBVIOUS
  <2> QED BY <2>1 DEF SizeOf, Total
<1>3. \A p \in D : w[p] = g[p].size
  OBVIOUS
<1>4. /\ Total(w, {}) = 0
      /\ \A T \in SUBSET D : Total(w, T) \in Nat
      /\ \A T \in SUBSET D : \A x \in T : Total(w, T) = w[x] + Total(w, T \ {x})
  <2> HIDE DEF w, D
  <2> QED BY <1>1, Totals
<1>5. \A T \in SUBSET D : Total(w, D) = Total(w, T) + Total(w, D \ T)
  <2> HIDE DEF w, D
  <2> QED BY <1>1, TotalRest
<1> HIDE DEF w, D
<1>6. \A T \in SUBSET D : \A p \in T : T \ {p} \in SUBSET D /\ p \in D
  OBVIOUS
<1>7. \A T \in SUBSET D : D \ T \in SUBSET D /\ D \in SUBSET D
  OBVIOUS
<1>8. SizeOf(g, {}) = 0
  BY <1>2, <1>4
<1>9. \A T \in SUBSET D : SizeOf(g, T) \in Nat
  BY <1>2, <1>4
<1>10. \A T \in SUBSET D : \A p \in T : SizeOf(g, T) = g[p].size + SizeOf(g, T \ {p})
  BY <1>2, <1>3, <1>4, <1>6
<1>11. \A T \in SUBSET D : SizeOf(g, D) = SizeOf(g, T) + SizeOf(g, D \ T)
  BY <1>2, <1>5, <1>7
<1> QED BY <1>8, <1>9, <1>10, <1>11 DEF D

\* Only the sizes matter.
LEMMA SizesAgree ==
  ASSUME NEW T, NEW g, NEW h, \A p \in T : g[p].size = h[p].size
  PROVE  SizeOf(g, T) = SizeOf(h, T)
<1>1. [p \in T |-> g[p].size] = [p \in T |-> h[p].size]
  OBVIOUS
<1> QED BY <1>1 DEF SizeOf

-----------------------------------------------------------------------------
(* The index.                                                              *)

\* What a sound copy is known to have.
LEMMA FolderIs ==
  ASSUME NEW f \in Folders
  PROVE  /\ f.items \in Tables /\ f.index \in Seq(Paths) /\ f.size \in Nat
         /\ Lists(f.index, DOMAIN f.items) /\ Sorted(f)
         /\ f.size = SizeOf(f.items, DOMAIN f.items)
         /\ Len(f.index) \in Nat
         /\ \A i \in 1 .. Len(f.index) :
               f.index[i] \in DOMAIN f.items /\ f.items[f.index[i]].time \in Nat
<1>1. /\ f.items \in Tables /\ f.index \in Seq(Paths) /\ f.size \in Nat
      /\ Lists(f.index, DOMAIN f.items) /\ Sorted(f)
      /\ f.size = SizeOf(f.items, DOMAIN f.items)
  BY DEF Folders
<1>2. ASSUME NEW i \in 1 .. Len(f.index)
      PROVE  f.index[i] \in DOMAIN f.items /\ f.items[f.index[i]].time \in Nat
  <2>1. f.index[i] \in DOMAIN f.items
    BY <1>1 DEF Lists
  <2> QED BY <1>1, <2>1, TableFacts
<1> QED BY <1>1, <1>2

\* The binary searches split the index.
LEMMA Bounds ==
  ASSUME NEW f \in Folders, NEW t \in Nat
  PROVE  /\ LowerBound(f, t) \in 0 .. Len(f.index)
         /\ UpperBound(f, t) \in 0 .. Len(f.index)
         /\ \A i \in 1 .. Len(f.index) :
               /\ i <= LowerBound(f, t) <=> f.items[f.index[i]].time < t
               /\ i <= UpperBound(f, t) <=> f.items[f.index[i]].time <= t
<1> DEFINE n == Len(f.index)
           time(i) == f.items[f.index[i]].time
           A == {i \in 1 .. n : time(i) < t}
           B == {i \in 1 .. n : time(i) <= t}
<1>1. /\ n \in Nat /\ DOMAIN f.index = 1 .. n
      /\ \A i \in 1 .. n : time(i) \in Nat
      /\ \A i, j \in 1 .. n : i < j => time(i) <= time(j)
  BY FolderIs DEF Sorted
<1>2. LowerBound(f, t) = Cardinality(A) /\ UpperBound(f, t) = Cardinality(B)
  BY <1>1 DEF LowerBound, UpperBound
<1> HIDE DEF n, time
<1>3. \A i \in 1 .. n : \A j \in 1 .. i : j \in 1 .. n /\ time(j) <= time(i)
  <2>1. ASSUME NEW i \in 1 .. n, NEW j \in 1 .. i
        PROVE  j \in 1 .. n /\ time(j) <= time(i)
    <3>1. j \in 1 .. n
      BY <1>1
    <3>2. CASE j = i
      BY <1>1, <3>2
    <3>3. CASE j # i
      BY <1>1, <3>1, <3>3
    <3> QED BY <3>1, <3>2, <3>3
  <2> QED BY <2>1
<1>4. \A i \in A : \A j \in 1 .. i : j \in A
  BY <1>1, <1>3
<1>5. \A i \in B : \A j \in 1 .. i : j \in B
  BY <1>1, <1>3
<1>6. A \in SUBSET (1 .. n) /\ B \in SUBSET (1 .. n)
  OBVIOUS
<1>7. \A i \in 1 .. n : (i \in A <=> time(i) < t) /\ (i \in B <=> time(i) <= t)
  OBVIOUS
<1> HIDE DEF A, B
<1>8. Cardinality(A) \in 0 .. n /\ A = 1 .. Cardinality(A)
  BY <1>1, <1>4, <1>6, Initial
<1>9. Cardinality(B) \in 0 .. n /\ B = 1 .. Cardinality(B)
  BY <1>1, <1>5, <1>6, Initial
<1>10. ASSUME NEW i \in 1 .. n
       PROVE  /\ i <= Cardinality(A) <=> time(i) < t
              /\ i <= Cardinality(B) <=> time(i) <= t
  <2>1. i \in A <=> i <= Cardinality(A)
    BY <1>1, <1>8
  <2>2. i \in B <=> i <= Cardinality(B)
    BY <1>1, <1>9
  <2> QED BY <1>7, <2>1, <2>2
<1> QED BY <1>2, <1>8, <1>9, <1>10 DEF n, time

\* std::find_if finds the item.
LEMMA Finds ==
  ASSUME NEW f \in Folders, NEW path \in DOMAIN f.items
  PROVE  /\ Found(f, path) \in 1 .. Len(f.index)
         /\ f.index[Found(f, path)] = path
<1> DEFINE n == Len(f.index)
           t == f.items[path].time
           range == LowerBound(f, t) + 1 .. UpperBound(f, t)
           here == {i \in range : f.index[i] = path}
<1>1. t \in Nat /\ n \in Nat
  BY FolderIs, TableFacts
<1>2. PICK k \in 1 .. n : f.index[k] = path
  BY FolderIs DEF Lists
<1>3. \A i \in 1 .. n : f.index[i] = path => i = k
  BY <1>2, FolderIs DEF Lists
<1>4. /\ LowerBound(f, t) \in 0 .. n /\ UpperBound(f, t) \in 0 .. n
      /\ ~(k <= LowerBound(f, t)) /\ k <= UpperBound(f, t)
  <2>1. f.items[f.index[k]].time = t
    BY <1>2
  <2>2. ~(t < t) /\ t <= t
    BY <1>1
  <2> HIDE DEF t
  <2> QED BY <1>1, <1>2, <2>1, <2>2, Bounds
<1>5. here = {k}
  BY <1>1, <1>2, <1>3, <1>4
<1>6. Min(here) = k
  <2>1. Min({k}) = k
    BY DEF Min
  <2> QED BY <1>5, <2>1
<1>7. Found(f, path) = k
  BY <1>5, <1>6 DEF Found
<1> QED BY <1>2, <1>7


-----------------------------------------------------------------------------
(* An item is erased or inserted.                                          *)

\* What is a sound copy.
LEMMA FolderOf ==
  ASSUME NEW g \in Tables, NEW s, NEW n, Lists(s, DOMAIN g),
         \A i, j \in 1 .. Len(s) : i < j => g[s[i]].time <= g[s[j]].time,
         n = SizeOf(g, DOMAIN g)
  PROVE  [items |-> g, index |-> s, size |-> n] \in Folders
<1> DEFINE f == [items |-> g, index |-> s, size |-> n]
<1>1. f.items = g /\ f.index = s /\ f.size = n
  OBVIOUS
<1>2. s \in Seq(Paths)
  BY TableFacts DEF Lists
<1>3. n \in Nat
  BY PartSizes
<1>4. f \in [items : Tables, index : Seq(Paths), size : Nat]
  BY <1>2, <1>3
<1>5. Sorted(f)
  BY <1>1 DEF Sorted
<1> HIDE DEF f
<1> QED BY <1>1, <1>4, <1>5 DEF Folders, f

\* The copy e is f without the file.
Excluding(e, f, path) ==
    /\ DOMAIN e.items = DOMAIN f.items \ {path}
    /\ \A p \in DOMAIN e.items : e.items[p] = f.items[p]

\* The copy e is f with the file as item.
Including(e, f, path, item) ==
    /\ DOMAIN e.items = DOMAIN f.items \cup {path}
    /\ \A p \in DOMAIN e.items :
          e.items[p] = IF p = path THEN item ELSE f.items[p]

\* eraseItem keeps the three parts in step.
LEMMA Erasing ==
  ASSUME NEW f \in Folders, NEW path \in Paths
  PROVE  EraseItem(f, path) \in Folders /\ Excluding(EraseItem(f, path), f, path)
<1>1. CASE path \notin DOMAIN f.items
  BY <1>1 DEF EraseItem, Excluding
<1>2. CASE path \in DOMAIN f.items
  <2> DEFINE D == DOMAIN f.items
             k == Found(f, path)
             g == Restrict(f.items, D \ {path})
             s == RemoveAt(f.index, k)
             n == f.size - f.items[path].size
  <2>1. /\ f.items \in Tables /\ Lists(f.index, D) /\ Len(f.index) \in Nat
        /\ f.size = SizeOf(f.items, D)
        /\ \A i, j \in 1 .. Len(f.index) :
              i < j => f.items[f.index[i]].time <= f.items[f.index[j]].time
    BY FolderIs DEF Sorted
  <2>2. k \in 1 .. Len(f.index) /\ f.index[k] = path
    BY <1>2, Finds
  <2>3. g \in Tables /\ DOMAIN g = D \ {path} /\ \A p \in D \ {path} : g[p] = f.items[p]
    <3>1. D \ {path} \in SUBSET Paths
      BY <2>1, TableFacts
    <3>2. g = [p \in D \ {path} |-> f.items[p]]
      BY DEF Restrict
    <3>3. \A p \in D \ {path} : f.items[p] \in [time : Nat, size : Nat]
      BY <2>1, TableFacts
    <3> HIDE DEF g, D
    <3>4. g = [p \in D \ {path} |-> g[p]] /\ \A p \in D \ {path} : g[p] = f.items[p]
      BY <3>2
    <3> QED BY <3>1, <3>3, <3>4, TableIs
  <2> HIDE DEF g, k
  <2>4. /\ Lists(s, D \ {path}) /\ Len(s) = Len(f.index) - 1
        /\ \A i \in 1 .. Len(s) :
              s[i] = IF i < k THEN f.index[i] ELSE f.index[i + 1]
    <3> DEFINE t == f.index
    <3>1. Lists(t, D) /\ k \in 1 .. Len(t) /\ t[k] = path
      BY <2>1, <2>2
    <3> HIDE DEF D, t
    <3>2. /\ Lists(RemoveAt(t, k), D \ {t[k]}) /\ Len(RemoveAt(t, k)) = Len(t) - 1
          /\ \A i \in 1 .. Len(RemoveAt(t, k)) :
                RemoveAt(t, k)[i] = IF i < k THEN t[i] ELSE t[i + 1]
      BY ONLY <3>1, ListRemoval
    <3> QED BY <3>1, <3>2 DEF t
  <2>5. \A i, j \in 1 .. Len(s) : i < j => g[s[i]].time <= g[s[j]].time
    <3>1. ASSUME NEW i \in 1 .. Len(s), NEW j \in 1 .. Len(s), i < j
          PROVE  g[s[i]].time <= g[s[j]].time
      <4> DEFINE a == IF i < k THEN i ELSE i + 1
                 b == IF j < k THEN j ELSE j + 1
      <4>1. a \in 1 .. Len(f.index) /\ b \in 1 .. Len(f.index) /\ a < b
        BY <2>1, <2>2, <2>4, <3>1
      <4>2. s[i] = f.index[a] /\ s[j] = f.index[b]
        BY <2>4
      <4>3. s[i] \in D \ {path} /\ s[j] \in D \ {path}
        BY <2>4 DEF Lists
      <4> HIDE DEF a, b, s, D
      <4> QED BY <2>1, <2>3, <4>1, <4>2, <4>3
    <3> QED BY <3>1
  <2>6. n = SizeOf(g, D \ {path})
    <3>1. SizeOf(g, D \ {path}) = SizeOf(f.items, D \ {path})
      BY <2>3, SizesAgree
    <3>2. SizeOf(f.items, D) = f.items[path].size + SizeOf(f.items, D \ {path})
      BY <1>2, <2>1, PartSizes
    <3>3. SizeOf(f.items, D \ {path}) \in Nat /\ f.items[path].size \in Nat
      <4>1. D \ {path} \in SUBSET DOMAIN f.items
        OBVIOUS
      <4>2. SizeOf(f.items, D \ {path}) \in Nat
        BY <2>1, <4>1, PartSizes
      <4> QED BY <1>2, <2>1, <4>2, TableFacts
    <3> QED BY <2>1, <3>1, <3>2, <3>3
  <2>7. EraseItem(f, path) = [items |-> g, index |-> s, size |-> n]
    BY <1>2 DEF EraseItem, g, k
  <2> HIDE DEF s, n
  <2>8. EraseItem(f, path) \in Folders
    BY <2>3, <2>4, <2>5, <2>6, <2>7, FolderOf
  <2>9. EraseItem(f, path).items = g
    BY <2>7
  <2> QED BY <2>3, <2>8, <2>9 DEF Excluding
<1> QED BY <1>1, <1>2

\* insertItem, too.
LEMMA Inserting ==
  ASSUME NEW f \in Folders, NEW path \in Paths,
         NEW item \in [time : Nat, size : Nat]
  PROVE  /\ InsertItem(f, path, item) \in Folders
         /\ Including(InsertItem(f, path, item), f, path, item)
<1> DEFINE e == EraseItem(f, path)
           D == DOMAIN e.items
           E == D \cup {path}
           u == UpperBound(e, item.time)
           g == [p \in E |-> IF p = path THEN item ELSE e.items[p]]
           s == InsertAt(e.index, u + 1, path)
           n == e.size + item.size
<1>1. e \in Folders /\ Excluding(e, f, path)
  BY Erasing
<1>2. D = DOMAIN f.items \ {path} /\ \A p \in D : e.items[p] = f.items[p]
  BY <1>1 DEF Excluding
<1>3. InsertItem(f, path, item) = [items |-> g, index |-> s, size |-> n]
  BY DEF InsertItem
<1> HIDE DEF e
<1>4. /\ e.items \in Tables /\ Lists(e.index, D) /\ Len(e.index) \in Nat
      /\ e.size = SizeOf(e.items, D)
      /\ \A i, j \in 1 .. Len(e.index) :
            i < j => e.items[e.index[i]].time <= e.items[e.index[j]].time
  BY <1>1, FolderIs DEF Sorted
<1>5. /\ u \in 0 .. Len(e.index) /\ u + 1 \in 1 .. Len(e.index) + 1
      /\ \A i \in 1 .. Len(e.index) : i <= u <=> e.items[e.index[i]].time <= item.time
  <2>1. item.time \in Nat
    OBVIOUS
  <2>2. /\ u \in 0 .. Len(e.index)
        /\ \A i \in 1 .. Len(e.index) :
              i <= u <=> e.items[e.index[i]].time <= item.time
    BY <1>1, <2>1, Bounds
  <2> HIDE DEF u
  <2> QED BY <1>4, <2>2
<1>6. /\ g \in Tables /\ DOMAIN g = E /\ g[path] = item
      /\ \A p \in D : g[p] = e.items[p] /\ p # path
  <2>1. E \in SUBSET Paths
    BY <1>4, TableFacts
  <2>2. \A p \in E : g[p] \in [time : Nat, size : Nat]
    BY <1>4, TableFacts
  <2>3. g = [p \in E |-> g[p]] /\ DOMAIN g = E
    OBVIOUS
  <2>4. g[path] = item /\ \A p \in D : g[p] = e.items[p] /\ p # path
    BY <1>2
  <2> HIDE DEF g, E
  <2> QED BY <2>1, <2>2, <2>3, <2>4, TableIs
<1> HIDE DEF g
<1>7. /\ Lists(s, E) /\ Len(s) = Len(e.index) + 1
      /\ \A i \in 1 .. Len(s) :
            s[i] = IF i < u + 1 THEN e.index[i]
                   ELSE IF i = u + 1 THEN path ELSE e.index[i - 1]
  <2>1. path \notin D
    BY <1>2
  <2> DEFINE k == u + 1
  <2>2. k \in 1 .. Len(e.index) + 1 /\ Lists(e.index, D)
    BY <1>4, <1>5
  <2> HIDE DEF D, k
  <2>3. Inserted(InsertAt(e.index, k, path), e.index, D, k, path)
    BY <2>1, <2>2, ListInsertion
  <2> QED BY <2>3 DEF k, Inserted
<1>8. \A i \in 1 .. Len(e.index) :
         e.index[i] \in D /\ g[e.index[i]].time = e.items[e.index[i]].time
                          /\ e.items[e.index[i]].time \in Nat
  <2>1. \A i \in 1 .. Len(e.index) : e.index[i] \in D /\ e.items[e.index[i]].time \in Nat
    BY <1>1, FolderIs
  <2> HIDE DEF D
  <2> QED BY <1>6, <2>1
<1>9. \A i, j \in 1 .. Len(s) : i < j => g[s[i]].time <= g[s[j]].time
  <2>1. ASSUME NEW i \in 1 .. Len(s), NEW j \in 1 .. Len(s), i < j
        PROVE  g[s[i]].time <= g[s[j]].time
    <3> DEFINE m == Len(e.index)
               time(x) == e.items[e.index[x]].time
    <3>1. /\ \A x \in 1 .. m : g[e.index[x]].time = time(x) /\ time(x) \in Nat
          /\ \A x, y \in 1 .. m : x < y => time(x) <= time(y)
          /\ \A x \in 1 .. m : x <= u <=> time(x) <= item.time
      BY <1>4, <1>5, <1>8
    <3>2. g[path].time = item.time /\ item.time \in Nat
      BY <1>6
    <3>3. m \in Nat /\ u \in 0 .. m /\ i \in 1 .. m + 1 /\ j \in 1 .. m + 1
      BY <1>4, <1>5, <1>7
    <3>4. i < u + 1 => i \in 1 .. m /\ g[s[i]].time = time(i) /\ i <= u
      BY <1>7, <3>1, <3>3
    <3>5. i = u + 1 => g[s[i]].time = item.time
      BY <1>7, <3>2, <3>3
    <3>6. i > u + 1 => i - 1 \in 1 .. m /\ g[s[i]].time = time(i - 1) /\ ~(i - 1 <= u)
      <4> SUFFICES ASSUME i > u + 1
                   PROVE  i - 1 \in 1 .. m /\ g[s[i]].time = time(i - 1) /\ ~(i - 1 <= u)
        OBVIOUS
      <4>1. i - 1 \in 1 .. m /\ ~(i - 1 <= u) /\ ~(i < u + 1) /\ i # u + 1
        BY <3>3
      <4>2. s[i] = e.index[i - 1]
        BY <1>7, <4>1
      <4> HIDE DEF s, m, time, u
      <4> QED BY <3>1, <4>1, <4>2
    <3>7. j < u + 1 => j \in 1 .. m /\ g[s[j]].time = time(j) /\ j <= u
      BY <1>7, <3>1, <3>3
    <3>8. j = u + 1 => g[s[j]].time = item.time
      BY <1>7, <3>2, <3>3
    <3>9. j > u + 1 => j - 1 \in 1 .. m /\ g[s[j]].time = time(j - 1) /\ ~(j - 1 <= u)
      <4> SUFFICES ASSUME j > u + 1
                   PROVE  j - 1 \in 1 .. m /\ g[s[j]].time = time(j - 1) /\ ~(j - 1 <= u)
        OBVIOUS
      <4>1. j - 1 \in 1 .. m /\ ~(j - 1 <= u) /\ ~(j < u + 1) /\ j # u + 1
        BY <3>3
      <4>2. s[j] = e.index[j - 1]
        BY <1>7, <4>1
      <4> HIDE DEF s, m, time, u
      <4> QED BY <3>1, <4>1, <4>2
    <3> HIDE DEF m, time, u, s
    <3>10. CASE j < u + 1
      <4>1. i < u + 1
        BY <2>1, <3>3, <3>10
      <4>2. time(i) <= time(j)
        BY <2>1, <3>1, <3>4, <3>7, <3>10, <4>1
      <4> QED BY <3>4, <3>7, <3>10, <4>1, <4>2
    <3>11. CASE j = u + 1
      BY <2>1, <3>1, <3>2, <3>3, <3>4, <3>8, <3>11
    <3>12. CASE j > u + 1
      <4>1. CASE i > u + 1
        <5>1. i - 1 < j - 1
          BY <2>1, <3>3
        <5> QED BY <3>1, <3>3, <3>6, <3>9, <3>12, <4>1, <5>1
      <4>2. CASE i = u + 1
        <5>1. ~(time(j - 1) <= item.time) /\ time(j - 1) \in Nat
          BY <3>1, <3>9, <3>12
        <5>2. item.time <= time(j - 1)
          BY <3>2, <5>1
        <5> QED BY <3>5, <3>9, <3>12, <4>2, <5>2
      <4>3. CASE i < u + 1
        <5>1. i < j - 1 \/ i = j - 1
          BY <3>3, <3>12, <4>3
        <5> QED BY <3>1, <3>3, <3>4, <3>9, <3>12, <4>3, <5>1
      <4> QED BY <3>3, <4>1, <4>2, <4>3
    <3> QED BY <3>3, <3>10, <3>11, <3>12
  <2> QED BY <2>1
<1>10. n = SizeOf(g, E)
  <2>1. SizeOf(g, E) = g[path].size + SizeOf(g, E \ {path})
    BY <1>6, PartSizes
  <2>2. E \ {path} = D
    BY <1>2
  <2>3. SizeOf(g, D) = SizeOf(e.items, D)
    BY <1>6, SizesAgree
  <2>4. SizeOf(e.items, D) \in Nat /\ item.size \in Nat
    BY <1>4, PartSizes
  <2>5. SizeOf(g, E) = item.size + SizeOf(e.items, D)
    BY <1>6, <2>1, <2>2, <2>3
  <2>6. n = SizeOf(e.items, D) + item.size
    BY <1>4
  <2> HIDE DEF E, D, n
  <2> QED BY <2>4, <2>5, <2>6
<1> HIDE DEF s, n, E
<1>11. InsertItem(f, path, item) \in Folders
  BY <1>3, <1>6, <1>7, <1>9, <1>10, FolderOf
<1>12. InsertItem(f, path, item).items = g
  BY <1>3
<1>13. Including(InsertItem(f, path, item), f, path, item)
  <2>1. E = DOMAIN f.items \cup {path}
    BY <1>2 DEF E
  <2> QED BY <1>2, <1>6, <1>12, <2>1 DEF Including, E
<1> QED BY <1>11, <1>13

-----------------------------------------------------------------------------
(* An answer is handled.                                                   *)

\* The item that an entry brings.
ItemOf(entry, skew) ==
    [time |-> entry.file.time + skew, size |-> entry.file.size]

\* The copy f says of the entry's file what the entry does.
Says(f, entry, skew) ==
    IF entry.tag = "deleted" THEN entry.path \notin DOMAIN f.items
    ELSE /\ entry.path \in DOMAIN f.items
         /\ f.items[entry.path] = ItemOf(entry, skew)

\* The copy e says of the file what f does.
Same(e, f, path) ==
    /\ path \in DOMAIN e.items <=> path \in DOMAIN f.items
    /\ path \in DOMAIN e.items => e.items[path] = f.items[path]

\* What an entry is.
LEMMA EntryFacts ==
  ASSUME NEW entry \in Entry
  PROVE  /\ entry.path \in Paths
         /\ entry.tag # "deleted" =>
               entry.tag = "file" /\ entry.file \in File
               /\ entry.file.time \in Nat /\ entry.file.size \in Nat
<1>1. \A x \in File : x.time \in Nat /\ x.size \in Nat
  <2>1. MaxWrites \in Nat /\ Sizes \subseteq Nat
    BY CloudAssumption
  <2>2. \A x \in File : x.time \in 1 .. MaxWrites /\ x.size \in Sizes
    BY DEF File
  <2>3. \A i \in 1 .. MaxWrites : i \in Nat
    BY <2>1
  <2> QED BY <2>1, <2>2, <2>3
<1>2. CASE entry \in [path : Paths, tag : {"file"}, file : File]
  <2>1. entry.path \in Paths /\ entry.tag = "file" /\ entry.file \in File
    BY <1>2
  <2> QED BY <1>1, <2>1
<1>3. CASE entry \in [path : Paths, tag : {"deleted"}]
  BY <1>3
<1> QED BY <1>2, <1>3 DEF Entry

\* One entry is handled.
LEMMA Handling ==
  ASSUME NEW f \in Folders, NEW entry \in Entry, NEW skew \in Nat
  PROVE  LET e == HandleEntry(f, entry, skew)
         IN  /\ e \in Folders /\ Says(e, entry, skew)
             /\ \A p \in Paths \ {entry.path} : Same(e, f, p)
<1> DEFINE e == HandleEntry(f, entry, skew)
           path == entry.path
<1>1. path \in Paths
  BY EntryFacts
<1>2. CASE entry.tag = "deleted"
  <2>1. e = EraseItem(f, path)
    BY <1>2 DEF HandleEntry
  <2> HIDE DEF e, path
  <2>2. e \in Folders /\ Excluding(e, f, path)
    BY <1>1, <2>1, Erasing
  <2>3. path \notin DOMAIN e.items /\ \A p \in Paths \ {path} : Same(e, f, p)
    BY <2>2 DEF Excluding, Same
  <2> QED BY <1>2, <2>2, <2>3 DEF e, path, Says
<1>3. CASE entry.tag # "deleted"
  <2> DEFINE item == ItemOf(entry, skew)
  <2>1. item \in [time : Nat, size : Nat]
    <3>1. entry.file.time \in Nat /\ entry.file.size \in Nat
      BY <1>3, EntryFacts
    <3>2. entry.file.time + skew \in Nat
      BY <3>1
    <3> QED BY <3>1, <3>2 DEF ItemOf
  <2>2. e = InsertItem(f, path, item)
    BY <1>3 DEF HandleEntry, ItemOf
  <2> HIDE DEF e, path, item
  <2>3. e \in Folders /\ Including(e, f, path, item)
    BY <1>1, <2>1, <2>2, Inserting
  <2>4. /\ path \in DOMAIN e.items /\ e.items[path] = item
        /\ \A p \in Paths \ {path} : Same(e, f, p)
    BY <2>3 DEF Including, Same
  <2> QED BY <1>3, <2>3, <2>4 DEF e, path, item, Says
<1> QED BY <1>2, <1>3

\* The copy base after the entries, as in handleFolderResponse.
Answered(base, entries, skew) ==
    FoldLeft(LAMBDA g, i : HandleEntry(g, entries[i], skew[i]),
             base, [i \in DOMAIN entries |-> i])

\* Which entry is the last, and what is done with it.
Latest(D) == [T \in SUBSET D |-> Max(T)]
Handle(D, entries, skew) ==
    [p \in D \X Folders |-> HandleEntry(p[2], entries[p[1]], skew[p[1]])]

\* There is a last one.
LEMMA LatestIs ==
  ASSUME NEW D, D \subseteq Int, IsFiniteSet(D), NEW T \in SUBSET D, T # {}
  PROVE  Latest(D)[T] \in T
<1>1. T \in SUBSET Int
  OBVIOUS
<1>2. IsFiniteSet(T)
  BY FS_Subset
<1>3. \E m \in T : \A n \in T : n <= m
  BY <1>1, <1>2, Extremes
<1>4. \E m \in T : \A n \in T : m >= n
  BY <1>1, <1>3
<1>5. Max(T) \in T
  BY <1>4 DEF Max
<1> QED BY <1>5 DEF Latest

\* The loop over the page is such a fold.
LEMMA PageFolds ==
  ASSUME NEW entries \in Seq(Entry), NEW skew \in [DOMAIN entries -> Nat],
         NEW base \in Folders
  PROVE  LET D == DOMAIN entries
         IN  /\ IsFiniteSet(D)
             /\ \A T \in SUBSET D : T # {} => Latest(D)[T] \in T
             /\ \E f : /\ FoldsTo(f, D, Folders, base, Latest(D),
                                  Handle(D, entries, skew))
                       /\ Answered(base, entries, skew) = f[D]
<1> DEFINE D == DOMAIN entries
           c == Latest(D)
           step == Handle(D, entries, skew)
           Eq(g) == g = [s \in SUBSET D |->
                           IF s = {} THEN base
                           ELSE HandleEntry(g[s \ {Max(s)}],
                                            entries[[i \in D |-> i][Max(s)]],
                                            skew[[i \in D |-> i][Max(s)]])]
<1>1. D = 1 .. Len(entries) /\ Len(entries) \in Nat
  OBVIOUS
<1>2. D \subseteq Int /\ IsFiniteSet(D)
  <2>1. 1 \in Int /\ Len(entries) \in Int
    BY <1>1
  <2>2. IsFiniteSet(1 .. Len(entries))
    BY <2>1, FS_Interval
  <2>3. 1 .. Len(entries) \subseteq Int
    OBVIOUS
  <2> HIDE DEF D
  <2> QED BY <1>1, <2>2, <2>3
<1>3. \A T \in SUBSET D : T # {} => c[T] \in T
  <2> HIDE DEF D
  <2> QED BY <1>2, LatestIs
<1>4. \A T \in SUBSET D : c[T] = Max(T)
  BY DEF Latest
<1>5. \A x \in D, g \in Folders :
         step[<<x, g>>] = HandleEntry(g, entries[x], skew[x])
  BY DEF Handle
<1>6. step \in [D \X Folders -> Folders]
  <2>1. ASSUME NEW x \in D, NEW g \in Folders
        PROVE  HandleEntry(g, entries[x], skew[x]) \in Folders
    <3>1. entries[x] \in Entry /\ skew[x] \in Nat
      OBVIOUS
    <3> QED BY <3>1, Handling
  <2> QED BY <2>1 DEF Handle
<1>7. \A x \in D : [i \in D |-> i][x] = x
  OBVIOUS
<1>8. Answered(base, entries, skew) = (CHOOSE g : Eq(g))[D]
  <2>1. DOMAIN [i \in D |-> i] = D
    OBVIOUS
  <2> QED BY <2>1 DEF Answered, FoldLeft, MapThenFoldSet
<1> HIDE DEF c, step, D
<1>9. PICK f : FoldsTo(f, D, Folders, base, c, step)
  BY <1>2, <1>3, <1>6, FoldExists, Zenon
<1>10. f \in [SUBSET D -> Folders]
  BY <1>9 DEF FoldsTo
<1>11. Eq(f)
  <2>1. ASSUME NEW T \in SUBSET D
        PROVE  f[T] = IF T = {} THEN base
                      ELSE HandleEntry(f[T \ {c[T]}], entries[c[T]], skew[c[T]])
    <3>1. f[T] = IF T = {} THEN base ELSE step[<<c[T], f[T \ {c[T]}]>>]
      BY <1>9 DEF FoldsTo
    <3>2. T # {} => c[T] \in D /\ f[T \ {c[T]}] \in Folders
      BY <1>3, <1>10
    <3> QED BY <1>5, <3>1, <3>2
  <2>2. ASSUME NEW T \in SUBSET D
        PROVE  f[T] = IF T = {} THEN base
                      ELSE HandleEntry(f[T \ {Max(T)}],
                                       entries[[i \in D |-> i][Max(T)]],
                                       skew[[i \in D |-> i][Max(T)]])
    <3>1. CASE T = {}
      BY <2>1, <3>1
    <3>2. CASE T # {}
      <4>1. c[T] = Max(T) /\ [i \in D |-> i][Max(T)] = Max(T)
        BY <1>3, <1>4, <1>7, <3>2
      <4>2. f[T] = HandleEntry(f[T \ {c[T]}], entries[c[T]], skew[c[T]])
        BY <2>1, <3>2
      <4>3. f[T] = HandleEntry(f[T \ {Max(T)}], entries[Max(T)], skew[Max(T)])
        BY Zenon, <4>1, <4>2
      <4> QED BY Zenon, <3>2, <4>1, <4>3
    <3> QED BY <3>1, <3>2
  <2> QED BY <1>10, <2>2
<1> DEFINE iter == CHOOSE g : Eq(g)
<1>12. Eq(iter)
  BY <1>11
<1> HIDE DEF iter
<1>13. ASSUME NEW T \in SUBSET D
       PROVE  iter[T] = IF T = {} THEN base
                        ELSE HandleEntry(iter[T \ {c[T]}], entries[c[T]], skew[c[T]])
  <2>1. iter[T] = IF T = {} THEN base
                  ELSE HandleEntry(iter[T \ {Max(T)}],
                                   entries[[i \in D |-> i][Max(T)]],
                                   skew[[i \in D |-> i][Max(T)]])
    BY Zenon, <1>12
  <2>2. CASE T = {}
    BY <2>1, <2>2
  <2>3. CASE T # {}
    <3>1. c[T] = Max(T) /\ [i \in D |-> i][Max(T)] = Max(T)
      BY <1>3, <1>4, <1>7, <2>3
    <3>2. iter[T] = HandleEntry(iter[T \ {Max(T)}], entries[Max(T)], skew[Max(T)])
      BY Zenon, <2>1, <2>3, <3>1
    <3> QED BY Zenon, <2>3, <3>1, <3>2
  <2> QED BY <2>2, <2>3
<1>14. Solves(iter, D, Folders, base, c, step)
  <2> SUFFICES ASSUME NEW T \in SUBSET D, T # {}, iter[T \ {c[T]}] \in Folders
               PROVE  iter[T] = step[<<c[T], iter[T \ {c[T]}]>>]
    BY <1>13 DEF Solves
  <2>1. c[T] \in D
    BY <1>3
  <2>2. iter[T] = HandleEntry(iter[T \ {c[T]}], entries[c[T]], skew[c[T]])
    BY <1>13
  <2> QED BY <1>5, <2>1, <2>2
<1>15. \A T \in SUBSET D : iter[T] = f[T]
  <2>1. PICK e, d, l, h : e = D /\ d = c /\ l = step /\ h = iter
    OBVIOUS
  <2>2. /\ IsFiniteSet(e) /\ \A T \in SUBSET e : T # {} => d[T] \in T
        /\ FoldsTo(f, e, Folders, base, d, l)
        /\ Solves(h, e, Folders, base, d, l)
    BY <1>2, <1>3, <1>9, <1>14, <2>1
  <2>3. \A T \in SUBSET e : h[T] = f[T]
    BY ONLY SMTT(60), <2>2, FoldUnique
  <2> QED BY Zenon, <2>1, <2>3
<1>16. Answered(base, entries, skew) = f[D]
  BY <1>8, <1>15 DEF iter
<1> HIDE DEF Eq
<1> QED BY <1>2, <1>3, <1>9, <1>16 DEF c, step, D

\* The whole page is handled, with one entry for a file at most.
LEMMA HandlingPage ==
  ASSUME NEW entries \in Seq(Entry), NEW skew \in [DOMAIN entries -> Nat],
         NEW base \in Folders,
         \A i, j \in DOMAIN entries : entries[i].path = entries[j].path => i = j
  PROVE  LET f == Answered(base, entries, skew)
         IN  /\ f \in Folders
             /\ \A i \in DOMAIN entries : Says(f, entries[i], skew[i])
             /\ \A p \in Paths :
                   (\A i \in DOMAIN entries : entries[i].path # p) => Same(f, base, p)
<1> DEFINE D == DOMAIN entries
           c == Latest(D)
           step == Handle(D, entries, skew)
<1>1. /\ IsFiniteSet(D) /\ \A T \in SUBSET D : T # {} => c[T] \in T
      /\ \E f : FoldsTo(f, D, Folders, base, c, step)
                /\ Answered(base, entries, skew) = f[D]
  BY PageFolds
<1>2. PICK f : FoldsTo(f, D, Folders, base, c, step)
               /\ Answered(base, entries, skew) = f[D]
  BY <1>1
<1>3. \A x \in D, g \in Folders : step[<<x, g>>] = HandleEntry(g, entries[x], skew[x])
  BY DEF Handle
<1>4. \A x \in D : entries[x] \in Entry /\ entries[x].path \in Paths /\ skew[x] \in Nat
  BY EntryFacts
<1>5. \A i, j \in D : entries[i].path = entries[j].path => i = j
  OBVIOUS
<1> HIDE DEF D, c, step
<1> DEFINE Done(T, e) ==
               /\ e \in Folders
               /\ \A i \in T : Says(e, entries[i], skew[i])
               /\ \A p \in Paths : (\A i \in T : entries[i].path # p) => Same(e, base, p)
           Good == {T \in SUBSET D : Done(T, f[T])}
<1>6. f \in [SUBSET D -> Folders]
  BY <1>2 DEF FoldsTo
<1>7. ASSUME NEW T \in SUBSET D, \A U \in SUBSET T : U # T => U \in Good
      PROVE  T \in Good
  <2>1. CASE T = {}
    <3>1. f[T] = base
      BY <1>2, <2>1 DEF FoldsTo
    <3> QED BY <2>1, <3>1 DEF Same
  <2>2. CASE T # {}
    <3> DEFINE x == c[T]
               U == T \ {x}
               e == HandleEntry(f[U], entries[x], skew[x])
    <3>1. x \in T /\ x \in D /\ U \in SUBSET T /\ U # T
      BY <1>1, <2>2
    <3>2. Done(U, f[U])
      <4>1. U \in Good
        BY <1>7, <3>1
      <4> QED BY <4>1
    <3>3. f[T] = e
      <4>1. f[T] = step[<<x, f[U]>>]
        BY <1>2, <2>2 DEF FoldsTo
      <4> HIDE DEF x, U
      <4>2. f[U] \in Folders
        BY <3>2
      <4> QED BY <1>3, <3>1, <4>1, <4>2
    <3> HIDE DEF x
    <3>4. /\ e \in Folders /\ Says(e, entries[x], skew[x])
          /\ \A p \in Paths \ {entries[x].path} : Same(e, f[U], p)
      <4>1. f[U] \in Folders
        BY <3>2
      <4> HIDE DEF U
      <4> QED BY <1>4, <3>1, <4>1, Handling
    <3> HIDE DEF e
    <3>5. ASSUME NEW i \in T PROVE Says(e, entries[i], skew[i])
      <4>1. CASE i = x
        BY <3>4, <4>1
      <4>2. CASE i # x
        <5>1. i \in U /\ Says(f[U], entries[i], skew[i])
          BY <3>2, <4>2
        <5>2. entries[i].path \in Paths \ {entries[x].path}
          BY <1>4, <1>5, <3>1, <4>2
        <5>3. Same(e, f[U], entries[i].path)
          BY <3>4, <5>2
        <5> HIDE DEF U
        <5> QED BY <5>1, <5>3 DEF Says, Same
      <4> QED BY <4>1, <4>2
    <3>6. ASSUME NEW p \in Paths, \A i \in T : entries[i].path # p
          PROVE  Same(e, base, p)
      <4>1. p \in Paths \ {entries[x].path} /\ Same(f[U], base, p)
        BY <3>1, <3>2, <3>6
      <4>2. Same(e, f[U], p)
        BY <3>4, <4>1
      <4> HIDE DEF U
      <4> QED BY <4>1, <4>2 DEF Same
    <3> QED BY <3>3, <3>4, <3>5, <3>6
  <2> QED BY <2>1, <2>2
<1>8. \A T \in SUBSET D : (\A U \in SUBSET T : U # T => U \in Good) => T \in Good
  BY <1>7
<1>9. D \in Good
  <2> HIDE DEF Good
  <2>1. \A T \in SUBSET D : T \in Good
    BY <1>1, <1>8, SubsetInduction
  <2> QED BY <2>1
<1>10. Done(D, f[D])
  BY <1>9
<1> QED BY <1>2, <1>10 DEF D

-----------------------------------------------------------------------------
(* The inductive invariant of the folder.                                  *)

\* The types of what is not the copy.
FolderTyped ==
    /\ CloudTypeOK
    /\ sync \in SyncState
    /\ page \in Page
    /\ batches \in Seq(SUBSET Paths)
    /\ shuttingDown \in BOOLEAN
    /\ removed \in BOOLEAN

\* The copy is sound.
FolderSound == Folder \in Folders

\* The files that are, or are said to be, not as the copy has them.
Untold == dirty \cup gone

\* A page on its way has one entry for a file, which is right about the file
\* until it changes again.
PageIsDue ==
    /\ sync \notin {"listed", "updated"} => page = NoPage
    /\ \A i, j \in DOMAIN page.entries :
          page.entries[i].path = page.entries[j].path => i = j
    /\ \A i \in DOMAIN page.entries :
          page.entries[i].path \notin Untold =>
              page.entries[i] = EntryOf(page.entries[i].path)

\* Nothing is known before the listing is answered, nor when it has failed.
UnlistedIsEmpty ==
    sync \in {"none", "listing"} \/ (sync = "ended" /\ ~shuttingDown) =>
        DOMAIN items = {}

\* The copy is right about the file, its time included.
Right(path) ==
    /\ path \in DOMAIN items <=> path \in DOMAIN cloud
    /\ path \in DOMAIN items =>
          /\ items[path].size = cloud[path].size
          /\ Skews = {0} => items[path].time = cloud[path].time

\* What is known is right, also after a request for changes has failed.
CopyAgrees ==
    sync \notin {"none", "listing", "ended"} =>
        \A path \in Paths : Known(path) => Right(path)

\* The inductive invariant.
FolderIInv ==
    /\ FolderTyped /\ FolderSound /\ PageIsDue /\ UnlistedIsEmpty /\ CopyAgrees

\* The copy that the variables make up.
LEMMA FolderFields ==
  /\ Folder.items = items /\ Folder.index = index /\ Folder.size = folderSize
BY DEF Folder

\* An entry says what the cloud has.
LEMMA EntryOfFacts ==
  ASSUME CloudTypeOK, NEW path \in Paths
  PROVE  EntryOf(path) \in Entry /\ EntryOf(path).path = path
<1>1. CASE path \in DOMAIN cloud
  <2>1. cloud[path] \in File
    BY <1>1 DEF CloudTypeOK, IsTable
  <2>2. EntryOf(path) = [path |-> path, tag |-> "file", file |-> cloud[path]]
    BY <1>1 DEF EntryOf
  <2> QED BY <2>1, <2>2 DEF Entry
<1>2. CASE path \notin DOMAIN cloud
  BY <1>2 DEF EntryOf, Entry
<1> QED BY <1>1, <1>2

\* What a page on its way has.
LEMMA Delivery ==
  ASSUME CloudTypeOK, NEW due \in SUBSET Paths, NEW pg, Delivers(pg, due)
  PROVE  /\ pg \in Page /\ UNCHANGED <<cloud, now>>
         /\ \A i, j \in DOMAIN pg.entries :
               pg.entries[i].path = pg.entries[j].path => i = j
         /\ \A i \in DOMAIN pg.entries :
               pg.entries[i] = EntryOf(pg.entries[i].path)
         /\ dirty' \in SUBSET due
         /\ dirty' \cup {pg.entries[i].path : i \in DOMAIN pg.entries} = due
<1>0. PICK some \in SUBSET due : \E order \in SetToSeqs(some) :
          /\ pg = [entries |-> [i \in DOMAIN order |-> EntryOf(order[i])],
                   hasMore |-> some # due]
          /\ dirty' = due \ some
          /\ UNCHANGED <<cloud, now>>
  BY DEF Delivers
<1>1. PICK order \in SetToSeqs(some) :
          /\ pg = [entries |-> [i \in DOMAIN order |-> EntryOf(order[i])],
                   hasMore |-> some # due]
          /\ dirty' = due \ some
          /\ UNCHANGED <<cloud, now>>
  BY <1>0
<1>2. IsFiniteSet(some)
  <2>1. some \in SUBSET Paths
    OBVIOUS
  <2> QED BY <2>1, CloudAssumption, FS_Subset
<1>3. /\ order \in Seq(some)
      /\ \A i, j \in DOMAIN order : order[i] = order[j] => i = j
      /\ \A x \in some : \E i \in DOMAIN order : order[i] = x
  BY <1>2, Ordered
<1>4. \A i \in DOMAIN order : order[i] \in some /\ order[i] \in Paths
  BY <1>3
<1> DEFINE e == [i \in DOMAIN order |-> EntryOf(order[i])]
<1>5. pg.entries = e /\ DOMAIN e = DOMAIN order /\ pg.hasMore \in BOOLEAN
      /\ pg = [entries |-> e, hasMore |-> some # due]
  BY <1>1
<1>6. \A i \in DOMAIN order :
         e[i] \in Entry /\ e[i] = EntryOf(order[i]) /\ e[i].path = order[i]
  BY <1>4, EntryOfFacts
<1> HIDE DEF e
<1>7. e \in Seq(Entry)
  <2>1. DOMAIN e = 1 .. Len(order) /\ Len(order) \in Nat
    BY <1>3, <1>5
  <2>2. e = [i \in DOMAIN order |-> e[i]]
    BY DEF e
  <2> QED BY <1>5, <1>6, <2>1, <2>2
<1>8. pg \in Page
  BY <1>5, <1>7 DEF Page
<1>9. {pg.entries[i].path : i \in DOMAIN pg.entries} = some
  BY <1>3, <1>4, <1>5, <1>6
<1> QED BY <1>1, <1>3, <1>5, <1>6, <1>8, <1>9

\* Nothing is copied and nothing is on its way at first.
LEMMA FolderInitially == FolderInit => FolderIInv
<1> SUFFICES ASSUME FolderInit PROVE FolderIInv
  OBVIOUS
<1>1. CloudTypeOK /\ page \in Page
  <2>1. page.entries = <<>> /\ NoPage \in Page
    BY DEF FolderInit, NoPage, Page
  <2>2. CloudTypeOK
    BY CloudAssumption DEF FolderInit, CloudInit, CloudTypeOK, IsTable
  <2> QED BY <2>1, <2>2 DEF FolderInit
<1>2. FolderTyped
  <2>1. /\ sync = "none" /\ batches = <<>> /\ shuttingDown = FALSE
        /\ removed = FALSE
    BY DEF FolderInit
  <2>2. <<>> \in Seq(SUBSET Paths) /\ "none" \in SyncState
    BY DEF SyncState
  <2> QED BY <1>1, <2>1, <2>2 DEF FolderTyped
<1>3. FolderSound
  <2> DEFINE g == <<>>
  <2>1. g \in Tables /\ DOMAIN g = {}
    <3>1. {} \in SUBSET Paths /\ g = [p \in {} |-> g[p]]
      OBVIOUS
    <3> QED BY <3>1, TableIs
  <2>2. Lists(<<>>, {})
    BY DEF Lists
  <2>3. 0 = SizeOf(g, DOMAIN g)
    BY <2>1, PartSizes
  <2>4. [items |-> g, index |-> <<>>, size |-> 0] \in Folders
    <3> HIDE DEF g
    <3>1. \A i, j \in 1 .. Len(<<>>) :
             i < j => g[<<>>[i]].time <= g[<<>>[j]].time
      OBVIOUS
    <3> QED BY <2>1, <2>2, <2>3, <3>1, FolderOf
  <2> QED BY <2>4 DEF FolderInit, FolderSound, Folder
<1>4. PageIsDue /\ UnlistedIsEmpty /\ CopyAgrees
  BY DEF FolderInit, PageIsDue, UnlistedIsEmpty, CopyAgrees, NoPage
<1> QED BY <1>2, <1>3, <1>4 DEF FolderIInv

-----------------------------------------------------------------------------
(* The steps of the folder.                                                *)

\* Files come and go in the cloud, and the cursor is to tell of all that do not
\* go with the whole folder.
Touched ==
    /\ CloudTypeOK'
    /\ \A p \in Paths \ Untold' :
          /\ p \notin Untold
          /\ p \in DOMAIN cloud' <=> p \in DOMAIN cloud
          /\ p \in DOMAIN cloud => cloud'[p] = cloud[p]

\* An upload, a deletion, a batch of them, and that of the whole folder.
LEMMA CloudSteps ==
  ASSUME CloudTypeOK
  PROVE  /\ \A path \in Paths, size \in Sizes : UploadAction(path, size) => Touched
         /\ \A path \in Paths : DeletePathAction(path) => Touched
         /\ \A paths \in SUBSET Paths : DeleteBatchAction(paths) => Touched
         /\ DeleteFolderAction => Touched
<1>1. /\ DOMAIN cloud \subseteq Paths /\ now \in 0 .. MaxWrites
      /\ dirty \in SUBSET Paths /\ gone \in SUBSET Paths
      /\ \A p \in DOMAIN cloud : cloud[p] \in File
  BY DEF CloudTypeOK, IsTable
<1>2. ASSUME NEW path \in Paths, NEW size \in Sizes, UploadAction(path, size)
      PROVE  Touched
  <2>1. /\ now' = now + 1 /\ now' \in 1 .. MaxWrites /\ dirty' = dirty \cup {path}
        /\ gone' = gone \ {path}
        /\ DOMAIN cloud' = DOMAIN cloud \cup {path}
        /\ cloud'[path] = [time |-> now', size |-> size]
        /\ \A p \in DOMAIN cloud : p # path => cloud'[p] = cloud[p]
    BY <1>1, <1>2, CloudAssumption DEF UploadAction
  <2>2. [time |-> now', size |-> size] \in File
    BY <2>1 DEF File
  <2>3. \A p \in DOMAIN cloud' : cloud'[p] \in File
    BY <1>1, <2>1, <2>2
  <2>4. now' \in 0 .. MaxWrites
    BY <2>1
  <2>5. CloudTypeOK'
    BY <1>1, <2>1, <2>3, <2>4 DEF CloudTypeOK, IsTable
  <2> QED BY <2>1, <2>5 DEF Touched, Untold
<1>3. ASSUME NEW paths \in SUBSET Paths, DeleteBatchAction(paths) PROVE Touched
  <2>1. /\ now' = now /\ gone' = gone
        /\ dirty' = dirty \cup (DOMAIN cloud \cap paths)
        /\ DOMAIN cloud' = DOMAIN cloud \ paths
        /\ \A p \in DOMAIN cloud' : cloud'[p] = cloud[p]
    BY <1>3 DEF DeleteBatchAction, Restrict
  <2>2. CloudTypeOK'
    BY <1>1, <2>1 DEF CloudTypeOK, IsTable
  <2>3. \A p \in Paths \ Untold' :
           /\ p \notin Untold
           /\ p \in DOMAIN cloud' <=> p \in DOMAIN cloud
           /\ p \in DOMAIN cloud => cloud'[p] = cloud[p]
    BY <2>1 DEF Untold
  <2> QED BY <2>2, <2>3 DEF Touched
<1>4. ASSUME NEW path \in Paths, DeletePathAction(path) PROVE Touched
  <2>1. /\ now' = now /\ gone' = gone /\ dirty' = dirty \cup {path}
        /\ DOMAIN cloud' = DOMAIN cloud \ {path}
        /\ \A p \in DOMAIN cloud' : cloud'[p] = cloud[p]
    BY <1>4 DEF DeletePathAction, Restrict
  <2>2. CloudTypeOK'
    BY <1>1, <2>1 DEF CloudTypeOK, IsTable
  <2>3. \A p \in Paths \ Untold' :
           /\ p \notin Untold
           /\ p \in DOMAIN cloud' <=> p \in DOMAIN cloud
           /\ p \in DOMAIN cloud => cloud'[p] = cloud[p]
    BY <2>1 DEF Untold
  <2> QED BY <2>2, <2>3 DEF Touched
<1>5. ASSUME DeleteFolderAction PROVE Touched
  <2>1. /\ now' = now /\ cloud' = <<>> /\ dirty' = dirty \ DOMAIN cloud
        /\ gone' = gone \cup DOMAIN cloud
    BY <1>5 DEF DeleteFolderAction
  <2>2. DOMAIN cloud' = {}
    BY <2>1
  <2>3. CloudTypeOK'
    BY <1>1, <2>1, <2>2 DEF CloudTypeOK, IsTable
  <2>4. \A p \in Paths \ Untold' :
           /\ p \notin Untold
           /\ p \in DOMAIN cloud' <=> p \in DOMAIN cloud
           /\ p \in DOMAIN cloud => cloud'[p] = cloud[p]
    BY <2>1, <2>2 DEF Untold
  <2> QED BY <2>3, <2>4 DEF Touched
<1> QED BY <1>2, <1>3, <1>4, <1>5

\* The copy is not told of it yet.
LEMMA CloudStep ==
  ASSUME FolderIInv, Touched, batches' \in Seq(SUBSET Paths),
         UNCHANGED <<items, index, folderSize, sync, page, shuttingDown, removed>>
  PROVE  FolderIInv'
<1>1. FolderTyped /\ FolderSound /\ PageIsDue /\ UnlistedIsEmpty /\ CopyAgrees
  BY DEF FolderIInv
<1>2. FolderTyped'
  BY <1>1 DEF FolderTyped, Touched
<1>3. FolderSound'
  BY <1>1 DEF FolderSound, Folder
<1>4. UnlistedIsEmpty'
  BY <1>1 DEF UnlistedIsEmpty
<1>5. \A p \in Paths \ Untold' :
         /\ p \notin Untold
         /\ p \in DOMAIN cloud' <=> p \in DOMAIN cloud
         /\ p \in DOMAIN cloud => cloud'[p] = cloud[p]
  BY DEF Touched
<1>6. \A i \in DOMAIN page.entries : page.entries[i].path \in Paths
  <2>1. page.entries \in Seq(Entry)
    BY <1>1 DEF FolderTyped, Page
  <2>2. \A i \in DOMAIN page.entries : page.entries[i] \in Entry
    BY <2>1
  <2> QED BY <2>2, EntryFacts
<1>7. PageIsDue'
  <2>2. ASSUME NEW i \in DOMAIN page.entries, page.entries[i].path \notin Untold'
        PROVE  page.entries[i] = EntryOf(page.entries[i].path)'
    <3>1. page.entries[i].path \in Paths \ Untold'
      BY <1>6, <2>2
    <3>2. page.entries[i] = EntryOf(page.entries[i].path)
      BY <1>1, <1>5, <3>1 DEF PageIsDue
    <3>3. EntryOf(page.entries[i].path)' = EntryOf(page.entries[i].path)
      BY <1>5, <3>1 DEF EntryOf
    <3> QED BY <3>2, <3>3
  <2>3. page' = page
    OBVIOUS
  <2> QED BY <1>1, <2>2, <2>3 DEF PageIsDue
<1>8. CopyAgrees'
  <2>1. ASSUME NEW p \in Paths, Known(p)',
               sync \notin {"none", "listing", "ended"}
        PROVE  Right(p)'
    <3>1. p \in Paths \ Untold' /\ Known(p)
      BY <1>5, <2>1 DEF Known, InPage, Untold
    <3>2. Right(p)
      BY <1>1, <2>1, <3>1 DEF CopyAgrees
    <3> QED BY <1>5, <3>1, <3>2 DEF Right
  <2> QED BY <2>1 DEF CopyAgrees
<1> QED BY <1>2, <1>3, <1>4, <1>7, <1>8 DEF FolderIInv

\* A page is sent for what was due, all or the rest.
LEMMA ListStep ==
  ASSUME FolderIInv, ListFolder
  PROVE  FolderIInv'
<1>1. FolderTyped /\ FolderSound /\ UnlistedIsEmpty
  BY DEF FolderIInv
<1>2. /\ sync = "listing" /\ sync' = "listed" /\ Delivers(page', DOMAIN cloud)
      /\ gone' = {}
      /\ UNCHANGED <<items, index, folderSize, batches, shuttingDown, removed>>
  BY DEF ListFolder, ListFolderAction
<1>3. DOMAIN cloud \in SUBSET Paths /\ CloudTypeOK
  BY <1>1 DEF FolderTyped, CloudTypeOK, IsTable
<1>4. /\ page' \in Page /\ UNCHANGED <<cloud, now>>
      /\ \A i, j \in DOMAIN page'.entries :
            page'.entries[i].path = page'.entries[j].path => i = j
      /\ \A i \in DOMAIN page'.entries :
            page'.entries[i] = EntryOf(page'.entries[i].path)
      /\ dirty' \in SUBSET DOMAIN cloud
      /\ dirty' \cup {page'.entries[i].path : i \in DOMAIN page'.entries}
            = DOMAIN cloud
  BY <1>2, <1>3, Delivery
<1>5. FolderTyped'
  BY <1>1, <1>2, <1>3, <1>4 DEF FolderTyped, CloudTypeOK, IsTable, SyncState
<1>6. FolderSound'
  BY <1>1, <1>2 DEF FolderSound, Folder
<1>7. PageIsDue'
  <2>1. \A p : EntryOf(p)' = EntryOf(p)
    BY <1>4 DEF EntryOf
  <2> QED BY <1>2, <1>4, <2>1 DEF PageIsDue, EntryOf
<1>8. UnlistedIsEmpty' /\ DOMAIN items = {}
  BY <1>1, <1>2 DEF UnlistedIsEmpty
<1>9. CopyAgrees'
  <2>1. ASSUME NEW p \in Paths, Known(p)' PROVE Right(p)'
    <3>1. p \notin DOMAIN cloud /\ p \notin DOMAIN items
      BY <1>4, <1>8, <2>1 DEF Known, InPage
    <3> QED BY <1>2, <1>4, <3>1 DEF Right
  <2> QED BY <2>1 DEF CopyAgrees
<1> QED BY <1>5, <1>6, <1>7, <1>8, <1>9 DEF FolderIInv

\* So it is for what has changed.
LEMMA ContinueStep ==
  ASSUME FolderIInv, ContinueListFolder
  PROVE  FolderIInv'
<1>1. FolderTyped /\ FolderSound /\ PageIsDue /\ CopyAgrees
  BY DEF FolderIInv
<1>2. /\ sync = "updating" /\ sync' = "updated" /\ Delivers(page', dirty)
      /\ gone' = gone
      /\ UNCHANGED <<items, index, folderSize, batches, shuttingDown, removed>>
  BY DEF ContinueListFolder, ContinueListFolderAction
<1>3. dirty \in SUBSET Paths /\ CloudTypeOK
  BY <1>1 DEF FolderTyped, CloudTypeOK
<1>4. /\ page' \in Page /\ UNCHANGED <<cloud, now>>
      /\ \A i, j \in DOMAIN page'.entries :
            page'.entries[i].path = page'.entries[j].path => i = j
      /\ \A i \in DOMAIN page'.entries :
            page'.entries[i] = EntryOf(page'.entries[i].path)
      /\ dirty' \in SUBSET dirty
      /\ dirty' \cup {page'.entries[i].path : i \in DOMAIN page'.entries} = dirty
  BY <1>2, <1>3, Delivery
<1>5. FolderTyped'
  BY <1>1, <1>2, <1>3, <1>4 DEF FolderTyped, CloudTypeOK, IsTable, SyncState
<1>6. FolderSound'
  BY <1>1, <1>2 DEF FolderSound, Folder
<1>7. PageIsDue'
  <2>1. \A p : EntryOf(p)' = EntryOf(p)
    BY <1>4 DEF EntryOf
  <2> QED BY <1>2, <1>4, <2>1 DEF PageIsDue, EntryOf
<1>8. UnlistedIsEmpty'
  BY <1>2 DEF UnlistedIsEmpty
<1>9. CopyAgrees'
  <2>1. ASSUME NEW p \in Paths, Known(p)' PROVE Right(p)'
    <3>1. page.entries = <<>>
      BY <1>1, <1>2 DEF PageIsDue, NoPage
    <3>2. Known(p)
      BY <1>2, <1>4, <2>1, <3>1 DEF Known, InPage
    <3>3. Right(p)
      BY <1>1, <1>2, <3>2 DEF CopyAgrees
    <3> QED BY <1>2, <1>4, <3>3 DEF Right
  <2> QED BY <2>1 DEF CopyAgrees
<1> QED BY <1>5, <1>6, <1>7, <1>8, <1>9 DEF FolderIInv

\* The answer is handled, or ignored during the shutdown.
LEMMA ResponseStep ==
  ASSUME FolderIInv, NEW answered \in {"listed", "updated"}, OnResponse(answered)
  PROVE  FolderIInv'
<1>1. FolderTyped /\ FolderSound /\ PageIsDue /\ CopyAgrees
  BY DEF FolderIInv
<1>2. /\ sync = answered /\ page' = NoPage
      /\ UNCHANGED <<cloud, now, dirty, gone, batches, shuttingDown, removed>>
  BY DEF OnResponse, cloudVars
<1>3. page' \in Page /\ page'.entries = <<>>
  BY <1>2 DEF NoPage, Page
<1>4. PageIsDue'
  BY <1>2, <1>3 DEF PageIsDue
<1>5. CASE shuttingDown
  <2>1. sync' = "ended" /\ UNCHANGED <<items, index, folderSize>>
    BY <1>5 DEF OnResponse
  <2>2. FolderTyped'
    BY <1>1, <1>2, <1>3, <2>1 DEF FolderTyped, CloudTypeOK, IsTable, SyncState
  <2>3. FolderSound'
    BY <1>1, <2>1 DEF FolderSound, Folder
  <2>4. UnlistedIsEmpty' /\ CopyAgrees'
    BY <1>2, <1>5, <2>1 DEF UnlistedIsEmpty, CopyAgrees
  <2> QED BY <1>4, <2>2, <2>3, <2>4 DEF FolderIInv
<1>6. CASE ~shuttingDown
  <2>1. HandleFolderResponse
    BY <1>6 DEF OnResponse
  <2>2. PICK skew \in [DOMAIN page.entries -> Skews] :
           LET f == Answered(Folder, page.entries, skew)
           IN  /\ items' = f.items /\ index' = f.index /\ folderSize' = f.size
               /\ sync' = IF page.hasMore THEN "updating" ELSE "waiting"
    BY <2>1 DEF HandleFolderResponse, Answered
  <2> DEFINE entries == page.entries
             f == Answered(Folder, entries, skew)
  <2>3. /\ entries \in Seq(Entry) /\ Folder \in Folders
        /\ skew \in [DOMAIN entries -> Nat]
        /\ \A i, j \in DOMAIN entries : entries[i].path = entries[j].path => i = j
    <3>1. Skews \subseteq Nat
      BY FolderAssumption
    <3> QED BY <1>1, <3>1 DEF FolderTyped, Page, FolderSound, PageIsDue
  <2>4. /\ f \in Folders
        /\ \A i \in DOMAIN entries : Says(f, entries[i], skew[i])
        /\ \A p \in Paths :
              (\A i \in DOMAIN entries : entries[i].path # p) => Same(f, Folder, p)
    <3> HIDE DEF entries
    <3> QED BY <2>3, HandlingPage
  <2>5. /\ items' = f.items /\ index' = f.index /\ folderSize' = f.size
        /\ sync' \in {"updating", "waiting"}
    BY <2>2
  <2> HIDE DEF f
  <2>6. FolderSound'
    <3>1. f = [items |-> f.items, index |-> f.index, size |-> f.size]
      BY <2>4 DEF Folders
    <3> QED BY <2>4, <2>5, <3>1 DEF FolderSound, Folder
  <2>7. FolderTyped'
    BY <1>1, <1>2, <1>3, <2>5 DEF FolderTyped, CloudTypeOK, IsTable, SyncState
  <2>8. UnlistedIsEmpty'
    BY <2>5 DEF UnlistedIsEmpty
  <2>9. CopyAgrees'
    <3>1. ASSUME NEW p \in Paths, p \notin Untold PROVE Right(p)'
      <4>1. CASE \E i \in DOMAIN entries : entries[i].path = p
        <5>1. PICK i \in DOMAIN entries : entries[i].path = p
          BY <4>1
        <5>2. entries[i] = EntryOf(p) /\ Says(f, entries[i], skew[i])
          BY <1>1, <2>4, <3>1, <5>1 DEF PageIsDue
        <5>3. CASE p \in DOMAIN cloud
          <6>1. entries[i] = [path |-> p, tag |-> "file", file |-> cloud[p]]
            BY <5>2, <5>3 DEF EntryOf
          <6>2. /\ p \in DOMAIN f.items
                /\ f.items[p].time = cloud[p].time + skew[i]
                /\ f.items[p].size = cloud[p].size
            BY <5>2, <6>1 DEF Says, ItemOf
          <6>3. Skews = {0} => f.items[p].time = cloud[p].time
            <7>1. cloud[p].time \in Nat
              <8>1. cloud[p] \in File
                BY <1>1, <5>3 DEF FolderTyped, CloudTypeOK, IsTable
              <8>2. cloud[p].time \in 1 .. MaxWrites
                BY <8>1 DEF File
              <8> QED BY <8>2, CloudAssumption
            <7>2. Skews = {0} => skew[i] = 0
              OBVIOUS
            <7> QED BY <6>2, <7>1, <7>2
          <6> QED BY <1>2, <2>5, <5>3, <6>2, <6>3 DEF Right
        <5>4. CASE p \notin DOMAIN cloud
          <6>1. entries[i] = [path |-> p, tag |-> "deleted"]
            BY <5>2, <5>4 DEF EntryOf
          <6>2. p \notin DOMAIN f.items
            BY <5>2, <6>1 DEF Says
          <6> QED BY <1>2, <2>5, <5>4, <6>2 DEF Right
        <5> QED BY <5>3, <5>4
      <4>2. CASE \A i \in DOMAIN entries : entries[i].path # p
        <5>1. Same(f, Folder, p)
          BY <2>4, <4>2
        <5>2. Known(p)
          BY <3>1, <4>2 DEF Known, InPage, Untold
        <5>3. Right(p)
          BY <1>1, <1>2, <5>2 DEF CopyAgrees
        <5> QED BY <1>2, <2>5, <5>1, <5>3, FolderFields DEF Same, Right
      <4> QED BY <4>1, <4>2
    <3>2. ASSUME NEW p \in Paths, Known(p)' PROVE p \notin Untold
      BY <1>2, <3>2 DEF Known, Untold
    <3> QED BY <3>1, <3>2 DEF CopyAgrees
  <2> QED BY <1>4, <2>6, <2>7, <2>8, <2>9 DEF FolderIInv
<1> QED BY <1>5, <1>6

\* The chain of requests goes on or ends, and the cloud and the copy stay.
LEMMA ChainStep ==
  ASSUME FolderIInv,
         UNCHANGED <<cloud, now, dirty, gone, items, index, folderSize, page>>,
         batches' \in Seq(SUBSET Paths), shuttingDown' \in BOOLEAN,
         removed' \in BOOLEAN, shuttingDown => shuttingDown',
         \/ sync' = sync
         \/ sync = "none" /\ sync' = "listing"
         \/ sync = "listing" /\ sync' = "ended"
         \/ sync = "updating" /\ sync' = "failed"
         \/ sync = "waiting" /\ sync' = "updating"
         \/ sync = "waiting" /\ sync' = "ended" /\ shuttingDown
  PROVE  FolderIInv'
<1>1. FolderTyped /\ FolderSound /\ PageIsDue /\ UnlistedIsEmpty /\ CopyAgrees
  BY DEF FolderIInv
<1>2. FolderTyped'
  <2>1. sync' \in SyncState
    BY <1>1 DEF FolderTyped, SyncState
  <2> QED BY <1>1, <2>1 DEF FolderTyped, CloudTypeOK, IsTable
<1>3. FolderSound'
  BY <1>1 DEF FolderSound, Folder
<1>4. PageIsDue'
  BY <1>1 DEF PageIsDue, EntryOf, Untold
<1>5. UnlistedIsEmpty'
  BY <1>1 DEF UnlistedIsEmpty, FolderTyped
<1>6. CopyAgrees'
  BY <1>1 DEF CopyAgrees, Known, InPage, Right
<1> QED BY <1>2, <1>3, <1>4, <1>5, <1>6 DEF FolderIInv

\* How much of the index shrinkFolder takes.
LEMMA RemoveCounts ==
  ASSUME FolderIInv
  PROVE  /\ RemoveCount \in 0 .. Len(index)
         /\ Len(index) > 0 => RemoveCount > 0
         /\ LET missing == folderSize - MaxSize
            IN  /\ RemoveCount # Len(index) => missing < SizeOf(items, Oldest(RemoveCount))
                /\ \A n \in 1 .. RemoveCount - 1 :
                      ~(missing < SizeOf(items, Oldest(n)))
<1> DEFINE enough == {n \in 1 .. Len(index) :
                         folderSize - MaxSize < SizeOf(items, Oldest(n))}
<1>1. Len(index) \in Nat
  <2>1. Folder \in Folders
    BY DEF FolderIInv, FolderSound
  <2> QED BY <2>1, FolderIs, FolderFields
<1>2. CASE enough = {}
  <2>1. RemoveCount = Len(index)
    BY <1>2 DEF RemoveCount
  <2> QED BY <1>1, <1>2, <2>1
<1>3. CASE enough # {}
  <2>1. RemoveCount = Min(enough)
    BY <1>3 DEF RemoveCount
  <2>2. enough \in SUBSET (1 .. Len(index)) /\ enough \in SUBSET Int
    OBVIOUS
  <2>3. IsFiniteSet(enough)
    <3>1. 1 \in Int /\ Len(index) \in Int
      BY <1>1
    <3>2. IsFiniteSet(1 .. Len(index))
      BY <3>1, FS_Interval
    <3> HIDE DEF enough
    <3> QED BY <2>2, <3>2, FS_Subset
  <2>4. \E m \in enough : \A n \in enough : m <= n
    <3> HIDE DEF enough
    <3> QED BY <1>3, <2>2, <2>3, Extremes
  <2>5. RemoveCount \in enough /\ \A n \in enough : RemoveCount <= n
    <3> HIDE DEF enough
    <3> QED BY <2>1, <2>4 DEF Min
  <2>6. \A n \in 1 .. RemoveCount - 1 : n \notin enough /\ n \in 1 .. Len(index)
    <3> HIDE DEF enough
    <3>1. RemoveCount \in 1 .. Len(index)
      BY <2>2, <2>5
    <3> QED BY <1>1, <2>5, <3>1
  <2> QED BY <1>1, <2>5, <2>6
<1> QED BY <1>2, <1>3

\* Oldest names files.
LEMMA ShrinkStep ==
  ASSUME FolderIInv, ShrinkFolder
  PROVE  FolderIInv'
<1>1. /\ batches' = Append(batches, Oldest(RemoveCount))
      /\ UNCHANGED <<cloud, now, dirty, gone, items, index, folderSize, sync,
                     page, shuttingDown, removed>>
  BY DEF ShrinkFolder, cloudVars
<1>2. /\ batches \in Seq(SUBSET Paths) /\ shuttingDown \in BOOLEAN
      /\ removed \in BOOLEAN
  BY DEF FolderIInv, FolderTyped
<1>3. Oldest(RemoveCount) \in SUBSET Paths
  <2>1. index \in Seq(Paths) /\ Len(index) \in Nat
    <3>1. Folder \in Folders
      BY DEF FolderIInv, FolderSound
    <3> QED BY <3>1, FolderIs, FolderFields
  <2>2. RemoveCount \in 0 .. Len(index)
    BY RemoveCounts
  <2>3. \A i \in 1 .. RemoveCount : i \in 1 .. Len(index)
    BY <2>1, <2>2
  <2> QED BY <2>1, <2>3 DEF Oldest
<1>4. batches' \in Seq(SUBSET Paths)
  BY <1>1, <1>2, <1>3
<1> QED BY <1>1, <1>2, <1>4, ChainStep

\* Every step of the folder and of the cloud.
LEMMA FolderStep ==
  ASSUME FolderIInv, [FolderNext]_allVars
  PROVE  FolderIInv'
<1>1. /\ CloudTypeOK /\ batches \in Seq(SUBSET Paths)
      /\ shuttingDown \in BOOLEAN /\ removed \in BOOLEAN
  BY DEF FolderIInv, FolderTyped
<1>2. ASSUME NEW i \in DOMAIN batches
      PROVE  batches[i] \in SUBSET Paths /\ RemoveAt(batches, i) \in Seq(SUBSET Paths)
  <2>1. i \in 1 .. Len(batches)
    BY <1>1
  <2>2. RemoveAt(batches, i) \in Seq(SUBSET Paths)
    BY <1>1, <2>1, Removal
  <2> QED BY <1>1, <2>2
<1>3. ASSUME NEW path \in Paths, NEW size \in Sizes, UploadRecording(path, size)
      PROVE  FolderIInv'
  <2>1. Touched
    BY <1>1, <1>3, CloudSteps DEF UploadRecording
  <2> QED BY <1>1, <1>3, <2>1, CloudStep DEF UploadRecording, folderVars
<1>4. ASSUME NEW path \in Paths, Delete(path) PROVE FolderIInv'
  <2>1. Touched
    BY <1>1, <1>4, CloudSteps DEF Delete
  <2> QED BY <1>1, <1>4, <2>1, CloudStep DEF Delete, folderVars
<1>5. CASE ListFolder
  BY <1>5, ListStep
<1>18. CASE DeleteFolder
  <2>1. Touched
    BY <1>1, <1>18, CloudSteps DEF DeleteFolder
  <2> QED BY <1>1, <1>18, <2>1, CloudStep DEF DeleteFolder, folderVars
<1>6. CASE ContinueListFolder
  BY <1>6, ContinueStep
<1>7. ASSUME NEW i \in DOMAIN batches, DeleteBatch(i) PROVE FolderIInv'
  <2>1. Touched
    BY <1>1, <1>2, <1>7, CloudSteps DEF DeleteBatch
  <2> QED BY <1>2, <1>7, <2>1, CloudStep DEF DeleteBatch
<1>8. ASSUME NEW i \in DOMAIN batches, DeleteBatchFails(i) PROVE FolderIInv'
  BY <1>1, <1>2, <1>8, ChainStep DEF DeleteBatchFails, cloudVars
<1>9. CASE StartSync
  BY <1>1, <1>9, ChainStep DEF StartSync, cloudVars
<1>10. CASE OnListFolderResponse \/ OnUpdateResponse
  BY <1>10, ResponseStep DEF OnListFolderResponse, OnUpdateResponse
<1>11. CASE OnListFolderFailure
  BY <1>1, <1>11, ChainStep DEF OnListFolderFailure, OnFailure, cloudVars
<1>12. CASE OnUpdateFailure
  BY <1>1, <1>12, ChainStep DEF OnUpdateFailure, OnFailure, cloudVars
<1>13. CASE Update
  BY <1>1, <1>13, ChainStep DEF Update, cloudVars
<1>14. CASE ShrinkFolder
  BY <1>14, ShrinkStep
<1>15. CASE ShutdownFolder
  BY <1>1, <1>15, ChainStep DEF ShutdownFolder, cloudVars
<1>16. CASE RemoveSource
  BY <1>1, <1>16, ChainStep DEF RemoveSource, cloudVars
<1>17. CASE UNCHANGED allVars
  BY <1>1, <1>17, ChainStep DEF allVars, cloudVars, folderVars
<1> QED BY <1>3, <1>4, <1>5, <1>6, <1>7, <1>8, <1>9, <1>10, <1>11, <1>12,
           <1>13, <1>14, <1>15, <1>16, <1>17, <1>18 DEF FolderNext, CloudNext

\* So the invariant always holds.
LEMMA FolderInductive == FolderSpec => []FolderIInv
<1>1. FolderInit => FolderIInv
  BY FolderInitially
<1>2. FolderIInv /\ [FolderNext]_allVars => FolderIInv'
  BY FolderStep
<1> QED BY <1>1, <1>2, PTL DEF FolderSpec

-----------------------------------------------------------------------------
(* What the folder promises.                                               *)

\* What the invariant says of the copy.
LEMMA CopyFacts ==
  ASSUME FolderIInv
  PROVE  /\ items \in Tables /\ index \in Seq(Paths) /\ folderSize \in Nat
         /\ Lists(index, DOMAIN items)
         /\ \A i, j \in 1 .. Len(index) :
               i < j => items[index[i]].time <= items[index[j]].time
         /\ folderSize = SizeOf(items, DOMAIN items)
         /\ Len(index) \in Nat /\ DOMAIN index = 1 .. Len(index)
<1>1. Folder \in Folders
  BY DEF FolderIInv, FolderSound
<1> QED BY <1>1, FolderIs, FolderFields DEF Sorted

\* The assertions of handleFolderResponse.
LEMMA SoundCopies ==
  ASSUME FolderIInv
  PROVE  CopyIsSound
<1>1. /\ items \in Tables /\ index \in Seq(Paths) /\ folderSize \in Nat
      /\ Lists(index, DOMAIN items) /\ folderSize = SizeOf(items, DOMAIN items)
      /\ DOMAIN index = 1 .. Len(index)
      /\ \A i, j \in 1 .. Len(index) :
            i < j => items[index[i]].time <= items[index[j]].time
  BY CopyFacts
<1>2. IsTable(items, [time : Nat, size : Nat])
  BY <1>1, TableFacts DEF IsTable
<1>3. FolderTypeOK
  BY <1>1, <1>2 DEF FolderIInv, FolderTyped, FolderTypeOK
<1>4. ToSet(index) = DOMAIN items
  <2>1. /\ \A i \in 1 .. Len(index) : index[i] \in DOMAIN items
        /\ \A p \in DOMAIN items : \E i \in 1 .. Len(index) : index[i] = p
    BY <1>1 DEF Lists
  <2> QED BY <1>1, <2>1 DEF ToSet
<1>5. Len(index) = Cardinality(DOMAIN items)
  BY <1>1, ListLength
<1>6. IndexIsItems
  BY <1>1, <1>4, <1>5 DEF IndexIsItems
<1> QED BY <1>1, <1>3, <1>6 DEF CopyIsSound, SizeIsSum

\* _items, _index and _folderSize stay in step over every listing, change and
\* deletion, whatever the pages and the order of the answers: the index has
\* each item once, the oldest first, and the size is the sum of the sizes
\* (handleFolderResponse, insertItem, eraseItem, DropboxFolder.cpp:103-199).
THEOREM FolderCopyIsSound == FolderSpec => []CopyIsSound
<1>1. FolderIInv => CopyIsSound
  BY SoundCopies
<1> QED BY <1>1, FolderInductive, PTL

\* The copy is right about every file that has no change on its way: no page,
\* change or deletion gets lost between the listing and the requests for
\* changes (onListFolderResponse to onUpdateResponse, DropboxFolder.cpp:65-101).
THEOREM FolderMirrors == FolderSpec => []Mirrors
<1>1. FolderIInv => Mirrors
  BY DEF FolderIInv, CopyAgrees, Right, Mirrors
<1> QED BY <1>1, FolderInductive, PTL

\* What shrinkFolder takes from the copy.
LEMMA Batches ==
  ASSUME FolderIInv, ShrinkFolder, NEW batch, batch = Last(batches')
  PROVE  \E n \in 1 .. Len(index) :
             /\ n = RemoveCount /\ batch = Oldest(n)
             /\ MaxSize <= folderSize /\ ~shuttingDown
             /\ batch \in SUBSET DOMAIN items /\ Cardinality(batch) = n
             /\ n = Len(index) => batch = DOMAIN items
             /\ \A q \in DOMAIN items \ batch : \E j \in n + 1 .. Len(index) : index[j] = q
<1> DEFINE n == RemoveCount
<1>1. /\ items \in Tables /\ folderSize \in Nat /\ Lists(index, DOMAIN items)
      /\ folderSize = SizeOf(items, DOMAIN items)
      /\ Len(index) \in Nat
  BY CopyFacts
<1>2. /\ batches' = Append(batches, Oldest(n)) /\ MaxSize <= folderSize
      /\ ~shuttingDown
  BY DEF ShrinkFolder
<1>3. batch = Oldest(n)
  <2>1. batches \in Seq(SUBSET Paths)
    BY DEF FolderIInv, FolderTyped
  <2> DEFINE b == Oldest(n)
  <2> HIDE DEF b
  <2>2. Last(Append(batches, b)) = b
    BY <2>1 DEF Last
  <2> QED BY <1>2, <2>2 DEF b
<1>4. n \in 1 .. Len(index)
  <2>1. DOMAIN items # {}
    <3>1. SizeOf(items, {}) = 0
      BY <1>1, PartSizes
    <3>2. folderSize # 0
      BY <1>1, <1>2, FolderAssumption
    <3> QED BY <1>1, <3>1, <3>2
  <2>2. Len(index) > 0
    BY <1>1, <2>1 DEF Lists
  <2>3. n \in 0 .. Len(index) /\ n > 0
    BY <2>2, RemoveCounts
  <2> QED BY <1>1, <2>3
<1> HIDE DEF n
<1>5. \A i \in 1 .. n : i \in 1 .. Len(index)
  BY <1>1, <1>4
<1>6. /\ \A i \in 1 .. Len(index) : index[i] \in DOMAIN items
      /\ \A p \in DOMAIN items : \E i \in 1 .. Len(index) : index[i] = p
  BY <1>1 DEF Lists
<1>7. batch \in SUBSET DOMAIN items
  BY <1>3, <1>5, <1>6 DEF Oldest
<1>8. Cardinality(batch) = n
  BY <1>1, <1>3, <1>4, ListLength DEF Oldest
<1>9. n = Len(index) => batch = DOMAIN items
  BY <1>3, <1>6, <1>7 DEF Oldest
<1>10. ASSUME NEW q \in DOMAIN items \ batch
       PROVE  \E j \in n + 1 .. Len(index) : index[j] = q
  <2>1. PICK j \in 1 .. Len(index) : index[j] = q
    BY <1>6
  <2>2. j \notin 1 .. n
    BY <1>3, <2>1 DEF Oldest
  <2>3. j \in n + 1 .. Len(index)
    BY <1>1, <1>4, <2>2
  <2> QED BY <2>1, <2>3
<1> QED BY <1>2, <1>3, <1>4, <1>7, <1>8, <1>9, <1>10 DEF n

\* The last of the files is needed, and then it is enough.
LEMMA MinimalBatch ==
  ASSUME FolderIInv, ShrinkFolder, NEW batch, batch = Last(batches')
  PROVE  LET rest == SizeOf(items, DOMAIN items \ batch)
         IN  /\ batch # {}
             /\ rest < MaxSize \/ batch = DOMAIN items
             /\ rest + items[index[Cardinality(batch)]].size >= MaxSize
<1> DEFINE D == DOMAIN items
           rest == SizeOf(items, D \ batch)
<1>1. /\ items \in Tables /\ folderSize \in Nat /\ Lists(index, D)
      /\ folderSize = SizeOf(items, D) /\ Len(index) \in Nat
  BY CopyFacts
<1>2. PICK n \in 1 .. Len(index) :
         /\ n = RemoveCount /\ batch = Oldest(n) /\ MaxSize <= folderSize
         /\ batch \in SUBSET D /\ Cardinality(batch) = n
         /\ n = Len(index) => batch = D
  BY Batches
<1>3. n \in Nat /\ n >= 1 /\ n <= Len(index) /\ MaxSize \in Nat
  BY <1>1, FolderAssumption
<1> DEFINE last == index[n]
           before == SizeOf(items, Oldest(n - 1))
<1>4. last \in batch /\ last \in D /\ batch # {}
  <2>1. n \in 1 .. n
    BY <1>3
  <2> QED BY <1>2, <2>1 DEF Oldest
<1>5. Oldest(n - 1) = batch \ {last}
  <2>1. \A i \in 1 .. n : i \in 1 .. Len(index)
    BY <1>3
  <2>2. \A i, j \in 1 .. n : index[i] = index[j] => i = j
    BY <1>1, <2>1 DEF Lists
  <2>3. \A i \in 1 .. n - 1 : i \in 1 .. n /\ i # n
    BY <1>3
  <2>4. \A i \in 1 .. n : i # n => i \in 1 .. n - 1
    BY <1>3
  <2>5. n \in 1 .. n
    BY <1>3
  <2>6. Oldest(n - 1) \subseteq batch \ {last}
    BY <1>2, <2>2, <2>3, <2>5 DEF Oldest
  <2>7. batch \ {last} \subseteq Oldest(n - 1)
    BY <1>2, <2>4 DEF Oldest
  <2> QED BY <2>6, <2>7
<1>6. SizeOf(items, batch) = items[last].size + before
  BY <1>1, <1>2, <1>4, <1>5, PartSizes
<1>7. folderSize = SizeOf(items, batch) + rest
  BY <1>1, <1>2, PartSizes
<1>8. rest \in Nat /\ before \in Nat /\ items[last].size \in Nat
  <2>1. D \ batch \in SUBSET D /\ batch \ {last} \in SUBSET D
    BY <1>2
  <2>2. rest \in Nat /\ SizeOf(items, batch \ {last}) \in Nat
    BY <1>1, <2>1, PartSizes
  <2> QED BY <1>1, <1>4, <1>5, <2>2, TableFacts
<1>9. before <= folderSize - MaxSize
  <2>1. CASE n = 1
    <3>1. batch \ {last} = {}
      BY <1>2, <2>1 DEF Oldest
    <3>2. before = 0
      BY <1>1, <1>5, <3>1, PartSizes
    <3> QED BY <1>1, <1>2, <1>3, <3>2
  <2>2. CASE n # 1
    <3>1. n - 1 \in 1 .. RemoveCount - 1
      BY <1>2, <1>3, <2>2
    <3>2. ~(folderSize - MaxSize < before)
      BY <3>1, RemoveCounts
    <3> HIDE DEF before
    <3> QED BY <1>1, <1>3, <1>8, <3>2
  <2> QED BY <2>1, <2>2
<1>10. n # Len(index) => folderSize - MaxSize < SizeOf(items, batch)
  BY <1>2, RemoveCounts
<1> DEFINE taken == SizeOf(items, batch)
           size == items[last].size
<1> HIDE DEF rest, before
<1>11. /\ taken = size + before /\ folderSize = taken + rest
       /\ rest \in Nat /\ before \in Nat /\ size \in Nat
       /\ before <= folderSize - MaxSize
       /\ n # Len(index) => folderSize - MaxSize < taken
  BY <1>6, <1>7, <1>8, <1>9, <1>10
<1> HIDE DEF taken, size
<1>12. folderSize \in Nat /\ MaxSize \in Nat /\ taken \in Nat
  BY <1>1, <1>3, <1>11
<1>13. n # Len(index) => rest < MaxSize
  BY ONLY <1>11, <1>12
<1>14. rest + size >= MaxSize
  BY ONLY <1>11, <1>12
<1>15. items[index[Cardinality(batch)]].size = size
  BY <1>2 DEF size
<1> QED BY <1>2, <1>4, <1>13, <1>14, <1>15 DEF rest

\* What is taken is no newer than what is left.
LEMMA OldestBatch ==
  ASSUME Skews = {0}, FolderIInv, ShrinkFolder, NEW batch, batch = Last(batches'),
         NEW p \in batch, NEW q \in DOMAIN items \ batch, Known(p), Known(q)
  PROVE  cloud[p].time <= cloud[q].time
<1>1. /\ \A i, j \in 1 .. Len(index) :
            i < j => items[index[i]].time <= items[index[j]].time
      /\ Len(index) \in Nat /\ items \in Tables
  BY CopyFacts
<1>2. PICK n \in 1 .. Len(index) :
         /\ batch = Oldest(n) /\ batch \in SUBSET DOMAIN items /\ ~shuttingDown
         /\ \A x \in DOMAIN items \ batch :
               \E j \in n + 1 .. Len(index) : index[j] = x
  BY Batches
<1>3. PICK i \in 1 .. n : index[i] = p
  BY <1>2 DEF Oldest
<1>4. PICK j \in n + 1 .. Len(index) : index[j] = q
  BY <1>2
<1>5. items[p].time <= items[q].time
  <2>1. i \in 1 .. Len(index) /\ j \in 1 .. Len(index) /\ i < j
    BY <1>1
  <2> QED BY <1>1, <1>3, <1>4, <2>1
<1>6. p \in DOMAIN items /\ p \in Paths /\ q \in Paths
  BY <1>1, <1>2, TableFacts
<1>7. Right(p) /\ Right(q)
  <2>1. sync \notin {"none", "listing", "ended"}
    BY <1>2, <1>6 DEF FolderIInv, UnlistedIsEmpty
  <2> QED BY <1>6, <2>1 DEF FolderIInv, CopyAgrees
<1> QED BY <1>5, <1>6, <1>7 DEF Right

\* What shrinkFolder asks to delete makes the copy smaller than the limit, and
\* would not without its last file (removeList, DropboxFolder.cpp:201-230).
THEOREM FolderBatchIsMinimal == FolderSpec => BatchIsMinimal
<1> DEFINE A == ShrinkFolder =>
                  LET batch == Last(batches')
                      rest == SizeOf(items, DOMAIN items \ batch)
                  IN  /\ batch # {}
                      /\ rest < MaxSize \/ batch = DOMAIN items
                      /\ rest + items[index[Cardinality(batch)]].size >= MaxSize
<1>1. FolderIInv => A
  BY MinimalBatch
<1>2. FolderIInv /\ [FolderNext]_allVars => [A]_allVars
  BY <1>1
<1>3. FolderSpec => [][A]_allVars
  <2> HIDE DEF A
  <2> QED BY <1>2, FolderInductive, PTL DEF FolderSpec
<1> QED BY <1>3 DEF BatchIsMinimal, A

\* "will delete oldest items" (DropboxFolder.h:27), by the server's time of the
\* files whose changes the box has been told of, in a time zone without
\* daylight saving time: elsewhere mktime may order them otherwise.
THEOREM FolderRemovesOldest ==
  ASSUME Skews = {0}
  PROVE  FolderSpec => RemovesOldest
<1> DEFINE A == ShrinkFolder =>
                  LET batch == Last(batches')
                  IN  \A p \in batch, q \in DOMAIN items \ batch :
                          Known(p) /\ Known(q) => cloud[p].time <= cloud[q].time
<1>1. FolderIInv => A
  BY OldestBatch
<1>2. FolderIInv /\ [FolderNext]_allVars => [A]_allVars
  BY <1>1
<1>3. FolderSpec => [][A]_allVars
  <2> HIDE DEF A
  <2> QED BY <1>2, FolderInductive, PTL DEF FolderSpec
<1> QED BY <1>3 DEF RemovesOldest, A

=============================================================================
