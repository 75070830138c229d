----------------------- MODULE StreamingHandler_proofs ----------------------
(***************************************************************************)
(* The streaming handler (StreamingHandler.tla), for any number of bus     *)
(* handlers in the queue: the Streamer outlives what refers to it, is      *)
(* destroyed only when stopped, its failures are told, and the handler is  *)
(* idle when it is removed.                                                *)
(*                                                                         *)
(* All of it rests on the connection not being read while the controller   *)
(* resets (ReadsWhileResetting = FALSE).  Otherwise a request can come     *)
(* behind the shutdown, and TLC finds each of the four violated.           *)
(***************************************************************************)
EXTENDS StreamingHandler, DataFacts, SequenceTheorems

\* What the server commands the handler.
Command == {"request", "stop"}

\* The protocol of the connection and of the reset, as the queue s has it.
LaneOf(s, c, down) ==
    /\ Count(s, ReadItem) <= (IF c = "reading" THEN 1 ELSE 0)
    /\ Count(s, Command) <= (IF c \in {"reading", "resetting"} THEN 1 ELSE 0)
    /\ ~Before(s, ReadItem, Command)
    /\ ~Before(s, {"reset"}, Command)
    /\ Count(s, {"reset"}) = (IF c = "resetting" THEN 1 ELSE 0)
    /\ Count(s, {"shutdown", "finished"}) + (IF down THEN 1 ELSE 0) =
          (IF c = "waiting" THEN 1 ELSE 0)

Lane == LaneOf(queue, client, shuttedDown)

\* A destruction is queued for a stopped Streamer without references, and
\* no request is ahead of it that could create the next one: neither when
\* the Streamer is gone already, nor behind another destruction.
Destroys ==
    /\ Count(queue, {"destroy"}) > 0 => streamer # "live" /\ refs = 0
    /\ ~Between(queue, {"destroy"}, {"request"}, {"destroy"})
    /\ streamer = "absent" => ~Before(queue, {"request"}, {"destroy"})

\* The end of the shutdown is behind all that refers to the handler.
Ends ==
    /\ Count(queue, {"finished"}) > 0 => streamer = "absent"
    /\ ~Before(queue, {"finished"}, HandlerItem)

\* Only a Streamer is referred to, started or stopped.
Io ==
    /\ streamer = "absent" => Count(queue, BusItem) = 0 /\ ~shuttedDown
    /\ io = "starting" => streamer = "live"
    /\ io = "failing" =>
          refs > 0 /\ streamer # "absent" /\ Count(queue, {"failed"}) > 0

\* As long as no update was lost, the counter is the number of handlers that
\* refer to the Streamer, with the one that is running.
Counted ==
    ~lost =>
        /\ refs = Count(queue, BusItem) + (IF io = "failing" THEN 1 ELSE 0)
        /\ Count(queue, {"dangling"}) = 0
        /\ io # "crashed"

\* A failure was told, or is on its way.
Told ==
    wanted /\ streamer # "live" =>
        told \/ Count(queue, {"failed", "sendFailed"}) > 0 \/ io = "crashed"

\* The inductive invariant.
IInv == TypeOK /\ Lane /\ Destroys /\ Ends /\ Io /\ Counted /\ Told

\* The io thread takes a handler that posts nothing.
LEMMA RunsAlone ==
  ASSUME TypeOK, NEW h, Runs(h, <<>>)
  PROVE  queue' \in Seq(Item) /\ Takes(queue, h, queue')
<1>1. queue \in Seq(Item) /\ queue # <<>> /\ Head(queue) = h
  BY DEF TypeOK, Runs
<1>2. Tail(queue) \in Seq(Item) /\ Takes(queue, h, Tail(queue))
  BY <1>1, Taking
<1>3. queue' = Tail(queue)
  BY <1>2 DEF Runs
<1> QED BY <1>2, <1>3

\* One that posts another.
LEMMA RunsAndPosts ==
  ASSUME TypeOK, NEW h, NEW x \in Item, Runs(h, <<x>>)
  PROVE  /\ queue' \in Seq(Item)
         /\ \E t \in Seq(Item) : Takes(queue, h, t) /\ Puts(t, x, queue')
<1>1. queue \in Seq(Item) /\ queue # <<>> /\ Head(queue) = h
  BY DEF TypeOK, Runs
<1>2. Tail(queue) \in Seq(Item) /\ Takes(queue, h, Tail(queue))
  BY <1>1, Taking
<1>3. queue' = Append(Tail(queue), x)
  BY <1>2 DEF Runs
<1>4. queue' \in Seq(Item) /\ Puts(Tail(queue), x, queue')
  BY <1>2, <1>3, Putting
<1> QED BY <1>2, <1>4

\* One that posts two others.
LEMMA RunsAndPostsTwo ==
  ASSUME TypeOK, NEW h, NEW x \in Item, NEW y \in Item, Runs(h, <<x, y>>)
  PROVE  /\ queue' \in Seq(Item)
         /\ \E t, u : Takes(queue, h, t) /\ Puts(t, x, u) /\ Puts(u, y, queue')
<1>1. queue \in Seq(Item) /\ queue # <<>> /\ Head(queue) = h
  BY DEF TypeOK, Runs
<1>2. Tail(queue) \in Seq(Item) /\ Takes(queue, h, Tail(queue))
  BY <1>1, Taking
<1>3. queue' = Append(Append(Tail(queue), x), y)
  BY <1>2 DEF Runs
<1> DEFINE t == Tail(queue)
           u == Append(t, x)
<1>4. u \in Seq(Item) /\ Puts(t, x, u)
  BY <1>2, Putting
<1> HIDE DEF u
<1>5. queue' \in Seq(Item) /\ Puts(u, y, queue')
  BY <1>3, <1>4, Putting DEF u
<1> QED BY <1>2, <1>4, <1>5

\* Handlers that have nothing to do with that protocol.
Aside == Item \ (ReadItem \cup Command \cup {"reset", "shutdown", "finished"})

\* Taking a handler that is not of the reset keeps the protocol.
LEMMA LaneTaken ==
  ASSUME NEW s, NEW t, NEW c, NEW down,
         NEW x, x \notin {"reset", "shutdown", "finished"},
         LaneOf(s, c, down), Takes(s, x, t)
  PROVE  LaneOf(t, c, down)
<1>1. ~Before(t, ReadItem, Command) /\ ~Before(t, {"reset"}, Command)
  BY DEF LaneOf, Takes
<1>2. ASSUME NEW X
      PROVE  /\ Count(t, X) \in Nat /\ Count(s, X) \in Nat
             /\ Count(t, X) <= Count(s, X)
             /\ x \notin X => Count(t, X) = Count(s, X)
  BY DEF Takes
<1>3. /\ Count(t, {"reset"}) = Count(s, {"reset"})
      /\ Count(t, {"shutdown", "finished"}) =
             Count(s, {"shutdown", "finished"})
  BY <1>2
<1>4. /\ Count(t, ReadItem) <= (IF c = "reading" THEN 1 ELSE 0)
      /\ Count(t, Command) <= (IF c \in {"reading", "resetting"} THEN 1 ELSE 0)
  <2>1. /\ Count(s, ReadItem) <= (IF c = "reading" THEN 1 ELSE 0)
        /\ Count(s, Command) <=
               (IF c \in {"reading", "resetting"} THEN 1 ELSE 0)
    BY DEF LaneOf
  <2> QED BY <1>2, <2>1
<1> QED BY <1>1, <1>3, <1>4 DEF LaneOf

\* Posting one of these keeps the protocol, too.
LEMMA AsidePut ==
  ASSUME NEW s, NEW t, NEW c, NEW down, NEW x \in Aside,
         LaneOf(s, c, down), Puts(s, x, t)
  PROVE  LaneOf(t, c, down)
<1>1. /\ x \notin ReadItem /\ x \notin Command /\ x # "reset" /\ x # "shutdown"
      /\ x # "finished"
  BY DEF Aside
<1>2. \A X : Count(t, X) \in Nat /\ Count(s, X) \in Nat
             /\ (x \notin X => Count(s, X) = Count(t, X))
  BY DEF Puts
<1>3. ~Before(t, ReadItem, Command) /\ ~Before(t, {"reset"}, Command)
  BY <1>1 DEF LaneOf, Puts
<1>4. /\ Count(t, ReadItem) = Count(s, ReadItem)
      /\ Count(t, Command) = Count(s, Command)
      /\ Count(t, {"reset"}) = Count(s, {"reset"})
      /\ Count(t, {"shutdown", "finished"}) =
             Count(s, {"shutdown", "finished"})
  BY <1>1, <1>2
<1> QED BY <1>3, <1>4 DEF LaneOf

\* The handlers of the bus, and those aside otherwise.
LEMMA Kinds ==
  /\ \A x \in BusItem :
        /\ x \in Aside /\ x \notin HandlerItem
        /\ x \notin {"request", "destroy", "finished", "dangling", "failed",
                     "sendFailed"}
  /\ {"streaming", "failed", "destroy", "sendFailed",
               "dangling"} \subseteq Aside
  /\ \A x \in ReadItem :
        /\ x \in Item /\ x \notin Command /\ x \notin BusItem
        /\ x \notin HandlerItem
        /\ x \notin {"reset", "shutdown", "request", "destroy", "finished",
                     "dangling", "failed", "sendFailed"}
  /\ \A x \in Command :
        /\ x \in Item /\ x \notin ReadItem /\ x \notin BusItem
        /\ x \notin HandlerItem
        /\ x \notin {"reset", "shutdown", "destroy", "finished", "dangling",
                     "failed", "sendFailed"}
<1>1. {"playing", "error", "streaming", "failed", "destroy", "sendFailed",
                "dangling"} \subseteq Aside
  BY DEF Aside, Item, HandlerItem, BusItem, ReadItem, Command
<1>2. \A x \in BusItem : x = "playing" \/ x = "error"
  BY DEF BusItem
<1>3. \A x \in ReadItem : x = "readRequest" \/ x = "readStop"
  BY DEF ReadItem
<1>4. \A x \in Command : x = "request" \/ x = "stop"
  BY DEF Command
<1>5. {"readRequest", "readStop", "request", "stop"} \subseteq Item
  BY DEF Item, ReadItem
<1>6. \A x \in BusItem :
        /\ x \in Aside /\ x \notin HandlerItem
        /\ x \notin {"request", "destroy", "finished", "dangling", "failed",
                     "sendFailed"}
  BY <1>1, <1>2 DEF HandlerItem
<1>7. \A x \in ReadItem :
        /\ x \in Item /\ x \notin Command /\ x \notin BusItem
        /\ x \notin HandlerItem
        /\ x \notin {"reset", "shutdown", "request", "destroy", "finished",
                     "dangling", "failed", "sendFailed"}
  BY <1>3, <1>5 DEF Command, BusItem, HandlerItem
<1>8. \A x \in Command :
        /\ x \in Item /\ x \notin ReadItem /\ x \notin BusItem
        /\ x \notin HandlerItem
        /\ x \notin {"reset", "shutdown", "destroy", "finished", "dangling",
                     "failed", "sendFailed"}
  BY <1>4, <1>5 DEF ReadItem, BusItem, HandlerItem
<1> QED BY <1>1, <1>6, <1>7, <1>8

\* A message of the connection: nothing is read while the controller resets.
LEMMA ReadCompletesKeeps ==
  ASSUME ReadsWhileResetting = FALSE, IInv, NEW read \in ReadItem,
         ReadCompletes(read)
  PROVE  IInv'
<1>1. queue \in Seq(Item) /\ read \in Item /\ queue' = Append(queue, read)
  BY Kinds DEF IInv, TypeOK, ReadCompletes, Item
<1>2. queue' \in Seq(Item) /\ Puts(queue, read, queue')
  BY <1>1, Putting
<1>3. client = "reading"
  BY DEF ReadCompletes, Reading
<1>4. Count(queue, ReadItem) = 0
  BY <1>1, <1>2, CountPositive DEF ReadCompletes, Queued, Puts
<1>5. /\ read \in ReadItem
      /\ read \notin Command /\ read \notin BusItem /\ read \notin HandlerItem
      /\ read \notin {"reset", "shutdown", "request", "destroy", "finished",
                    "dangling", "failed", "sendFailed"}
  BY Kinds
<1>6. TypeOK'
  BY <1>2, <1>3, <1>4, <1>5 DEF IInv, TypeOK, ReadCompletes
<1>7. Lane'
  BY <1>2, <1>3, <1>4, <1>5 DEF IInv, Lane, ReadCompletes, Puts, LaneOf
<1>8. Destroys'
  BY SMTT(30), <1>2, <1>3, <1>4, <1>5 DEF IInv, Destroys, ReadCompletes, Puts
<1>9. Ends'
  BY <1>2, <1>3, <1>4, <1>5 DEF IInv, Ends, ReadCompletes, Puts
<1>10. Io'
  BY SMTT(30), <1>2, <1>3, <1>4, <1>5 DEF IInv, Io, ReadCompletes, Puts
<1>11. Counted'
  BY <1>2, <1>3, <1>4, <1>5 DEF IInv, Counted, ReadCompletes, Puts
<1>12. Told'
  BY <1>2, <1>3, <1>4, <1>5 DEF IInv, Told, ReadCompletes, Puts
<1> QED BY <1>6, <1>7, <1>8, <1>9, <1>10, <1>11, <1>12 DEF IInv

\* A message is handled: its command is behind it, and nothing else was read.
LEMMA RunReadKeeps ==
  ASSUME IInv, RunRead
  PROVE  IInv'
<1>1. PICK read \in ReadItem, x \in Command : Runs(read, <<x>>)
  BY DEF RunRead, ReadItem, Command
<1>2. /\ read \in ReadItem
      /\ read \notin Command /\ read \notin BusItem /\ read \notin HandlerItem
      /\ read \notin {"reset", "shutdown", "request", "destroy", "finished",
                    "dangling", "failed", "sendFailed"}
  BY Kinds
<1>3. /\ x \in Item
      /\ x \in Command
      /\ x \notin ReadItem /\ x \notin BusItem /\ x \notin HandlerItem
      /\ x \notin {"reset", "shutdown", "destroy", "finished", "dangling",
                    "failed", "sendFailed"}
  BY Kinds
<1>4. queue' \in Seq(Item)
  BY <1>1, <1>3, RunsAndPosts DEF IInv
<1>5. PICK t : Takes(queue, read, t) /\ Puts(t, x, queue')
  BY <1>1, <1>3, RunsAndPosts DEF IInv
<1>6. /\ Count(queue, ReadItem) = 1 /\ Count(queue, Command) = 0
      /\ client = "reading"
  BY <1>2, <1>5 DEF IInv, Lane, LaneOf, Takes
<1>7. TypeOK'
  BY <1>2, <1>3, <1>4, <1>5, <1>6 DEF IInv, TypeOK, RunRead
<1>8. Lane'
  <2>1. /\ LaneOf(t, client, shuttedDown) /\ client' = client
        /\ shuttedDown' = shuttedDown
    BY <1>2, <1>5, LaneTaken DEF IInv, Lane, RunRead
  <2>2. /\ Count(t, ReadItem) = 0 /\ Count(t, Command) = 0
        /\ Count(t, {"reset"}) = 0
        /\ \A X : Count(t, X) \in Nat
    BY <1>2, <1>3, <1>5, <1>6, <2>1 DEF LaneOf, Takes
  <2>3. /\ ~Before(queue', ReadItem, Command)
        /\ ~Before(queue', {"reset"}, Command)
    BY <1>5, <2>1, <2>2 DEF LaneOf, Puts
  <2>4. /\ Count(queue', Command) = 1
        /\ \A X : x \notin X => Count(queue', X) = Count(t, X)
    BY <1>3, <1>5, <2>2 DEF Puts
  <2> QED BY <1>3, <1>6, <2>1, <2>2, <2>3, <2>4 DEF Lane, LaneOf
<1>9. Destroys'
  BY <1>2, <1>3, <1>4, <1>5, <1>6 DEF IInv, Destroys, RunRead, Takes, Puts
<1>10. Ends'
  BY <1>2, <1>3, <1>4, <1>5, <1>6 DEF IInv, Ends, RunRead, Takes, Puts
<1>11. Io'
  BY <1>2, <1>3, <1>4, <1>5, <1>6 DEF IInv, Io, RunRead, Takes, Puts
<1>12. Counted'
  <2>1. /\ Count(queue', BusItem) = Count(queue, BusItem)
        /\ Count(queue', {"dangling"}) = Count(queue, {"dangling"})
    BY <1>2, <1>3, <1>5 DEF Takes, Puts
  <2>2. UNCHANGED <<io, refs, lost>>
    BY DEF RunRead
  <2> QED BY <2>1, <2>2 DEF IInv, Counted
<1>13. Told'
  BY <1>2, <1>3, <1>4, <1>5, <1>6 DEF IInv, Told, RunRead, Takes, Puts
<1> QED BY <1>7, <1>8, <1>9, <1>10, <1>11, <1>12, <1>13 DEF IInv

\* The connection fails, after its last message was handled.
LEMMA ResetKeeps ==
  ASSUME IInv, Reset
  PROVE  IInv'
<1>1. /\ queue \in Seq(Item) /\ "reset" \in Item
      /\ queue' = Append(queue, "reset")
  BY DEF IInv, TypeOK, Reset, Item
<1>2. queue' \in Seq(Item) /\ Puts(queue, "reset", queue')
  BY <1>1, Putting
<1>3. Count(queue, ReadItem) = 0
  BY <1>1, <1>2, CountPositive DEF Reset, Queued, Puts
<1>4. TypeOK'
  BY <1>2, <1>3 DEF IInv, TypeOK, Reset
<1>5. Lane'
  BY SMTT(30), <1>2, <1>3
     DEF IInv, Lane, Reset, Puts, LaneOf, ReadItem, Command
<1>6. Destroys'
  BY <1>2, <1>3 DEF IInv, Destroys, Reset, Puts
<1>7. Ends'
  BY <1>2, <1>3 DEF IInv, Ends, Reset, Puts, HandlerItem
<1>8. Io'
  BY <1>2, <1>3 DEF IInv, Io, Reset, Puts, BusItem, HandlerItem, ReadItem
<1>9. Counted'
  BY <1>2, <1>3 DEF IInv, Counted, Reset, Puts, BusItem, ReadItem
<1>10. Told'
  BY <1>2, <1>3 DEF IInv, Told, Reset, Puts
<1> QED BY <1>4, <1>5, <1>6, <1>7, <1>8, <1>9, <1>10 DEF IInv

\* What was commanded before the reset has run when the reset runs.
LEMMA RunResetKeeps ==
  ASSUME IInv, RunReset
  PROVE  IInv'
<1>1. Runs("reset", <<>>)
  BY DEF RunReset
<1>2. queue' \in Seq(Item) /\ Takes(queue, "reset", queue')
  BY <1>1, RunsAlone DEF IInv
<1>3. TypeOK'
  BY <1>1, <1>2 DEF IInv, TypeOK, RunReset
<1>4. Lane'
  BY <1>1, <1>2
     DEF IInv, Lane, RunReset, Takes, Runs, LaneOf, ReadItem, Command
<1>5. Destroys'
  BY <1>1, <1>2 DEF IInv, Destroys, RunReset, Takes, Runs
<1>6. Ends'
  BY <1>1, <1>2 DEF IInv, Ends, RunReset, Takes, Runs, HandlerItem
<1>7. Io'
  BY <1>1, <1>2
     DEF IInv, Io, RunReset, Takes, Runs, BusItem, HandlerItem, ReadItem
<1>8. Counted'
  BY <1>1, <1>2 DEF IInv, Counted, RunReset, Takes, Runs, BusItem, ReadItem
<1>9. Told'
  BY <1>1, <1>2 DEF IInv, Told, RunReset, Takes, Runs
<1> QED BY <1>3, <1>4, <1>5, <1>6, <1>7, <1>8, <1>9 DEF IInv

\* The reset comes to the streamer.
LEMMA DropboxFolderShuttedDownKeeps ==
  ASSUME IInv, DropboxFolderShuttedDown
  PROVE  IInv'
<1>1. /\ queue \in Seq(Item) /\ "shutdown" \in Item
      /\ queue' = Append(queue, "shutdown")
  BY Kinds DEF IInv, TypeOK, DropboxFolderShuttedDown, Item
<1>2. queue' \in Seq(Item) /\ Puts(queue, "shutdown", queue')
  BY <1>1, Putting
<1>3. "shutdown" \notin BusItem
  BY DEF BusItem
<1>4. TypeOK'
  BY <1>2, <1>3 DEF IInv, TypeOK, DropboxFolderShuttedDown
<1>5. Lane'
  BY SMTT(30), <1>2, <1>3
     DEF IInv, Lane, DropboxFolderShuttedDown, Puts, LaneOf, ReadItem, Command
<1>6. Destroys'
  BY <1>2, <1>3 DEF IInv, Destroys, DropboxFolderShuttedDown, Puts
<1>7. Ends'
  BY SMTT(30), <1>2, <1>3
     DEF IInv, Ends, DropboxFolderShuttedDown, Puts, HandlerItem
<1>8. Io'
  BY <1>2, <1>3 DEF IInv, Io, DropboxFolderShuttedDown, Puts
<1>9. Counted'
  BY <1>2, <1>3 DEF IInv, Counted, DropboxFolderShuttedDown, Puts
<1>10. Told'
  BY <1>2, <1>3 DEF IInv, Told, DropboxFolderShuttedDown, Puts
<1> QED BY <1>4, <1>5, <1>6, <1>7, <1>8, <1>9, <1>10 DEF IInv

\* The handler is removed.
LEMMA RunFinishedKeeps ==
  ASSUME IInv, RunFinished
  PROVE  IInv'
<1>1. Runs("finished", <<>>)
  BY DEF RunFinished
<1>2. queue' \in Seq(Item) /\ Takes(queue, "finished", queue')
  BY <1>1, RunsAlone DEF IInv
<1>3. /\ client = "waiting" /\ ~shuttedDown
      /\ Count(queue', {"shutdown", "finished"}) = 0
  BY <1>2 DEF IInv, TypeOK, Lane, LaneOf, Takes
<1>4. TypeOK'
  BY <1>1, <1>2, <1>3 DEF IInv, TypeOK, RunFinished
<1>5. Lane'
  BY <1>1, <1>2, <1>3
     DEF IInv, Lane, RunFinished, Takes, Runs, LaneOf, ReadItem, Command
<1>6. Destroys'
  BY <1>1, <1>2, <1>3 DEF IInv, Destroys, RunFinished, Takes, Runs
<1>7. Ends'
  BY <1>1, <1>2, <1>3 DEF IInv, Ends, RunFinished, Takes, Runs, HandlerItem
<1>8. Io'
  BY <1>1, <1>2, <1>3
     DEF IInv, Io, RunFinished, Takes, Runs, BusItem, HandlerItem, ReadItem
<1>9. Counted'
  BY SMTT(30), <1>1, <1>2, <1>3
     DEF IInv, Counted, RunFinished, Takes, Runs, BusItem, ReadItem
<1>10. Told'
  BY <1>1, <1>2, <1>3 DEF IInv, Told, RunFinished, Takes, Runs
<1> QED BY <1>4, <1>5, <1>6, <1>7, <1>8, <1>9, <1>10 DEF IInv

\* The next configuration.
LEMMA StartHandleSourceKeeps ==
  ASSUME IInv, StartHandleSource
  PROVE  IInv'
<1>1. \A X : Count(queue, X) \in Nat
  BY CountType DEF IInv, TypeOK
<1>2. TypeOK'
  BY <1>1 DEF IInv, TypeOK, StartHandleSource
<1>3. Lane'
  BY <1>1 DEF IInv, Lane, StartHandleSource, LaneOf, ReadItem, Command
<1>4. Destroys'
  BY <1>1 DEF IInv, Destroys, StartHandleSource
<1>5. Ends'
  BY <1>1 DEF IInv, Ends, StartHandleSource, HandlerItem
<1>6. Io'
  BY <1>1 DEF IInv, Io, StartHandleSource, BusItem, HandlerItem, ReadItem
<1>7. Counted'
  BY <1>1 DEF IInv, Counted, StartHandleSource, BusItem, ReadItem
<1>8. Told'
  BY <1>1 DEF IInv, Told, StartHandleSource
<1> QED BY <1>2, <1>3, <1>4, <1>5, <1>6, <1>7, <1>8 DEF IInv

\* GStreamer counts a reference and posts its handler.
LEMMA BusMessageKeeps ==
  ASSUME IInv, NEW item \in BusItem, BusMessage(item)
  PROVE  IInv'
<1>1. queue \in Seq(Item) /\ item \in Item /\ queue' = Append(queue, item)
  BY Kinds DEF IInv, TypeOK, BusMessage, Item, Aside
<1>2. queue' \in Seq(Item) /\ Puts(queue, item, queue')
  BY <1>1, Putting
<1>3. /\ item \in BusItem
      /\ item \notin HandlerItem
      /\ item \notin {"request", "destroy", "finished", "dangling", "failed",
                    "sendFailed"}
  BY Kinds
<1>4. refs \in Nat
  BY DEF IInv, TypeOK
<1>5. TypeOK'
  BY <1>2, <1>3, <1>4 DEF IInv, TypeOK, BusMessage
<1>6. Lane'
  BY <1>2, Kinds, AsidePut DEF IInv, Lane, BusMessage
<1>7. Destroys'
  BY <1>2, <1>3, <1>4 DEF IInv, Destroys, BusMessage, Puts
<1>8. Ends'
  BY <1>2, <1>3, <1>4 DEF IInv, Ends, BusMessage, Puts
<1>9. Io'
  BY <1>2, <1>3, <1>4 DEF IInv, Io, BusMessage, Puts
<1>10. Counted'
  BY <1>2, <1>3, <1>4 DEF IInv, Counted, BusMessage, Puts
<1>11. Told'
  BY <1>2, <1>3, <1>4 DEF IInv, Told, BusMessage, Puts
<1> QED BY <1>5, <1>6, <1>7, <1>8, <1>9, <1>10, <1>11 DEF IInv

\* Two of its threads lose a reference.
LEMMA BusMessagesCollideKeeps ==
  ASSUME IInv, NEW first \in BusItem, NEW second \in BusItem,
         BusMessagesCollide(first, second)
  PROVE  IInv'
<1>1. /\ queue \in Seq(Item) /\ first \in Item /\ second \in Item
      /\ queue' = Append(Append(queue, first), second)
  BY Kinds DEF IInv, TypeOK, BusMessagesCollide, Aside
<1> DEFINE t == Append(queue, first)
<1>2. t \in Seq(Item) /\ Puts(queue, first, t)
  BY <1>1, Putting
<1> HIDE DEF t
<1>3. queue' \in Seq(Item) /\ Puts(t, second, queue')
  BY <1>1, <1>2, Putting DEF t
<1>4. /\ first \in BusItem
      /\ first \notin HandlerItem
      /\ first \notin {"request", "destroy", "finished", "dangling", "failed",
                    "sendFailed"}
  BY Kinds
<1>5. /\ second \in BusItem
      /\ second \notin HandlerItem
      /\ second \notin {"request", "destroy", "finished", "dangling", "failed",
                    "sendFailed"}
  BY Kinds
<1>6. ASSUME NEW X
      PROVE  /\ Count(queue, X) \in Nat /\ Count(queue', X) \in Nat
             /\ Count(queue', X) = Count(queue, X) +
                   (IF first \in X THEN 1 ELSE 0) +
                       (IF second \in X THEN 1 ELSE 0)
  BY <1>2, <1>3 DEF Puts
<1>7. /\ refs \in Nat
      /\ \A X, Y : first \notin Y /\ second \notin Y =>
            (Before(queue', X, Y) <=> Before(queue, X, Y))
      /\ \A X, Y, Z : first \notin Z /\ second \notin Z =>
            (Between(queue', X, Y, Z) <=> Between(queue, X, Y, Z))
  BY <1>2, <1>3 DEF Puts, IInv, TypeOK
<1>8. /\ Count(queue', {"destroy"}) = Count(queue, {"destroy"})
      /\ Count(queue', {"finished"}) = Count(queue, {"finished"})
      /\ Count(queue', {"failed"}) = Count(queue, {"failed"})
      /\ Count(queue', {"failed", "sendFailed"}) =
             Count(queue, {"failed", "sendFailed"})
      /\ Before(queue', {"request"}, {"destroy"}) <=>
             Before(queue, {"request"}, {"destroy"})
      /\ Between(queue', {"destroy"}, {"request"}, {"destroy"}) <=>
            Between(queue, {"destroy"}, {"request"}, {"destroy"})
  BY <1>4, <1>5, <1>6, <1>7
<1>9. TypeOK'
  BY <1>3 DEF IInv, TypeOK, BusMessagesCollide
<1>10. Lane'
  BY <1>2, <1>3, Kinds, AsidePut DEF IInv, Lane, BusMessagesCollide
<1>11. Destroys'
  BY <1>4, <1>5, <1>6, <1>7, <1>8 DEF IInv, Destroys, BusMessagesCollide
<1>12. Ends'
  BY <1>4, <1>5, <1>6, <1>7, <1>8 DEF IInv, Ends, BusMessagesCollide
<1>13. Io'
  BY <1>7, <1>8 DEF IInv, Io, BusMessagesCollide
<1>14. Counted'
  BY <1>4, <1>5, <1>6, <1>7, <1>8 DEF IInv, Counted, BusMessagesCollide
<1>15. Told'
  BY <1>4, <1>5, <1>6, <1>7, <1>8 DEF IInv, Told, BusMessagesCollide
<1> QED BY <1>9, <1>10, <1>11, <1>12, <1>13, <1>14, <1>15 DEF IInv

\* A request for a Streamer there is.
LEMMA RunRequestActiveKeeps ==
  ASSUME IInv, RunRequestActive
  PROVE  IInv'
<1>1. Runs("request", <<>>)
  BY DEF RunRequestActive
<1>2. queue' \in Seq(Item) /\ Takes(queue, "request", queue')
  BY <1>1, RunsAlone DEF IInv
<1>3. TypeOK'
  BY <1>1, <1>2 DEF IInv, TypeOK, RunRequestActive
<1>4. Lane'
  BY <1>2, LaneTaken DEF IInv, Lane, RunRequestActive
<1>5. Destroys'
  BY <1>1, <1>2 DEF IInv, Destroys, RunRequestActive, Takes, Runs
<1>6. Ends'
  BY <1>1, <1>2 DEF IInv, Ends, RunRequestActive, Takes, Runs, HandlerItem
<1>7. Io'
  BY <1>1, <1>2
     DEF IInv, Io, RunRequestActive, Takes, Runs, BusItem, HandlerItem,
     ReadItem
<1>8. Counted'
  BY <1>1, <1>2
     DEF IInv, Counted, RunRequestActive, Takes, Runs, BusItem, ReadItem
<1>9. Told'
  BY <1>1, <1>2 DEF IInv, Told, RunRequestActive, Takes, Runs
<1> QED BY <1>3, <1>4, <1>5, <1>6, <1>7, <1>8, <1>9 DEF IInv

\* A request for a Streamer there cannot be.
LEMMA RunRequestInvalidKeeps ==
  ASSUME IInv, RunRequestInvalid
  PROVE  IInv'
<1>1. Runs("request", <<"sendFailed">>) /\ "sendFailed" \in Item
  BY DEF RunRequestInvalid, Item, HandlerItem
<1>2. queue' \in Seq(Item)
  BY <1>1, RunsAndPosts DEF IInv
<1>3. PICK t : Takes(queue, "request", t) /\ Puts(t, "sendFailed", queue')
  BY <1>1, RunsAndPosts DEF IInv
<1>4. TypeOK'
  BY <1>1, <1>2, <1>3 DEF IInv, TypeOK, RunRequestInvalid
<1>5. Lane'
  BY <1>3, Kinds, LaneTaken, AsidePut DEF IInv, Lane, RunRequestInvalid
<1>6. Destroys'
  BY <1>1, <1>2, <1>3 DEF IInv, Destroys, RunRequestInvalid, Takes, Puts, Runs
<1>7. Ends'
  BY <1>1, <1>2, <1>3
     DEF IInv, Ends, RunRequestInvalid, Takes, Puts, Runs, HandlerItem
<1>8. Io'
  BY <1>1, <1>2, <1>3
     DEF IInv, Io, RunRequestInvalid, Takes, Puts, Runs, BusItem, HandlerItem,
     ReadItem
<1>9. Counted'
  BY <1>1, <1>2, <1>3
     DEF IInv, Counted, RunRequestInvalid, Takes, Puts, Runs, BusItem, ReadItem
<1>10. Told'
  BY <1>1, <1>2, <1>3 DEF IInv, Told, RunRequestInvalid, Takes, Puts, Runs
<1> QED BY <1>4, <1>5, <1>6, <1>7, <1>8, <1>9, <1>10 DEF IInv

\* A new Streamer: no destruction is left of an earlier one.
LEMMA RunRequestKeeps ==
  ASSUME IInv, RunRequest
  PROVE  IInv'
<1>1. Runs("request", <<>>)
  BY DEF RunRequest
<1>2. queue' \in Seq(Item) /\ Takes(queue, "request", queue')
  BY <1>1, RunsAlone DEF IInv
<1>3. client \in {"reading", "resetting"}
  BY <1>2 DEF IInv, Lane, LaneOf, Takes, Command
<1>4. Count(queue', {"finished"}) = 0
  <2>1. Count(queue', {"shutdown", "finished"}) = 0
    BY <1>2, <1>3 DEF IInv, Lane, LaneOf, Takes
  <2>2. Count(queue', {"finished"}) <= Count(queue', {"shutdown", "finished"})
    BY <1>2, CountFewer
  <2> QED BY <1>2, <2>1, <2>2 DEF Takes
<1>5. Count(queue', BusItem) = 0
  BY <1>2 DEF IInv, Io, RunRequest, Takes
<1>6. TypeOK'
  BY <1>1, <1>2, <1>3, <1>4, <1>5 DEF IInv, TypeOK, RunRequest
<1>7. Lane'
  BY <1>2, LaneTaken DEF IInv, Lane, RunRequest
<1>8. Destroys'
  BY <1>1, <1>2, <1>3, <1>4, <1>5 DEF IInv, Destroys, RunRequest, Takes, Runs
<1>9. Ends'
  BY <1>1, <1>2, <1>3, <1>4, <1>5
     DEF IInv, Ends, RunRequest, Takes, Runs, HandlerItem
<1>10. Io'
  BY <1>1, <1>2, <1>3, <1>4, <1>5
     DEF IInv, Io, RunRequest, Takes, Runs, BusItem, HandlerItem, ReadItem
<1>11. Counted'
  BY <1>1, <1>2, <1>3, <1>4, <1>5
     DEF IInv, Counted, RunRequest, Takes, Runs, BusItem, ReadItem
<1>12. Told'
  BY <1>1, <1>2, <1>3, <1>4, <1>5 DEF IInv, Told, RunRequest, Takes, Runs
<1> QED BY <1>6, <1>7, <1>8, <1>9, <1>10, <1>11, <1>12 DEF IInv

\* The pipeline's change of state returns.
LEMMA StartedKeeps ==
  ASSUME IInv, NEW posts \in {<<"streaming">>, <<>>, <<"failed">>},
         Started(posts)
  PROVE  IInv'
<1>1. queue \in Seq(Item)
  BY DEF IInv, TypeOK
<1>2. CASE posts = <<>>
  <2>1. queue' = queue
    BY <1>1, <1>2 DEF Started
  <2>2. TypeOK'
    BY <1>1, <1>2, <2>1 DEF IInv, TypeOK, Started
  <2>3. Lane'
    BY <1>1, <1>2, <2>1 DEF IInv, Lane, Started, LaneOf, ReadItem, Command
  <2>4. Destroys'
    BY <1>1, <1>2, <2>1 DEF IInv, Destroys, Started
  <2>5. Ends'
    BY <1>1, <1>2, <2>1 DEF IInv, Ends, Started, HandlerItem
  <2>6. Io'
    BY <1>1, <1>2, <2>1 DEF IInv, Io, Started, BusItem, HandlerItem, ReadItem
  <2>7. Counted'
    BY <1>1, <1>2, <2>1 DEF IInv, Counted, Started, BusItem, ReadItem
  <2>8. Told'
    BY <1>1, <1>2, <2>1 DEF IInv, Told, Started
  <2> QED BY <2>2, <2>3, <2>4, <2>5, <2>6, <2>7, <2>8 DEF IInv
<1>3. ASSUME NEW x \in {"streaming", "failed"}, posts = <<x>> PROVE IInv'
  <2>1. x \in Item /\ x \in Aside /\ queue' = Append(queue, x)
    BY <1>1, <1>3, Kinds DEF Started, Item, HandlerItem
  <2>2. queue' \in Seq(Item) /\ Puts(queue, x, queue')
    BY <1>1, <2>1, Putting
  <2>3. TypeOK'
    BY <1>3, <2>2 DEF IInv, TypeOK, Started
  <2>4. Lane'
    BY <2>1, <2>2, AsidePut DEF IInv, Lane, Started
  <2>5. Destroys'
    BY <1>3, <2>2 DEF IInv, Destroys, Started, Puts
  <2>6. Ends'
    BY <2>2 DEF IInv, Ends, Io, Started, Puts
  <2>7. Io'
    BY <1>3, <2>2 DEF IInv, Io, Started, Puts, BusItem, HandlerItem, ReadItem
  <2>8. Counted'
    BY <1>3, <2>2 DEF IInv, Counted, Started, Puts, BusItem, ReadItem
  <2>9. Told'
    BY <1>3, <2>2 DEF IInv, Told, Started, Puts
  <2> QED BY <2>3, <2>4, <2>5, <2>6, <2>7, <2>8, <2>9 DEF IInv
<1> QED BY <1>2, <1>3

\* Two handlers posted one after the other.
LEMMA TwoPosts ==
  ASSUME NEW x, NEW y
  PROVE  <<x>> \o <<y>> = <<x, y>>
<1> DEFINE s == <<x>> \o <<y>>
           t == <<x, y>>
<1>1. s \in Seq({x, y}) /\ Len(s) = 2 /\ s[1] = x /\ s[2] = y
  OBVIOUS
<1>2. t \in Seq({x, y}) /\ Len(t) = 2 /\ t[1] = x /\ t[2] = y
  OBVIOUS
<1> HIDE DEF s, t
<1>3. s = t
  BY <1>1, <1>2, SeqEqual
<1> QED BY <1>3 DEF s, t

\* No destruction is queued while the Streamer is referred to.
LEMMA Referred ==
  ASSUME IInv, refs > 0
  PROVE  /\ \A X : Count(queue, X) \in Nat
         /\ Count(queue, {"destroy"}) = 0
         /\ \A X : ~Before(queue, X, {"destroy"})
                   /\ ~Before(queue, {"destroy"}, X)
<1>1. queue \in Seq(Item) /\ refs # 0
  BY DEF IInv, TypeOK
<1>2. \A X : Count(queue, X) \in Nat
  BY <1>1, CountType
<1>3. ~(Count(queue, {"destroy"}) > 0)
  BY <1>1 DEF IInv, Destroys
<1>4. Count(queue, {"destroy"}) = 0
  BY <1>2, <1>3
<1>5. \A X : ~Before(queue, X, {"destroy"}) /\ ~Before(queue, {"destroy"}, X)
  BY <1>1, <1>3, OrderCounts
<1> QED BY <1>2, <1>4, <1>5

\* asyncPlaying gives up its reference, which may have been the last one.
LEMMA RunPlayingKeeps ==
  ASSUME IInv, RunPlaying
  PROVE  IInv'
<1>1. /\ refs \in Nat /\ refs > 0 /\ refs' = refs - 1 /\ refs' \in Nat
      /\ streamer # "absent" /\ streamer' = streamer /\ io = "idle"
      /\ io' = "idle"
      /\ shuttedDown' = shuttedDown /\ wanted' = wanted /\ told' = told
      /\ lost' = lost
      /\ client' = client
  BY DEF IInv, TypeOK, RunPlaying, Runs
<1>2. /\ \A X : Count(queue, X) \in Nat
      /\ Count(queue, {"destroy"}) = 0
      /\ \A X : ~Before(queue, X, {"destroy"})
                /\ ~Before(queue, {"destroy"}, X)
  BY <1>1, Referred
<1>3. /\ "playing" \in BusItem /\ "streaming" \notin BusItem
      /\ "destroy" \notin BusItem
  BY DEF BusItem
<1>4. Count(queue, {"finished"}) = 0
  BY <1>1, <1>2 DEF IInv, Ends
<1>5. CASE refs = 1 /\ streamer = "stopped"
  <2>1. NoMoreRefs(streamer) = <<"destroy">>
    BY <1>5 DEF NoMoreRefs, When
  <2>2. <<"streaming">> \o <<"destroy">> = <<"streaming", "destroy">>
    BY TwoPosts
  <2>3. /\ Runs("playing", <<"streaming", "destroy">>)
        /\ "streaming" \in Item /\ "destroy" \in Item
    BY <2>1, <2>2 DEF RunPlaying, Item, HandlerItem
  <2>4. queue' \in Seq(Item)
    BY <2>3, RunsAndPostsTwo DEF IInv
  <2>5. PICK t, u : Takes(queue, "playing", t) /\ Puts(t, "streaming", u)
                    /\ Puts(u, "destroy", queue')
    BY <2>3, RunsAndPostsTwo DEF IInv
  <2>6. TypeOK'
    BY <1>1, <2>4 DEF IInv, TypeOK
  <2>7. Lane'
    BY <1>1, <2>5, Kinds, LaneTaken, AsidePut DEF IInv, Lane
  <2>8. /\ ~Before(u, {"destroy"}, {"request"})
        /\ ~Between(u, {"destroy"}, {"request"}, {"destroy"})
    BY <1>2, <2>5 DEF IInv, Destroys, Takes, Puts
  <2>9. ~Between(queue', {"destroy"}, {"request"}, {"destroy"})
    BY <2>5, <2>8 DEF Puts
  <2>10. Destroys'
    BY <1>1, <1>5, <2>9 DEF Destroys
  <2>11. Count(queue', {"finished"}) = 0
    BY <1>4, <2>5 DEF Takes, Puts
  <2>12. ~Before(queue', {"finished"}, HandlerItem)
    BY <2>4, <2>11, OrderCounts
  <2>13. Ends' /\ Io'
    BY <1>1, <2>11, <2>12 DEF Ends, Io
  <2>14. /\ Count(queue', BusItem) = Count(queue, BusItem) - 1
         /\ Count(queue', {"dangling"}) = Count(queue, {"dangling"})
         /\ Count(queue', {"failed", "sendFailed"}) =
                Count(queue, {"failed", "sendFailed"})
    BY <1>2, <1>3, <2>5 DEF Takes, Puts
  <2>15. Counted'
    BY <1>1, <1>2, <2>14 DEF IInv, Counted
  <2>16. Told'
    BY <1>1, <2>14 DEF IInv, Told
  <2> QED BY <2>6, <2>7, <2>10, <2>13, <2>15, <2>16 DEF IInv
<1>6. CASE ~(refs = 1 /\ streamer = "stopped")
  <2>1. NoMoreRefs(streamer) = <<>>
    BY <1>6 DEF NoMoreRefs, When
  <2>2. <<"streaming">> \o <<>> = <<"streaming">>
    OBVIOUS
  <2>3. Runs("playing", <<"streaming">>) /\ "streaming" \in Item
    BY <2>1, <2>2 DEF RunPlaying, Item, HandlerItem
  <2>4. queue' \in Seq(Item)
    BY <2>3, RunsAndPosts DEF IInv
  <2>5. PICK t : Takes(queue, "playing", t) /\ Puts(t, "streaming", queue')
    BY <2>3, RunsAndPosts DEF IInv
  <2>6. TypeOK'
    BY <1>1, <2>4 DEF IInv, TypeOK
  <2>7. Lane'
    BY <1>1, <2>5, Kinds, LaneTaken, AsidePut DEF IInv, Lane
  <2>8. /\ Count(queue', {"destroy"}) = 0
        /\ ~Between(queue', {"destroy"}, {"request"}, {"destroy"})
    BY <1>2, <2>5 DEF IInv, Destroys, Takes, Puts
  <2>9. Destroys'
    BY <1>1, <2>8 DEF Destroys
  <2>10. Count(queue', {"finished"}) = 0
    BY <1>4, <2>5 DEF Takes, Puts
  <2>11. ~Before(queue', {"finished"}, HandlerItem)
    BY <2>4, <2>10, OrderCounts
  <2>12. Ends' /\ Io'
    BY <1>1, <2>10, <2>11 DEF Ends, Io
  <2>13. /\ Count(queue', BusItem) = Count(queue, BusItem) - 1
         /\ Count(queue', {"dangling"}) = Count(queue, {"dangling"})
         /\ Count(queue', {"failed", "sendFailed"}) =
                Count(queue, {"failed", "sendFailed"})
    BY <1>2, <1>3, <2>5 DEF Takes, Puts
  <2>14. Counted'
    BY <1>1, <1>2, <2>13 DEF IInv, Counted
  <2>15. Told'
    BY <1>1, <2>13 DEF IInv, Told
  <2> QED BY <2>6, <2>7, <2>9, <2>12, <2>14, <2>15 DEF IInv
<1> QED BY <1>5, <1>6

\* The reference of asyncPlaying meets one of the bus.
LEMMA RunPlayingCollidesKeeps ==
  ASSUME IInv, NEW item \in BusItem, RunPlayingCollides(item)
  PROVE  IInv'
<1>1. /\ Runs("playing", <<"streaming", item>>) /\ "streaming" \in Item
      /\ item \in Item
  BY Kinds DEF RunPlayingCollides, Item, HandlerItem, Aside
<1>2. queue' \in Seq(Item)
  BY <1>1, RunsAndPostsTwo DEF IInv
<1>3. PICK t, u : Takes(queue, "playing", t) /\ Puts(t, "streaming", u)
                  /\ Puts(u, item, queue')
  BY <1>1, RunsAndPostsTwo DEF IInv
<1>4. "playing" \in BusItem /\ "streaming" \notin BusItem
  BY DEF BusItem
<1>5. /\ item \in BusItem
      /\ item \notin HandlerItem
      /\ item \notin {"request", "destroy", "finished", "dangling", "failed",
                    "sendFailed"}
  BY Kinds
<1>6. /\ refs \in Nat /\ refs > 0 /\ refs' \in Nat /\ lost' = TRUE
      /\ streamer = "live" /\ streamer' = "live" /\ io = "idle" /\ io' = "idle"
  BY DEF IInv, TypeOK, RunPlayingCollides, Runs
<1>7. TypeOK'
  BY <1>2, <1>3, <1>4, <1>5, <1>6 DEF IInv, TypeOK, RunPlayingCollides
<1>8. Lane'
  BY <1>3, Kinds, LaneTaken, AsidePut DEF IInv, Lane, RunPlayingCollides
<1>9. Destroys'
  BY <1>2, <1>3, <1>4, <1>5, <1>6
     DEF IInv, Destroys, RunPlayingCollides, Takes, Puts
<1>10. Ends'
  BY <1>2, <1>3, <1>4, <1>5, <1>6
     DEF IInv, Ends, RunPlayingCollides, Takes, Puts
<1>11. Io'
  BY <1>6 DEF Io
<1>12. Counted'
  BY <1>6 DEF Counted
<1>13. Told'
  BY <1>2, <1>3, <1>4, <1>5, <1>6
     DEF IInv, Told, RunPlayingCollides, Takes, Puts
<1> QED BY <1>7, <1>8, <1>9, <1>10, <1>11, <1>12, <1>13 DEF IInv

\* asyncError and asyncEos begin to stop the stream.
LEMMA RunErrorKeeps ==
  ASSUME IInv, RunError
  PROVE  IInv'
<1>1. Runs("error", <<"failed">>) /\ "failed" \in Item
  BY DEF RunError, Item, HandlerItem
<1>2. queue' \in Seq(Item)
  BY <1>1, RunsAndPosts DEF IInv
<1>3. PICK t : Takes(queue, "error", t) /\ Puts(t, "failed", queue')
  BY <1>1, RunsAndPosts DEF IInv
<1>4. TypeOK'
  BY <1>1, <1>2, <1>3 DEF IInv, TypeOK, RunError
<1>5. Lane'
  BY <1>3, Kinds, LaneTaken, AsidePut DEF IInv, Lane, RunError
<1>6. Destroys'
  BY <1>1, <1>2, <1>3 DEF IInv, Destroys, RunError, Takes, Puts, Runs
<1>7. Ends'
  BY <1>3 DEF IInv, Ends, Io, RunError, Takes, Puts
<1>8. Io'
  BY <1>1, <1>2, <1>3
     DEF IInv, Io, RunError, Takes, Puts, Runs, BusItem, HandlerItem, ReadItem
<1>9. Counted'
  <2>1. "error" \in BusItem /\ "failed" \notin BusItem
    BY DEF BusItem
  <2>2. /\ Count(queue', BusItem) = Count(queue, BusItem) - 1
        /\ Count(queue', {"dangling"}) = Count(queue, {"dangling"})
        /\ Count(queue, BusItem) \in Nat
    BY <1>3, <2>1 DEF Takes, Puts
  <2>3. io = "idle" /\ io' = "failing" /\ refs' = refs /\ lost' = lost
    BY <1>1 DEF RunError, Runs
  <2> QED BY <2>2, <2>3 DEF IInv, Counted
<1>10. Told'
  BY <1>1, <1>2, <1>3 DEF IInv, Told, RunError, Takes, Puts, Runs
<1> QED BY <1>4, <1>5, <1>6, <1>7, <1>8, <1>9, <1>10 DEF IInv

\* They have stopped it, and give up their reference.
LEMMA ErrorStopsKeeps ==
  ASSUME IInv, ErrorStops
  PROVE  IInv'
<1>1. /\ refs \in Nat /\ refs > 0 /\ refs' = refs - 1 /\ refs' \in Nat
      /\ streamer # "absent" /\ streamer' = "stopped"
      /\ io = "failing" /\ io' = "idle" /\ client' = client
      /\ shuttedDown' = shuttedDown /\ wanted' = wanted /\ told' = told
      /\ lost' = lost
      /\ Count(queue, {"failed"}) > 0 /\ queue \in Seq(Item)
  BY DEF IInv, TypeOK, Io, ErrorStops
<1>2. /\ \A X : Count(queue, X) \in Nat
      /\ Count(queue, {"destroy"}) = 0
      /\ \A X : ~Before(queue, X, {"destroy"})
                /\ ~Before(queue, {"destroy"}, X)
  BY <1>1, Referred
<1>3. SafeToDestroy = <<>>
  BY <1>1 DEF SafeToDestroy, When
<1>4. Count(queue, {"failed", "sendFailed"}) > 0
  BY <1>1, CountPositive
<1>5. Count(queue, {"finished"}) = 0
  BY <1>1, <1>2 DEF IInv, Ends
<1>6. CASE refs = 1
  <2>1. NoMoreRefs("stopped") = <<"destroy">>
    BY <1>6 DEF NoMoreRefs, When
  <2>2. /\ queue \o <<>> \o <<"destroy">> = Append(queue, "destroy")
        /\ "destroy" \in Item
    BY <1>1 DEF Item, HandlerItem
  <2>3. queue' = Append(queue, "destroy")
    BY <1>3, <2>1, <2>2 DEF ErrorStops
  <2>4. queue' \in Seq(Item) /\ Puts(queue, "destroy", queue')
    BY <1>1, <2>2, <2>3, Putting
  <2>5. "destroy" \notin BusItem
    BY DEF BusItem
  <2>6. TypeOK'
    BY <1>1, <2>4 DEF IInv, TypeOK
  <2>7. Lane'
    BY <1>1, <2>4, Kinds, AsidePut DEF IInv, Lane
  <2>8. ~Between(queue', {"destroy"}, {"request"}, {"destroy"})
    BY <1>2, <2>4 DEF IInv, Destroys, Puts
  <2>9. Destroys'
    BY <1>1, <1>6, <2>8 DEF Destroys
  <2>10. Count(queue', {"finished"}) = 0
    BY <1>5, <2>4 DEF Puts
  <2>11. ~Before(queue', {"finished"}, HandlerItem)
    BY <2>4, <2>10, OrderCounts
  <2>12. Ends' /\ Io'
    BY <1>1, <2>10, <2>11 DEF Ends, Io
  <2>13. /\ Count(queue', BusItem) = Count(queue, BusItem)
         /\ Count(queue', {"dangling"}) = Count(queue, {"dangling"})
         /\ Count(queue', {"failed", "sendFailed"}) =
                Count(queue, {"failed", "sendFailed"})
    BY <1>2, <2>4, <2>5 DEF Puts
  <2>14. Counted'
    BY <1>1, <1>2, <2>13 DEF IInv, Counted
  <2>15. Told'
    BY <1>1, <1>4, <2>13 DEF Told
  <2> QED BY <2>6, <2>7, <2>9, <2>12, <2>14, <2>15 DEF IInv
<1>7. CASE refs # 1
  <2>1. NoMoreRefs("stopped") = <<>> /\ queue \o <<>> \o <<>> = queue
    BY <1>1, <1>7 DEF NoMoreRefs, When
  <2>2. queue' = queue
    BY <1>3, <2>1 DEF ErrorStops
  <2>3. TypeOK' /\ Lane'
    BY <1>1, <2>2 DEF IInv, TypeOK, Lane
  <2>4. Destroys' /\ Ends' /\ Io'
    BY <1>1, <1>2, <1>5, <2>2 DEF IInv, Destroys, Ends, Io
  <2>5. Counted'
    BY <1>1, <1>2, <2>2 DEF IInv, Counted
  <2>6. Told'
    BY <1>1, <1>4, <2>2 DEF Told
  <2> QED BY <2>3, <2>4, <2>5, <2>6 DEF IInv
<1> QED BY <1>6, <1>7

\* A handler without a reference is only met when one was lost.
LEMMA RunUncountedKeeps ==
  ASSUME IInv, RunUncounted
  PROVE  IInv'
<1>1. PICK x \in BusItem \cup {"dangling"} :
         Runs(x, <<>>) /\ (x \in BusItem => refs = 0)
  BY DEF RunUncounted, BusItem
<1>2. queue' \in Seq(Item) /\ Takes(queue, x, queue')
  BY <1>1, RunsAlone DEF IInv
<1>3. /\ x \notin {"request", "destroy", "finished", "failed", "sendFailed",
                   "shutdown", "reset"}
      /\ x \notin HandlerItem
  BY <1>1, Kinds DEF HandlerItem, BusItem
<1>4. /\ io = "idle" /\ io' = "crashed"
  BY DEF RunUncounted, Runs
<1>5. lost
  <2>1. Count(queue, BusItem) \in Nat /\ Count(queue', BusItem) \in Nat
    BY <1>2 DEF Takes
  <2>2. CASE x \in BusItem
    <3>1. refs = 0 /\ Count(queue, BusItem) > 0
      BY <1>1, <1>2, <2>1, <2>2 DEF Takes
    <3> QED BY <1>4, <2>1, <3>1 DEF IInv, Counted
  <2>3. CASE x = "dangling"
    <3>1. Count(queue, {"dangling"}) > 0
      BY <1>2, <2>3 DEF Takes
    <3> QED BY <3>1 DEF IInv, Counted
  <2> QED BY <1>1, <2>2, <2>3
<1>6. TypeOK'
  BY <1>2, <1>3, <1>4, <1>5 DEF IInv, TypeOK, RunUncounted
<1>7. Lane'
  BY <1>2, <1>3, LaneTaken DEF IInv, Lane, RunUncounted
<1>8. Destroys'
  BY <1>2, <1>3, <1>4, <1>5 DEF IInv, Destroys, RunUncounted, Takes
<1>9. Ends'
  BY <1>2, <1>3, <1>4, <1>5 DEF IInv, Ends, RunUncounted, Takes
<1>10. Io'
  BY <1>2, <1>3, <1>4, <1>5 DEF IInv, Io, RunUncounted, Takes
<1>11. Counted'
  BY <1>2, <1>3, <1>4, <1>5 DEF IInv, Counted, RunUncounted, Takes
<1>12. Told'
  BY <1>2, <1>3, <1>4, <1>5 DEF IInv, Told, RunUncounted, Takes
<1> QED BY <1>6, <1>7, <1>8, <1>9, <1>10, <1>11, <1>12 DEF IInv

\* The state of the stream is posted to the client.
LEMMA RunStatusKeeps ==
  ASSUME IInv, RunStatus
  PROVE  IInv'
<1>1. CASE Runs("streaming", <<>>)
  <2>1. queue' \in Seq(Item) /\ Takes(queue, "streaming", queue')
    BY <1>1, RunsAlone DEF IInv
  <2>2. TypeOK'
    BY <1>1, <2>1 DEF IInv, TypeOK, RunStatus
  <2>3. Lane'
    BY <2>1, LaneTaken DEF IInv, Lane, RunStatus
  <2>4. Destroys'
    BY <1>1, <2>1 DEF IInv, Destroys, RunStatus, Takes, Runs
  <2>5. Ends'
    BY <1>1, <2>1 DEF IInv, Ends, RunStatus, Takes, Runs, HandlerItem
  <2>6. Io'
    BY <1>1, <2>1
       DEF IInv, Io, RunStatus, Takes, Runs, BusItem, HandlerItem, ReadItem
  <2>7. Counted'
    BY SMTT(30), <1>1, <2>1
       DEF IInv, Counted, RunStatus, Takes, Runs, BusItem, ReadItem
  <2>8. Told'
    BY <1>1, <2>1 DEF IInv, Told, RunStatus, Takes, Runs
  <2> QED BY <2>2, <2>3, <2>4, <2>5, <2>6, <2>7, <2>8 DEF IInv
<1>2. CASE Runs("failed", <<"sendFailed">>)
  <2>1. "sendFailed" \in Item
    BY DEF Item
  <2>2. queue' \in Seq(Item)
    BY <1>2, <2>1, RunsAndPosts DEF IInv
  <2>3. PICK t : Takes(queue, "failed", t) /\ Puts(t, "sendFailed", queue')
    BY <1>2, <2>1, RunsAndPosts DEF IInv
  <2>4. TypeOK'
    BY <1>2, <2>2, <2>3 DEF IInv, TypeOK, RunStatus
  <2>5. Lane'
    BY <2>3, Kinds, LaneTaken, AsidePut DEF IInv, Lane, RunStatus
  <2>6. Destroys'
    BY <1>2, <2>2, <2>3 DEF IInv, Destroys, RunStatus, Takes, Puts, Runs
  <2>7. Ends'
    BY <1>2, <2>2, <2>3
       DEF IInv, Ends, RunStatus, Takes, Puts, Runs, HandlerItem
  <2>8. Io'
    BY <1>2, <2>2, <2>3
       DEF IInv, Io, RunStatus, Takes, Puts, Runs, BusItem, HandlerItem,
       ReadItem
  <2>9. Counted'
    BY <1>2, <2>2, <2>3
       DEF IInv, Counted, RunStatus, Takes, Puts, Runs, BusItem, ReadItem
  <2>10. Told'
    BY <1>2, <2>2, <2>3 DEF IInv, Told, RunStatus, Takes, Puts, Runs
  <2> QED BY <2>4, <2>5, <2>6, <2>7, <2>8, <2>9, <2>10 DEF IInv
<1> QED BY <1>1, <1>2 DEF RunStatus

\* The server is told.
LEMMA RunSendFailedKeeps ==
  ASSUME IInv, RunSendFailed
  PROVE  IInv'
<1>1. Runs("sendFailed", <<>>)
  BY DEF RunSendFailed
<1>2. queue' \in Seq(Item) /\ Takes(queue, "sendFailed", queue')
  BY <1>1, RunsAlone DEF IInv
<1>3. TypeOK'
  BY <1>1, <1>2 DEF IInv, TypeOK, RunSendFailed
<1>4. Lane'
  BY <1>2, LaneTaken DEF IInv, Lane, RunSendFailed
<1>5. Destroys'
  BY <1>1, <1>2 DEF IInv, Destroys, RunSendFailed, Takes, Runs
<1>6. Ends'
  BY <1>1, <1>2 DEF IInv, Ends, RunSendFailed, Takes, Runs, HandlerItem
<1>7. Io'
  BY <1>1, <1>2
     DEF IInv, Io, RunSendFailed, Takes, Runs, BusItem, HandlerItem, ReadItem
<1>8. Counted'
  BY <1>1, <1>2
     DEF IInv, Counted, RunSendFailed, Takes, Runs, BusItem, ReadItem
<1>9. Told'
  BY <1>1, <1>2 DEF IInv, Told, RunSendFailed, Takes, Runs
<1> QED BY <1>3, <1>4, <1>5, <1>6, <1>7, <1>8, <1>9 DEF IInv

\* The Streamer is stopped.  Its destruction is posted at once when nothing
\* refers to it; no request waits behind an earlier destruction, since this
\* is the only command.
LEMMA RunStopKeeps ==
  ASSUME IInv, RunStop
  PROVE  IInv'
<1>1. CASE streamer = "absent"
  <2>1. Runs("stop", <<>>) /\ UNCHANGED streamer
    BY <1>1 DEF RunStop
  <2>2. queue' \in Seq(Item) /\ Takes(queue, "stop", queue')
    BY <2>1, RunsAlone DEF IInv
  <2>3. TypeOK'
    BY <2>1, <2>2 DEF IInv, TypeOK, RunStop
  <2>4. Lane'
    BY <2>2, LaneTaken DEF IInv, Lane, RunStop
  <2>5. Destroys'
    BY <2>1, <2>2 DEF IInv, Destroys, RunStop, Takes
  <2>6. Ends'
    BY <2>1, <2>2 DEF IInv, Ends, RunStop, Takes, HandlerItem
  <2>7. Io'
    BY <2>1, <2>2 DEF IInv, Io, RunStop, Takes, BusItem, HandlerItem, ReadItem
  <2>8. Counted'
    BY <2>1, <2>2 DEF IInv, Counted, RunStop, Takes, BusItem, ReadItem
  <2>9. Told'
    BY <2>1, <2>2 DEF IInv, Told, RunStop, Takes
  <2> QED BY <2>3, <2>4, <2>5, <2>6, <2>7, <2>8, <2>9 DEF IInv
<1>2. CASE streamer # "absent" /\ refs # 0
  <2>1. Runs("stop", <<>>) /\ streamer' = "stopped"
    BY <1>2 DEF RunStop, SafeToDestroy, When
  <2>2. queue' \in Seq(Item) /\ Takes(queue, "stop", queue')
    BY <2>1, RunsAlone DEF IInv
  <2>3. TypeOK'
    BY <1>2, <2>1, <2>2 DEF IInv, TypeOK, RunStop
  <2>4. Lane'
    BY <2>2, LaneTaken DEF IInv, Lane, RunStop
  <2>5. Destroys'
    BY <1>2, <2>1, <2>2 DEF IInv, Destroys, RunStop, Takes
  <2>6. Ends'
    BY <1>2, <2>1, <2>2 DEF IInv, Ends, RunStop, Takes, HandlerItem
  <2>7. Io'
    <3>1. io = "idle" /\ io' = "idle" /\ streamer' = "stopped"
      BY <2>1 DEF RunStop, Runs
    <3> QED BY <3>1 DEF Io
  <2>8. Counted'
    BY <1>2, <2>1, <2>2 DEF IInv, Counted, RunStop, Takes, BusItem, ReadItem
  <2>9. Told'
    BY <1>2, <2>1, <2>2 DEF IInv, Told, RunStop, Takes
  <2> QED BY <2>3, <2>4, <2>5, <2>6, <2>7, <2>8, <2>9 DEF IInv
<1>3. CASE streamer # "absent" /\ refs = 0
  <2>1. /\ Runs("stop", <<"destroy">>) /\ streamer' = "stopped"
        /\ "destroy" \in Item
    BY <1>3 DEF RunStop, SafeToDestroy, When, Item, HandlerItem
  <2>2. queue' \in Seq(Item)
    BY <2>1, RunsAndPosts DEF IInv
  <2>3. PICK t \in Seq(Item) : Takes(queue, "stop", t)
                               /\ Puts(t, "destroy", queue')
    BY <2>1, RunsAndPosts DEF IInv
  <2>4. Count(t, {"request"}) = 0
    <3>1. Count(t, Command) = 0
      BY <2>3 DEF IInv, Lane, LaneOf, Takes, Command
    <3>2. Count(t, {"request"}) <= Count(t, Command)
      BY <2>3, CountFewer DEF Command
    <3> QED BY <2>3, <3>1, <3>2 DEF Takes
  <2>5. ~Before(t, {"destroy"}, {"request"})
    BY <2>3, <2>4, OrderCounts
  <2>6. Count(queue', {"finished"}) = 0
    BY <1>3, <2>3 DEF IInv, Ends, Takes, Puts
  <2>7. "stop" \notin BusItem /\ "destroy" \notin BusItem /\ io = "idle"
    BY <2>1 DEF BusItem, Runs
  <2>8. TypeOK'
    BY <1>3, <2>1, <2>2, <2>3, <2>5, <2>6, <2>7 DEF IInv, TypeOK, RunStop
  <2>9. Lane'
    BY <2>3, Kinds, LaneTaken, AsidePut DEF IInv, Lane, RunStop
  <2>10. Destroys'
    BY <1>3, <2>1, <2>2, <2>3, <2>5, <2>6, <2>7
       DEF IInv, Destroys, RunStop, Takes, Puts
  <2>11. Ends'
    BY <1>3, <2>1, <2>2, <2>3, <2>5, <2>6, <2>7
       DEF IInv, Ends, RunStop, Takes, Puts
  <2>12. Io'
    BY <1>3, <2>1, <2>2, <2>3, <2>5, <2>6, <2>7
       DEF IInv, Io, RunStop, Takes, Puts
  <2>13. Counted'
    BY <1>3, <2>1, <2>2, <2>3, <2>5, <2>6, <2>7
       DEF IInv, Counted, RunStop, Takes, Puts
  <2>14. Told'
    BY <1>3, <2>1, <2>2, <2>3, <2>5, <2>6, <2>7
       DEF IInv, Told, RunStop, Takes, Puts
  <2> QED BY <2>8, <2>9, <2>10, <2>11, <2>12, <2>13, <2>14 DEF IInv
<1> QED BY <1>1, <1>2, <1>3

\* The shutdown is the last command of the connection.
LEMMA RunShutdownKeeps ==
  ASSUME IInv, RunShutdown
  PROVE  IInv'
<1>1. /\ queue \in Seq(Item) /\ refs \in Nat /\ refs' = refs
      /\ shuttedDown \in BOOLEAN /\ io = "idle" /\ io' = "idle"
      /\ client' = client
      /\ wanted' = FALSE /\ told' = told /\ lost' = lost
      /\ queue # <<>> /\ Head(queue) = "shutdown"
  BY DEF IInv, TypeOK, RunShutdown, Runs
<1> DEFINE t == Tail(queue)
<1>2. t \in Seq(Item) /\ Takes(queue, "shutdown", t)
  BY <1>1, Taking
<1> HIDE DEF t
<1>3. /\ "shutdown" \notin BusItem /\ "destroy" \notin BusItem
      /\ "finished" \notin BusItem
      /\ "shutdown" \notin HandlerItem /\ "finished" \notin HandlerItem
      /\ "shutdown" \notin ReadItem /\ "finished" \notin ReadItem
      /\ "shutdown" \notin Command /\ "finished" \notin Command
      /\ "destroy" \in Item /\ "finished" \in Item
  BY DEF BusItem, HandlerItem, ReadItem, Command, Item
<1>4. \A X : /\ Count(t, X) \in Nat /\ Count(queue, X) \in Nat
             /\ Count(queue, X) =
                    Count(t, X) + (IF "shutdown" \in X THEN 1 ELSE 0)
  BY <1>2 DEF Takes
<1>5. /\ client = "waiting" /\ shuttedDown = FALSE
      /\ Count(t, {"shutdown", "finished"}) = 0
      /\ Count(t, ReadItem) = 0 /\ Count(t, Command) = 0
      /\ Count(t, {"reset"}) = 0
      /\ ~Before(t, ReadItem, Command) /\ ~Before(t, {"reset"}, Command)
  <2>1. Count(queue, {"shutdown", "finished"}) =
            Count(t, {"shutdown", "finished"}) + 1
    BY <1>4
  <2>2. client = "waiting" /\ shuttedDown = FALSE
        /\ Count(t, {"shutdown", "finished"}) = 0
    BY <1>1, <1>4, <2>1 DEF IInv, Lane, LaneOf
  <2>3. /\ Count(t, ReadItem) = Count(queue, ReadItem)
        /\ Count(t, Command) = Count(queue, Command)
        /\ Count(t, {"reset"}) = Count(queue, {"reset"})
    BY <1>3, <1>4
  <2>4. /\ Count(t, ReadItem) = 0 /\ Count(t, Command) = 0
        /\ Count(t, {"reset"}) = 0
    BY <1>4, <2>2, <2>3 DEF IInv, Lane, LaneOf
  <2>5. ~Before(t, ReadItem, Command) /\ ~Before(t, {"reset"}, Command)
    BY <1>2, <2>4, OrderCounts
  <2> QED BY <2>2, <2>4, <2>5
<1>6. Count(t, {"request"}) = 0 /\ Count(t, {"finished"}) = 0
  <2>1. /\ Count(t, {"request"}) <= Count(t, Command)
        /\ Count(t, {"finished"}) <= Count(t, {"shutdown", "finished"})
    BY <1>2, CountFewer DEF Command
  <2> QED BY <1>4, <1>5, <2>1
<1>7. /\ ~Before(t, {"destroy"}, {"request"})
      /\ ~Before(t, {"request"}, {"destroy"})
      /\ ~Before(t, {"finished"}, HandlerItem)
  BY <1>2, <1>6, OrderCounts
<1>8. /\ ~Between(t, {"destroy"}, {"request"}, {"destroy"})
      /\ Count(t, {"destroy"}) = Count(queue, {"destroy"})
      /\ Count(t, {"dangling"}) = Count(queue, {"dangling"})
      /\ Count(t, BusItem) = Count(queue, BusItem)
  BY <1>2, <1>3, <1>4 DEF IInv, Destroys, Takes
<1>9. CASE streamer = "absent"
  <2>1. /\ queue' = t \o <<"finished">> /\ streamer' = "absent"
        /\ shuttedDown' = FALSE
    BY <1>5, <1>9 DEF RunShutdown, Runs, t
  <2>2. queue' = Append(t, "finished")
    BY <1>2, <2>1
  <2>3. queue' \in Seq(Item) /\ Puts(t, "finished", queue')
    BY <1>2, <1>3, <2>2, Putting
  <2>4. TypeOK'
    BY <1>1, <1>5, <2>1, <2>3 DEF IInv, TypeOK
  <2>5. /\ Count(queue', {"shutdown", "finished"}) = 1
        /\ Count(queue', ReadItem) = 0 /\ Count(queue', Command) = 0
        /\ Count(queue', {"reset"}) = 0
        /\ ~Before(queue', ReadItem, Command)
        /\ ~Before(queue', {"reset"}, Command)
    <3>1. \A X : /\ Count(queue', X) \in Nat
                /\ Count(queue', X) =
                       Count(t, X) + (IF "finished" \in X THEN 1 ELSE 0)
      BY <2>3 DEF Puts
    <3>2. /\ Count(queue', {"shutdown", "finished"}) = 1
          /\ Count(queue', ReadItem) = 0 /\ Count(queue', Command) = 0
          /\ Count(queue', {"reset"}) = 0
      BY <1>3, <1>5, <3>1
    <3>3. /\ ~Before(queue', ReadItem, Command)
          /\ ~Before(queue', {"reset"}, Command)
      BY <2>3, <3>2, OrderCounts
    <3> QED BY <3>2, <3>3
  <2>6. Lane'
    BY <1>1, <1>5, <2>1, <2>5 DEF Lane, LaneOf
  <2>7. /\ ~Before(queue', {"request"}, {"destroy"})
        /\ ~Between(queue', {"destroy"}, {"request"}, {"destroy"})
        /\ ~Before(queue', {"finished"}, HandlerItem)
    BY <1>3, <1>7, <1>8, <2>3 DEF Puts
  <2>8. /\ Count(queue', {"destroy"}) = Count(queue, {"destroy"})
        /\ Count(queue', {"dangling"}) = Count(queue, {"dangling"})
        /\ Count(queue', BusItem) = Count(queue, BusItem)
    BY <1>3, <1>4, <1>8, <2>3 DEF Puts
  <2>9. Destroys'
    BY <1>1, <1>9, <2>1, <2>7, <2>8 DEF IInv, Destroys
  <2>10. Ends' /\ Io'
    BY <1>1, <1>9, <2>1, <2>7, <2>8 DEF IInv, Ends, Io
  <2>11. Counted' /\ Told'
    BY <1>1, <2>8 DEF IInv, Counted, Told
  <2> QED BY <2>4, <2>6, <2>9, <2>10, <2>11 DEF IInv
<1>10. CASE streamer # "absent" /\ refs # 0
  <2>1. SafeToDestroy = <<>>
    BY <1>10 DEF SafeToDestroy, When
  <2>2. queue' = t \o <<>> /\ streamer' = "stopped" /\ shuttedDown' = TRUE
    BY <1>10, <2>1 DEF RunShutdown, Runs, t
  <2>3. queue' = t
    BY <1>2, <2>2
  <2>4. TypeOK'
    BY <1>1, <1>2, <1>5, <2>2, <2>3 DEF IInv, TypeOK
  <2>5. Lane'
    BY <1>1, <1>5, <2>2, <2>3 DEF Lane, LaneOf
  <2>6. Destroys'
    BY <1>1, <1>8, <2>2, <2>3 DEF IInv, Destroys
  <2>7. Ends' /\ Io'
    BY <1>1, <1>6, <1>7, <2>2, <2>3 DEF Ends, Io
  <2>8. Counted' /\ Told'
    BY <1>1, <1>8, <2>3 DEF IInv, Counted, Told
  <2> QED BY <2>4, <2>5, <2>6, <2>7, <2>8 DEF IInv
<1>11. CASE streamer # "absent" /\ refs = 0
  <2>1. SafeToDestroy = <<"destroy">>
    BY <1>11 DEF SafeToDestroy, When
  <2>2. /\ queue' = t \o <<"destroy">> /\ streamer' = "stopped"
        /\ shuttedDown' = TRUE
    BY <1>11, <2>1 DEF RunShutdown, Runs, t
  <2>3. queue' = Append(t, "destroy")
    BY <1>2, <2>2
  <2>4. queue' \in Seq(Item) /\ Puts(t, "destroy", queue')
    BY <1>2, <1>3, <2>3, Putting
  <2>5. TypeOK'
    BY <1>1, <1>5, <2>2, <2>4 DEF IInv, TypeOK
  <2>6. LaneOf(t, client, TRUE)
    BY <1>5 DEF LaneOf
  <2>7. Lane'
    BY <1>1, <2>2, <2>4, <2>6, Kinds, AsidePut DEF Lane
  <2>8. /\ ~Between(queue', {"destroy"}, {"request"}, {"destroy"})
        /\ Count(queue', {"finished"}) = 0
    BY <1>6, <1>7, <1>8, <2>4 DEF Puts
  <2>9. ~Before(queue', {"finished"}, HandlerItem)
    BY <2>4, <2>8, OrderCounts
  <2>10. /\ Count(queue', {"dangling"}) = Count(queue, {"dangling"})
         /\ Count(queue', BusItem) = Count(queue, BusItem)
    BY <1>3, <1>4, <1>8, <2>4 DEF Puts
  <2>11. Destroys'
    BY <1>1, <1>11, <2>2, <2>8 DEF Destroys
  <2>12. Ends' /\ Io'
    BY <1>1, <2>2, <2>8, <2>9 DEF Ends, Io
  <2>13. Counted' /\ Told'
    BY <1>1, <2>10 DEF IInv, Counted, Told
  <2> QED BY <2>5, <2>7, <2>11, <2>12, <2>13 DEF IInv
<1> QED BY <1>9, <1>10, <1>11

\* Kinds of handlers that do not refer to the Streamer.
Apart(X) == X \cap BusItem = {} /\ "dangling" \notin X

\* The destruction leaves all handlers where they are.
LEMMA Dangling ==
  ASSUME NEW s \in Seq(Item)
  PROVE  /\ Dangle(s) \in Seq(Item)
         /\ \A X : Apart(X) => Count(Dangle(s), X) = Count(s, X)
         /\ \A X, Y : Apart(X) /\ Apart(Y) =>
               (Before(Dangle(s), X, Y) <=> Before(s, X, Y))
         /\ Count(Dangle(s), BusItem) = 0
         /\ Count(s, BusItem) = 0 => Dangle(s) = s
<1> DEFINE d == Dangle(s)
<1>1. /\ DOMAIN d = DOMAIN s /\ d \in Seq(Item)
      /\ \A i \in DOMAIN s :
            d[i] = IF s[i] \in BusItem THEN "dangling" ELSE s[i]
  <2>1. d = [i \in DOMAIN s |-> IF s[i] \in BusItem THEN "dangling" ELSE s[i]]
    BY DEF Dangle
  <2>2. \A i \in DOMAIN s :
           (IF s[i] \in BusItem THEN "dangling" ELSE s[i]) \in Item
    BY DEF Item
  <2>3. DOMAIN s = 1 .. Len(s) /\ Len(s) \in Nat
    OBVIOUS
  <2>4. d \in [1 .. Len(s) -> Item]
    BY <2>1, <2>2, <2>3
  <2> QED BY <2>1, <2>3, <2>4
<1> HIDE DEF d
<1>2. \A i \in DOMAIN s : \A X : Apart(X) => (d[i] \in X <=> s[i] \in X)
  BY <1>1 DEF Apart
<1>3. \A X : Apart(X) => At(d, X) = At(s, X)
  BY <1>1, <1>2 DEF At
<1>4. \A X : Apart(X) => Count(d, X) = Count(s, X)
  BY <1>3 DEF Count
<1>5. \A X, Y : Apart(X) /\ Apart(Y) => (Before(d, X, Y) <=> Before(s, X, Y))
  BY <1>1, <1>2 DEF Before
<1>6. "dangling" \notin BusItem
  BY DEF BusItem
<1>7. \A i \in DOMAIN d : d[i] \notin BusItem
  BY <1>1, <1>6
<1>8. Count(d, BusItem) = 0
  <2>1. ~(Count(d, BusItem) > 0) /\ Count(d, BusItem) \in Nat
    BY <1>1, <1>7, CountPositive, CountType
  <2> QED BY <2>1
<1>9. ASSUME Count(s, BusItem) = 0 PROVE d = s
  <2>1. \A i \in DOMAIN s : s[i] \notin BusItem
    BY <1>9, CountPositive
  <2>2. Len(d) = Len(s) /\ \A i \in 1 .. Len(s) : d[i] = s[i]
    BY <1>1, <2>1
  <2> QED BY <1>1, <2>2, SeqEqual
<1> QED BY <1>1, <1>4, <1>5, <1>8, <1>9 DEF d

\* destroyStreaming finds no handler that refers to the Streamer, unless a
\* reference was lost, and no request is ahead of another destruction.
LEMMA RunDestroyKeeps ==
  ASSUME IInv, RunDestroy
  PROVE  IInv'
<1> DEFINE t == Tail(queue)
           d == Dangle(t)
<1>1. /\ queue \in Seq(Item) /\ queue # <<>> /\ Head(queue) = "destroy"
      /\ shuttedDown \in BOOLEAN /\ io = "idle" /\ io' = "idle"
      /\ client' = client
      /\ wanted' = wanted /\ told' = told /\ lost' = lost
      /\ streamer' = "absent" /\ refs' = 0 /\ shuttedDown' = FALSE
      /\ queue' = d \o When(shuttedDown, "finished")
  BY DEF IInv, TypeOK, RunDestroy
<1>2. t \in Seq(Item) /\ Takes(queue, "destroy", t)
  BY <1>1, Taking
<1> HIDE DEF t
<1>3. /\ d \in Seq(Item)
      /\ \A X : Apart(X) => Count(d, X) = Count(t, X)
      /\ \A X, Y : Apart(X)
                   /\ Apart(Y) => (Before(d, X, Y) <=> Before(t, X, Y))
      /\ Count(d, BusItem) = 0
      /\ Count(t, BusItem) = 0 => d = t
  BY <1>2, Dangling
<1> HIDE DEF d
<1>4. /\ Apart(ReadItem) /\ Apart(Command) /\ Apart({"reset"})
      /\ Apart({"destroy"})
      /\ Apart({"shutdown", "finished"}) /\ Apart({"request"})
      /\ Apart({"finished"})
      /\ Apart(HandlerItem) /\ Apart({"failed", "sendFailed"})
  BY DEF Apart, ReadItem, Command, HandlerItem, BusItem
<1>5. /\ "finished" \in Item /\ "finished" \notin BusItem
      /\ "finished" \notin HandlerItem
      /\ "finished" \notin ReadItem /\ "finished" \notin Command
      /\ "destroy" \notin BusItem /\ "destroy" \notin ReadItem
      /\ "destroy" \notin Command
  BY DEF Item, BusItem, HandlerItem, ReadItem, Command
<1>6. \A X : /\ Count(t, X) \in Nat /\ Count(queue, X) \in Nat
             /\ Count(queue, X) =
                    Count(t, X) + (IF "destroy" \in X THEN 1 ELSE 0)
  BY <1>2 DEF Takes
<1>7. streamer # "live" /\ refs = 0
  <2>1. Count(queue, {"destroy"}) > 0
    BY <1>6
  <2> QED BY <2>1 DEF IInv, Destroys
<1>8. ~lost => Count(t, BusItem) = 0 /\ Count(t, {"dangling"}) = 0
  <2>1. /\ Count(queue, BusItem) = Count(t, BusItem)
        /\ Count(queue, {"dangling"}) = Count(t, {"dangling"})
    BY <1>5, <1>6
  <2> QED BY <1>1, <1>6, <1>7, <2>1 DEF IInv, Counted
<1>9. /\ ~Before(d, {"request"}, {"destroy"})
      /\ ~Before(d, {"finished"}, HandlerItem)
  <2>1. ~Before(t, {"request"}, {"destroy"})
    BY <1>2 DEF IInv, Destroys, Takes
  <2>2. ~Before(t, {"finished"}, HandlerItem)
    BY <1>2 DEF IInv, Ends, Takes
  <2> QED BY <1>3, <1>4, <2>1, <2>2
<1>10. LaneOf(d, client, shuttedDown)
  <2>1. LaneOf(t, client, shuttedDown)
    BY <1>2, LaneTaken DEF IInv, Lane
  <2>2. /\ Count(d, ReadItem) = Count(t, ReadItem)
        /\ Count(d, Command) = Count(t, Command)
        /\ Count(d, {"reset"}) = Count(t, {"reset"})
        /\ Count(d, {"shutdown", "finished"}) =
               Count(t, {"shutdown", "finished"})
        /\ Before(d, ReadItem, Command) <=> Before(t, ReadItem, Command)
        /\ Before(d, {"reset"}, Command) <=> Before(t, {"reset"}, Command)
    BY <1>3, <1>4
  <2> QED BY <2>1, <2>2 DEF LaneOf
<1>11. /\ Count(d, {"failed", "sendFailed"}) =
              Count(queue, {"failed", "sendFailed"})
       /\ ~lost => Count(d, {"dangling"}) = 0
  <2>1. Count(d, {"failed", "sendFailed"}) = Count(t, {"failed", "sendFailed"})
    BY <1>3, <1>4
  <2>2. Count(t, {"failed", "sendFailed"}) =
            Count(queue, {"failed", "sendFailed"})
    BY <1>6
  <2> QED BY <1>3, <1>8, <2>1, <2>2
<1>12. CASE ~shuttedDown
  <2>1. queue' = d
    BY <1>1, <1>3, <1>12 DEF When
  <2>2. TypeOK'
    BY <1>1, <1>3, <2>1 DEF IInv, TypeOK
  <2>3. Lane'
    BY <1>1, <1>10, <1>12, <2>1 DEF Lane, LaneOf
  <2>4. Destroys' /\ Ends' /\ Io'
    <3>1. ~Between(d, {"destroy"}, {"request"}, {"destroy"})
      BY <1>9 DEF Before, Between
    <3> QED BY <1>1, <1>3, <1>9, <2>1, <3>1 DEF Destroys, Ends, Io
  <2>5. Counted'
    <3>1. /\ Count(queue', BusItem) = 0
          /\ ~lost => Count(queue', {"dangling"}) = 0
      BY <1>3, <1>11, <2>1
    <3> QED BY <1>1, <3>1 DEF Counted
  <2>6. Told'
    BY <1>1, <1>7, <1>11, <2>1 DEF IInv, Told
  <2> QED BY <2>2, <2>3, <2>4, <2>5, <2>6 DEF IInv
<1>13. CASE shuttedDown
  <2>1. queue' = d \o <<"finished">>
    BY <1>1, <1>13 DEF When
  <2>2. queue' = Append(d, "finished")
    BY <1>3, <2>1
  <2>3. queue' \in Seq(Item) /\ Puts(d, "finished", queue')
    BY <1>3, <1>5, <2>2, Putting
  <2>4. TypeOK'
    BY <1>1, <2>3 DEF IInv, TypeOK
  <2>5. /\ \A X : /\ Count(d, X) \in Nat
                  /\ Count(queue', X) =
                         Count(d, X) + (IF "finished" \in X THEN 1 ELSE 0)
        /\ \A X, Y : "finished" \notin Y => (Before(queue', X, Y) <=>
               Before(d, X, Y))
    BY <2>3 DEF Puts
  <2>6. /\ Count(queue', ReadItem) = Count(d, ReadItem)
        /\ Count(queue', Command) = Count(d, Command)
        /\ Count(queue', {"reset"}) = Count(d, {"reset"})
        /\ Count(queue', {"shutdown", "finished"}) =
               Count(d, {"shutdown", "finished"}) + 1
        /\ ~Before(queue', ReadItem, Command)
        /\ ~Before(queue', {"reset"}, Command)
    BY <1>5, <1>10, <2>5 DEF LaneOf
  <2>7. Lane'
    <3>1. /\ Count(d, ReadItem) <= (IF client = "reading" THEN 1 ELSE 0)
          /\ Count(d, Command) <=
                 (IF client \in {"reading", "resetting"} THEN 1 ELSE 0)
          /\ Count(d, {"reset"}) = (IF client = "resetting" THEN 1 ELSE 0)
          /\ Count(d, {"shutdown", "finished"}) + 1 = (IF client =
                 "waiting" THEN 1 ELSE 0)
      BY <1>10, <1>13 DEF LaneOf
    <3>2. /\ Count(queue', {"shutdown", "finished"}) \in Nat
          /\ Count(d, {"shutdown", "finished"}) \in Nat
      BY <2>3 DEF Puts
    <3>3. LaneOf(queue', client, FALSE)
      BY <2>6, <3>1, <3>2 DEF LaneOf
    <3> QED BY <1>1, <3>3 DEF Lane
  <2>8. /\ ~Before(queue', {"request"}, {"destroy"})
        /\ ~Before(queue', {"finished"}, HandlerItem)
    BY <1>5, <1>9, <2>5
  <2>9. ~Between(queue', {"destroy"}, {"request"}, {"destroy"})
    BY <2>8 DEF Before, Between
  <2>10. /\ Count(queue', {"failed", "sendFailed"}) =
                Count(d, {"failed", "sendFailed"})
         /\ Count(queue', {"dangling"}) = Count(d, {"dangling"})
         /\ Count(queue', BusItem) = Count(d, BusItem)
    BY <1>5, <2>5
  <2>11. Destroys' /\ Ends' /\ Io'
    BY <1>1, <1>3, <2>8, <2>9, <2>10 DEF Destroys, Ends, Io
  <2>12. Counted' /\ Told'
    BY <1>1, <1>3, <1>7, <1>11, <2>10 DEF IInv, Counted, Told
  <2> QED BY <2>4, <2>7, <2>11, <2>12 DEF IInv
<1> QED BY <1>1, <1>12, <1>13

\* The process starts again.
LEMMA RestartKeeps ==
  ASSUME IInv, Restart
  PROVE  IInv'
<1>1. /\ \A X : Count(<<>>, X) = 0
      /\ \A X, Y : ~Before(<<>>, X, Y)
      /\ \A X, Y, Z : ~Between(<<>>, X, Y, Z)
  BY CountEmpty, NoOrder
<1>2. TypeOK'
  <2>1. <<>> \in Seq(Item)
    OBVIOUS
  <2> QED BY <2>1 DEF Restart, TypeOK
<1>3. Lane' /\ Destroys'
  BY <1>1 DEF Restart, Lane, LaneOf, Destroys
<1>4. Ends' /\ Io' /\ Counted' /\ Told'
  BY <1>1 DEF Restart, Ends, Io, Counted, Told
<1> QED BY <1>2, <1>3, <1>4 DEF IInv

\* It has just been started.
LEMMA InitHolds ==
  ASSUME Init
  PROVE  IInv
<1>1. /\ \A X : Count(<<>>, X) = 0
      /\ \A X, Y : ~Before(<<>>, X, Y)
      /\ \A X, Y, Z : ~Between(<<>>, X, Y, Z)
  BY CountEmpty, NoOrder
<1>2. TypeOK
  <2>1. <<>> \in Seq(Item)
    OBVIOUS
  <2> QED BY <2>1 DEF Init, TypeOK
<1>3. Lane /\ Destroys
  BY <1>1 DEF Init, Lane, LaneOf, Destroys
<1>4. Ends /\ Io /\ Counted /\ Told
  BY <1>1 DEF Init, Ends, Io, Counted, Told
<1> QED BY <1>2, <1>3, <1>4 DEF IInv

\* Nothing happens.
LEMMA StutterKeeps ==
  ASSUME IInv, UNCHANGED vars
  PROVE  IInv'
<1>1. TypeOK' /\ Lane' /\ Destroys'
  BY DEF IInv, TypeOK, Lane, Destroys, vars
<1>2. Ends' /\ Io' /\ Counted' /\ Told'
  BY DEF IInv, Ends, Io, Counted, Told, vars
<1> QED BY <1>1, <1>2 DEF IInv

\* Every step keeps the invariant.
LEMMA StepKeeps ==
  ASSUME ReadsWhileResetting = FALSE, IInv, [Next]_vars
  PROVE  IInv'
<1>1. CASE RunRead
  BY <1>1, RunReadKeeps
<1>2. CASE RunReset
  BY <1>2, RunResetKeeps
<1>3. CASE RunFinished
  BY <1>3, RunFinishedKeeps
<1>4. CASE RunRequestActive
  BY <1>4, RunRequestActiveKeeps
<1>5. CASE RunRequestInvalid
  BY <1>5, RunRequestInvalidKeeps
<1>6. CASE RunRequest
  BY <1>6, RunRequestKeeps
<1>7. ASSUME NEW posts \in {<<"streaming">>, <<>>, <<"failed">>},
                Started(posts)
      PROVE  IInv'
  BY <1>7, StartedKeeps
<1>8. CASE RunPlaying
  BY <1>8, RunPlayingKeeps
<1>9. CASE RunError
  BY <1>9, RunErrorKeeps
<1>10. CASE ErrorStops
  BY <1>10, ErrorStopsKeeps
<1>11. CASE RunUncounted
  BY <1>11, RunUncountedKeeps
<1>12. CASE RunStatus
  BY <1>12, RunStatusKeeps
<1>13. CASE RunSendFailed
  BY <1>13, RunSendFailedKeeps
<1>14. CASE RunStop
  BY <1>14, RunStopKeeps
<1>15. CASE RunShutdown
  BY <1>15, RunShutdownKeeps
<1>16. CASE RunDestroy
  BY <1>16, RunDestroyKeeps
<1>17. ASSUME NEW item \in BusItem, BusMessage(item) PROVE IInv'
  BY <1>17, BusMessageKeeps
<1>18. ASSUME NEW item \in BusItem, RunPlayingCollides(item) PROVE IInv'
  BY <1>18, RunPlayingCollidesKeeps
<1>19. ASSUME NEW first \in BusItem, NEW second \in BusItem,
              BusMessagesCollide(first, second)
       PROVE  IInv'
  BY <1>19, BusMessagesCollideKeeps
<1>20. ASSUME NEW read \in ReadItem, ReadCompletes(read) PROVE IInv'
  BY <1>20, ReadCompletesKeeps
<1>21. CASE Reset
  BY <1>21, ResetKeeps
<1>22. CASE DropboxFolderShuttedDown
  BY <1>22, DropboxFolderShuttedDownKeeps
<1>23. CASE StartHandleSource
  BY <1>23, StartHandleSourceKeeps
<1>24. CASE Restart
  BY <1>24, RestartKeeps
<1>25. CASE UNCHANGED vars
  BY <1>25, StutterKeeps
<1>26. CASE Run
  BY <1>26, <1>1, <1>2, <1>3, <1>4, <1>5, <1>6, <1>7, <1>8, <1>9, <1>10,
     <1>11, <1>12, <1>13, <1>14, <1>15, <1>16 DEF Run
<1>27. CASE GStreamer
  BY <1>27, <1>17, <1>18, <1>19 DEF GStreamer
<1> QED BY <1>20, <1>21, <1>22, <1>23, <1>24, <1>25, <1>26, <1>27 DEF Next

\* The connection that failed is not read any more.
LEMMA Invariance ==
  ASSUME ReadsWhileResetting = FALSE
  PROVE  Spec => []IInv
<1>1. Init => IInv
  BY InitHolds
<1>2. IInv /\ [Next]_vars => IInv'
  BY StepKeeps
<1> QED BY <1>1, <1>2, PTL DEF Spec

\* What the invariant is for.
LEMMA Kept ==
  ASSUME IInv
  PROVE  NothingDangles /\ DestroysStopped /\ FailureIsTold /\ RemovedInactive
<1>1. queue \in Seq(Item)
  BY DEF IInv, TypeOK
<1>2. \A X : Count(queue, X) \in Nat /\ (Queued(X) <=> Count(queue, X) > 0)
  BY <1>1, CountPositive, CountType DEF Queued
<1>3. NothingDangles
  BY <1>2 DEF IInv, Counted, NothingDangles
<1>4. DestroysStopped
  BY <1>2 DEF IInv, Destroys, DestroysStopped
<1>5. FailureIsTold
  BY <1>2 DEF IInv, Told, FailureIsTold
<1>6. ASSUME queue # <<>>, Head(queue) = "finished"
      PROVE  streamer = "absent" /\ ~Queued(HandlerItem)
  <2>1. Takes(queue, "finished", Tail(queue))
    BY <1>1, <1>6, Taking
  <2>2. "finished" \notin HandlerItem
    BY DEF HandlerItem
  <2>3. /\ Count(queue, {"finished"}) > 0
        /\ ~(Count(Tail(queue), HandlerItem) > 0)
    BY <2>1 DEF IInv, Ends, Takes
  <2>4. Count(queue, HandlerItem) = Count(Tail(queue), HandlerItem)
    BY <2>1, <2>2 DEF Takes
  <2> QED BY <1>2, <2>3, <2>4 DEF IInv, Ends
<1>7. RemovedInactive
  BY <1>6 DEF RemovedInactive
<1> QED BY <1>3, <1>4, <1>5, <1>7

\* No handler refers to a Streamer that was destroyed, unless two threads
\* met at its counter (Common/RefCounter.h, noMoreRefs, stopStream).
THEOREM TheStreamerOutlivesItsHandlers ==
  ASSUME ReadsWhileResetting = FALSE
  PROVE  Spec => []NothingDangles
<1>1. IInv => NothingDangles
  BY Kept
<1> QED BY <1>1, Invariance, PTL

\* destroyStreaming never meets a Streamer that streams: ~Streamer's assertion
\* holds (StreamingHandler.cpp:111).
THEOREM NoDestructionMeetsAStream ==
  ASSUME ReadsWhileResetting = FALSE
  PROVE  Spec => []DestroysStopped
<1>1. IInv => DestroysStopped
  BY Kept
<1> QED BY <1>1, Invariance, PTL

\* A wanted Streamer that fails is reported to the server (asyncError,
\* asyncEos, streamFailed, Client::sendStreamStatus).
THEOREM NoFailureIsSilent ==
  ASSUME ReadsWhileResetting = FALSE
  PROVE  Spec => []FailureIsTold
<1>1. IInv => FailureIsTold
  BY Kept
<1> QED BY <1>1, Invariance, PTL

\* The handler that reports the end of its shutdown is idle: the assertion of
\* Controller::removeSource holds (Controller.cpp:98).
THEOREM AnIdleHandlerIsRemoved ==
  ASSUME ReadsWhileResetting = FALSE
  PROVE  Spec => []RemovedInactive
<1>1. IInv => RemovedInactive
  BY Kept
<1> QED BY <1>1, Invariance, PTL

=============================================================================
