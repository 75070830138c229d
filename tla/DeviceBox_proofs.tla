-------------------------- MODULE DeviceBox_proofs --------------------------
(***************************************************************************)
(* Proofs about DeviceBox.  IInv says, of a box in which no two resets     *)
(* have met, what a reset under way looks like: each source with handlers  *)
(* has one step of it queued or its streamer is waited for (OneEach,       *)
(* AllOrNone), Dropbox comes last and alone (LastDropbox), and all of it   *)
(* leads to one end (OneEnd).  Around it the box is on at most one way     *)
(* back to a connection (Returning), and what was read of one connection   *)
(* is handled before its error is (Connecting, Quiet).  Handled is what    *)
(* follows of the handlers and the configuration.  RInv adds what the      *)
(* server has answered and asked for, Stored that folders are freed only   *)
(* of a process that has used Dropbox, and QInv that what is reported of a *)
(* streamer that has stopped finds it idle (Idle).                         *)
(*                                                                         *)
(* DataFacts counts and orders what is queued.  Most lemmas say that one  *)
(* step keeps the invariant: those named Keeps are about IInv, those named *)
(* Asks about RInv.                                                        *)
(***************************************************************************)
EXTENDS DeviceBox, DataFacts

\* What a reset leads to.
Ends == {"connect", "load", "exit"}
RealGoal == {g \in Goal : g.to \in Ends}

\* What is queued: goals are real ones, and only errors post "reset".
Item ==
    [do : {"splitterDown", "folderDown", "streamerDown"},
     source : Sources, goal : RealGoal] \cup
    [do : {"reset"}, goal : [to : {"connect"}]] \cup
    [do : {"stopDropbox", "dropboxDown"}, goal : RealGoal] \cup
    [do : {"load"}, config : Configs] \cup
    [do : {"request"}, source : Sources, afterReady : BOOLEAN] \cup
    [do : {"stop"}, source : Sources] \cup
    [do : {"dangling", "ready", "status", "scheduleConnect", "exit"}] \cup
    ClientItem

Of(dos) == {x \in Item : x.do \in dos}
Has(dos) == Count(queue, Of(dos)) > 0

SourceStep == {"splitterDown", "folderDown", "streamerDown"}
DropboxStep == {"stopDropbox", "dropboxDown"}
Error == {"readError", "writeError"}

StepsOf(s) == {x \in Item : x.do \in SourceStep /\ x.source = s}
StepsTo(to) == {x \in Item : x.do \in ResetStep /\ x.goal.to = to}
DownToExit == {x \in Item : x.do = "dropboxDown" /\ x.goal.to = "exit"}

\* The streamer of s is shutting down, and Dropbox is.
Waits(s) == s \in DOMAIN handlers /\ handlers[s].shuttedDown # NoGoal
DropboxWaits == dropbox.goal # NoGoal

\* A reset to this end is under way, as the queue q, the handlers h and
\* Dropbox d have it.
TowardOf(q, h, d, to) ==
    \/ Count(q, StepsTo(to)) > 0
    \/ \E s \in DOMAIN h : h[s].shuttedDown.to = to
    \/ d.goal.to = to

Toward(to) == TowardOf(queue, handlers, dropbox, to)
Underway == \E to \in Ends : Toward(to)

OneEach ==
    \A s \in Sources :
        /\ Count(queue, StepsOf(s)) + (IF Waits(s) THEN 1 ELSE 0) <= 1
        /\ Count(queue, StepsOf(s)) > 0 => s \in DOMAIN handlers

LastDropbox ==
    /\ Count(queue, Of(DropboxStep)) + (IF DropboxWaits THEN 1 ELSE 0) <= 1
    /\ Has(DropboxStep) \/ DropboxWaits => DOMAIN handlers = {}

AllOrNone ==
    Underway =>
        \A s \in DOMAIN handlers : Count(queue, StepsOf(s)) > 0 \/ Waits(s)

OneEnd == \A to, end \in Ends : Toward(to) /\ Toward(end) => to = end

Lone ==
    /\ OneEach /\ LastDropbox /\ AllOrNone /\ OneEnd
    /\ ~Has({"dangling"})

\* No configuration was loaded since the last one was cleared.
Clear == Empty /\ config.skipped = {}

\* On how many ways the box is from an error to its next connection.
Returns ==
    Count(queue, Of({"reset", "scheduleConnect", "connect"}))
        + (IF Toward("connect") THEN 1 ELSE 0) + (IF timer THEN 1 ELSE 0)

Returning ==
    /\ Returns <= 1
    /\ Returns > 0 => conn = "lost" /\ reported

\* A reset to connect is over.
Over == Has({"scheduleConnect", "connect"}) \/ timer

Connecting ==
    /\ Count(queue, Of({"connected"})) <= 1
    /\ conn = "connecting" => ~Has({"connected"}) /\ readyFor = {}
    /\ ~Before(queue, Of({"reset"}), Of({"connected"}))
    /\ Toward("connect") \/ Over => ~Has({"connected"})
    /\ conn = "connecting" \/ Has({"connected"}) =>
          /\ ~Has({"message", "load"}) /\ ~Toward("load")
          /\ ~reading /\ server = "silent" /\ Clear
    /\ conn = "up" =>
          /\ ~Before(queue, Of({"connected"}), Of(Error))
          /\ Has(Error) => Has({"connected"})

Exiting ==
    /\ Has({"clientDown"}) \/ Toward("exit") \/ dropbox.gone => shuttingDown
    /\ shuttingDown => conn # "up"
    /\ dropbox.gone => DOMAIN handlers = {}
    /\ Count(queue, DownToExit) > 0 => dropbox.gone

Quiet ==
    /\ ~Before(queue, Of(Error \cup {"clientDown"}), Of({"message"}))
    /\ Has({"reset"}) => ~Has({"message"})
    /\ Toward("connect") \/ Toward("exit") \/ Over \/ dropbox.gone =>
          ~Has({"message", "load"})
    /\ Over \/ dropbox.gone => ~Toward("load")
    /\ Over => Clear
    /\ Toward("load") => ~Empty

Handled ==
    ~Underway /\ ~dropbox.gone => DOMAIN handlers = DOMAIN config.sources

Typed == TypeOK /\ queue \in Seq(Item)

IInv ==
    /\ Typed
    /\ ~clash => Lone /\ Returning /\ Connecting /\ Exiting /\ Quiet /\ Handled

\* The server's answers.
Answers ==
    {x \in Item : \/ x.do = "load"
                  \/ x.do = "message"
                       /\ x.message.type \in {"greeting", "config", "updated"}}

Answered ==
    /\ (IF server = "silent" THEN 0 ELSE 1) + Count(queue, Answers) <= 1
    /\ server # "silent" \/ Count(queue, Answers) > 0 => Clear
    /\ ~Toward("load")

\* What the server asks s for because of ClientReady.
Asks(s) ==
    {x \in Item :
        \/ x.do = "request" /\ x.source = s /\ x.afterReady
        \/ x.do = "message" /\ x.message.type = "request"
             /\ x.message.source = s /\ x.afterReady}

\* It has handlers or could not be loaded.
Known == DOMAIN handlers \cup config.skipped

Asked ==
    /\ \A s \in Sources : Count(queue, Asks(s)) > 0 => s \in Known
    /\ conn = "up" => readyFor \subseteq Known
    /\ ~Before(queue, Of(ResetStep), Of({"request"}))
    /\ DropboxWaits \/ (\E s \in Sources : Waits(s)) => ~Has({"request"})

RInv == ~clash => Answered /\ Asked
-----------------------------------------------------------------------------
\* Which items are of a kind.
LEMMA InOf == \A x \in Item : \A dos : x \in Of(dos) <=> x.do \in dos
BY DEF Of

\* A goal leads to one of the ends, or is none.
LEMMA Goals ==
  /\ \A g \in Goal : /\ g # NoGoal <=> g \in RealGoal
                     /\ g # NoGoal <=> g.to \in Ends
                     /\ g = NoGoal <=> g.to = "none"
  /\ RealGoal \subseteq Goal /\ NoGoal \in Goal /\ NoGoal.to = "none"
  /\ NoGoal.to \notin Ends
  /\ [to |-> "connect"] \in RealGoal /\ [to |-> "exit"] \in RealGoal
  /\ \A c \in Configs : [to |-> "load", config |-> c] \in RealGoal
  /\ \A g \in RealGoal : g.to = "load" => g.config \in Configs
BY DEF Goal, RealGoal, NoGoal, Ends

\* What the items of each kind carry.
LEMMA Parts ==
  \A x \in Item :
     /\ x.do \in SourceStep =>
           /\ x.source \in Sources /\ x.goal \in RealGoal
           /\ \A do \in SourceStep : [x EXCEPT !.do = do] \in Item
     /\ x.do \in DropboxStep => x.goal \in RealGoal
     /\ x.do = "reset" => x.goal = [to |-> "connect"]
     /\ x.do = "load" => x.config \in Configs
     /\ x.do \in {"request", "stop"} => x.source \in Sources
     /\ x.do = "request" => x.afterReady \in BOOLEAN
     /\ x.do = "message" => x.message \in Message /\ x.afterReady \in BOOLEAN
     /\ x.do = "connected" => x.ok \in BOOLEAN
BY DEF Item, ClientItem, SourceStep, DropboxStep

\* What is posted are items.
LEMMA Made ==
  /\ \A do \in SourceStep, s \in Sources, g \in RealGoal :
        [do |-> do, source |-> s, goal |-> g] \in Item
  /\ \A do \in DropboxStep, g \in RealGoal : [do |-> do, goal |-> g] \in Item
  /\ [do |-> "reset", goal |-> [to |-> "connect"]] \in Item
  /\ \A c \in Configs : [do |-> "load", config |-> c] \in Item
  /\ \A s \in Sources, b \in BOOLEAN :
        [do |-> "request", source |-> s, afterReady |-> b] \in Item
  /\ \A s \in Sources : [do |-> "stop", source |-> s] \in Item
  /\ \A do \in {"dangling", "ready", "status", "scheduleConnect", "exit",
                "connect", "clientDown", "readError", "writeError"} :
        [do |-> do] \in Item
  /\ \A ok \in BOOLEAN : [do |-> "connected", ok |-> ok] \in Item
  /\ \A m \in Message, b \in BOOLEAN :
        [do |-> "message", message |-> m, afterReady |-> b] \in Item
BY DEF Item, ClientItem, SourceStep, DropboxStep

\* They are those of the two modules.
LEMMA Contained == Item \subseteq ControllerItem \cup ClientItem
BY Goals DEF Item, ControllerItem, RealGoal, Goal, SourceStep

\* A queue has what it counts.
LEMMA Counted ==
  ASSUME NEW q \in Seq(Item)
  PROVE  /\ \A X : Count(q, X) \in Nat
         /\ \A X, Y : X \subseteq Y => Count(q, X) <= Count(q, Y)
         /\ \A X : Count(q, X) > 0 <=> \E i \in DOMAIN q : q[i] \in X
         /\ \A dos : Count(q, Of(dos)) > 0 <=>
                \E i \in DOMAIN q : q[i].do \in dos
<1>1. \A X : Count(q, X) \in Nat /\ (Count(q, X) > 0 <=> \E i \in DOMAIN q : q[i] \in X)
  BY CountType, CountPositive
<1>2. \A X, Y : X \subseteq Y => Count(q, X) <= Count(q, Y)
  BY CountFewer
<1>3. \A i \in DOMAIN q : \A dos : q[i] \in Of(dos) <=> q[i].do \in dos
  BY InOf
<1> QED BY <1>1, <1>2, <1>3

\* A step of a reset leads to one of the ends.
LEMMA StepsLead ==
  ASSUME NEW q \in Seq(Item)
  PROVE  /\ Count(q, Of(ResetStep)) > 0 <=>
                \E to \in Ends : Count(q, StepsTo(to)) > 0
         /\ \A s : Count(q, StepsOf(s)) > 0 => Count(q, Of(ResetStep)) > 0
         /\ Count(q, Of(DropboxStep)) > 0 => Count(q, Of(ResetStep)) > 0
         /\ Count(q, Of(ResetStep)) > 0 =>
              \/ Count(q, Of(DropboxStep)) > 0
              \/ \E s \in Sources : Count(q, StepsOf(s)) > 0
<1>1. \A x \in Item : x.do \in ResetStep =>
         /\ x.goal.to \in Ends
         /\ x \in StepsTo(x.goal.to)
         /\ x.do \in SourceStep \/ x.do \in DropboxStep
         /\ x.do \in SourceStep =>
                x.source \in Sources /\ x \in StepsOf(x.source)
  BY Parts DEF ResetStep, SourceStep, DropboxStep, RealGoal, StepsTo, StepsOf
<1>2. \A i \in DOMAIN q : q[i] \in Item
  OBVIOUS
<1>3. /\ \A to : StepsTo(to) \subseteq Of(ResetStep)
      /\ \A s : StepsOf(s) \subseteq Of(ResetStep)
      /\ Of(DropboxStep) \subseteq Of(ResetStep)
  BY DEF StepsTo, StepsOf, Of, ResetStep, SourceStep, DropboxStep
<1>4. /\ \A X : Count(q, X) \in Nat
      /\ \A X, Y : X \subseteq Y => Count(q, X) <= Count(q, Y)
      /\ \A X : Count(q, X) > 0 <=> \E i \in DOMAIN q : q[i] \in X
  BY Counted
<1>5. /\ \A s : Count(q, StepsOf(s)) > 0 => Count(q, Of(ResetStep)) > 0
      /\ Count(q, Of(DropboxStep)) > 0 => Count(q, Of(ResetStep)) > 0
      /\ \A to : Count(q, StepsTo(to)) > 0 => Count(q, Of(ResetStep)) > 0
  BY <1>3, <1>4
<1>6. ASSUME Count(q, Of(ResetStep)) > 0
      PROVE  /\ \E to \in Ends : Count(q, StepsTo(to)) > 0
             /\ \/ Count(q, Of(DropboxStep)) > 0
                \/ \E s \in Sources : Count(q, StepsOf(s)) > 0
  <2>1. PICK i \in DOMAIN q : q[i] \in Of(ResetStep)
    BY <1>4, <1>6
  <2>2. q[i] \in Item /\ q[i].do \in ResetStep
    BY <1>2, <2>1 DEF Of
  <2>3. Count(q, StepsTo(q[i].goal.to)) > 0
    BY <1>1, <1>4, <2>2
  <2>4. CASE q[i].do \in SourceStep
    BY <1>1, <1>4, <2>2, <2>3, <2>4
  <2>5. CASE q[i].do \in DropboxStep
    <3>1. q[i] \in Of(DropboxStep)
      BY <2>2, <2>5 DEF Of
    <3> QED BY <1>1, <1>4, <2>2, <2>3, <3>1
  <2> QED BY <1>1, <2>2, <2>4, <2>5
<1> QED BY <1>5, <1>6

\* Both ways to say that a reset is under way.
LEMMA Underways ==
  ASSUME Typed
  PROVE  /\ Resetting <=> Underway
         /\ Underway <=> \/ Has(ResetStep) \/ DropboxWaits
                         \/ \E s \in DOMAIN handlers : Waits(s)
         /\ \A dos : Queued(dos) <=> Has(dos)
<1>1. queue \in Seq(Item) /\ dropbox.goal \in Goal
      /\ \A s \in DOMAIN handlers : handlers[s].shuttedDown \in Goal
  BY DEF Typed, TypeOK, ControllerTypeOK, Handler
<1>2. \A dos : Queued(dos) <=> Has(dos)
  BY <1>1, Counted DEF Queued, Has
<1>3. Underway <=> \/ Has(ResetStep) \/ DropboxWaits
                   \/ \E s \in DOMAIN handlers : Waits(s)
  <2>1. DropboxWaits <=> \E to \in Ends : dropbox.goal.to = to
    BY <1>1, Goals DEF DropboxWaits
  <2>2. \A s \in DOMAIN handlers :
           Waits(s) <=> \E to \in Ends : handlers[s].shuttedDown.to = to
    BY <1>1, Goals DEF Waits
  <2>3. Has(ResetStep) <=> \E to \in Ends : Count(queue, StepsTo(to)) > 0
    BY <1>1, StepsLead DEF Has
  <2> QED BY <2>1, <2>2, <2>3 DEF Underway, Toward, TowardOf
<1>4. Resetting <=> \/ Has(ResetStep) \/ DropboxWaits
                    \/ \E s \in DOMAIN handlers : Waits(s)
  BY <1>2 DEF Resetting, DropboxWaits, Waits
<1> QED BY <1>2, <1>3, <1>4

\* What moves nothing of a reset keeps what it has to do.
LEMMA Unmoved ==
  ASSUME queue' \in Seq(Item), Lone, Handled, UNCHANGED <<dropbox, config>>,
         DOMAIN handlers' = DOMAIN handlers,
         \A s \in DOMAIN handlers :
            handlers'[s].shuttedDown = handlers[s].shuttedDown,
         \A to : Count(queue', StepsTo(to)) = Count(queue, StepsTo(to)),
         \A s : Count(queue', StepsOf(s)) = Count(queue, StepsOf(s)),
         Count(queue', Of(DropboxStep)) = Count(queue, Of(DropboxStep)),
         ~Has({"dangling"})'
  PROVE  Lone' /\ Handled' /\ \A to : Toward(to)' <=> Toward(to)
<1>1. \A to : Toward(to)' <=> Toward(to)
  BY DEF Toward, TowardOf
<1>2. Underway' <=> Underway
  BY <1>1 DEF Underway
<1>3. \A s : Waits(s)' <=> Waits(s)
  BY DEF Waits
<1>4. OneEach' /\ LastDropbox' /\ AllOrNone' /\ OneEnd'
  <2>1. OneEach'
    BY <1>3 DEF Lone, OneEach
  <2>2. LastDropbox'
    BY DEF Lone, LastDropbox, DropboxWaits, Has
  <2>3. AllOrNone'
    BY <1>2, <1>3 DEF Lone, AllOrNone
  <2>4. OneEnd'
    BY <1>1 DEF Lone, OneEnd
  <2> QED BY <2>1, <2>2, <2>3, <2>4
<1>5. Handled'
  BY <1>2 DEF Handled
<1> QED BY <1>1, <1>4, <1>5 DEF Lone

\* What is besides a reset is such a step.
LEMMA Beside ==
  ASSUME queue' \in Seq(Item), Lone, Handled, UNCHANGED <<dropbox, config>>,
         DOMAIN handlers' = DOMAIN handlers,
         \A s \in DOMAIN handlers :
            handlers'[s].shuttedDown = handlers[s].shuttedDown,
         \A X : X \subseteq Of(ResetStep) =>
             Count(queue', X) = Count(queue, X),
         ~Has({"dangling"})'
  PROVE  /\ Lone' /\ Handled' /\ \A to : Toward(to)' <=> Toward(to)
         /\ Count(queue', DownToExit) = Count(queue, DownToExit)
<1>1. /\ \A to : StepsTo(to) \subseteq Of(ResetStep)
      /\ \A s : StepsOf(s) \subseteq Of(ResetStep)
      /\ Of(DropboxStep) \subseteq Of(ResetStep)
      /\ DownToExit \subseteq Of(ResetStep)
  BY DEF StepsTo, StepsOf, Of, ResetStep, SourceStep, DropboxStep, DownToExit
<1>2. /\ \A to : Count(queue', StepsTo(to)) = Count(queue, StepsTo(to))
      /\ \A s : Count(queue', StepsOf(s)) = Count(queue, StepsOf(s))
      /\ Count(queue', Of(DropboxStep)) = Count(queue, Of(DropboxStep))
      /\ Count(queue', DownToExit) = Count(queue, DownToExit)
  BY <1>1
<1> QED BY <1>2, Unmoved

\* What a step does to the kinds of items that are queued: a step of the io
\* thread takes an item of kind dx and may post one of kind dy.
Swaps(q, dx, dy, r) ==
    /\ \A dos :
          /\ Count(q, Of(dos)) \in Nat /\ Count(r, Of(dos)) \in Nat
          /\ (dx \in dos <=> dy \in dos) => Count(r, Of(dos)) = Count(q, Of(dos))
          /\ dx \in dos /\ dy \notin dos =>
                Count(q, Of(dos)) = Count(r, Of(dos)) + 1
          /\ dx \notin dos /\ dy \in dos =>
                Count(r, Of(dos)) = Count(q, Of(dos)) + 1
    /\ \A dos, ends :
          /\ Before(r, Of(dos), Of(ends)) =>
                \/ Before(q, Of(dos), Of(ends))
                \/ Count(q, Of(dos)) > 0 /\ dy \in ends
          /\ dx \in dos /\ ~Before(q, Of(dos), Of(ends)) /\ dy \notin ends =>
                Count(r, Of(ends)) = 0
    /\ {dx, dy} \cap ResetStep = {} =>
          \A X : X \subseteq Of(ResetStep) => Count(r, X) = Count(q, X)

Drops(q, dx, r) ==
    /\ \A dos :
          /\ Count(q, Of(dos)) \in Nat /\ Count(r, Of(dos)) \in Nat
          /\ dx \notin dos => Count(r, Of(dos)) = Count(q, Of(dos))
          /\ dx \in dos => Count(q, Of(dos)) = Count(r, Of(dos)) + 1
    /\ \A dos, ends :
          /\ Before(r, Of(dos), Of(ends)) => Before(q, Of(dos), Of(ends))
          /\ dx \in dos /\ ~Before(q, Of(dos), Of(ends)) =>
                Count(r, Of(ends)) = 0
    /\ dx \notin ResetStep =>
          \A X : X \subseteq Of(ResetStep) => Count(r, X) = Count(q, X)

Posted(q, dy, r) ==
    /\ \A dos :
          /\ Count(q, Of(dos)) \in Nat /\ Count(r, Of(dos)) \in Nat
          /\ dy \notin dos => Count(r, Of(dos)) = Count(q, Of(dos))
          /\ dy \in dos => Count(r, Of(dos)) = Count(q, Of(dos)) + 1
    /\ \A dos, ends :
          Before(r, Of(dos), Of(ends)) =>
             \/ Before(q, Of(dos), Of(ends))
             \/ Count(q, Of(dos)) > 0 /\ dy \in ends
    /\ dy \notin ResetStep =>
          \A X : X \subseteq Of(ResetStep) => Count(r, X) = Count(q, X)

\* A step of the io thread takes the first item and posts another.
LEMMA Swapping ==
  ASSUME Typed, queue # <<>>, NEW y \in Item, queue' = Append(Tail(queue), y)
  PROVE  /\ queue' \in Seq(Item) /\ Head(queue) \in Item
         /\ Replaced(queue, Head(queue), y, queue')
         /\ Swaps(queue, Head(queue).do, y.do, queue')
<1> DEFINE x == Head(queue)
<1>1. x \in Item /\ queue' \in Seq(Item) /\ Replaced(queue, x, y, queue')
  BY Replacing DEF Typed
<1> HIDE DEF x
<1>2. \A dos : (x \in Of(dos) <=> x.do \in dos) /\ (y \in Of(dos) <=> y.do \in dos)
  BY <1>1, InOf
<1>3. {x.do, y.do} \cap ResetStep = {} =>
         \A X : X \subseteq Of(ResetStep) => x \notin X /\ y \notin X
  BY <1>2
<1>4. {x.do, y.do} \cap ResetStep = {} =>
         \A X : X \subseteq Of(ResetStep) => Count(queue', X) = Count(queue, X)
  BY <1>1, <1>3 DEF Replaced
<1> DEFINE dx == x.do
           dy == y.do
<1>5. \A dos : (x \in Of(dos) <=> dx \in dos) /\ (y \in Of(dos) <=> dy \in dos)
  BY <1>2
<1>6. {dx, dy} \cap ResetStep = {} =>
         \A X : X \subseteq Of(ResetStep) => Count(queue', X) = Count(queue, X)
  BY <1>4
<1> HIDE DEF dx, dy
<1>7. Swaps(queue, dx, dy, queue')
  BY <1>1, <1>5, <1>6 DEF Replaced, Swaps
<1> QED BY <1>1, <1>7 DEF x, dx, dy

\* Or it posts none.
LEMMA Dropping ==
  ASSUME Typed, queue # <<>>, queue' = Tail(queue)
  PROVE  /\ queue' \in Seq(Item) /\ Head(queue) \in Item
         /\ Removed(queue, Head(queue), queue')
         /\ Drops(queue, Head(queue).do, queue')
<1> DEFINE x == Head(queue)
           dx == x.do
<1>1. x \in Item /\ queue' \in Seq(Item) /\ Removed(queue, x, queue')
  BY Removing DEF Typed
<1>2. \A dos : x \in Of(dos) <=> dx \in dos
  BY <1>1, InOf
<1>3. dx \notin ResetStep => \A X : X \subseteq Of(ResetStep) => x \notin X
  BY <1>2
<1> HIDE DEF x, dx
<1>4. Drops(queue, dx, queue')
  BY <1>1, <1>2, <1>3 DEF Removed, Drops
<1> QED BY <1>1, <1>4 DEF x, dx

\* What comes from outside is posted.
LEMMA Posting ==
  ASSUME Typed, NEW y \in Item, queue' = Append(queue, y)
  PROVE  /\ queue' \in Seq(Item)
         /\ Added(queue, y, queue')
         /\ Posted(queue, y.do, queue')
<1> DEFINE dy == y.do
<1>1. queue' \in Seq(Item) /\ Added(queue, y, queue')
  BY Adding DEF Typed
<1>2. \A dos : y \in Of(dos) <=> dy \in dos
  BY InOf
<1>3. dy \notin ResetStep => \A X : X \subseteq Of(ResetStep) => y \notin X
  BY <1>2
<1> HIDE DEF dy
<1>4. Posted(queue, dy, queue')
  BY <1>1, <1>2, <1>3 DEF Added, Posted
<1> QED BY <1>1, <1>4 DEF dy

\* An error is handled: the box is to return.
LEMMA RunErrorKeeps ==
  ASSUME IInv, RunError
  PROVE  IInv'
<1> DEFINE x == Head(queue)
           y == [do |-> "reset", goal |-> [to |-> "connect"]]
<1>1. /\ Typed /\ queue \in Seq(Item) /\ queue # <<>>
      /\ queue' = Append(Tail(queue), y) /\ reported' = TRUE
      /\ clash' = (clash \/ reported \/ conn # "lost")
      /\ UNCHANGED <<phase, handlers, config, dropbox, freed, conn, reading,
                     writing, server, readyFor, timer, shuttingDown>>
  BY DEF IInv, Typed, RunError, Runs, OnError, Posts
<1>2. x \in Item /\ y \in Item /\ x.do \in Error /\ y.do = "reset"
  BY <1>1, Made DEF RunError, Runs, Error
<1>3. queue' \in Seq(Item) /\ Swaps(queue, x.do, "reset", queue')
  BY <1>1, <1>2, Swapping
<1>4. Typed'
  BY <1>1, <1>3, Contained DEF Typed, TypeOK, ControllerTypeOK, Swaps
<1> HIDE DEF x, y
<1>5. SUFFICES ASSUME ~clash'
               PROVE  /\ Lone' /\ Returning' /\ Connecting' /\ Exiting'
                      /\ Quiet' /\ Handled'
  BY <1>4 DEF IInv
<1>6. /\ Lone /\ Returning /\ Connecting /\ Exiting /\ Quiet /\ Handled
      /\ ~reported /\ conn = "lost"
  BY <1>1, <1>5 DEF IInv
<1>7. {x.do, "reset"} \cap ResetStep = {}
      /\ x.do \notin {"dangling", "reset", "connected", "message", "load",
                      "clientDown", "scheduleConnect", "connect"}
  BY <1>2 DEF ResetStep, Error
<1>8. \A X : X \subseteq Of(ResetStep) => Count(queue', X) = Count(queue, X)
  BY <1>3, <1>7 DEF Swaps
<1>9. /\ Lone' /\ Handled' /\ \A to : Toward(to)' <=> Toward(to)
      /\ Count(queue', DownToExit) = Count(queue, DownToExit)
  <2>1. ~Has({"dangling"})'
    BY <1>6, <1>7, <1>3 DEF Lone, Has, Swaps
  <2> QED BY <1>1, <1>3, <1>6, <1>8, <2>1, Beside
<1>10. Returning'
  <2>1. Returns = 0 /\ ~Toward("connect") /\ ~timer
    BY <1>6, <1>3 DEF Returning, Returns, Swaps
  <2> QED BY <1>1, <1>6, <1>7, <1>3, <1>9, <2>1 DEF Returning, Returns, Swaps
<1>11. Has({"message"})' = FALSE
  BY <1>6, <1>7, <1>3, <1>2 DEF Quiet, Has, Swaps
<1>12. Connecting'
  BY SMTT(30), <1>1, <1>6, <1>7, <1>3, <1>9
     DEF Connecting, Has, Over, Clear, Empty, Swaps
<1>13. Exiting'
  BY <1>1, <1>6, <1>7, <1>3, <1>9 DEF Exiting, Has, Swaps
<1>14. Quiet'
  BY SMTT(30), <1>1, <1>6, <1>7, <1>3, <1>9, <1>11
     DEF Quiet, Has, Over, Clear, Empty, Swaps
<1> QED BY <1>9, <1>10, <1>12, <1>13, <1>14

\* What nobody waits for.
Noise == {"request", "stop", "ready", "status", "exit"}

\* Steps that take or post noise, or lose the connection.
LEMMA CalmKeeps ==
  ASSUME IInv, Typed',
         \/ queue' = queue
         \/ \E dx \in Noise : Drops(queue, dx, queue') \/ Posted(queue, dx, queue'),
         DOMAIN handlers' = DOMAIN handlers,
         \A s \in DOMAIN handlers :
            handlers'[s].shuttedDown = handlers[s].shuttedDown,
         UNCHANGED <<config, dropbox, clash, reported, timer, shuttingDown, server>>,
         reading' = reading, conn' = conn \/ (conn = "up" /\ conn' = "lost"),
         conn = "connecting" => readyFor' = readyFor
  PROVE  IInv'
<1>1. SUFFICES ASSUME ~clash'
               PROVE  /\ Lone' /\ Returning' /\ Connecting' /\ Exiting'
                      /\ Quiet' /\ Handled'
  BY DEF IInv
<1>2. Typed /\ Lone /\ Returning /\ Connecting /\ Exiting /\ Quiet /\ Handled
  BY <1>1 DEF IInv
<1>3. /\ \A dos : dos \cap Noise = {} =>
             Count(queue', Of(dos)) = Count(queue, Of(dos))
      /\ \A dos, ends : dos \cap Noise = {} /\ ends \cap Noise = {} =>
            (Before(queue', Of(dos), Of(ends)) => Before(queue, Of(dos), Of(ends)))
      /\ \A X : X \subseteq Of(ResetStep) => Count(queue', X) = Count(queue, X)
  <2>1. ResetStep \cap Noise = {}
    BY DEF ResetStep, Noise
  <2>2. CASE queue' = queue
    BY <2>2
  <2>3. CASE \E dx \in Noise : Drops(queue, dx, queue') \/ Posted(queue, dx, queue')
    <3>1. PICK dx \in Noise : Drops(queue, dx, queue') \/ Posted(queue, dx, queue')
      BY <2>3
    <3>2. dx \notin ResetStep /\ \A dos : dos \cap Noise = {} => dx \notin dos
      BY <2>1, <3>1
    <3> HIDE DEF Noise
    <3>3. CASE Drops(queue, dx, queue')
      BY <3>2, <3>3 DEF Drops
    <3>4. CASE Posted(queue, dx, queue')
      BY <3>2, <3>4 DEF Posted
    <3> QED BY <3>1, <3>3, <3>4
  <2> QED BY <2>2, <2>3
<1>4. \A do \in {"reset", "connected", "message", "load", "clientDown", "dangling",
                 "scheduleConnect", "connect", "readError", "writeError"} :
         do \notin Noise
  BY DEF Noise
<1>5. /\ Lone' /\ Handled' /\ \A to : Toward(to)' <=> Toward(to)
      /\ Count(queue', DownToExit) = Count(queue, DownToExit)
  <2>1. ~Has({"dangling"})'
    BY <1>2, <1>3, <1>4 DEF Lone, Has
  <2>2. queue' \in Seq(Item)
    BY DEF Typed
  <2> QED BY <1>2, <1>3, <2>1, <2>2, Beside
<1>6. Returning'
  BY <1>2, <1>3, <1>4, <1>5 DEF Returning, Returns
<1>7. Connecting'
  BY <1>2, <1>3, <1>4, <1>5 DEF Connecting, Has, Over, Clear, Empty, Error
<1>8. Exiting'
  BY <1>2, <1>3, <1>4, <1>5 DEF Exiting, Has
<1>9. Quiet'
  BY <1>2, <1>3, <1>4, <1>5 DEF Quiet, Has, Over, Clear, Empty, Error
<1> QED BY <1>5, <1>6, <1>7, <1>8, <1>9

\* A request, a stop, a status, ready, the exit, and what the connection does.
LEMMA CalmSteps ==
  ASSUME IInv,
         \/ /\ RunRequest \/ RunStop \/ UseFreedFolder
               \/ \E s \in Sources, streamer \in {"live", "stopped"} :
                     Streams(s, streamer)
            /\ ClientUnchanged
         \/ RunSend \/ RunExit \/ Breaks \/ (WriteEnds /\ conn = "up")
         \/ UNCHANGED vars
  PROVE  IInv'
<1>1. Typed /\ queue \in Seq(Item) /\ DOMAIN config.sources \subseteq Sources
      /\ config.skipped \subseteq Sources
      /\ \A s \in DOMAIN handlers : handlers[s] \in Handler
  BY DEF IInv, Typed, TypeOK, ControllerTypeOK
<1>2. \A s \in DOMAIN handlers, streamer \in {"idle", "live", "stopped"} :
         LET h == [handlers EXCEPT ![s].streamer = streamer]
         IN  /\ DOMAIN h = DOMAIN handlers
             /\ \A r \in DOMAIN handlers :
                   /\ h[r] \in Handler
                   /\ h[r].shuttedDown = handlers[r].shuttedDown
  BY <1>1 DEF Handler
<1>3. CASE (RunRequest \/ RunStop) /\ ClientUnchanged
  <2>1. /\ queue # <<>> /\ queue' = Tail(queue) /\ Head(queue).do \in Noise
        /\ handlers' = handlers \/
              \E s \in DOMAIN handlers, streamer \in {"live", "stopped"} :
                  handlers' = [handlers EXCEPT ![s].streamer = streamer]
        /\ UNCHANGED <<phase, config, dropbox, freed, clash>>
    BY <1>1, <1>3 DEF RunRequest, RunStop, Runs, Posts, Noise
  <2>2. queue' \in Seq(Item) /\ Drops(queue, Head(queue).do, queue')
    BY <1>1, <2>1, Dropping
  <2>3. /\ DOMAIN handlers' = DOMAIN handlers
        /\ \A s \in DOMAIN handlers :
              /\ handlers'[s] \in Handler
              /\ handlers'[s].shuttedDown = handlers[s].shuttedDown
    <3>1. CASE handlers' = handlers
      BY <1>1, <3>1
    <3>2. CASE \E s \in DOMAIN handlers, streamer \in {"live", "stopped"} :
                  handlers' = [handlers EXCEPT ![s].streamer = streamer]
      <4>1. PICK s \in DOMAIN handlers, streamer \in {"live", "stopped"} :
               handlers' = [handlers EXCEPT ![s].streamer = streamer]
        BY <3>2
      <4>2. streamer \in {"idle", "live", "stopped"}
        BY <4>1
      <4> QED BY ZenonT(30), <1>2, <4>1, <4>2
    <3> QED BY <2>1, <3>1, <3>2
  <2>4. Typed'
    BY <1>1, <1>3, <2>1, <2>2, <2>3, Contained
    DEF Typed, TypeOK, ControllerTypeOK, ClientUnchanged, connVars
  <2> QED BY <1>3, <2>1, <2>2, <2>3, <2>4, CalmKeeps
          DEF ClientUnchanged, connVars
<1>4. CASE UseFreedFolder /\ ClientUnchanged
  <2>1. Typed'
    BY <1>1, <1>4 DEF Typed, TypeOK, ControllerTypeOK, ClientUnchanged,
                      connVars, UseFreedFolder
  <2> QED BY <1>4, <2>1, CalmKeeps
          DEF ClientUnchanged, connVars, UseFreedFolder
<1>5. CASE /\ \E s \in Sources, streamer \in {"live", "stopped"} :
                 Streams(s, streamer)
           /\ ClientUnchanged
  <2>1. PICK s \in Sources, streamer \in {"live", "stopped"} : Streams(s, streamer)
    BY <1>5
  <2>2. /\ queue' = Append(queue, [do |-> "status"]) /\ s \in DOMAIN handlers
        /\ handlers' = [handlers EXCEPT ![s].streamer = streamer]
        /\ UNCHANGED <<phase, config, dropbox, freed, clash>>
        /\ [do |-> "status"] \in Item /\ "status" \in Noise
    BY <2>1, Made DEF Streams, Arrives, Noise
  <2>3. queue' \in Seq(Item) /\ Posted(queue, "status", queue')
    BY <1>1, <2>2, Posting
  <2>4. /\ DOMAIN handlers' = DOMAIN handlers
        /\ \A r \in DOMAIN handlers :
              /\ handlers'[r] \in Handler
              /\ handlers'[r].shuttedDown = handlers[r].shuttedDown
    BY ZenonT(30), <1>2, <2>1, <2>2
  <2>5. Typed'
    BY <1>1, <1>5, <2>2, <2>3, <2>4, Contained
    DEF Typed, TypeOK, ControllerTypeOK, ClientUnchanged, connVars
  <2> QED BY <1>5, <2>2, <2>3, <2>4, <2>5, CalmKeeps
          DEF ClientUnchanged, connVars
<1>6. CASE RunSend \/ RunExit
  <2>1. /\ queue # <<>> /\ queue' = Tail(queue) /\ Head(queue).do \in Noise
        /\ conn = "connecting" => readyFor' = readyFor
        /\ readyFor' \in {readyFor, DOMAIN config.sources \cup config.skipped}
        /\ phase' \in {phase, "exited"} /\ writing' \in BOOLEAN
        /\ UNCHANGED <<handlers, config, dropbox, freed, clash, conn, reading,
                       server, reported, timer, shuttingDown>>
    <3>1. CASE RunSend
      BY <3>1 DEF RunSend, Runs, Posts, Noise
    <3>2. CASE RunExit
      <4>1. writing \in BOOLEAN
        BY <1>1 DEF Typed, TypeOK
      <4> QED BY <3>2, <4>1 DEF RunExit, Runs, Posts, Noise, connVars
    <3> QED BY <1>6, <3>1, <3>2
  <2>2. queue' \in Seq(Item) /\ Drops(queue, Head(queue).do, queue')
    BY <1>1, <2>1, Dropping
  <2>3. Typed'
    BY <1>1, <2>1, <2>2, Contained DEF Typed, TypeOK, ControllerTypeOK
  <2> QED BY <2>1, <2>2, <2>3, CalmKeeps
<1>7. CASE Breaks \/ (WriteEnds /\ conn = "up")
  <2>1. /\ UNCHANGED <<controllerVars, reading, server, readyFor, reported,
                       timer, shuttingDown>>
        /\ conn' = conn \/ (conn = "up" /\ conn' = "lost")
        /\ writing' \in BOOLEAN
    <3>1. writing \in BOOLEAN
      BY <1>1 DEF Typed, TypeOK
    <3> QED BY <1>7, <3>1 DEF Breaks, WriteEnds, controllerVars
  <2>2. Typed'
    BY <1>1, <2>1 DEF Typed, TypeOK, ControllerTypeOK, controllerVars
  <2> QED BY <2>1, <2>2, CalmKeeps DEF controllerVars
<1>8. CASE UNCHANGED vars
  <2>1. Typed'
    BY <1>1, <1>8
       DEF Typed, TypeOK, ControllerTypeOK, vars, controllerVars, connVars
  <2> QED BY <1>8, <2>1, CalmKeeps DEF vars, controllerVars, connVars
<1> QED BY <1>3, <1>4, <1>5, <1>6, <1>7, <1>8

\* An error arrives from a lost connection.
LEMMA ErrorKeeps ==
  ASSUME IInv, ReadFails \/ (WriteEnds /\ conn = "lost")
  PROVE  IInv'
<1>1. PICK do \in Error : queue' = Append(queue, [do |-> do])
  BY DEF ReadFails, WriteEnds, Arrives, Error
<1>2. /\ Typed /\ queue \in Seq(Item) /\ [do |-> do] \in Item
      /\ conn = "lost" /\ reading' \in BOOLEAN /\ writing' \in BOOLEAN
      /\ ~reading => ~reading'
      /\ UNCHANGED <<phase, handlers, config, dropbox, freed, clash, conn,
                     server, readyFor, reported, timer, shuttingDown>>
  <2>1. Typed /\ reading \in BOOLEAN /\ writing \in BOOLEAN
    BY DEF IInv, Typed, TypeOK
  <2>2. queue \in Seq(Item) /\ [do |-> do] \in Item
    BY <1>1, <2>1, Made DEF Typed, Error
  <2>3. CASE ReadFails
    BY <2>1, <2>2, <2>3 DEF ReadFails
  <2>4. CASE WriteEnds /\ conn = "lost"
    BY <2>1, <2>2, <2>4 DEF WriteEnds, Arrives
  <2> QED BY <2>3, <2>4
<1>3. queue' \in Seq(Item) /\ Posted(queue, do, queue')
  BY <1>1, <1>2, Posting
<1>4. Typed'
  BY <1>2, <1>3, Contained DEF Typed, TypeOK, ControllerTypeOK
<1>5. SUFFICES ASSUME ~clash'
               PROVE  /\ Lone' /\ Returning' /\ Connecting' /\ Exiting'
                      /\ Quiet' /\ Handled'
  BY <1>4 DEF IInv
<1>6. Lone /\ Returning /\ Connecting /\ Exiting /\ Quiet /\ Handled
  BY <1>2, <1>5 DEF IInv
<1>7. /\ do \notin ResetStep
      /\ do \notin {"dangling", "reset", "connected", "message", "load",
                    "clientDown", "scheduleConnect", "connect"}
  BY <1>1 DEF ResetStep, Error
<1>8. \A X : X \subseteq Of(ResetStep) => Count(queue', X) = Count(queue, X)
  BY <1>3, <1>7 DEF Posted
<1>9. /\ Lone' /\ Handled' /\ \A to : Toward(to)' <=> Toward(to)
      /\ Count(queue', DownToExit) = Count(queue, DownToExit)
  <2>1. ~Has({"dangling"})'
    BY <1>6, <1>7, <1>3 DEF Lone, Has, Posted
  <2> QED BY <1>2, <1>3, <1>6, <1>8, <2>1, Beside
<1>10. Returning'
  BY <1>2, <1>3, <1>6, <1>7, <1>9 DEF Returning, Returns, Posted
<1>11. Connecting'
  BY <1>2, <1>3, <1>6, <1>7, <1>9 DEF Connecting, Has, Over, Clear, Empty, Posted
<1>12. Exiting'
  BY <1>2, <1>3, <1>6, <1>7, <1>9 DEF Exiting, Has, Posted
<1>13. Quiet'
  BY <1>2, <1>3, <1>6, <1>7, <1>9 DEF Quiet, Has, Over, Clear, Empty, Posted
<1> QED BY <1>9, <1>10, <1>11, <1>12, <1>13

\* Kinds that are among others.
Counts(q) ==
    /\ \A dos : Count(q, Of(dos)) \in Nat
    /\ \A dos, all : dos \subseteq all =>
           Count(q, Of(dos)) <= Count(q, Of(all))
    /\ \A dos, ends : Before(q, Of(dos), Of(ends)) =>
                          Count(q, Of(dos)) > 0 /\ Count(q, Of(ends)) > 0

\* All queues count and order the kinds of items so.
LEMMA KindsCounted ==
  ASSUME NEW q \in Seq(Item)
  PROVE  Counts(q)
<1>1. \A dos, all : dos \subseteq all => Of(dos) \subseteq Of(all)
  BY DEF Of
<1>2. \A dos, ends : Before(q, Of(dos), Of(ends)) =>
                        Count(q, Of(dos)) > 0 /\ Count(q, Of(ends)) > 0
  BY OrderCounts
<1> QED BY <1>1, <1>2, Counted DEF Counts

\* The connection is made, or fails.
LEMMA ConnectedKeeps ==
  ASSUME IInv, NEW ok \in BOOLEAN, Connected(ok)
  PROVE  IInv'
<1>1. /\ Typed /\ queue \in Seq(Item) /\ conn = "connecting"
      /\ queue' = Append(queue, [do |-> "connected", ok |-> ok])
      /\ [do |-> "connected", ok |-> ok] \in Item
      /\ conn' = "up" \/ conn' = "lost"
      /\ conn' = "up" => ~shuttingDown
      /\ UNCHANGED <<phase, handlers, config, dropbox, freed, clash, timer,
                     reading, writing, server, readyFor, reported, shuttingDown>>
  BY Made DEF IInv, Typed, Connected, Arrives
<1>2. queue' \in Seq(Item) /\ Posted(queue, "connected", queue')
  BY <1>1, Posting
<1>3. Typed'
  BY <1>1, <1>2, Contained DEF Typed, TypeOK, ControllerTypeOK
<1>4. SUFFICES ASSUME ~clash'
               PROVE  /\ Lone' /\ Returning' /\ Connecting' /\ Exiting'
                      /\ Quiet' /\ Handled'
  BY <1>3 DEF IInv
<1>5. Lone /\ Returning /\ Connecting /\ Exiting /\ Quiet /\ Handled
  BY <1>1, <1>4 DEF IInv
<1>6. /\ Counts(queue) /\ Counts(queue')
      /\ \A X : X \subseteq Of(ResetStep) => Count(queue', X) = Count(queue, X)
  <2>1. "connected" \notin ResetStep
    BY DEF ResetStep
  <2> QED BY <1>1, <1>2, <2>1, KindsCounted DEF Posted, Typed
<1>7. /\ Returns = 0 /\ ~Has({"reset", "scheduleConnect", "connect"})
      /\ ~Toward("connect") /\ ~timer /\ ~Has({"connected"})
      /\ ~Has({"reset"}) /\ ~Over
  <2>1. Returns = 0 /\ ~Has({"connected"})
    BY <1>1, <1>5, <1>6 DEF Returning, Returns, Connecting, Has, Counts
  <2>2. /\ ~Has({"reset", "scheduleConnect", "connect"})
        /\ ~Toward("connect") /\ ~timer
    BY <1>6, <2>1 DEF Returns, Has, Counts
  <2>3. /\ {"reset"} \subseteq {"reset", "scheduleConnect", "connect"}
        /\ {"scheduleConnect", "connect"} \subseteq {"reset", "scheduleConnect", "connect"}
    OBVIOUS
  <2> QED BY <1>6, <2>1, <2>2, <2>3 DEF Counts, Has, Over
<1>8. /\ Lone' /\ Handled' /\ \A to : Toward(to)' <=> Toward(to)
      /\ Count(queue', DownToExit) = Count(queue, DownToExit)
  <2>1. ~Has({"dangling"})'
    BY <1>2, <1>5 DEF Lone, Has, Posted
  <2> QED BY <1>1, <1>2, <1>5, <1>6, <2>1, Beside
<1>9. Returning'
  BY <1>1, <1>2, <1>5, <1>6, <1>8 DEF Returning, Returns, Posted
<1>10. Connecting'
  BY SMTT(30), <1>1, <1>2, <1>5, <1>6, <1>7, <1>8
     DEF Connecting, Has, Over, Clear, Empty, Counts, Posted
<1>11. Exiting'
  BY <1>1, <1>2, <1>5, <1>6, <1>8 DEF Exiting, Has, Posted
<1>12. Quiet'
  BY SMTT(30), <1>1, <1>2, <1>5, <1>6, <1>8
     DEF Quiet, Has, Over, Clear, Empty, Counts, Posted
<1> QED BY <1>8, <1>9, <1>10, <1>11, <1>12

\* The timer expires.
LEMMA TimerExpiresKeeps ==
  ASSUME IInv, TimerExpires
  PROVE  IInv'
<1>1. /\ Typed /\ queue \in Seq(Item) /\ timer /\ timer' \in BOOLEAN /\ ~timer'
      /\ queue' = Append(queue, [do |-> "connect"])
      /\ [do |-> "connect"] \in Item
      /\ UNCHANGED <<phase, handlers, config, dropbox, freed, clash, conn,
                     reading, writing, server, readyFor, reported, shuttingDown>>
  BY Made DEF IInv, Typed, TimerExpires, connVars
<1>2. queue' \in Seq(Item) /\ Posted(queue, "connect", queue')
  BY <1>1, Posting
<1>3. Typed'
  BY <1>1, <1>2, Contained DEF Typed, TypeOK, ControllerTypeOK
<1>4. SUFFICES ASSUME ~clash'
               PROVE  /\ Lone' /\ Returning' /\ Connecting' /\ Exiting'
                      /\ Quiet' /\ Handled'
  BY <1>3 DEF IInv
<1>5. Lone /\ Returning /\ Connecting /\ Exiting /\ Quiet /\ Handled
  BY <1>1, <1>4 DEF IInv
<1>6. /\ Counts(queue) /\ Counts(queue')
      /\ \A X : X \subseteq Of(ResetStep) => Count(queue', X) = Count(queue, X)
  <2>1. "connect" \notin ResetStep
    BY DEF ResetStep
  <2> QED BY <1>1, <1>2, <2>1, KindsCounted DEF Posted, Typed
<1>7. Over /\ conn = "lost"
  BY <1>1, <1>5, <1>6 DEF Over, Returning, Returns, Counts
<1>8. /\ Lone' /\ Handled' /\ \A to : Toward(to)' <=> Toward(to)
      /\ Count(queue', DownToExit) = Count(queue, DownToExit)
  <2>1. ~Has({"dangling"})'
    BY <1>2, <1>5 DEF Lone, Has, Posted
  <2> QED BY <1>1, <1>2, <1>5, <1>6, <2>1, Beside
<1>9. Returning'
  BY <1>1, <1>2, <1>5, <1>6, <1>8 DEF Returning, Returns, Posted
<1>10. Connecting'
  BY <1>1, <1>2, <1>5, <1>6, <1>7, <1>8
     DEF Connecting, Has, Over, Clear, Empty, Counts, Posted
<1>11. Exiting'
  BY <1>1, <1>2, <1>5, <1>6, <1>8 DEF Exiting, Has, Posted
<1>12. Quiet'
  BY <1>1, <1>2, <1>5, <1>6, <1>7, <1>8 DEF Quiet, Has, Clear, Empty, Counts, Posted
<1> QED BY <1>8, <1>9, <1>10, <1>11, <1>12

\* A signal arrives.
LEMMA SignalKeeps ==
  ASSUME IInv, Signal
  PROVE  IInv'
<1>1. /\ Typed /\ queue \in Seq(Item) /\ timer' \in BOOLEAN /\ ~timer'
      /\ shuttingDown' \in BOOLEAN /\ shuttingDown'
      /\ queue' = Append(queue, [do |-> "clientDown"])
      /\ [do |-> "clientDown"] \in Item
      /\ conn' = conn \/ conn' = "lost"
      /\ conn' # "up" /\ (conn # "up" => conn' = conn)
      /\ UNCHANGED <<phase, handlers, config, dropbox, freed, clash,
                     reading, writing, server, readyFor, reported>>
  BY Made DEF IInv, Typed, Signal
<1>2. queue' \in Seq(Item) /\ Posted(queue, "clientDown", queue')
  BY <1>1, Posting
<1>3. Typed'
  BY <1>1, <1>2, Contained DEF Typed, TypeOK, ControllerTypeOK
<1>4. SUFFICES ASSUME ~clash'
               PROVE  /\ Lone' /\ Returning' /\ Connecting' /\ Exiting'
                      /\ Quiet' /\ Handled'
  BY <1>3 DEF IInv
<1>5. Lone /\ Returning /\ Connecting /\ Exiting /\ Quiet /\ Handled
  BY <1>1, <1>4 DEF IInv
<1>6. /\ Counts(queue) /\ Counts(queue')
      /\ \A X : X \subseteq Of(ResetStep) => Count(queue', X) = Count(queue, X)
  <2>1. "clientDown" \notin ResetStep
    BY DEF ResetStep
  <2> QED BY <1>1, <1>2, <2>1, KindsCounted DEF Posted, Typed
<1>7. conn' = "connecting" => conn = "connecting"
  BY <1>1
<1>8. /\ Lone' /\ Handled' /\ \A to : Toward(to)' <=> Toward(to)
      /\ Count(queue', DownToExit) = Count(queue, DownToExit)
  <2>1. ~Has({"dangling"})'
    BY <1>2, <1>5 DEF Lone, Has, Posted
  <2> QED BY <1>1, <1>2, <1>5, <1>6, <2>1, Beside
<1>9. Returning'
  BY <1>1, <1>2, <1>5, <1>6, <1>8 DEF Returning, Returns, Posted
<1>10. Connecting'
  BY SMTT(30), <1>1, <1>2, <1>5, <1>6, <1>7, <1>8
     DEF Connecting, Has, Over, Clear, Empty, Counts, Posted
<1>11. Exiting'
  BY <1>1, <1>2, <1>5, <1>6, <1>8 DEF Exiting, Has, Posted
<1>12. Quiet'
  BY SMTT(30), <1>1, <1>2, <1>5, <1>6, <1>8
     DEF Quiet, Has, Over, Clear, Empty, Counts, Posted
<1> QED BY <1>8, <1>9, <1>10, <1>11, <1>12

\* The reset is over.
LEMMA RunScheduleConnectKeeps ==
  ASSUME IInv, RunScheduleConnect
  PROVE  IInv'
<1>1. /\ Typed /\ queue \in Seq(Item) /\ queue # <<>>
      /\ queue' = Tail(queue) /\ Head(queue).do = "scheduleConnect"
      /\ timer' \in BOOLEAN
      /\ UNCHANGED <<phase, handlers, config, dropbox, freed, clash, conn,
                     reading, writing, server, readyFor, reported, shuttingDown>>
  BY DEF IInv, Typed, RunScheduleConnect, Runs, Posts, connVars
<1>2. queue' \in Seq(Item) /\ Drops(queue, "scheduleConnect", queue')
  BY <1>1, Dropping
<1>3. Typed'
  BY <1>1, <1>2, Contained DEF Typed, TypeOK, ControllerTypeOK
<1>4. SUFFICES ASSUME ~clash'
               PROVE  /\ Lone' /\ Returning' /\ Connecting' /\ Exiting'
                      /\ Quiet' /\ Handled'
  BY <1>3 DEF IInv
<1>5. Lone /\ Returning /\ Connecting /\ Exiting /\ Quiet /\ Handled
  BY <1>1, <1>4 DEF IInv
<1>6. /\ Counts(queue) /\ Counts(queue')
      /\ \A X : X \subseteq Of(ResetStep) => Count(queue', X) = Count(queue, X)
  <2>1. "scheduleConnect" \notin ResetStep
    BY DEF ResetStep
  <2> QED BY <1>1, <1>2, <2>1, KindsCounted DEF Drops, Typed
<1>7. Over /\ ~timer
  <2>1. ~timer
    BY <1>2, <1>5 DEF Returning, Returns, Drops
  <2> QED BY <1>2, <2>1 DEF Over, Has, Drops
<1>8. /\ Lone' /\ Handled' /\ \A to : Toward(to)' <=> Toward(to)
      /\ Count(queue', DownToExit) = Count(queue, DownToExit)
  <2>1. ~Has({"dangling"})'
    BY <1>2, <1>5 DEF Lone, Has, Drops
  <2> QED BY <1>1, <1>2, <1>5, <1>6, <2>1, Beside
<1>9. Returning'
  BY <1>1, <1>2, <1>5, <1>6, <1>7, <1>8 DEF Returning, Returns, Drops
<1>10. Connecting'
  BY <1>1, <1>2, <1>5, <1>6, <1>7, <1>8
     DEF Connecting, Has, Clear, Empty, Counts, Drops
<1>11. Exiting'
  BY <1>1, <1>2, <1>5, <1>6, <1>8 DEF Exiting, Has, Drops
<1>12. Quiet'
  BY <1>1, <1>2, <1>5, <1>6, <1>7, <1>8 DEF Quiet, Has, Clear, Empty, Counts, Drops
<1> QED BY <1>8, <1>9, <1>10, <1>11, <1>12

\* The box connects again.
LEMMA RunConnectKeeps ==
  ASSUME IInv, RunConnect
  PROVE  IInv'
<1>1. /\ Typed /\ queue \in Seq(Item) /\ queue # <<>>
      /\ queue' = Tail(queue) /\ Head(queue).do = "connect"
      /\ \/ conn' = "connecting" /\ NewConnection
         \/ UNCHANGED connVars
      /\ UNCHANGED <<phase, handlers, config, dropbox, freed, clash, timer,
                     shuttingDown>>
  BY DEF IInv, Typed, RunConnect, Runs, Posts
<1>2. queue' \in Seq(Item) /\ Drops(queue, "connect", queue')
  BY <1>1, Dropping
<1>3. Typed'
  <2>1. /\ reading' \in BOOLEAN /\ writing' \in BOOLEAN
        /\ reported' \in BOOLEAN
        /\ server' \in {"silent", "greeting", "config"}
        /\ readyFor' \in SUBSET Sources
        /\ conn' \in {"invalid", "connecting", "up", "lost"}
    BY <1>1 DEF Typed, TypeOK, NewConnection, connVars
  <2> QED BY <1>1, <1>2, <2>1, Contained DEF Typed, TypeOK, ControllerTypeOK
<1>4. SUFFICES ASSUME ~clash'
               PROVE  /\ Lone' /\ Returning' /\ Connecting' /\ Exiting'
                      /\ Quiet' /\ Handled'
  BY <1>3 DEF IInv
<1>5. Lone /\ Returning /\ Connecting /\ Exiting /\ Quiet /\ Handled
  BY <1>1, <1>4 DEF IInv
<1>6. /\ Counts(queue) /\ Counts(queue')
      /\ \A X : X \subseteq Of(ResetStep) => Count(queue', X) = Count(queue, X)
  <2>1. "connect" \notin ResetStep
    BY DEF ResetStep
  <2> QED BY <1>1, <1>2, <2>1, KindsCounted DEF Drops, Typed
<1>7. Over /\ Returns = 1 /\ conn = "lost"
  <2>1. Returns = 1 /\ conn = "lost"
    BY <1>2, <1>5 DEF Returning, Returns, Drops
  <2> QED BY <1>2, <2>1 DEF Over, Has, Drops
<1>8. /\ Lone' /\ Handled' /\ \A to : Toward(to)' <=> Toward(to)
      /\ Count(queue', DownToExit) = Count(queue, DownToExit)
  <2>1. ~Has({"dangling"})'
    BY <1>2, <1>5 DEF Lone, Has, Drops
  <2> QED BY <1>1, <1>2, <1>5, <1>6, <2>1, Beside
<1>9. Returning'
  <2>1. Returns' = 0
    BY <1>1, <1>2, <1>7, <1>8 DEF Returns, Drops
  <2> QED BY <2>1 DEF Returning
<1>10. Connecting'
  BY <1>1, <1>2, <1>5, <1>6, <1>7, <1>8
  DEF Connecting, Quiet, Has, Clear, Empty, Counts, Drops, NewConnection, connVars
<1>11. Exiting'
  BY <1>1, <1>2, <1>5, <1>6, <1>7, <1>8
     DEF Exiting, Has, Drops, NewConnection, connVars
<1>12. Quiet'
  BY <1>1, <1>2, <1>5, <1>6, <1>7, <1>8 DEF Quiet, Has, Clear, Empty, Counts, Drops
<1> QED BY <1>8, <1>9, <1>10, <1>11, <1>12

\* A message arrives.
LEMMA ReadCompletesKeeps ==
  ASSUME IInv, NEW message \in Message, ReadCompletes(message)
  PROVE  IInv'
<1> DEFINE after == message.type = "request" /\ message.source \in readyFor
           y == [do |-> "message", message |-> message, afterReady |-> after]
<1>1. /\ Typed /\ queue \in Seq(Item) /\ reading /\ conn = "up"
      /\ queue' = Append(queue, y) /\ y \in Item /\ y.do = "message"
      /\ reading' \in BOOLEAN /\ ~reading' /\ server' \in {server, "silent"}
      /\ UNCHANGED <<phase, handlers, config, dropbox, freed, clash, conn,
                     writing, readyFor, reported, timer, shuttingDown>>
  <2>1. server' \in {server, "silent"}
    BY DEF ReadCompletes, Sends, Message
  <2> QED BY <2>1, Made DEF IInv, Typed, ReadCompletes, Arrives
<1>2. queue' \in Seq(Item) /\ Posted(queue, "message", queue')
  BY <1>1, Posting
<1> HIDE DEF y
<1>3. Typed'
  BY <1>1, <1>2, Contained DEF Typed, TypeOK, ControllerTypeOK
<1>4. SUFFICES ASSUME ~clash'
               PROVE  /\ Lone' /\ Returning' /\ Connecting' /\ Exiting'
                      /\ Quiet' /\ Handled'
  BY <1>3 DEF IInv
<1>5. Lone /\ Returning /\ Connecting /\ Exiting /\ Quiet /\ Handled
  BY <1>1, <1>4 DEF IInv
<1>6. /\ Counts(queue) /\ Counts(queue')
      /\ \A X : X \subseteq Of(ResetStep) => Count(queue', X) = Count(queue, X)
  <2>1. "message" \notin ResetStep
    BY DEF ResetStep
  <2> QED BY <1>1, <1>2, <2>1, KindsCounted DEF Posted, Typed
<1>7. /\ ~Has({"connected"}) /\ ~Has(Error \cup {"clientDown"})
      /\ ~Has({"reset"})
      /\ ~Over /\ ~Toward("connect") /\ ~Toward("exit") /\ ~dropbox.gone
  <2>1. ~Has({"connected"}) /\ ~Has(Error)
    BY <1>1, <1>5 DEF Connecting
  <2>2. ~Has({"clientDown"}) /\ ~Toward("exit") /\ ~dropbox.gone
    BY <1>1, <1>5 DEF Exiting
  <2>3. ~Has(Error \cup {"clientDown"})
    BY <1>1, <2>1, <2>2, Counted DEF Has
  <2>4. Returns = 0
    BY <1>1, <1>5, <1>6 DEF Returning, Returns, Counts
  <2>5. /\ ~Has({"reset", "scheduleConnect", "connect"})
        /\ ~Toward("connect") /\ ~timer
    BY <1>6, <2>4 DEF Returns, Has, Counts
  <2>6. /\ {"reset"} \subseteq {"reset", "scheduleConnect", "connect"}
        /\ {"scheduleConnect", "connect"} \subseteq {"reset", "scheduleConnect", "connect"}
    OBVIOUS
  <2> QED BY <1>6, <2>1, <2>2, <2>3, <2>5, <2>6 DEF Counts, Has, Over
<1>8. /\ Lone' /\ Handled' /\ \A to : Toward(to)' <=> Toward(to)
      /\ Count(queue', DownToExit) = Count(queue, DownToExit)
  <2>1. ~Has({"dangling"})'
    BY <1>2, <1>5 DEF Lone, Has, Posted
  <2> QED BY <1>1, <1>2, <1>5, <1>6, <2>1, Beside
<1>9. Returning'
  BY <1>1, <1>2, <1>5, <1>6, <1>8 DEF Returning, Returns, Posted
<1>10. Connecting'
  BY <1>1, <1>2, <1>5, <1>6, <1>7, <1>8
     DEF Connecting, Has, Over, Clear, Empty, Counts, Posted, Error
<1>11. Exiting'
  BY <1>1, <1>2, <1>5, <1>6, <1>8 DEF Exiting, Has, Posted
<1>12. Quiet'
  BY <1>1, <1>2, <1>5, <1>6, <1>7, <1>8
     DEF Quiet, Has, Over, Clear, Empty, Counts, Posted, Error
<1> QED BY <1>8, <1>9, <1>10, <1>11, <1>12

\* The box is connected, and reads.
LEMMA GreetsKeeps ==
  ASSUME IInv, RunConnected, Head(queue).ok
  PROVE  IInv'
<1>1. /\ Typed /\ queue \in Seq(Item) /\ queue # <<>>
      /\ queue' = Tail(queue) /\ Head(queue).do = "connected"
      /\ reading' \in BOOLEAN /\ writing' \in BOOLEAN
      /\ server' \in {"silent", "greeting", "config"}
      /\ UNCHANGED <<phase, handlers, config, dropbox, freed, clash, conn,
                     readyFor, reported, timer, shuttingDown>>
  BY DEF IInv, Typed, RunConnected, Runs, Posts
<1>2. queue' \in Seq(Item) /\ Drops(queue, "connected", queue')
  BY <1>1, Dropping
<1>3. Typed'
  BY <1>1, <1>2, Contained DEF Typed, TypeOK, ControllerTypeOK
<1>4. SUFFICES ASSUME ~clash'
               PROVE  /\ Lone' /\ Returning' /\ Connecting' /\ Exiting'
                      /\ Quiet' /\ Handled'
  BY <1>3 DEF IInv
<1>5. Lone /\ Returning /\ Connecting /\ Exiting /\ Quiet /\ Handled
  BY <1>1, <1>4 DEF IInv
<1>6. /\ Counts(queue) /\ Counts(queue')
      /\ \A X : X \subseteq Of(ResetStep) => Count(queue', X) = Count(queue, X)
  <2>1. "connected" \notin ResetStep
    BY DEF ResetStep
  <2> QED BY <1>1, <1>2, <2>1, KindsCounted DEF Drops, Typed
<1>7. /\ Has({"connected"}) /\ ~Has({"connected"})' /\ conn # "connecting"
      /\ conn = "up" => ~Has(Error)'
  <2>1. Has({"connected"}) /\ ~Has({"connected"})' /\ conn # "connecting"
    BY <1>2, <1>5 DEF Connecting, Has, Drops
  <2>2. conn = "up" => Count(queue', Of(Error)) = 0
    BY <1>2, <1>5 DEF Connecting, Drops
  <2> QED BY <2>1, <2>2 DEF Has
<1>8. /\ Lone' /\ Handled' /\ \A to : Toward(to)' <=> Toward(to)
      /\ Count(queue', DownToExit) = Count(queue, DownToExit)
  <2>1. ~Has({"dangling"})'
    BY <1>2, <1>5 DEF Lone, Has, Drops
  <2> QED BY <1>1, <1>2, <1>5, <1>6, <2>1, Beside
<1>9. Returning'
  BY <1>1, <1>2, <1>5, <1>6, <1>8 DEF Returning, Returns, Drops
<1>10. Connecting'
  BY <1>1, <1>2, <1>5, <1>6, <1>7, <1>8
     DEF Connecting, Has, Over, Clear, Empty, Counts, Drops
<1>11. Exiting'
  BY <1>1, <1>2, <1>5, <1>6, <1>8 DEF Exiting, Has, Drops
<1>12. Quiet'
  BY <1>1, <1>2, <1>5, <1>6, <1>8 DEF Quiet, Has, Over, Clear, Empty, Counts, Drops
<1> QED BY <1>8, <1>9, <1>10, <1>11, <1>12

\* The connection has failed: the box is to return.
LEMMA RefusedKeeps ==
  ASSUME IInv, RunConnected, ~Head(queue).ok
  PROVE  IInv'
<1> DEFINE y == [do |-> "reset", goal |-> [to |-> "connect"]]
<1>1. /\ Typed /\ queue \in Seq(Item) /\ queue # <<>>
      /\ queue' = Append(Tail(queue), y) /\ y \in Item /\ y.do = "reset"
      /\ Head(queue).do = "connected"
      /\ clash' = (clash \/ reported \/ conn # "lost")
      /\ reported' = TRUE
      /\ UNCHANGED <<phase, handlers, config, dropbox, freed, conn, reading,
                     writing, server, readyFor, timer, shuttingDown>>
  <2>1. y \in Item /\ y.do = "reset"
    BY Made
  <2>2. Typed /\ queue \in Seq(Item)
    BY DEF IInv, Typed
  <2> QED BY <2>1, <2>2 DEF RunConnected, Runs, OnError, Posts
<1>2. queue' \in Seq(Item) /\ Swaps(queue, "connected", "reset", queue')
  BY <1>1, Swapping
<1> HIDE DEF y
<1>3. Typed'
  BY <1>1, <1>2, Contained DEF Typed, TypeOK, ControllerTypeOK
<1>4. SUFFICES ASSUME ~clash'
               PROVE  /\ Lone' /\ Returning' /\ Connecting' /\ Exiting'
                      /\ Quiet' /\ Handled'
  BY <1>3 DEF IInv
<1>5. Lone /\ Returning /\ Connecting /\ Exiting /\ Quiet /\ Handled
  BY <1>1, <1>4 DEF IInv
<1>6. /\ Counts(queue) /\ Counts(queue')
      /\ \A X : X \subseteq Of(ResetStep) => Count(queue', X) = Count(queue, X)
  <2>1. {"connected", "reset"} \cap ResetStep = {}
    BY DEF ResetStep
  <2> QED BY <1>1, <1>2, <2>1, KindsCounted DEF Swaps, Typed
<1>7. /\ Returns = 0 /\ conn = "lost" /\ ~Toward("connect") /\ ~timer
      /\ Has({"connected"}) /\ ~Has({"connected"})' /\ ~Has({"message"})'
  <2>0. ~reported /\ conn = "lost"
    BY <1>1, <1>4
  <2>1. Returns = 0 /\ conn = "lost"
    BY <1>5, <1>6, <2>0 DEF Returning, Returns, Counts
  <2>2. ~Toward("connect") /\ ~timer
    BY <1>6, <2>1 DEF Returns, Counts
  <2>3. Has({"connected"}) /\ ~Has({"connected"})'
    BY <1>2, <1>5 DEF Connecting, Has, Swaps
  <2>4. ~Has({"message", "load"})
    BY <1>5, <2>3 DEF Connecting
  <2>5. ~Has({"message"})
    BY <1>6, <2>4 DEF Has, Counts
  <2> QED BY <1>2, <2>1, <2>2, <2>3, <2>5 DEF Has, Swaps
<1>8. /\ Lone' /\ Handled' /\ \A to : Toward(to)' <=> Toward(to)
      /\ Count(queue', DownToExit) = Count(queue, DownToExit)
  <2>1. ~Has({"dangling"})'
    BY <1>2, <1>5 DEF Lone, Has, Swaps
  <2> QED BY <1>1, <1>2, <1>5, <1>6, <2>1, Beside
<1>9. Returning'
  BY <1>1, <1>2, <1>5, <1>7, <1>8 DEF Returning, Returns, Swaps
<1>10. Connecting'
  BY <1>1, <1>2, <1>5, <1>6, <1>7, <1>8
     DEF Connecting, Has, Over, Clear, Empty, Counts, Swaps
<1>11. Exiting'
  BY <1>1, <1>2, <1>5, <1>6, <1>8 DEF Exiting, Has, Swaps
<1>12. Quiet'
  BY <1>1, <1>2, <1>5, <1>6, <1>7, <1>8
     DEF Quiet, Has, Over, Clear, Empty, Counts, Swaps
<1> QED BY <1>8, <1>9, <1>10, <1>11, <1>12

\* The greeting is answered.
LEMMA GreetedKeeps ==
  ASSUME IInv, RunMessage, Head(queue).message.type = "greeting"
  PROVE  IInv'
<1>1. /\ Typed /\ queue \in Seq(Item) /\ queue # <<>>
      /\ queue' = Tail(queue) /\ Head(queue).do = "message"
      /\ reading' \in BOOLEAN /\ writing' \in BOOLEAN
      /\ server' \in {"silent", "greeting", "config"}
      /\ UNCHANGED <<phase, handlers, config, dropbox, freed, clash, conn,
                     readyFor, reported, timer, shuttingDown>>
  BY DEF IInv, Typed, RunMessage, Runs, Posts
<1>2. queue' \in Seq(Item) /\ Drops(queue, "message", queue')
  BY <1>1, Dropping
<1>3. Typed'
  BY <1>1, <1>2, Contained DEF Typed, TypeOK, ControllerTypeOK
<1>4. SUFFICES ASSUME ~clash'
               PROVE  /\ Lone' /\ Returning' /\ Connecting' /\ Exiting'
                      /\ Quiet' /\ Handled'
  BY <1>3 DEF IInv
<1>5. Lone /\ Returning /\ Connecting /\ Exiting /\ Quiet /\ Handled
  BY <1>1, <1>4 DEF IInv
<1>6. /\ Counts(queue) /\ Counts(queue')
      /\ \A X : X \subseteq Of(ResetStep) => Count(queue', X) = Count(queue, X)
  <2>1. "message" \notin ResetStep
    BY DEF ResetStep
  <2> QED BY <1>1, <1>2, <2>1, KindsCounted DEF Drops, Typed
<1>7. /\ Has({"message"}) /\ Has({"message", "load"})
      /\ conn # "connecting" /\ ~Has({"connected"}) /\ ~Has({"reset"})
      /\ ~Over /\ ~Toward("connect") /\ ~Toward("exit") /\ ~dropbox.gone
  <2>1. Has({"message"}) /\ Has({"message", "load"})
    <3>1. Has({"message"})
      BY <1>2 DEF Has, Drops
    <3> QED BY <1>6, <3>1 DEF Has, Counts
  <2>2. conn # "connecting" /\ ~Has({"connected"})
    BY <1>5, <2>1 DEF Connecting
  <2> QED BY <1>5, <2>1, <2>2 DEF Quiet
<1>8. /\ Lone' /\ Handled' /\ \A to : Toward(to)' <=> Toward(to)
      /\ Count(queue', DownToExit) = Count(queue, DownToExit)
  <2>1. ~Has({"dangling"})'
    BY <1>2, <1>5 DEF Lone, Has, Drops
  <2> QED BY <1>1, <1>2, <1>5, <1>6, <2>1, Beside
<1>9. Returning'
  BY <1>1, <1>2, <1>5, <1>6, <1>8 DEF Returning, Returns, Drops
<1>10. Connecting'
  BY <1>1, <1>2, <1>5, <1>6, <1>7, <1>8
     DEF Connecting, Has, Over, Clear, Empty, Counts, Error, Drops
<1>11. Exiting'
  BY <1>1, <1>2, <1>5, <1>6, <1>8 DEF Exiting, Has, Drops
<1>12. Quiet'
  BY <1>1, <1>2, <1>5, <1>6, <1>7, <1>8
     DEF Quiet, Has, Over, Clear, Empty, Counts, Error, Drops
<1> QED BY <1>8, <1>9, <1>10, <1>11, <1>12

\* What a message makes of itself.
LEMMA Unpacked ==
  ASSUME NEW x \in Item, x.do = "message", x.message.type # "greeting"
  PROVE  /\ ToController(x) \in Item
         /\ ToController(x).do \in {"load", "request", "stop"}
<1>1. x.message \in Message /\ x.afterReady \in BOOLEAN
  BY Parts
<1>2. CASE x.message.type \in {"config", "updated"}
  <2>1. x.message.config \in Configs
    BY <1>1, <1>2 DEF Message
  <2> QED BY <1>2, <2>1, Made DEF ToController
<1>3. CASE x.message.type \in {"request", "stop"}
  <2>1. x.message.source \in Sources
    BY <1>1, <1>3 DEF Message
  <2> QED BY <1>1, <1>3, <2>1, Made DEF ToController
<1>4. x.message.type \in {"config", "updated", "request", "stop"}
  BY <1>1 DEF Message
<1> QED BY <1>2, <1>3, <1>4

\* A message is passed to the controller.
LEMMA InstructedKeeps ==
  ASSUME IInv, RunMessage, Head(queue).message.type # "greeting"
  PROVE  IInv'
<1> DEFINE y == ToController(Head(queue))
           do == y.do
<1>1. /\ Typed /\ queue \in Seq(Item) /\ queue # <<>>
      /\ queue' = Append(Tail(queue), y) /\ Head(queue).do = "message"
      /\ y \in Item /\ do \in {"load", "request", "stop"}
      /\ reading' \in BOOLEAN
      /\ UNCHANGED <<phase, handlers, config, dropbox, freed, clash, conn,
                     writing, server, readyFor, reported, timer, shuttingDown>>
  <2>1. /\ Typed /\ queue \in Seq(Item) /\ queue # <<>>
        /\ queue' = Append(Tail(queue), y) /\ Head(queue).do = "message"
        /\ reading' \in BOOLEAN
        /\ UNCHANGED <<phase, handlers, config, dropbox, freed, clash, conn,
                       writing, server, readyFor, reported, timer, shuttingDown>>
    BY DEF IInv, Typed, RunMessage, Runs, Posts
  <2>2. Head(queue) \in Item
    BY <2>1
  <2> QED BY <2>1, <2>2, Unpacked
<1>2. queue' \in Seq(Item) /\ Swaps(queue, "message", do, queue')
  BY <1>1, Swapping
<1> HIDE DEF y, do
<1>3. Typed'
  BY <1>1, <1>2, Contained DEF Typed, TypeOK, ControllerTypeOK
<1>4. SUFFICES ASSUME ~clash'
               PROVE  /\ Lone' /\ Returning' /\ Connecting' /\ Exiting'
                      /\ Quiet' /\ Handled'
  BY <1>3 DEF IInv
<1>5. Lone /\ Returning /\ Connecting /\ Exiting /\ Quiet /\ Handled
  BY <1>1, <1>4 DEF IInv
<1>6. /\ Counts(queue) /\ Counts(queue')
      /\ \A X : X \subseteq Of(ResetStep) => Count(queue', X) = Count(queue, X)
  <2>1. {"message", do} \cap ResetStep = {}
    BY <1>1 DEF ResetStep
  <2> QED BY <1>1, <1>2, <2>1, KindsCounted DEF Swaps, Typed
<1>7. /\ Has({"message"}) /\ Has({"message", "load"})
      /\ conn # "connecting" /\ ~Has({"connected"}) /\ ~Has({"reset"})
      /\ ~Over /\ ~Toward("connect") /\ ~Toward("exit") /\ ~dropbox.gone
  <2>1. Has({"message"}) /\ Has({"message", "load"})
    <3>1. Has({"message"})
      BY <1>1, <1>2 DEF Has, Swaps
    <3> QED BY <1>6, <3>1 DEF Has, Counts
  <2>2. conn # "connecting" /\ ~Has({"connected"})
    BY <1>5, <2>1 DEF Connecting
  <2> QED BY <1>5, <2>1, <2>2 DEF Quiet
<1>8. /\ Lone' /\ Handled' /\ \A to : Toward(to)' <=> Toward(to)
      /\ Count(queue', DownToExit) = Count(queue, DownToExit)
  <2>1. ~Has({"dangling"})'
    BY <1>1, <1>2, <1>5 DEF Lone, Has, Swaps
  <2> QED BY <1>1, <1>2, <1>5, <1>6, <2>1, Beside
<1>9. Returning'
  BY <1>1, <1>2, <1>5, <1>6, <1>8 DEF Returning, Returns, Swaps
<1>10. Connecting'
  BY <1>1, <1>2, <1>5, <1>6, <1>7, <1>8
     DEF Connecting, Has, Over, Clear, Empty, Counts, Error, Swaps
<1>11. Exiting'
  BY <1>1, <1>2, <1>5, <1>6, <1>8 DEF Exiting, Has, Swaps
<1>12. Quiet'
  <2>1. do \notin {"message"} /\ do \notin {"reset"}
        /\ do \notin {"scheduleConnect", "connect"}
    BY <1>1
  <2>2. ~Before(queue', Of(Error \cup {"clientDown"}), Of({"message"}))
    BY <1>2, <1>5, <2>1 DEF Quiet, Swaps
  <2>3. ~Has({"reset"})' /\ ~Has({"scheduleConnect", "connect"})'
    BY <1>2, <1>7, <2>1 DEF Has, Over, Swaps
  <2>4. ~Over'
    BY <1>1, <1>7, <2>3 DEF Over
  <2>5. Toward("load") => ~Empty
    BY <1>5 DEF Quiet
  <2> QED BY <1>1, <1>7, <1>8, <2>2, <2>3, <2>4, <2>5 DEF Quiet, Clear, Empty
<1> QED BY <1>8, <1>9, <1>10, <1>11, <1>12

-----------------------------------------------------------------------------
\* The step from q to r moves items of a reset only.
Moves(q, r) ==
    \A dos, ends : dos \cap ResetStep = {} =>
        /\ Count(q, Of(dos)) \in Nat
        /\ Count(r, Of(dos)) = Count(q, Of(dos))
        /\ ends \cap ResetStep = {} =>
              (Before(r, Of(dos), Of(ends)) => Before(q, Of(dos), Of(ends)))

\* A step of a reset that leads nowhere else is none of the client's.
LEMMA ClientKeeps ==
  ASSUME IInv, ~clash, Moves(queue, queue'),
         \A to \in Ends : Toward(to)' => Toward(to),
         UNCHANGED <<config, conn, reading, server, readyFor, reported, timer,
                     shuttingDown>>,
         dropbox'.gone => /\ dropbox.gone \/ Toward("exit")
                          /\ ~Toward("load")'
                          /\ DOMAIN handlers' = {},
         Count(queue', DownToExit) > 0 => dropbox'.gone
  PROVE  Returning' /\ Connecting' /\ Exiting' /\ Quiet'
<1>1. Returning /\ Connecting /\ Exiting /\ Quiet
  BY DEF IInv
<1>2. /\ \A dos \in {{"reset", "scheduleConnect", "connect"}, {"connected"}, {"reset"},
                     {"scheduleConnect", "connect"}, {"message"}, {"message", "load"},
                     {"clientDown"}, Error, Error \cup {"clientDown"}} :
            dos \cap ResetStep = {}
  BY DEF ResetStep, Error
<1>3. Returning'
  BY <1>1, <1>2 DEF Returning, Returns, Moves, Ends
<1>4. Over' = Over /\ Clear' = Clear /\ Empty' = Empty
  BY <1>2 DEF Over, Has, Clear, Empty, Moves
<1>5. Connecting'
  BY <1>1, <1>2, <1>4 DEF Connecting, Has, Moves, Ends
<1>6. Exiting'
  BY <1>1, <1>2 DEF Exiting, Has, Moves, Ends
<1>7. Quiet'
  BY <1>1, <1>2, <1>4 DEF Quiet, Has, Moves, Ends
<1> QED BY <1>3, <1>5, <1>6, <1>7

\* How a step of a reset moves its item.
LEMMA Moving ==
  ASSUME Typed, queue # <<>>, Head(queue).do \in ResetStep,
         \/ queue' = Tail(queue)
         \/ \E y \in Item : y.do \in ResetStep /\ queue' = Append(Tail(queue), y)
  PROVE  queue' \in Seq(Item) /\ Moves(queue, queue')
<1>1. CASE queue' = Tail(queue)
  <2>1. queue' \in Seq(Item) /\ Drops(queue, Head(queue).do, queue')
    BY <1>1, Dropping
  <2> QED BY <2>1 DEF Moves, Drops
<1>2. CASE \E y \in Item : y.do \in ResetStep /\ queue' = Append(Tail(queue), y)
  <2>1. PICK y \in Item : y.do \in ResetStep /\ queue' = Append(Tail(queue), y)
    BY <1>2
  <2>2. queue' \in Seq(Item) /\ Swaps(queue, Head(queue).do, y.do, queue')
    BY <2>1, Swapping
  <2>3. \A dos : dos \cap ResetStep = {} =>
            Head(queue).do \notin dos /\ y.do \notin dos
    BY <2>1
  <2> QED BY <2>2, <2>3 DEF Moves, Swaps
<1> QED BY <1>1, <1>2

\* A step of a reset that is posted from outside.
LEMMA MovingIn ==
  ASSUME Typed, NEW y \in Item, y.do \in ResetStep, queue' = Append(queue, y)
  PROVE  queue' \in Seq(Item) /\ Moves(queue, queue')
<1>1. queue' \in Seq(Item) /\ Posted(queue, y.do, queue')
  BY Posting
<1>2. \A dos : dos \cap ResetStep = {} => y.do \notin dos
  OBVIOUS
<1> QED BY <1>1, <1>2 DEF Moves, Posted

\* SplitHandler and DropboxFolder of a source are down.
LEMMA SameSourceKeeps ==
  ASSUME IInv, queue # <<>>, Head(queue).do \in SourceStep,
         NEW do \in SourceStep,
         queue' = Append(Tail(queue), [Head(queue) EXCEPT !.do = do]),
         UNCHANGED <<phase, handlers, config, dropbox, freed, clash>>,
         ClientUnchanged
  PROVE  IInv'
<1> DEFINE x == Head(queue)
           y == [x EXCEPT !.do = do]
<1>1. Typed /\ queue \in Seq(Item) /\ x \in Item
  BY DEF IInv, Typed
<1>2. /\ y \in Item /\ y.do = do /\ do \in ResetStep /\ x.do \in ResetStep
      /\ y.goal = x.goal /\ y.source = x.source
  BY SMTT(30), <1>1, Parts DEF Item, ClientItem, SourceStep, ResetStep
<1>3. queue' \in Seq(Item) /\ Moves(queue, queue')
  BY <1>1, <1>2, Moving
<1>4. Typed'
  BY <1>1, <1>3, Contained
     DEF Typed, TypeOK, ControllerTypeOK, ClientUnchanged, connVars
<1>5. Replaced(queue, x, y, queue')
  BY <1>1, <1>2, Swapping
<1> HIDE DEF y
<1>6. /\ \A to : x \in StepsTo(to) <=> y \in StepsTo(to)
      /\ \A s : x \in StepsOf(s) <=> y \in StepsOf(s)
      /\ x \notin Of(DropboxStep) /\ y \notin Of(DropboxStep)
      /\ x \notin DownToExit /\ y \notin DownToExit
  BY <1>1, <1>2 DEF StepsTo, StepsOf, Of, DropboxStep, SourceStep, DownToExit
<1> HIDE DEF x
<1>7. /\ \A to : Count(queue', StepsTo(to)) = Count(queue, StepsTo(to))
      /\ \A s : Count(queue', StepsOf(s)) = Count(queue, StepsOf(s))
      /\ Count(queue', Of(DropboxStep)) = Count(queue, Of(DropboxStep))
      /\ Count(queue', DownToExit) = Count(queue, DownToExit)
  BY <1>5, <1>6 DEF Replaced
<1>8. SUFFICES ASSUME ~clash'
               PROVE  /\ Lone' /\ Returning' /\ Connecting' /\ Exiting'
                      /\ Quiet' /\ Handled'
  BY <1>4 DEF IInv
<1>9. Lone /\ Exiting /\ Quiet /\ Handled
  BY <1>8 DEF IInv
<1>10. Lone' /\ Handled' /\ \A to : Toward(to)' <=> Toward(to)
  <2>1. ~Has({"dangling"})'
    BY <1>3, <1>9 DEF Lone, Has, Moves, ResetStep
  <2> QED BY <1>3, <1>7, <1>9, <2>1, Unmoved
<1>11. Returning' /\ Connecting' /\ Exiting' /\ Quiet'
  BY <1>3, <1>7, <1>8, <1>9, <1>10, ClientKeeps
  DEF Exiting, Quiet, ClientUnchanged, connVars
<1> QED BY <1>10, <1>11

\* The streamer of a source is asked to report its end, or has none.
LEMMA RunFolderDownKeeps ==
  ASSUME IInv, RunFolderDown, ClientUnchanged
  PROVE  IInv'
<1>0. PICK x \in Item, s \in Sources, g \in RealGoal :
         x = Head(queue) /\ x.do = "folderDown" /\ s = x.source /\ g = x.goal
  <2>1. Head(queue) \in Item /\ Head(queue).do = "folderDown"
    BY DEF IInv, Typed, RunFolderDown, Runs
  <2> QED BY <2>1, Parts DEF SourceStep
<1>1. /\ Typed /\ queue \in Seq(Item) /\ queue # <<>>
      /\ \A r \in DOMAIN handlers : handlers[r] \in Handler
      /\ UNCHANGED <<phase, config, dropbox, freed, clash>>
  BY DEF IInv, RunFolderDown, Runs, Typed, TypeOK, ControllerTypeOK
<1>2. CASE queue' = Append(Tail(queue), [x EXCEPT !.do = "streamerDown"])
           /\ UNCHANGED handlers
  BY <1>0, <1>1, <1>2, SameSourceKeeps DEF SourceStep
<1>3. CASE /\ queue' = Tail(queue)
           /\ handlers' = [handlers EXCEPT ![s].streamer = "stopped",
                                           ![s].shuttedDown = g]
  <2>1. /\ DOMAIN handlers' = DOMAIN handlers
        /\ \A r \in DOMAIN handlers :
              /\ handlers'[r] \in Handler
              /\ r # s => handlers'[r] = handlers[r]
              /\ r = s => handlers'[r].shuttedDown = g
    <3>1. g \in Goal
      BY Goals
    <3> QED BY <1>1, <1>3, <3>1 DEF Handler
  <2>2. /\ queue' \in Seq(Item) /\ Moves(queue, queue')
        /\ Removed(queue, x, queue')
    <3>1. x.do \in ResetStep
      BY <1>0 DEF ResetStep
    <3> QED BY <1>0, <1>1, <1>3, <3>1, Moving, Dropping
  <2>3. Typed'
    BY <1>1, <2>1, <2>2, Contained
    DEF Typed, TypeOK, ControllerTypeOK, ClientUnchanged, connVars
  <2>4. SUFFICES ASSUME ~clash'
                 PROVE  /\ Lone' /\ Returning' /\ Connecting' /\ Exiting'
                        /\ Quiet' /\ Handled'
    BY <2>3 DEF IInv
  <2>5. Lone /\ Exiting /\ Quiet /\ Handled
    BY <1>1, <2>4 DEF IInv
  <2>6. /\ x \in StepsOf(s) /\ x \in StepsTo(g.to)
        /\ \A r : r # s => x \notin StepsOf(r)
        /\ x \notin Of(DropboxStep) /\ x \notin DownToExit
    BY <1>0
       DEF StepsOf, StepsTo, Of, SourceStep, ResetStep, DropboxStep, DownToExit
  <2>7. /\ \A r : Count(queue, StepsOf(r)) \in Nat /\ Count(queue', StepsOf(r)) \in Nat
        /\ \A r : r # s => Count(queue', StepsOf(r)) = Count(queue, StepsOf(r))
        /\ Count(queue, StepsOf(s)) = Count(queue', StepsOf(s)) + 1
        /\ Count(queue', Of(DropboxStep)) = Count(queue, Of(DropboxStep))
        /\ Count(queue', DownToExit) = Count(queue, DownToExit)
        /\ Count(queue, StepsTo(g.to)) > 0
        /\ \A to : Count(queue', StepsTo(to)) > 0 =>
               Count(queue, StepsTo(to)) > 0
    BY <2>2, <2>6 DEF Removed
  <2>8. /\ s \in DOMAIN handlers /\ ~Waits(s) /\ Count(queue', StepsOf(s)) = 0
    BY <1>1, <2>5, <2>7 DEF Lone, OneEach
  <2>9. /\ Waits(s)' /\ \A r : r # s => (Waits(r)' <=> Waits(r))
    BY <1>1, <2>1, <2>8, Goals DEF Waits
  <2>10. \A to : Toward(to)' => Toward(to)
    <3> TAKE to
    <3>1. Toward(g.to)
      BY <2>7 DEF Toward, TowardOf
    <3> QED BY <1>1, <2>1, <2>7, <3>1 DEF Toward, TowardOf
  <2>11. Underway /\ Underway'
    <3>1. g.to \in Ends
      BY <1>1, Goals
    <3>2. Toward(g.to)'
      BY <2>1, <2>8 DEF Toward, TowardOf
    <3> QED BY <2>10, <3>1, <3>2 DEF Underway
  <2>12. Lone'
    <3>1. OneEach'
      BY <2>1, <2>5, <2>7, <2>8, <2>9 DEF Lone, OneEach
    <3>2. LastDropbox'
      BY <1>1, <2>1, <2>5, <2>7 DEF Lone, LastDropbox, DropboxWaits, Has
    <3>3. AllOrNone'
      BY <2>1, <2>5, <2>7, <2>9, <2>11 DEF Lone, AllOrNone
    <3>4. OneEnd'
      BY <2>5, <2>10 DEF Lone, OneEnd
    <3>5. ~Has({"dangling"})'
      BY <2>2, <2>5 DEF Lone, Has, Moves, ResetStep
    <3> QED BY <3>1, <3>2, <3>3, <3>4, <3>5 DEF Lone
  <2>13. Handled'
    BY <2>11 DEF Handled
  <2>14. Returning' /\ Connecting' /\ Exiting' /\ Quiet'
    BY <1>1, <2>1, <2>2, <2>4, <2>5, <2>7, <2>10, ClientKeeps
    DEF Exiting, Quiet, ClientUnchanged, connVars
  <2> QED BY <2>12, <2>13, <2>14
<1>4. CASE handlers[s].streamer = "idle"
  <2>1. queue' = Tail(queue) \o <<[x EXCEPT !.do = "streamerDown"]>>
    BY <1>0, <1>4 DEF RunFolderDown, Posts
  <2>2. queue' = Append(Tail(queue), [x EXCEPT !.do = "streamerDown"])
    BY <1>1, <2>1
  <2>3. UNCHANGED handlers
    BY <1>0, <1>4 DEF RunFolderDown
  <2> QED BY <1>2, <2>2, <2>3
<1>5. CASE handlers[s].streamer # "idle"
  <2>1. queue' = Tail(queue) \o <<>>
    BY <1>0, <1>5 DEF RunFolderDown, Posts
  <2>2. queue' = Tail(queue)
    BY <1>1, <2>1
  <2>3. handlers' = [handlers EXCEPT ![s].streamer = "stopped",
                                     ![s].shuttedDown = g]
    BY <1>0, <1>5 DEF RunFolderDown
  <2> QED BY <1>3, <2>2, <2>3
<1> QED BY <1>4, <1>5

\* A stopped streamer is destroyed; if a reset waits for it, it goes on.
LEMMA DestroyStreamingKeeps ==
  ASSUME IInv, NEW s \in Sources, DestroyStreaming(s), ClientUnchanged
  PROVE  IInv'
<1>0. PICK g \in Goal : g = handlers[s].shuttedDown
  BY DEF IInv, Typed, DestroyStreaming, TypeOK, ControllerTypeOK, Handler
<1> DEFINE y == [do |-> "streamerDown", source |-> s, goal |-> g]
<1>1. /\ Typed /\ queue \in Seq(Item) /\ s \in DOMAIN handlers
      /\ \A r \in DOMAIN handlers : handlers[r] \in Handler
      /\ handlers' = [handlers EXCEPT ![s].streamer = "idle",
                                      ![s].shuttedDown = NoGoal]
      /\ UNCHANGED <<phase, config, dropbox, freed, clash>>
  BY DEF IInv, Typed, DestroyStreaming, TypeOK, ControllerTypeOK
<1>2. /\ DOMAIN handlers' = DOMAIN handlers
      /\ \A r \in DOMAIN handlers :
            /\ handlers'[r] \in Handler
            /\ r # s => handlers'[r] = handlers[r]
            /\ r = s => handlers'[r].shuttedDown = NoGoal
  BY <1>1, Goals DEF Handler
<1>3. CASE g = NoGoal /\ queue' = queue
  <2>1. Typed'
    BY <1>1, <1>2, <1>3
       DEF Typed, TypeOK, ControllerTypeOK, ClientUnchanged, connVars
  <2> QED BY <1>0, <1>1, <1>2, <1>3, <2>1, CalmKeeps
          DEF ClientUnchanged, connVars
<1>4. CASE g # NoGoal /\ queue' = Append(queue, y)
  <2>1. /\ g \in RealGoal /\ y \in Item /\ y.do = "streamerDown"
        /\ "streamerDown" \in ResetStep
    BY <1>4, Goals, Made DEF SourceStep, ResetStep
  <2>2. queue' \in Seq(Item) /\ Moves(queue, queue') /\ Added(queue, y, queue')
    BY <1>1, <1>4, <2>1, MovingIn, Posting
  <2>3. Typed'
    BY <1>1, <1>2, <2>2, Contained
    DEF Typed, TypeOK, ControllerTypeOK, ClientUnchanged, connVars
  <2>4. /\ y \in StepsOf(s) /\ y \in StepsTo(g.to)
        /\ \A r : r # s => y \notin StepsOf(r)
        /\ \A to : to # g.to => y \notin StepsTo(to)
        /\ y \notin Of(DropboxStep) /\ y \notin DownToExit
    BY <2>1
       DEF StepsOf, StepsTo, Of, SourceStep, ResetStep, DropboxStep, DownToExit
  <2> HIDE DEF y
  <2>5. SUFFICES ASSUME ~clash'
                 PROVE  /\ Lone' /\ Returning' /\ Connecting' /\ Exiting'
                        /\ Quiet' /\ Handled'
    BY <2>3 DEF IInv
  <2>6. Lone /\ Exiting /\ Quiet /\ Handled
    BY <1>1, <2>5 DEF IInv
  <2>7. /\ \A r : Count(queue, StepsOf(r)) \in Nat /\ Count(queue', StepsOf(r)) \in Nat
        /\ \A r : r # s => Count(queue', StepsOf(r)) = Count(queue, StepsOf(r))
        /\ Count(queue', StepsOf(s)) = Count(queue, StepsOf(s)) + 1
        /\ Count(queue', Of(DropboxStep)) = Count(queue, Of(DropboxStep))
        /\ Count(queue', DownToExit) = Count(queue, DownToExit)
        /\ Count(queue', StepsTo(g.to)) > 0
        /\ \A to : to # g.to =>
               Count(queue', StepsTo(to)) = Count(queue, StepsTo(to))
    BY <2>2, <2>4 DEF Added
  <2>8. /\ Waits(s) /\ ~Waits(s)' /\ \A r : r # s => (Waits(r)' <=> Waits(r))
    BY <1>0, <1>1, <1>2, <1>4 DEF Waits
  <2>9. Count(queue, StepsOf(s)) = 0
    BY <1>1, <2>6, <2>7, <2>8 DEF Lone, OneEach
  <2>10. \A to \in Ends : Toward(to)' => Toward(to)
    <3>1. SUFFICES ASSUME NEW to \in Ends, Toward(to)' PROVE Toward(to)
      OBVIOUS
    <3>2. Toward(g.to)
      BY <1>0, <1>1 DEF Toward, TowardOf
    <3>3. CASE Count(queue', StepsTo(to)) > 0
      BY <2>7, <3>2, <3>3 DEF Toward, TowardOf
    <3>4. CASE \E r \in DOMAIN handlers' : handlers'[r].shuttedDown.to = to
      BY <1>2, <3>4, Goals DEF Toward, TowardOf
    <3>5. CASE dropbox'.goal.to = to
      BY <1>1, <3>5 DEF Toward, TowardOf
    <3> QED BY <3>1, <3>3, <3>4, <3>5 DEF Toward, TowardOf
  <2>11. Underway /\ Underway'
    <3>1. g.to \in Ends /\ Toward(g.to)'
      BY <2>1, <2>7, Goals DEF Toward, TowardOf
    <3> QED BY <2>10, <3>1 DEF Underway
  <2>12. Lone'
    <3>1. OneEach'
      BY <1>1, <1>2, <2>6, <2>7, <2>8, <2>9 DEF Lone, OneEach
    <3>2. LastDropbox'
      BY <1>1, <1>2, <2>6, <2>7 DEF Lone, LastDropbox, DropboxWaits, Has
    <3>3. AllOrNone'
      BY <1>2, <2>6, <2>7, <2>8, <2>11 DEF Lone, AllOrNone
    <3>4. OneEnd'
      BY <2>6, <2>10 DEF Lone, OneEnd
    <3>5. ~Has({"dangling"})'
      BY <2>2, <2>6 DEF Lone, Has, Moves, ResetStep
    <3> QED BY <3>1, <3>2, <3>3, <3>4, <3>5 DEF Lone
  <2>13. Handled'
    BY <2>11 DEF Handled
  <2>14. dropbox'.gone => ~Toward("load")'
    BY <1>1, <2>6, <2>10 DEF Quiet, Ends
  <2>15. Returning' /\ Connecting' /\ Exiting' /\ Quiet'
    BY <1>1, <1>2, <2>2, <2>5, <2>6, <2>7, <2>10, <2>14, ClientKeeps
    DEF Exiting, ClientUnchanged, connVars
  <2> QED BY <2>12, <2>13, <2>15
<1> QED BY <1>0, <1>1, <1>3, <1>4 DEF DestroyStreaming

\* The callbacks that stay refer to what is there, if none is of this source.
LEMMA Dangles ==
  ASSUME NEW q \in Seq(Item), NEW s \in Sources
  PROVE  /\ Dangle(q, s) \in Seq(Item)
         /\ Count(q, StepsOf(s)) = 0 => Dangle(q, s) = q
<1> DEFINE item(i) == IF q[i].do \in {"splitterDown", "folderDown"} /\ q[i].source = s
                      THEN [do |-> "dangling"] ELSE q[i]
<1>1. \A i \in DOMAIN q : item(i) \in Item
  BY Made
<1>2. DOMAIN q = 1 .. Len(q) /\ Len(q) \in Nat
  OBVIOUS
<1>3. Dangle(q, s) = [i \in 1 .. Len(q) |-> item(i)]
  BY <1>2 DEF Dangle
<1>4. Dangle(q, s) \in Seq(Item)
  <2> HIDE DEF item
  <2> QED BY <1>1, <1>2, <1>3
<1>5. ASSUME Count(q, StepsOf(s)) = 0 PROVE Dangle(q, s) = q
  <2>1. \A i \in DOMAIN q : q[i] \notin StepsOf(s)
    BY <1>5, CountPositive
  <2>2. \A i \in DOMAIN q : q[i] \in Item
    OBVIOUS
  <2>3. \A i \in DOMAIN q : item(i) = q[i]
    BY <2>1, <2>2 DEF StepsOf, SourceStep
  <2> HIDE DEF item
  <2>4. Dangle(q, s) = [i \in DOMAIN q |-> q[i]]
    BY <1>2, <1>3, <2>3
  <2> QED BY <2>4
<1> QED BY <1>4, <1>5

\* The last step of a source: it loses its handlers.
LEMMA RunStreamerDownKeeps ==
  ASSUME IInv, RunStreamerDown, ClientUnchanged
  PROVE  IInv'
<1>0. PICK x \in Item, s \in Sources, g \in RealGoal :
         x = Head(queue) /\ x.do = "streamerDown" /\ s = x.source /\ g = x.goal
  <2>1. Head(queue) \in Item /\ Head(queue).do = "streamerDown"
    BY DEF IInv, Typed, RunStreamerDown, Runs
  <2> QED BY <2>1, Parts DEF SourceStep
<1> DEFINE y == [do |-> "stopDropbox", goal |-> g]
           d == Dangle(Tail(queue), s)
<1>1. /\ Typed /\ queue \in Seq(Item) /\ queue # <<>>
      /\ \A r \in DOMAIN handlers : handlers[r] \in Handler
      /\ y \in Item /\ y.do = "stopDropbox" /\ y.goal = g
      /\ UNCHANGED <<phase, config, dropbox, clash>>
  <2>1. y \in Item
    BY Made DEF DropboxStep
  <2> QED BY <2>1
          DEF IInv, RunStreamerDown, Runs, Typed, TypeOK, ControllerTypeOK
<1>2. /\ DOMAIN handlers' = DOMAIN handlers \ {s}
      /\ \A r \in DOMAIN handlers' : handlers'[r] = handlers[r]
      /\ freed' \in BOOLEAN
      /\ queue' = d \o (IF DOMAIN handlers \ {s} = {} THEN <<y>> ELSE <<>>)
  <2>1. handlers' = [r \in DOMAIN handlers \ {s} |-> handlers[r]]
    BY <1>0 DEF RunStreamerDown, RemoveSource
  <2>2. queue' = d \o (IF DOMAIN handlers \ {s} = {} THEN <<y>> ELSE <<>>)
    BY <1>0 DEF RunStreamerDown, RemoveSource
  <2>3. freed' \in BOOLEAN
    BY <1>0, <1>1
       DEF RunStreamerDown, RemoveSource, Typed, TypeOK, ControllerTypeOK
  <2> QED BY <2>1, <2>2, <2>3
<1>3. Tail(queue) \in Seq(Item) /\ Removed(queue, x, Tail(queue))
  BY <1>0, <1>1, Removing
<1>4. d \in Seq(Item) /\ (Count(Tail(queue), StepsOf(s)) = 0 => d = Tail(queue))
  BY <1>3, Dangles
<1> HIDE DEF y, d
<1>5. queue' = IF DOMAIN handlers \ {s} = {} THEN Append(d, y) ELSE d
  BY <1>1, <1>2, <1>4
<1>6. queue' \in Seq(Item)
  BY <1>1, <1>4, <1>5
<1>7. Typed'
  <2>1. /\ DOMAIN handlers' \subseteq Sources
        /\ \A r \in DOMAIN handlers' : handlers'[r] \in Handler
    BY <1>1, <1>2 DEF Typed, TypeOK, ControllerTypeOK
  <2>2. freed' \in BOOLEAN
    BY <1>2
  <2> QED BY <1>1, <1>6, <2>1, <2>2, Contained
          DEF Typed, TypeOK, ControllerTypeOK, ClientUnchanged, connVars
<1>8. SUFFICES ASSUME ~clash'
               PROVE  /\ Lone' /\ Returning' /\ Connecting' /\ Exiting'
                      /\ Quiet' /\ Handled'
  BY <1>7 DEF IInv
<1>9. Lone /\ Exiting /\ Quiet /\ Handled
  BY <1>1, <1>8 DEF IInv
<1>10. /\ x \in StepsOf(s) /\ x \in StepsTo(g.to)
       /\ \A r : r # s => x \notin StepsOf(r)
       /\ \A to : to # g.to => x \notin StepsTo(to)
       /\ x \notin Of(DropboxStep) /\ x \notin DownToExit
       /\ y \in StepsTo(g.to) /\ \A r : y \notin StepsOf(r)
       /\ \A to : to # g.to => y \notin StepsTo(to)
       /\ y \in Of(DropboxStep) /\ y \notin DownToExit
       /\ x.do \in ResetStep /\ y.do \in ResetStep
  BY <1>0, <1>1
  DEF StepsOf, StepsTo, Of, SourceStep, ResetStep, DropboxStep, DownToExit
<1>11. /\ s \in DOMAIN handlers /\ ~Waits(s) /\ Count(queue, StepsOf(s)) = 1
       /\ Count(Tail(queue), StepsOf(s)) = 0
  <2>1. /\ Count(queue, StepsOf(s)) = Count(Tail(queue), StepsOf(s)) + 1
        /\ Count(Tail(queue), StepsOf(s)) \in Nat
    BY <1>3, <1>10 DEF Removed
  <2> QED BY <1>1, <1>9, <2>1 DEF Lone, OneEach
<1>12. d = Tail(queue)
  BY <1>4, <1>11
<1>13. Count(queue, Of(DropboxStep)) = 0 /\ ~DropboxWaits
  <2>1. Count(queue, Of(DropboxStep)) \in Nat
    BY <1>3 DEF Removed
  <2> QED BY <1>9, <1>11, <2>1 DEF Lone, LastDropbox, Has
<1>14. Toward(g.to) /\ Underway /\ Count(queue, StepsTo(g.to)) > 0
  <2>1. g.to \in Ends /\ Count(queue, StepsTo(g.to)) > 0
    BY <1>3, <1>10, Goals DEF Removed
  <2> QED BY <2>1 DEF Toward, TowardOf, Underway
<1>15. Moves(queue, queue')
  BY <1>0, <1>1, <1>5, <1>10, <1>12, Moving
<1>16. \A r \in DOMAIN handlers' : r # s /\ (Waits(r)' <=> Waits(r))
  BY <1>2 DEF Waits
<1>17. CASE DOMAIN handlers' = {}
  <2>1. queue' = Append(Tail(queue), y)
    BY <1>2, <1>5, <1>12, <1>17
  <2>2. Replaced(queue, x, y, queue')
    BY <1>0, <1>1, <2>1, Swapping
  <2>3. /\ \A r : Count(queue, StepsOf(r)) \in Nat /\ Count(queue', StepsOf(r)) \in Nat
        /\ \A r : r # s => Count(queue', StepsOf(r)) = Count(queue, StepsOf(r))
        /\ Count(queue, StepsOf(s)) = Count(queue', StepsOf(s)) + 1
        /\ Count(queue', Of(DropboxStep)) = Count(queue, Of(DropboxStep)) + 1
        /\ Count(queue', DownToExit) = Count(queue, DownToExit)
        /\ Count(queue', StepsTo(g.to)) = Count(queue, StepsTo(g.to))
        /\ Count(queue', StepsTo(g.to)) > 0
        /\ \A to : to # g.to =>
               Count(queue', StepsTo(to)) = Count(queue, StepsTo(to))
    BY <2>2, <1>10, <1>14 DEF Replaced
  <2>4. \A to : Toward(to)' => Toward(to)
    BY <1>1, <1>2, <2>3, <1>14 DEF Toward, TowardOf
  <2>5. Underway'
    BY <2>3, Goals DEF Underway, Toward, TowardOf
  <2>6. Lone'
    <3>1. OneEach'
      BY <1>2, <1>9, <1>11, <1>17, <2>3 DEF Lone, OneEach, Waits
    <3>2. LastDropbox'
      BY <1>1, <1>13, <1>17, <2>3 DEF LastDropbox, DropboxWaits
    <3>3. AllOrNone'
      BY <1>17 DEF AllOrNone
    <3>4. OneEnd'
      BY <1>9, <2>4 DEF Lone, OneEnd
    <3>5. ~Has({"dangling"})'
      BY <1>9, <1>15 DEF Lone, Has, Moves, ResetStep
    <3> QED BY <3>1, <3>2, <3>3, <3>4, <3>5 DEF Lone
  <2>7. Handled'
    BY <2>5 DEF Handled
  <2>8. Returning' /\ Connecting' /\ Exiting' /\ Quiet'
    BY <1>1, <1>8, <1>9, <1>15, <1>17, <2>3, <2>4, ClientKeeps
    DEF Exiting, Quiet, ClientUnchanged, connVars
  <2> QED BY <2>6, <2>7, <2>8
<1>18. CASE DOMAIN handlers' # {}
  <2>1. queue' = Tail(queue)
    BY <1>2, <1>5, <1>12, <1>18
  <2>2. /\ \A r : Count(queue, StepsOf(r)) \in Nat /\ Count(queue', StepsOf(r)) \in Nat
        /\ \A r : r # s => Count(queue', StepsOf(r)) = Count(queue, StepsOf(r))
        /\ Count(queue', StepsOf(s)) = 0
        /\ Count(queue', Of(DropboxStep)) = Count(queue, Of(DropboxStep))
        /\ Count(queue', DownToExit) = Count(queue, DownToExit)
        /\ \A to : Count(queue', StepsTo(to)) > 0 =>
               Count(queue, StepsTo(to)) > 0
    <3>1. \A to : Count(queue', StepsTo(to)) > 0 =>
              Count(queue, StepsTo(to)) > 0
      <4> TAKE to
      <4>1. CASE to = g.to
        BY <1>14, <4>1
      <4>2. CASE to # g.to
        BY <1>3, <1>10, <2>1, <4>2 DEF Removed
      <4> QED BY <4>1, <4>2
    <3> QED BY <1>3, <1>10, <1>11, <2>1, <3>1 DEF Removed
  <2>3. \A to : Toward(to)' => Toward(to)
    BY <1>1, <1>2, <2>2 DEF Toward, TowardOf
  <2>4. \A r \in DOMAIN handlers' : Count(queue', StepsOf(r)) > 0 \/ Waits(r)'
    BY <1>2, <1>9, <1>14, <1>16, <2>2 DEF Lone, AllOrNone
  <2>5. Underway'
    <3>1. PICK r \in DOMAIN handlers' : Count(queue', StepsOf(r)) > 0 \/ Waits(r)'
      BY <1>18, <2>4
    <3>2. Has(ResetStep)' \/ Waits(r)'
      BY <1>6, <3>1, StepsLead DEF Has
    <3>3. (Underway <=> \/ Has(ResetStep) \/ DropboxWaits
                        \/ \E p \in DOMAIN handlers : Waits(p))'
      <4>1. Has(ResetStep)' <=> \E to \in Ends : Count(queue', StepsTo(to)) > 0
        BY <1>6, StepsLead DEF Has
      <4>2. \A p \in DOMAIN handlers' :
               Waits(p)' <=> \E to \in Ends : handlers'[p].shuttedDown.to = to
        <5>1. \A p \in DOMAIN handlers' : handlers'[p].shuttedDown \in Goal
          BY <1>1, <1>2 DEF Handler
        <5> QED BY <5>1, Goals DEF Waits
      <4>3. dropbox'.goal \in Goal
        BY <1>7 DEF Typed, TypeOK, ControllerTypeOK
      <4>4. DropboxWaits' <=> \E to \in Ends : dropbox'.goal.to = to
        BY <4>3, Goals DEF DropboxWaits
      <4> QED BY <4>1, <4>2, <4>4 DEF Underway, Toward, TowardOf
    <3> QED BY <3>1, <3>2, <3>3
  <2>6. Lone'
    <3>1. OneEach'
      BY <1>2, <1>9, <1>11, <1>16, <2>2 DEF Lone, OneEach, Waits
    <3>2. LastDropbox'
      BY <1>1, <1>13, <2>2 DEF LastDropbox, DropboxWaits, Has
    <3>3. AllOrNone'
      BY <2>4 DEF AllOrNone
    <3>4. OneEnd'
      BY <1>9, <2>3 DEF Lone, OneEnd
    <3>5. ~Has({"dangling"})'
      BY <1>9, <1>15 DEF Lone, Has, Moves, ResetStep
    <3> QED BY <3>1, <3>2, <3>3, <3>4, <3>5 DEF Lone
  <2>7. Handled'
    BY <2>5 DEF Handled
  <2>8. Returning' /\ Connecting' /\ Exiting' /\ Quiet'
    BY <1>1, <1>2, <1>8, <1>9, <1>15, <2>2, <2>3, ClientKeeps
    DEF Exiting, Quiet, ClientUnchanged, connVars
  <2> QED BY <2>6, <2>7, <2>8
<1> QED BY <1>17, <1>18

\* Dropbox is asked to report its end, or has ended for good.
LEMMA RunStopDropboxKeeps ==
  ASSUME IInv, RunStopDropbox, ClientUnchanged
  PROVE  IInv'
<1>0. PICK x \in Item, g \in RealGoal :
         x = Head(queue) /\ x.do = "stopDropbox" /\ g = x.goal
  <2>1. Head(queue) \in Item /\ Head(queue).do = "stopDropbox"
    BY DEF IInv, Typed, RunStopDropbox, Runs
  <2> QED BY <2>1, Parts DEF DropboxStep
<1>1. /\ Typed /\ queue \in Seq(Item) /\ queue # <<>>
      /\ UNCHANGED <<phase, handlers, config, freed, clash>>
  BY DEF IInv, RunStopDropbox, Runs, Typed
<1>2. /\ \A to : x \in StepsTo(to) <=> to = g.to
      /\ \A r : x \notin StepsOf(r)
      /\ x \in Of(DropboxStep) /\ x \notin DownToExit
      /\ x.do \in ResetStep
  BY <1>0
     DEF StepsOf, StepsTo, Of, SourceStep, ResetStep, DropboxStep, DownToExit
<1>3. ~clash => /\ Lone /\ Exiting /\ Quiet /\ Handled
                /\ Count(queue, Of(DropboxStep)) = 1 /\ dropbox.goal = NoGoal
                /\ DOMAIN handlers = {} /\ Toward(g.to) /\ Underway
  <2>1. SUFFICES ASSUME ~clash
                 PROVE  /\ Lone /\ Exiting /\ Quiet /\ Handled
                        /\ Count(queue, Of(DropboxStep)) = 1
                        /\ dropbox.goal = NoGoal
                        /\ DOMAIN handlers = {} /\ Toward(g.to) /\ Underway
    OBVIOUS
  <2>2. Lone /\ Exiting /\ Quiet /\ Handled
    BY <2>1 DEF IInv
  <2>3. Removed(queue, x, Tail(queue))
    BY <1>0, <1>1, Removing
  <2>4. /\ Count(queue, Of(DropboxStep)) \in Nat
        /\ Count(queue, Of(DropboxStep)) > 0
        /\ Count(queue, StepsTo(g.to)) > 0
    BY <2>3, <1>2 DEF Removed
  <2>5. Toward(g.to) /\ Underway
    BY <2>4, Goals DEF Toward, TowardOf, Underway
  <2> QED BY <2>2, <2>4, <2>5 DEF Lone, LastDropbox, Has, DropboxWaits
<1>4. CASE dropbox.gone
  <2> DEFINE y == [do |-> "dropboxDown", goal |-> g]
  <2>1. /\ y \in Item /\ y.do = "dropboxDown" /\ y.goal = g
        /\ queue' = Append(Tail(queue), y) /\ UNCHANGED dropbox
    <3>1. y \in Item
      BY Made DEF DropboxStep
    <3>2. queue' = Tail(queue) \o <<y>> /\ UNCHANGED dropbox
      BY <1>0, <1>4 DEF RunStopDropbox, Posts
    <3>3. queue' = Append(Tail(queue), y)
      BY <1>1, <3>2
    <3> QED BY <3>1, <3>2, <3>3
  <2> HIDE DEF y
  <2>2. /\ \A to : y \in StepsTo(to) <=> to = g.to
        /\ \A r : y \notin StepsOf(r)
        /\ y \in Of(DropboxStep) /\ y.do \in ResetStep
    BY <2>1 DEF StepsOf, StepsTo, Of, SourceStep, ResetStep, DropboxStep
  <2>3. /\ queue' \in Seq(Item) /\ Moves(queue, queue')
        /\ Replaced(queue, x, y, queue')
    BY <1>0, <1>1, <1>2, <2>1, <2>2, Moving, Swapping
  <2>4. Typed'
    BY <1>1, <2>1, <2>3, Contained
    DEF Typed, TypeOK, ControllerTypeOK, ClientUnchanged, connVars
  <2>5. SUFFICES ASSUME ~clash'
                 PROVE  /\ Lone' /\ Returning' /\ Connecting' /\ Exiting'
                        /\ Quiet' /\ Handled'
    BY <2>4 DEF IInv
  <2>6. /\ \A to : Count(queue', StepsTo(to)) = Count(queue, StepsTo(to))
        /\ \A s : Count(queue', StepsOf(s)) = Count(queue, StepsOf(s))
        /\ Count(queue', Of(DropboxStep)) = Count(queue, Of(DropboxStep))
    BY <1>2, <2>2, <2>3 DEF Replaced
  <2>7. Lone' /\ Handled' /\ \A to : Toward(to)' <=> Toward(to)
    <3>1. ~Has({"dangling"})'
      BY <1>1, <1>3, <2>3, <2>5 DEF Lone, Has, Moves, ResetStep
    <3> QED BY <1>1, <1>3, <2>1, <2>3, <2>5, <2>6, <3>1, Unmoved
  <2>8. Returning' /\ Connecting' /\ Exiting' /\ Quiet'
    BY <1>1, <1>3, <1>4, <2>1, <2>3, <2>5, <2>7, ClientKeeps
    DEF Quiet, ClientUnchanged, connVars
  <2> QED BY <2>7, <2>8
<1>5. CASE ~dropbox.gone
  <2>1. queue' = Tail(queue) /\ dropbox'.gone = dropbox.gone
        /\ \E end \in {g, dropbox.goal} \ {NoGoal} :
              dropbox' = [dropbox EXCEPT !.goal = end]
    <3>1. queue' = Tail(queue) \o <<>>
          /\ \E end \in {g, dropbox.goal} \ {NoGoal} :
                dropbox' = [dropbox EXCEPT !.goal = end]
      BY <1>0, <1>5 DEF RunStopDropbox, Posts
    <3>2. dropbox \in [used : BOOLEAN, gone : BOOLEAN, goal : Goal]
      BY <1>1 DEF Typed, TypeOK, ControllerTypeOK
    <3>3. queue' = Tail(queue)
      BY <1>1, <3>1
    <3>4. PICK end \in {g, dropbox.goal} \ {NoGoal} :
             dropbox' = [dropbox EXCEPT !.goal = end]
      BY <3>1
    <3>5. dropbox'.gone = dropbox.gone
      BY <3>2, <3>4
    <3> QED BY <3>1, <3>3, <3>5
  <2>2. /\ queue' \in Seq(Item) /\ Moves(queue, queue')
        /\ Removed(queue, x, queue')
    BY <1>0, <1>1, <1>2, <2>1, Moving, Dropping
  <2>3. Typed'
    <3>1. /\ dropbox \in [used : BOOLEAN, gone : BOOLEAN, goal : Goal]
          /\ g \in Goal
      BY <1>1, Goals DEF Typed, TypeOK, ControllerTypeOK
    <3>2. dropbox' \in [used : BOOLEAN, gone : BOOLEAN, goal : Goal]
      BY <2>1, <3>1
    <3> QED BY <1>1, <2>2, <3>2, Contained
            DEF Typed, TypeOK, ControllerTypeOK, ClientUnchanged, connVars
  <2>4. SUFFICES ASSUME ~clash'
                 PROVE  /\ Lone' /\ Returning' /\ Connecting' /\ Exiting'
                        /\ Quiet' /\ Handled'
    BY <2>3 DEF IInv
  <2>5. dropbox'.goal = g /\ g # NoGoal
    <3>1. dropbox \in [used : BOOLEAN, gone : BOOLEAN, goal : Goal]
      BY <1>1 DEF Typed, TypeOK, ControllerTypeOK
    <3> QED BY <1>1, <1>3, <2>1, <2>4, <3>1, Goals
  <2>6. /\ \A s : Count(queue', StepsOf(s)) = Count(queue, StepsOf(s))
        /\ Count(queue, Of(DropboxStep)) = Count(queue', Of(DropboxStep)) + 1
        /\ Count(queue', Of(DropboxStep)) \in Nat
        /\ Count(queue', DownToExit) = Count(queue, DownToExit)
        /\ \A to : to # g.to =>
               Count(queue', StepsTo(to)) = Count(queue, StepsTo(to))
    BY <1>2, <2>2 DEF Removed
  <2>7. \A to : Toward(to)' => Toward(to)
    BY <1>1, <1>3, <2>4, <2>5, <2>6 DEF Toward, TowardOf
  <2>8. Underway'
    BY <2>5, Goals DEF Underway, Toward, TowardOf
  <2>9. Lone'
    <3>1. OneEach'
      BY <1>1, <1>3, <2>4, <2>6 DEF Lone, OneEach, Waits
    <3>2. LastDropbox'
      BY <1>1, <1>3, <2>4, <2>5, <2>6 DEF LastDropbox, DropboxWaits
    <3>3. AllOrNone'
      BY <1>1, <1>3, <2>4 DEF AllOrNone
    <3>4. OneEnd'
      BY <1>1, <1>3, <2>4, <2>7 DEF Lone, OneEnd
    <3>5. ~Has({"dangling"})'
      BY <1>1, <1>3, <2>4, <2>2 DEF Lone, Has, Moves, ResetStep
    <3> QED BY <3>1, <3>2, <3>3, <3>4, <3>5 DEF Lone
  <2>10. Handled'
    BY <2>8 DEF Handled
  <2>11. Returning' /\ Connecting' /\ Exiting' /\ Quiet'
    BY <1>1, <1>3, <1>5, <2>1, <2>2, <2>4, <2>6, <2>7, ClientKeeps
    DEF Exiting, ClientUnchanged, connVars
  <2> QED BY <2>9, <2>10, <2>11
<1> QED BY <1>4, <1>5

\* Dropbox has ended; on exit it is not created again.
LEMMA DropboxEndsKeeps ==
  ASSUME IInv, DropboxEnds, ClientUnchanged
  PROVE  IInv'
<1>0. PICK g \in RealGoal : g = dropbox.goal
  BY Goals DEF IInv, Typed, DropboxEnds, TypeOK, ControllerTypeOK
<1> DEFINE y == [do |-> "dropboxDown", goal |-> g]
<1>1. /\ Typed /\ queue \in Seq(Item)
      /\ y \in Item /\ y.do = "dropboxDown" /\ y.goal = g
      /\ queue' = Append(queue, y)
      /\ dropbox' = [NewDropbox EXCEPT !.gone = (g.to = "exit")]
      /\ UNCHANGED <<phase, handlers, config, freed, clash>>
  <2>1. y \in Item
    BY Made DEF DropboxStep
  <2> QED BY <1>0, <2>1 DEF IInv, Typed, DropboxEnds
<1>2. /\ dropbox'.gone <=> g.to = "exit"
      /\ dropbox'.goal = NoGoal
      /\ dropbox' \in [used : BOOLEAN, gone : BOOLEAN, goal : Goal]
  BY <1>1, Goals DEF NewDropbox
<1> HIDE DEF y
<1>3. /\ \A to : y \in StepsTo(to) <=> to = g.to
      /\ \A r : y \notin StepsOf(r)
      /\ y \in Of(DropboxStep) /\ y.do \in ResetStep
      /\ y \in DownToExit <=> g.to = "exit"
  BY <1>1
     DEF StepsOf, StepsTo, Of, SourceStep, ResetStep, DropboxStep, DownToExit
<1>4. queue' \in Seq(Item) /\ Moves(queue, queue') /\ Added(queue, y, queue')
  BY <1>1, <1>3, MovingIn, Posting
<1>5. Typed'
  BY <1>1, <1>2, <1>4, Contained
  DEF Typed, TypeOK, ControllerTypeOK, ClientUnchanged, connVars
<1>6. SUFFICES ASSUME ~clash'
               PROVE  /\ Lone' /\ Returning' /\ Connecting' /\ Exiting'
                      /\ Quiet' /\ Handled'
  BY <1>5 DEF IInv
<1>7. Lone /\ Exiting /\ Quiet /\ Handled
  BY <1>1, <1>6 DEF IInv
<1>8. /\ Toward(g.to) /\ g.to \in Ends /\ DropboxWaits /\ DOMAIN handlers = {}
      /\ Count(queue, Of(DropboxStep)) = 0 /\ Count(queue, DownToExit) = 0
  <2>1. DropboxWaits /\ Toward(g.to) /\ g.to \in Ends
    BY <1>0, Goals DEF DropboxWaits, Toward, TowardOf
  <2>2. /\ Count(queue, Of(DropboxStep)) \in Nat
        /\ Count(queue, DownToExit) \in Nat
    BY <1>4 DEF Added
  <2>3. Count(queue, Of(DropboxStep)) = 0 /\ DOMAIN handlers = {}
    BY <1>7, <2>1, <2>2 DEF Lone, LastDropbox
  <2>4. DownToExit \subseteq Of(DropboxStep)
    BY DEF DownToExit, Of, DropboxStep
  <2>5. Count(queue, DownToExit) <= Count(queue, Of(DropboxStep))
    BY <1>1, <2>4, Counted
  <2> QED BY <2>1, <2>2, <2>3, <2>5
<1>9. /\ \A s : Count(queue', StepsOf(s)) = Count(queue, StepsOf(s))
      /\ Count(queue', Of(DropboxStep)) = 1
      /\ Count(queue', DownToExit) > 0 => g.to = "exit"
      /\ Count(queue', StepsTo(g.to)) > 0
      /\ \A to : to # g.to =>
             Count(queue', StepsTo(to)) = Count(queue, StepsTo(to))
  BY <1>3, <1>4, <1>8 DEF Added
<1>10. \A to \in Ends : Toward(to)' => Toward(to)
  BY <1>1, <1>2, <1>8, <1>9, Goals DEF Toward, TowardOf
<1>11. Underway'
  BY <1>8, <1>9 DEF Underway, Toward, TowardOf
<1>12. Lone'
  <2>1. OneEach'
    BY <1>1, <1>7, <1>9 DEF Lone, OneEach, Waits
  <2>2. LastDropbox'
    BY <1>1, <1>2, <1>8, <1>9 DEF LastDropbox, DropboxWaits
  <2>3. AllOrNone'
    BY <1>1, <1>8 DEF AllOrNone
  <2>4. OneEnd'
    BY <1>7, <1>10 DEF Lone, OneEnd
  <2>5. ~Has({"dangling"})'
    BY <1>4, <1>7 DEF Lone, Has, Moves, ResetStep
  <2> QED BY <2>1, <2>2, <2>3, <2>4, <2>5 DEF Lone
<1>13. Handled'
  BY <1>11 DEF Handled
<1>14. dropbox'.gone => ~Toward("load")'
  BY <1>2, <1>7, <1>8, <1>10 DEF Lone, OneEnd, Ends
<1>15. Returning' /\ Connecting' /\ Exiting' /\ Quiet'
  BY <1>1, <1>2, <1>4, <1>6, <1>8, <1>9, <1>10, <1>14, ClientKeeps
  DEF ClientUnchanged, connVars
<1> QED BY <1>12, <1>13, <1>15

\* The last step of a reset, which leads to its end.
LEMMA RunDropboxDownKeeps ==
  ASSUME IInv, RunDropboxDown, ClientUnchanged
  PROVE  IInv'
<1>0. PICK x \in Item, g \in RealGoal :
         x = Head(queue) /\ x.do = "dropboxDown" /\ g = x.goal
  <2>1. Head(queue) \in Item /\ Head(queue).do = "dropboxDown"
    BY DEF IInv, Typed, RunDropboxDown, Runs
  <2> QED BY <2>1, Parts DEF DropboxStep
<1>1. /\ Typed /\ queue \in Seq(Item) /\ queue # <<>>
      /\ UNCHANGED <<phase, handlers, dropbox, freed, clash>>
  BY DEF IInv, RunDropboxDown, Runs, Typed
<1>2. PICK y \in Item :
         /\ queue' = Append(Tail(queue), y)
         /\ \/ g.to = "connect" /\ y.do = "scheduleConnect" /\ config' = NoConfig
            \/ g.to = "load" /\ y.do = "load" /\ config' = NoConfig
            \/ g.to = "exit" /\ y.do = "exit" /\ config' = config
  <2>1. CASE g.to = "connect"
    <3>1. [do |-> "scheduleConnect"] \in Item
      BY Made
    <3>2. /\ queue' = Tail(queue) \o <<[do |-> "scheduleConnect"]>>
          /\ config' = NoConfig
      BY <1>0, <2>1 DEF RunDropboxDown, Posts, ClearedConfig
    <3>3. queue' = Append(Tail(queue), [do |-> "scheduleConnect"])
      BY <1>1, <3>2
    <3> QED BY <2>1, <3>1, <3>2, <3>3
  <2>2. CASE g.to = "load"
    <3>1. [do |-> "load", config |-> g.config] \in Item
      BY <2>2, Made, Goals
    <3>2. queue' = Tail(queue) \o <<[do |-> "load", config |-> g.config]>>
          /\ config' = NoConfig
      BY <1>0, <2>2 DEF RunDropboxDown, Posts, ClearedConfig
    <3>3. queue' = Append(Tail(queue), [do |-> "load", config |-> g.config])
      BY <1>1, <3>2
    <3> QED BY <2>2, <3>1, <3>2, <3>3
  <2>3. CASE g.to = "exit"
    <3>1. [do |-> "exit"] \in Item
      BY Made
    <3>2. queue' = Tail(queue) \o <<[do |-> "exit"]>> /\ config' = config
      BY <1>0, <2>3 DEF RunDropboxDown, Posts
    <3>3. queue' = Append(Tail(queue), [do |-> "exit"])
      BY <1>1, <3>2
    <3> QED BY <2>3, <3>1, <3>2, <3>3
  <2> QED BY <2>1, <2>2, <2>3, Goals DEF Ends
<1>3. /\ queue' \in Seq(Item) /\ Replaced(queue, x, y, queue')
      /\ Swaps(queue, "dropboxDown", y.do, queue')
  BY <1>0, <1>1, <1>2, Swapping
<1>4. Typed'
  <2>1. /\ DOMAIN config'.sources \subseteq Sources
        /\ config'.token \in BOOLEAN
        /\ config'.skipped \in SUBSET Sources
    <3>1. /\ DOMAIN NoConfig.sources = {} /\ NoConfig.token \in BOOLEAN
          /\ NoConfig.skipped = {}
      BY DEF NoConfig
    <3>2. CASE config' = NoConfig
      BY <3>1, <3>2
    <3>3. CASE config' = config
      BY <1>1, <3>3 DEF Typed, TypeOK, ControllerTypeOK
    <3> QED BY <1>2, <3>2, <3>3
  <2> QED BY <1>1, <1>3, <2>1, Contained
          DEF Typed, TypeOK, ControllerTypeOK, ClientUnchanged, connVars
<1>5. SUFFICES ASSUME ~clash'
               PROVE  /\ Lone' /\ Returning' /\ Connecting' /\ Exiting'
                      /\ Quiet' /\ Handled'
  BY <1>4 DEF IInv
<1>6. Lone /\ Returning /\ Connecting /\ Exiting /\ Quiet /\ Handled
  BY <1>1, <1>5 DEF IInv
<1>7. /\ \A r : x \notin StepsOf(r) /\ y \notin StepsOf(r)
      /\ x \in Of(DropboxStep) /\ y \notin Of(DropboxStep)
      /\ x \in StepsTo(g.to)
      /\ x \in DownToExit <=> g.to = "exit"
      /\ g.to \in Ends
  BY <1>0, <1>2, Goals
  DEF StepsOf, StepsTo, Of, SourceStep, ResetStep, DropboxStep, DownToExit
<1>8. /\ Toward(g.to) /\ DOMAIN handlers = {} /\ dropbox.goal = NoGoal
      /\ Count(queue', Of(DropboxStep)) = 0
      /\ \A r : Count(queue', StepsOf(r)) = Count(queue, StepsOf(r))
      /\ g.to = "exit" => dropbox.gone
  <2>1. /\ Count(queue, Of(DropboxStep)) = Count(queue', Of(DropboxStep)) + 1
        /\ Count(queue', Of(DropboxStep)) \in Nat
        /\ \A r : Count(queue', StepsOf(r)) = Count(queue, StepsOf(r))
    BY <1>3, <1>7 DEF Replaced
  <2>2. Removed(queue, x, Tail(queue))
    BY <1>0, <1>1, Removing
  <2>3. Count(queue, StepsTo(g.to)) > 0 /\ (g.to = "exit" => Count(queue, DownToExit) > 0)
    BY <1>7, <2>2 DEF Removed
  <2>4. Toward(g.to) /\ (g.to = "exit" => dropbox.gone)
    BY <1>6, <2>3 DEF Toward, TowardOf, Exiting
  <2>5. /\ DOMAIN handlers = {} /\ dropbox.goal = NoGoal
        /\ Count(queue', Of(DropboxStep)) = 0
    BY <1>6, <2>1 DEF Lone, LastDropbox, Has, DropboxWaits
  <2> QED BY <2>1, <2>4, <2>5
<1>9. /\ \A r \in Sources : Count(queue', StepsOf(r)) = 0
      /\ Count(queue', DownToExit) = 0
      /\ \A to \in Ends : Count(queue', StepsTo(to)) = 0
  <2>1. \A r \in Sources : Count(queue', StepsOf(r)) = 0
    <3>1. \A r : Count(queue', StepsOf(r)) \in Nat
      BY <1>3 DEF Replaced
    <3> QED BY <1>6, <1>8, <3>1 DEF Lone, OneEach
  <2>2. Count(queue', Of(ResetStep)) = 0 /\ \A X : Count(queue', X) \in Nat
    BY <1>3, <1>8, <2>1, StepsLead, Counted
  <2>3. \A to \in Ends : Count(queue', StepsTo(to)) = 0
    BY <1>3, <2>2, StepsLead
  <2>4. Count(queue', DownToExit) = 0
    <3>1. DownToExit \subseteq Of(DropboxStep)
      BY DEF DownToExit, Of, DropboxStep
    <3>2. Count(queue', DownToExit) <= Count(queue', Of(DropboxStep))
      BY <1>3, <3>1, Counted
    <3> QED BY <1>8, <2>2, <3>2
  <2> QED BY <2>1, <2>3, <2>4
<1>10. \A to \in Ends : ~Toward(to)'
  BY <1>1, <1>8, <1>9, Goals DEF Toward, TowardOf
<1>11. ~Underway' /\ "connect" \in Ends /\ "load" \in Ends /\ "exit" \in Ends
  BY <1>10 DEF Underway, Ends
<1>12. Lone'
  <2>1. OneEach'
    BY <1>1, <1>8, <1>9 DEF OneEach, Waits
  <2>2. LastDropbox'
    BY <1>1, <1>8 DEF LastDropbox, DropboxWaits, Has
  <2>3. AllOrNone' /\ OneEnd'
    BY <1>10, <1>11 DEF AllOrNone, OneEnd
  <2>4. ~Has({"dangling"})'
    BY <1>2, <1>3, <1>6 DEF Lone, Has, Swaps
  <2> QED BY <2>1, <2>2, <2>3, <2>4 DEF Lone
<1>13. Handled'
  BY <1>1, <1>2, <1>8 DEF Handled, NoConfig
<1>14. UNCHANGED <<conn, reading, server, readyFor, reported, timer, shuttingDown>>
  BY DEF ClientUnchanged, connVars
<1>15. Counts(queue) /\ Counts(queue')
  BY <1>1, <1>3, KindsCounted
<1>16. Exiting'
  BY <1>1, <1>2, <1>3, <1>6, <1>9, <1>10, <1>11, <1>14 DEF Exiting, Has, Swaps
<1>17. CASE g.to = "connect"
  <2>1. y.do = "scheduleConnect" /\ Toward("connect") /\ Clear'
    BY <1>2, <1>8, <1>17 DEF Clear, Empty, NoConfig
  <2>2. Returning'
    BY <1>3, <1>6, <1>10, <1>11, <1>14, <2>1 DEF Returning, Returns, Swaps
  <2>3. ~Has({"connected"})'
    BY <1>3, <1>6, <2>1 DEF Connecting, Has, Swaps
  <2>4. conn = "lost"
    BY <1>3, <1>6, <2>1 DEF Returning, Returns, Swaps
  <2>5. Connecting'
    <3>1. Count(queue', Of({"connected"})) <= 1
      BY <1>15, <2>3 DEF Has, Counts
    <3>2. ~Before(queue', Of({"reset"}), Of({"connected"}))
      BY <1>15, <2>3 DEF Has, Counts
    <3> QED BY <1>14, <2>3, <2>4, <3>1, <3>2 DEF Connecting
  <2>6. ~Has({"message", "load"})' /\ ~Has({"message"})'
    BY SMTT(30), <1>3, <1>6, <1>15, <2>1 DEF Quiet, Has, Swaps, Counts
  <2>7. Quiet'
    BY <1>3, <1>10, <1>11, <1>15, <2>1, <2>6 DEF Quiet, Has, Counts
  <2> QED BY <1>12, <1>13, <1>16, <2>2, <2>5, <2>7
<1>18. CASE g.to = "load"
  <2>1. y.do = "load" /\ Toward("load")
    BY <1>2, <1>8, <1>18
  <2>2. Returning'
    BY <1>3, <1>6, <1>10, <1>11, <1>14, <2>1 DEF Returning, Returns, Swaps
  <2>3. ~Over /\ ~dropbox.gone /\ conn # "connecting" /\ ~Has({"connected"})
    BY <1>6, <2>1 DEF Quiet, Connecting
  <2>4. ~Has({"connected"})'
    BY <1>3, <2>1, <2>3 DEF Has, Swaps
  <2>5. Connecting'
    <3>1. Count(queue', Of({"connected"})) <= 1
      BY <1>15, <2>4 DEF Has, Counts
    <3>2. ~Before(queue', Of({"reset"}), Of({"connected"}))
      BY <1>15, <2>4 DEF Has, Counts
    <3>3. ~Has(Error)' \/ conn # "up"
      BY <1>3, <1>6, <2>1, <2>3 DEF Connecting, Has, Swaps, Error
    <3>4. ~Before(queue', Of({"connected"}), Of(Error))
      BY <1>15, <2>4 DEF Has, Counts
    <3> QED BY <1>14, <2>3, <2>4, <3>1, <3>2, <3>3, <3>4 DEF Connecting
  <2>6. ~Over'
    BY <1>3, <1>14, <2>1, <2>3 DEF Over, Has, Swaps
  <2>7. Quiet'
    <3>1. ~Before(queue', Of(Error \cup {"clientDown"}), Of({"message"}))
      BY <1>3, <1>6, <2>1 DEF Quiet, Swaps
    <3>2. Has({"reset"})' => ~Has({"message"})'
      BY <1>3, <1>6, <2>1 DEF Quiet, Has, Swaps
    <3> QED BY <1>1, <1>10, <1>11, <2>3, <2>6, <3>1, <3>2 DEF Quiet
  <2> QED BY <1>12, <1>13, <1>16, <2>2, <2>5, <2>7
<1>19. CASE g.to = "exit"
  <2>1. y.do = "exit" /\ Toward("exit") /\ dropbox.gone /\ config' = config
    BY <1>2, <1>8, <1>19
  <2>2. Returning'
    BY <1>3, <1>6, <1>10, <1>11, <1>14, <2>1 DEF Returning, Returns, Swaps
  <2>3. /\ Over' = Over /\ Clear' = Clear /\ Empty' = Empty
        /\ \A dos \in {{"connected"}, {"message"}, {"message", "load"}, {"reset"}, Error} :
              Has(dos)' <=> Has(dos)
    <3>1. \A dos : "dropboxDown" \notin dos /\ "exit" \notin dos =>
                      Count(queue', Of(dos)) = Count(queue, Of(dos))
      BY <1>3, <2>1 DEF Swaps
    <3> QED BY <1>14, <2>1, <3>1 DEF Over, Clear, Empty, Has, Error
  <2>4. Connecting'
    <3>1. Count(queue', Of({"connected"})) <= 1
      BY <1>3, <1>6, <2>1 DEF Connecting, Swaps
    <3>2. ~Before(queue', Of({"reset"}), Of({"connected"}))
      BY <1>3, <1>6, <2>1 DEF Connecting, Swaps
    <3>3. conn = "up" => ~Before(queue', Of({"connected"}), Of(Error))
      BY <1>3, <1>6, <2>1 DEF Connecting, Swaps, Error
    <3> QED BY <1>6, <1>10, <1>11, <1>14, <2>3, <3>1, <3>2, <3>3 DEF Connecting
  <2>5. Quiet'
    <3>1. ~Before(queue', Of(Error \cup {"clientDown"}), Of({"message"}))
      BY <1>3, <1>6, <2>1 DEF Quiet, Swaps
    <3> QED BY <1>1, <1>6, <1>10, <1>11, <2>1, <2>3, <3>1 DEF Quiet
  <2> QED BY <1>12, <1>13, <1>16, <2>2, <2>4, <2>5
<1> QED BY <1>17, <1>18, <1>19, <1>7 DEF Ends

-----------------------------------------------------------------------------
\* What Controller::stopHandleSources posts.
LEMMA Stops ==
  ASSUME Typed, NEW g \in RealGoal, NEW t, t = StopHandleSources(g)
  PROVE  /\ t \in Seq(Item)
         /\ \A s : /\ Count(t, StepsOf(s)) \in Nat /\ Count(t, StepsOf(s)) <= 1
                   /\ Count(t, StepsOf(s)) > 0 <=> s \in DOMAIN handlers
         /\ Count(t, Of(DropboxStep)) \in Nat /\ Count(t, Of(DropboxStep)) <= 1
         /\ Count(t, Of(DropboxStep)) > 0 <=> DOMAIN handlers = {}
         /\ \A to : Count(t, StepsTo(to)) > 0 <=> to = g.to
         /\ Count(t, DownToExit) = 0
         /\ \A dos : dos \cap ResetStep = {} => Count(t, Of(dos)) = 0
<1> DEFINE y == [do |-> "stopDropbox", goal |-> g]
           step(s) == [do |-> "splitterDown", source |-> s, goal |-> g]
           T == DOMAIN handlers
<1>1. /\ y \in Item /\ y.do = "stopDropbox" /\ y.goal = g
      /\ \A s \in Sources : /\ step(s) \in Item /\ step(s).do = "splitterDown"
                            /\ step(s).source = s /\ step(s).goal = g
  BY Made DEF DropboxStep, SourceStep
<1>2. T \subseteq Sources /\ IsFiniteSet(T)
  BY ControllerAssumption, FS_Subset DEF Typed, TypeOK, ControllerTypeOK
<1> HIDE DEF y, step
<1>3. CASE T = {}
  <2>1. t = <<y>>
    BY <1>3 DEF StopHandleSources, y
  <2>2. t \in Seq(Item) /\ \A X : /\ y \in X => Count(t, X) = 1
                                  /\ y \notin X => Count(t, X) = 0
    <3>1. <<>> \in Seq(Item)
      OBVIOUS
    <3>2. PICK e \in Seq(Item) : e = <<>>
      BY <3>1
    <3>3. t = Append(e, y)
      BY <2>1, <3>2
    <3>4. t \in Seq(Item) /\ Added(e, y, t)
      BY <1>1, <3>3, Adding
    <3>5. \A X : Count(e, X) = 0
      BY <3>2, CountEmpty
    <3> QED BY <3>4, <3>5 DEF Added
  <2>3. /\ \A s : y \notin StepsOf(s)
        /\ y \in Of(DropboxStep) /\ y \notin DownToExit
        /\ \A to : y \in StepsTo(to) <=> to = g.to
        /\ \A dos : dos \cap ResetStep = {} => y \notin Of(dos)
    BY <1>1
    DEF StepsOf, StepsTo, Of, SourceStep, ResetStep, DropboxStep, DownToExit
  <2> QED BY <1>3, <2>2, <2>3
<1>4. CASE T # {}
  <2>1. PICK order \in SetToSeqs(T) : t = [i \in DOMAIN order |-> step(order[i])]
    BY <1>2, <1>4, Chosen DEF StopHandleSources, step
  <2>2. /\ order \in Seq(T) /\ DOMAIN order = 1 .. Len(order)
        /\ Len(order) \in Nat
        /\ \A i \in DOMAIN order : order[i] \in T
        /\ \A s \in T : \E i \in DOMAIN order : order[i] = s
    <3>1. /\ order \in Seq(T)
          /\ \A s \in T : \E i \in DOMAIN order : order[i] = s
      BY <1>2, Ordered
    <3> QED BY <3>1
  <2>3. /\ t \in Seq(Item) /\ DOMAIN t = DOMAIN order
        /\ \A i \in DOMAIN t :
              /\ t[i] \in Item /\ t[i].do = "splitterDown"
              /\ t[i].source = order[i] /\ t[i].goal = g
    <3>1. \A i \in DOMAIN order : step(order[i]) \in Item
      BY <1>1, <1>2, <2>2
    <3>2. t \in Seq(Item)
      BY <2>1, <2>2, <3>1
    <3> QED BY <1>1, <1>2, <2>1, <2>2, <3>1, <3>2
  <2>4. /\ \A X : Count(t, X) \in Nat
        /\ \A X : Count(t, X) > 0 <=> \E i \in DOMAIN t : t[i] \in X
    BY <2>3, Counted
  <2>5. \A s : Count(t, StepsOf(s)) <= 1
              /\ (Count(t, StepsOf(s)) > 0 <=> s \in T)
    <3> TAKE s
    <3>1. At(t, StepsOf(s)) = At(order, {s})
      BY <2>3 DEF At, StepsOf, SourceStep
    <3>2. Count(order, {s}) = IF s \in T THEN 1 ELSE 0
      BY <1>2, CountOrdered
    <3> QED BY <3>1, <3>2 DEF Count
  <2>6. \A i \in DOMAIN t :
          /\ t[i] \notin Of(DropboxStep) /\ t[i] \notin DownToExit
          /\ \A to : t[i] \in StepsTo(to) <=> to = g.to
          /\ \A dos : dos \cap ResetStep = {} => t[i] \notin Of(dos)
    BY <2>3 DEF StepsTo, Of, ResetStep, DropboxStep, DownToExit
  <2>7. \E i \in DOMAIN t : TRUE
    BY <1>4, <2>2, <2>3
  <2>8. \A X : (\A i \in DOMAIN t : t[i] \notin X) => Count(t, X) = 0
    BY <2>4
  <2> QED BY <1>4, <2>3, <2>4, <2>5, <2>6, <2>7, <2>8
<1> QED BY <1>3, <1>4

\* How the queue r follows from q when an item of kind dx makes a reset begin.
Begins(q, dx, r) ==
    \A dos : dos \cap ResetStep = {} =>
        /\ Count(q, Of(dos)) \in Nat /\ Count(r, Of(dos)) \in Nat
        /\ dx \notin dos => Count(r, Of(dos)) = Count(q, Of(dos))
        /\ dx \in dos => Count(q, Of(dos)) = Count(r, Of(dos)) + 1
        /\ \A ends : ends \cap ResetStep = {} =>
              /\ Before(r, Of(dos), Of(ends)) => Before(q, Of(dos), Of(ends))
              /\ dx \in dos /\ ~Before(q, Of(dos), Of(ends)) =>
                    Count(r, Of(ends)) = 0

\* A reset begins while there is none.
LEMMA Beginning ==
  ASSUME Typed, queue # <<>>, Head(queue).do \notin ResetStep, NEW g \in RealGoal,
         queue' = Tail(queue) \o StopHandleSources(g),
         UNCHANGED <<handlers, dropbox>>
  PROVE  /\ queue' \in Seq(Item)
         /\ Begins(queue, Head(queue).do, queue')
         /\ ~Resetting /\ Lone =>
              /\ Lone' /\ Underway'
              /\ \A to \in Ends : Toward(to)' <=> to = g.to
              /\ Count(queue', DownToExit) = 0
<1>0. PICK x \in Item : x = Head(queue)
  BY DEF Typed
<1>1. PICK t, u : t = StopHandleSources(g) /\ u = Tail(queue) /\ queue' = u \o t
  OBVIOUS
<1>2. /\ t \in Seq(Item)
      /\ \A s : /\ Count(t, StepsOf(s)) \in Nat /\ Count(t, StepsOf(s)) <= 1
                /\ Count(t, StepsOf(s)) > 0 <=> s \in DOMAIN handlers
      /\ Count(t, Of(DropboxStep)) \in Nat /\ Count(t, Of(DropboxStep)) <= 1
      /\ Count(t, Of(DropboxStep)) > 0 <=> DOMAIN handlers = {}
      /\ \A to : Count(t, StepsTo(to)) > 0 <=> to = g.to
      /\ Count(t, DownToExit) = 0
      /\ \A dos : dos \cap ResetStep = {} => Count(t, Of(dos)) = 0
  BY <1>1, Stops
<1>3. u \in Seq(Item) /\ Drops(queue, x.do, u) /\ Removed(queue, x, u)
  <2>1. /\ queue \in Seq(Item) /\ u \in Seq(Item) /\ Removed(queue, x, u)
    BY <1>0, <1>1, Removing DEF Typed
  <2> DEFINE dx == x.do
  <2>2. \A dos : x \in Of(dos) <=> dx \in dos
    BY InOf
  <2>3. dx \notin ResetStep => \A X : X \subseteq Of(ResetStep) => x \notin X
    BY <2>2
  <2> HIDE DEF dx
  <2>4. Drops(queue, dx, u)
    BY <2>1, <2>2, <2>3 DEF Removed, Drops
  <2> QED BY <2>1, <2>4 DEF dx
<1>4. /\ queue' \in Seq(Item)
      /\ \A X : /\ Count(queue', X) = Count(u, X) + Count(t, X)
                /\ Count(u, X) \in Nat /\ Count(t, X) \in Nat
      /\ \A X, Y : Before(queue', X, Y) =>
            Before(u, X, Y) \/ Count(t, Y) > 0
  <2>1. queue' \in Seq(Item)
    BY <1>1, <1>2, <1>3
  <2>2. \A X : /\ Count(queue', X) = Count(u, X) + Count(t, X)
               /\ Count(u, X) \in Nat /\ Count(t, X) \in Nat
    <3> TAKE X
    <3>1. Count(u \o t, X) = Count(u, X) + Count(t, X)
      BY <1>2, <1>3, CountConcat
    <3>2. Count(u, X) \in Nat /\ Count(t, X) \in Nat
      BY <1>2, <1>3, CountType
    <3> QED BY <1>1, <3>1, <3>2
  <2>3. \A X, Y : Before(queue', X, Y) =>
            Before(u, X, Y) \/ Count(t, Y) > 0
    <3> TAKE X, Y
    <3>1. Before(u \o t, X, Y) =>
             \/ Before(u, X, Y) \/ Before(t, X, Y)
             \/ Count(u, X) > 0 /\ Count(t, Y) > 0
      BY <1>2, <1>3, OrderConcat
    <3>2. Before(t, X, Y) => Count(t, Y) > 0
      BY <1>2, OrderCounts
    <3> QED BY <1>1, <3>1, <3>2
  <2> QED BY <2>1, <2>2, <2>3
<1>5. Begins(queue, x.do, queue')
  <2>1. \A dos : dos \cap ResetStep = {} =>
            Count(queue', Of(dos)) = Count(u, Of(dos))
    BY <1>2, <1>4
  <2>2. \A dos, ends : ends \cap ResetStep = {} =>
           (Before(queue', Of(dos), Of(ends)) => Before(u, Of(dos), Of(ends)))
    <3> TAKE dos, ends
    <3>1. ends \cap ResetStep = {} => ~(Count(t, Of(ends)) > 0)
      BY <1>2
    <3> QED BY <1>4, <3>1
  <2> DEFINE dx == x.do
  <2> HIDE DEF dx
  <2>3. Drops(queue, dx, u)
    BY <1>3 DEF dx
  <2>4. Begins(queue, dx, queue')
    BY <2>1, <2>2, <2>3 DEF Begins, Drops
  <2> QED BY <2>4 DEF dx
<1>6. ASSUME ~Resetting, Lone
      PROVE  /\ Lone' /\ Underway'
             /\ \A to \in Ends : Toward(to)' <=> to = g.to
             /\ Count(queue', DownToExit) = 0
  <2>1. /\ ~Has(ResetStep) /\ ~DropboxWaits
        /\ \A s \in DOMAIN handlers : ~Waits(s)
    BY <1>6, Underways
  <2>2. \A X : X \subseteq Of(ResetStep) => Count(u, X) = 0
    <3>1. \A X : X \subseteq Of(ResetStep) =>
              Count(u, X) <= Count(u, Of(ResetStep))
      BY <1>3, Counted
    <3>2. Count(u, Of(ResetStep)) <= Count(queue, Of(ResetStep))
      BY <1>3 DEF Drops
    <3>3. Count(queue, Of(ResetStep)) = 0
      BY <1>3, <2>1 DEF Has, Drops
    <3> QED BY <1>4, <3>1, <3>2, <3>3
  <2>3. /\ \A to : StepsTo(to) \subseteq Of(ResetStep)
        /\ \A s : StepsOf(s) \subseteq Of(ResetStep)
        /\ Of(DropboxStep) \subseteq Of(ResetStep)
        /\ DownToExit \subseteq Of(ResetStep)
    BY DEF StepsTo, StepsOf, Of, ResetStep, SourceStep, DropboxStep, DownToExit
  <2>4. /\ \A to : Count(queue', StepsTo(to)) = Count(t, StepsTo(to))
        /\ \A s : Count(queue', StepsOf(s)) = Count(t, StepsOf(s))
        /\ Count(queue', Of(DropboxStep)) = Count(t, Of(DropboxStep))
        /\ Count(queue', DownToExit) = 0
    <3>1. \A X : X \subseteq Of(ResetStep) => Count(queue', X) = Count(t, X)
      BY <1>4, <2>2
    <3> QED BY <1>2, <2>3, <3>1
  <2>5. \A to \in Ends : Toward(to)' <=> to = g.to
    <3>1. \A to \in Ends : dropbox.goal.to # to
      BY <2>1, Goals DEF DropboxWaits
    <3>2. \A to \in Ends, s \in DOMAIN handlers : handlers[s].shuttedDown.to # to
      BY <2>1, Goals DEF Waits
    <3> QED BY <1>2, <2>4, <3>1, <3>2 DEF Toward, TowardOf
  <2>6. Underway'
    BY <2>5, Goals DEF Underway
  <2>7. Lone'
    <3>1. OneEach'
      BY <1>2, <2>1, <2>4 DEF OneEach, Waits
    <3>2. LastDropbox'
      BY <1>2, <2>1, <2>4 DEF LastDropbox, DropboxWaits, Has
    <3>3. AllOrNone'
      BY <1>2, <2>4 DEF AllOrNone
    <3>4. OneEnd'
      BY <2>5 DEF OneEnd
    <3>5. ~Has({"dangling"})'
      <4>1. {"dangling"} \cap ResetStep = {}
        BY DEF ResetStep
      <4>2. Count(queue', Of({"dangling"})) <= Count(queue, Of({"dangling"}))
        BY <1>5, <4>1 DEF Begins
      <4>3. /\ Count(queue, Of({"dangling"})) = 0
            /\ Count(queue', Of({"dangling"})) \in Nat
        BY <1>5, <1>6, <4>1 DEF Begins, Lone, Has
      <4> QED BY <4>2, <4>3 DEF Has
    <3> QED BY <3>1, <3>2, <3>3, <3>4, <3>5 DEF Lone
  <2> QED BY <2>4, <2>5, <2>6, <2>7
<1> QED BY <1>0, <1>4, <1>5, <1>6

\* A reset begins.
LEMMA RunResetKeeps ==
  ASSUME IInv, RunReset, ClientUnchanged
  PROVE  IInv'
<1>1. PICK g \in RealGoal : g = Head(queue).goal /\ g.to = "connect"
  <2>1. Head(queue) \in Item /\ Head(queue).do = "reset"
    BY DEF IInv, Typed, RunReset, Runs
  <2> QED BY <2>1, Parts, Goals
<1>2. /\ Typed /\ queue \in Seq(Item) /\ queue # <<>>
      /\ Head(queue).do = "reset"
      /\ "reset" \notin ResetStep
      /\ queue' = Tail(queue) \o StopHandleSources(g)
      /\ clash' \in BOOLEAN
      /\ ~clash' => ~clash /\ ~Resetting /\ ~Queued({"load"})
      /\ UNCHANGED <<phase, handlers, config, dropbox, freed, connVars, timer,
                     shuttingDown>>
  <2>1. /\ Typed /\ queue \in Seq(Item) /\ queue # <<>>
        /\ Head(queue).do = "reset"
    BY DEF IInv, Typed, RunReset, Runs
  <2>2. "reset" \notin ResetStep
    BY DEF ResetStep
  <2>3. queue' = Tail(queue) \o StopHandleSources(g)
    BY <1>1 DEF RunReset, Posts
  <2>4. /\ clash' = (clash \/ Resetting \/ Queued({"load"}))
        /\ UNCHANGED <<phase, handlers, config, dropbox, freed, connVars, timer,
                       shuttingDown>>
    BY DEF RunReset, ClientUnchanged
  <2>5. clash' \in BOOLEAN
    BY <2>4
  <2> QED BY <2>1, <2>2, <2>3, <2>4, <2>5
<1>3. /\ queue' \in Seq(Item)
      /\ Begins(queue, "reset", queue')
      /\ ~Resetting /\ Lone =>
           /\ Lone' /\ Underway'
           /\ \A to \in Ends : Toward(to)' <=> to = g.to
           /\ Count(queue', DownToExit) = 0
  BY <1>1, <1>2, Beginning
<1>4. Typed'
  BY <1>2, <1>3, Contained DEF Typed, TypeOK, ControllerTypeOK, connVars
<1>5. SUFFICES ASSUME ~clash'
               PROVE  /\ Lone' /\ Returning' /\ Connecting' /\ Exiting'
                      /\ Quiet' /\ Handled'
  BY <1>4 DEF IInv
<1>6. Lone /\ Returning /\ Connecting /\ Exiting /\ Quiet /\ Handled
  BY <1>2, <1>5 DEF IInv
<1>7. /\ Lone' /\ Handled' /\ Count(queue', DownToExit) = 0
      /\ Toward("connect")' <=> g.to = "connect"
      /\ Toward("load")' <=> g.to = "load"
      /\ Toward("exit")' <=> g.to = "exit"
      /\ ~Toward("connect") /\ ~Toward("load") /\ ~Toward("exit")
  <2>1. ~Underway
    BY <1>2, <1>5, Underways
  <2>2. Handled'
    BY <1>2, <1>3, <1>5, <1>6 DEF Handled
  <2> QED BY <1>2, <1>3, <1>5, <1>6, <2>1, <2>2 DEF Underway, Ends
<1>8. /\ \A dos \in {{"reset", "scheduleConnect", "connect"}, {"connected"}, {"reset"},
                    {"scheduleConnect", "connect"}, {"message"}, {"message", "load"},
                    {"clientDown"}, {"load"}, Error, Error \cup {"clientDown"}} :
            dos \cap ResetStep = {}
      /\ Counts(queue) /\ Counts(queue')
  BY <1>2, <1>3, KindsCounted DEF ResetStep, Error
<1>9. UNCHANGED <<conn, reading, server, readyFor, reported, timer, shuttingDown,
                  config, dropbox, handlers>>
  BY <1>2 DEF connVars
<1>10. Returning'
  BY <1>1, <1>3, <1>6, <1>7, <1>8, <1>9 DEF Returning, Returns, Begins
<1>11. Connecting' /\ ~Over' /\ ~Over /\ ~Has({"connected"})'
  <2>1. ~Has({"connected"})'
    BY <1>3, <1>6, <1>8 DEF Connecting, Has, Begins
  <2>2. conn = "lost" /\ ~timer /\ ~timer'
        /\ Count(queue', Of({"reset", "scheduleConnect", "connect"})) = 0
    BY <1>1, <1>3, <1>6, <1>7, <1>8, <1>9 DEF Returning, Returns, Begins
  <2>3. ~Has({"scheduleConnect", "connect"})'
    <3>1. {"scheduleConnect", "connect"} \subseteq {"reset", "scheduleConnect", "connect"}
      OBVIOUS
    <3> QED BY <1>8, <2>2, <3>1 DEF Has, Counts
  <2>4. ~Over' /\ ~Over
    BY <1>3, <1>8, <1>9, <2>2, <2>3 DEF Over, Has, Begins
  <2>5. /\ ~Before(queue', Of({"reset"}), Of({"connected"}))
        /\ Count(queue', Of({"connected"})) <= 1
    BY <1>8, <2>1 DEF Counts, Has
  <2> QED BY <1>9, <2>1, <2>2, <2>4, <2>5 DEF Connecting
<1>12. Exiting'
  BY <1>1, <1>3, <1>6, <1>7, <1>8, <1>9 DEF Exiting, Has, Begins
<1>13. Quiet'
  <2>1. ~Has({"message"}) /\ ~Has({"load"})
    <3>1. Has({"reset"})
      BY <1>3, <1>8 DEF Has, Begins
    <3> QED BY <1>2, <1>5, <1>6, <3>1, Underways DEF Quiet
  <2>2. ~Has({"message", "load"})
    BY <1>2, <2>1, Counted DEF Has
  <2>3. ~Has({"message", "load"})' /\ ~Has({"message"})'
    BY <1>3, <1>8, <2>1, <2>2 DEF Has, Begins
  <2>4. ~Before(queue', Of(Error \cup {"clientDown"}), Of({"message"}))
    BY <1>8, <2>3 DEF Has, Counts
  <2> QED BY <1>1, <1>7, <1>11, <2>3, <2>4 DEF Quiet
<1> QED BY <1>7, <1>10, <1>11, <1>12, <1>13

\* The last reset, which leads to the exit, begins.
LEMMA RunClientDownKeeps ==
  ASSUME IInv, RunClientDown
  PROVE  IInv'
<1>1. PICK g \in RealGoal : g = [to |-> "exit"] /\ g.to = "exit"
  BY Goals
<1>2. /\ Typed /\ queue \in Seq(Item) /\ queue # <<>>
      /\ Head(queue).do = "clientDown"
      /\ "clientDown" \notin ResetStep
      /\ queue' = Tail(queue) \o StopHandleSources(g)
      /\ clash' \in BOOLEAN
      /\ ~clash' => ~clash /\ ~Resetting /\ ~Queued({"load"})
      /\ UNCHANGED <<phase, handlers, config, dropbox, freed, connVars, timer,
                     shuttingDown>>
  <2>1. /\ Typed /\ queue \in Seq(Item) /\ queue # <<>>
        /\ Head(queue).do = "clientDown"
    BY DEF IInv, Typed, RunClientDown, Runs
  <2>2. "clientDown" \notin ResetStep
    BY DEF ResetStep
  <2>3. queue' = Tail(queue) \o StopHandleSources(g)
    BY <1>1 DEF RunClientDown, Posts
  <2>4. /\ clash' = (clash \/ Resetting \/ Queued({"load"}))
        /\ UNCHANGED <<phase, handlers, config, dropbox, freed, connVars, timer,
                       shuttingDown>>
    BY DEF RunClientDown, ClientUnchanged
  <2>5. clash' \in BOOLEAN
    BY <2>4
  <2> QED BY <2>1, <2>2, <2>3, <2>4, <2>5
<1>3. /\ queue' \in Seq(Item)
      /\ Begins(queue, "clientDown", queue')
      /\ ~Resetting /\ Lone =>
           /\ Lone' /\ Underway'
           /\ \A to \in Ends : Toward(to)' <=> to = g.to
           /\ Count(queue', DownToExit) = 0
  BY <1>1, <1>2, Beginning
<1>4. Typed'
  BY <1>2, <1>3, Contained DEF Typed, TypeOK, ControllerTypeOK, connVars
<1>5. SUFFICES ASSUME ~clash'
               PROVE  /\ Lone' /\ Returning' /\ Connecting' /\ Exiting'
                      /\ Quiet' /\ Handled'
  BY <1>4 DEF IInv
<1>6. Lone /\ Returning /\ Connecting /\ Exiting /\ Quiet /\ Handled
  BY <1>2, <1>5 DEF IInv
<1>7. /\ Lone' /\ Handled' /\ Count(queue', DownToExit) = 0
      /\ Toward("connect")' <=> g.to = "connect"
      /\ Toward("load")' <=> g.to = "load"
      /\ Toward("exit")' <=> g.to = "exit"
      /\ ~Toward("connect") /\ ~Toward("load") /\ ~Toward("exit")
  <2>1. ~Underway
    BY <1>2, <1>5, Underways
  <2>2. Handled'
    BY <1>2, <1>3, <1>5, <1>6 DEF Handled
  <2> QED BY <1>2, <1>3, <1>5, <1>6, <2>1, <2>2 DEF Underway, Ends
<1>8. /\ \A dos \in {{"reset", "scheduleConnect", "connect"}, {"connected"}, {"reset"},
                    {"scheduleConnect", "connect"}, {"message"}, {"message", "load"},
                    {"clientDown"}, {"load"}, Error, Error \cup {"clientDown"}} :
            dos \cap ResetStep = {}
      /\ Counts(queue) /\ Counts(queue')
  BY <1>2, <1>3, KindsCounted DEF ResetStep, Error
<1>9. UNCHANGED <<conn, reading, server, readyFor, reported, timer, shuttingDown,
                  config, dropbox, handlers>>
  BY <1>2 DEF connVars
<1>10. Returning'
  BY <1>1, <1>3, <1>6, <1>7, <1>8, <1>9 DEF Returning, Returns, Begins
<1>11. Over' = Over /\ Connecting'
  <2>1. Over' = Over
    BY <1>3, <1>8, <1>9 DEF Over, Has, Begins
  <2> QED BY <1>1, <1>3, <1>6, <1>7, <1>8, <1>9, <2>1
          DEF Connecting, Has, Begins, Error, Clear, Empty, Counts
<1>12. Exiting'
  <2>1. Has({"clientDown"})
    BY <1>3, <1>8 DEF Has, Begins
  <2> QED BY <1>1, <1>3, <1>6, <1>7, <1>8, <1>9, <2>1 DEF Exiting, Has, Begins
<1>13. Quiet'
  <2>1. ~Has({"load"})
    BY <1>2, <1>5, Underways
  <2>2. ~Has({"message"})' /\ ~Has({"load"})'
    BY <1>3, <1>6, <1>8, <2>1 DEF Quiet, Has, Begins
  <2>3. ~Has({"message", "load"})'
    BY <1>3, <2>2, Counted DEF Has
  <2>4. ~Before(queue', Of(Error \cup {"clientDown"}), Of({"message"}))
    BY <1>8, <2>2 DEF Has, Counts
  <2> QED BY <1>1, <1>6, <1>7, <1>9, <1>11, <2>2, <2>3, <2>4 DEF Quiet, Clear, Empty
<1> QED BY <1>7, <1>10, <1>11, <1>12, <1>13

\* The reset for another configuration begins.
LEMMA RunLoadAgainKeeps ==
  ASSUME IInv, RunLoadAgain, ClientUnchanged
  PROVE  IInv'
<1>1. PICK g \in RealGoal :
         g = [to |-> "load", config |-> Head(queue).config] /\ g.to = "load"
  <2>1. Head(queue) \in Item /\ Head(queue).do = "load"
    BY DEF IInv, Typed, RunLoadAgain, Runs
  <2> QED BY <2>1, Parts, Goals
<1>2. /\ Typed /\ queue \in Seq(Item) /\ queue # <<>>
      /\ Head(queue).do = "load"
      /\ "load" \notin ResetStep
      /\ queue' = Tail(queue) \o StopHandleSources(g)
      /\ clash' \in BOOLEAN
      /\ ~clash' => ~clash /\ ~Resetting
      /\ UNCHANGED <<phase, handlers, config, dropbox, freed, connVars, timer,
                     shuttingDown>>
  <2>1. Typed /\ queue \in Seq(Item) /\ queue # <<>> /\ Head(queue).do = "load"
    BY DEF IInv, Typed, RunLoadAgain, Runs
  <2>2. "load" \notin ResetStep
    BY DEF ResetStep
  <2>3. queue' = Tail(queue) \o StopHandleSources(g)
    BY <1>1 DEF RunLoadAgain, Posts
  <2>4. /\ clash' = (clash \/ Resetting)
        /\ UNCHANGED <<phase, handlers, config, dropbox, freed, connVars, timer,
                       shuttingDown>>
    BY DEF RunLoadAgain, ClientUnchanged
  <2>5. clash' \in BOOLEAN
    BY <2>4
  <2> QED BY <2>1, <2>2, <2>3, <2>4, <2>5
<1>3. /\ queue' \in Seq(Item)
      /\ Begins(queue, "load", queue')
      /\ ~Resetting /\ Lone =>
           /\ Lone' /\ Underway'
           /\ \A to \in Ends : Toward(to)' <=> to = g.to
           /\ Count(queue', DownToExit) = 0
  BY <1>1, <1>2, Beginning
<1>4. Typed'
  BY <1>2, <1>3, Contained DEF Typed, TypeOK, ControllerTypeOK, connVars
<1>5. SUFFICES ASSUME ~clash'
               PROVE  /\ Lone' /\ Returning' /\ Connecting' /\ Exiting'
                      /\ Quiet' /\ Handled'
  BY <1>4 DEF IInv
<1>6. Lone /\ Returning /\ Connecting /\ Exiting /\ Quiet /\ Handled
  BY <1>2, <1>5 DEF IInv
<1>7. /\ Lone' /\ Handled' /\ Count(queue', DownToExit) = 0
      /\ Toward("connect")' <=> g.to = "connect"
      /\ Toward("load")' <=> g.to = "load"
      /\ Toward("exit")' <=> g.to = "exit"
      /\ ~Toward("connect") /\ ~Toward("load") /\ ~Toward("exit")
  <2>1. ~Underway
    BY <1>2, <1>5, Underways
  <2>2. Handled'
    BY <1>2, <1>3, <1>5, <1>6 DEF Handled
  <2> QED BY <1>2, <1>3, <1>5, <1>6, <2>1, <2>2 DEF Underway, Ends
<1>8. /\ \A dos \in {{"reset", "scheduleConnect", "connect"}, {"connected"}, {"reset"},
                    {"scheduleConnect", "connect"}, {"message"}, {"message", "load"},
                    {"clientDown"}, {"load"}, Error, Error \cup {"clientDown"}} :
            dos \cap ResetStep = {}
      /\ Counts(queue) /\ Counts(queue')
  BY <1>2, <1>3, KindsCounted DEF ResetStep, Error
<1>9. UNCHANGED <<conn, reading, server, readyFor, reported, timer, shuttingDown,
                  config, dropbox, handlers>>
  BY <1>2 DEF connVars
<1>10. Returning'
  BY <1>1, <1>3, <1>6, <1>7, <1>8, <1>9 DEF Returning, Returns, Begins
<1>11. Connecting' /\ ~Over' /\ ~dropbox.gone
  <2>1. Has({"message", "load"})
    BY <1>3, <1>8 DEF Has, Begins
  <2>2. conn # "connecting" /\ ~Has({"connected"}) /\ ~Over /\ ~dropbox.gone
    BY <1>6, <2>1 DEF Connecting, Quiet
  <2>3. ~Over' /\ ~Has({"connected"})'
    BY <1>3, <1>8, <1>9, <2>2 DEF Over, Has, Begins
  <2>4. Connecting'
    BY <1>3, <1>6, <1>8, <1>9, <2>2, <2>3
       DEF Connecting, Has, Begins, Counts, Error
  <2> QED BY <2>2, <2>3, <2>4
<1>12. Exiting'
  BY <1>1, <1>3, <1>6, <1>7, <1>8, <1>9 DEF Exiting, Has, Begins
<1>13. Quiet'
  <2>1. ~Empty
    BY DEF RunLoadAgain
  <2>2. Has({"reset"})' => ~Has({"message"})'
    BY <1>3, <1>6, <1>8 DEF Quiet, Has, Begins
  <2>3. ~Before(queue', Of(Error \cup {"clientDown"}), Of({"message"}))
    BY <1>3, <1>6, <1>8 DEF Quiet, Begins
  <2> QED BY <1>1, <1>7, <1>9, <1>11, <2>1, <2>2, <2>3 DEF Quiet, Clear, Empty
<1> QED BY <1>7, <1>10, <1>11, <1>12, <1>13

\* A configuration is loaded by a box that has none.
LEMMA RunLoadKeeps ==
  ASSUME IInv, RunLoad, ClientUnchanged
  PROVE  IInv'
<1>0. PICK c \in Configs : c = Head(queue).config
  <2>1. Head(queue) \in Item /\ Head(queue).do = "load"
    BY DEF IInv, Typed, RunLoad, Runs
  <2> QED BY <2>1, Parts
<1>1. PICK skipped \in SUBSET DOMAIN c.sources :
         config' = Loaded(c, skipped) /\ StartHandleSources(config')
  BY <1>0 DEF RunLoad
<1> DEFINE y == [do |-> "ready"]
<1>2. /\ Typed /\ queue \in Seq(Item) /\ queue # <<>>
      /\ Head(queue).do = "load"
      /\ y \in Item /\ y.do = "ready" /\ queue' = Append(Tail(queue), y)
      /\ Empty
      /\ UNCHANGED <<phase, freed, clash, conn, reading, writing, server, readyFor,
                     reported, timer, shuttingDown>>
  <2>1. y \in Item
    BY Made
  <2>2. /\ Typed /\ queue \in Seq(Item) /\ queue # <<>>
        /\ queue' = Tail(queue) \o <<y>>
    BY DEF IInv, Typed, RunLoad, Runs, Posts
  <2>3. queue' = Append(Tail(queue), y)
    BY <2>2
  <2> QED BY <2>1, <2>2, <2>3 DEF RunLoad, Runs, ClientUnchanged, connVars
<1> HIDE DEF y
<1>3. queue' \in Seq(Item) /\ Swaps(queue, "load", "ready", queue')
  BY <1>2, Swapping
<1>4. /\ DOMAIN c.sources \subseteq Sources
      /\ \A s \in DOMAIN c.sources : c.sources[s] \in Nat
      /\ c.token \in BOOLEAN
  BY ControllerAssumption
<1>5. /\ DOMAIN config'.sources = DOMAIN c.sources \ skipped
      /\ \A s \in DOMAIN config'.sources : config'.sources[s] \in Nat
      /\ config'.token = c.token /\ config'.skipped = skipped
  <2>1. \A n \in Nat : MaxStorage(n) \in Nat
    BY DEF MaxStorage, WordMegabytes
  <2> QED BY <1>1, <1>4, <2>1 DEF Loaded
<1>6. /\ DOMAIN handlers' = DOMAIN handlers \cup DOMAIN config'.sources
      /\ \A s \in DOMAIN handlers : handlers'[s] = handlers[s]
      /\ \A s \in DOMAIN handlers' \ DOMAIN handlers :
            handlers'[s] = [streamer |-> "idle", shuttedDown |-> NoGoal,
                            storage |-> config'.sources[s]]
  BY <1>1 DEF StartHandleSources
<1>7. /\ \A s \in DOMAIN handlers' : handlers'[s] \in Handler
      /\ DOMAIN handlers' \subseteq Sources
  <2>1. /\ \A s \in DOMAIN handlers : handlers[s] \in Handler
        /\ DOMAIN handlers \subseteq Sources
    BY <1>2 DEF Typed, TypeOK, ControllerTypeOK
  <2>2. \A s \in DOMAIN handlers' \ DOMAIN handlers : handlers'[s] \in Handler
    <3> TAKE s \in DOMAIN handlers' \ DOMAIN handlers
    <3>1. config'.sources[s] \in Nat /\ NoGoal \in Goal
      BY <1>5, <1>6, Goals
    <3>2. handlers'[s] = [streamer |-> "idle", shuttedDown |-> NoGoal,
                          storage |-> config'.sources[s]]
      BY <1>6
    <3> QED BY <3>1, <3>2 DEF Handler
  <2> QED BY <1>4, <1>5, <1>6, <2>1, <2>2
<1>8. /\ dropbox'.gone = dropbox.gone /\ dropbox'.goal = dropbox.goal
      /\ dropbox' \in [used : BOOLEAN, gone : BOOLEAN, goal : Goal]
  <2>1. dropbox \in [used : BOOLEAN, gone : BOOLEAN, goal : Goal]
    BY <1>2 DEF Typed, TypeOK, ControllerTypeOK
  <2>2. PICK used \in BOOLEAN : dropbox' = [dropbox EXCEPT !.used = used]
    <3> DEFINE used == \/ dropbox.used
                       \/ /\ ~dropbox.gone
                          /\ \E s \in DOMAIN config'.sources :
                                config'.sources[s] > 0
    <3>1. used \in BOOLEAN
      BY <2>1
    <3>2. dropbox' = [dropbox EXCEPT !.used = used]
      BY <1>1 DEF StartHandleSources
    <3> QED BY <3>1, <3>2
  <2> QED BY <2>1, <2>2
<1>9. Typed'
  <2>1. /\ DOMAIN config'.sources \subseteq Sources
        /\ config'.token \in BOOLEAN
        /\ config'.skipped \in SUBSET Sources
    BY <1>1, <1>4, <1>5
  <2> QED BY <1>2, <1>3, <1>7, <1>8, <2>1, Contained
          DEF Typed, TypeOK, ControllerTypeOK
<1>10. SUFFICES ASSUME ~clash'
                PROVE  /\ Lone' /\ Returning' /\ Connecting' /\ Exiting'
                       /\ Quiet' /\ Handled'
  BY <1>9 DEF IInv
<1>11. Lone /\ Returning /\ Connecting /\ Exiting /\ Quiet /\ Handled
  BY <1>2, <1>10 DEF IInv
<1>12. /\ conn # "connecting" /\ ~Has({"connected"})
       /\ ~Toward("connect") /\ ~Toward("exit") /\ ~Toward("load")
       /\ ~Over /\ ~dropbox.gone
  <2>1. Has({"message", "load"})
    BY <1>3 DEF Has, Swaps
  <2> QED BY <1>2, <1>11, <2>1 DEF Connecting, Quiet
<1>13. /\ ~Underway /\ DOMAIN handlers = {} /\ ~DropboxWaits
       /\ Count(queue, Of(DropboxStep)) = 0
       /\ \A s : Count(queue, StepsOf(s)) = 0
  <2>1. ~Underway
    BY <1>12 DEF Underway, Ends
  <2>2. DOMAIN handlers = {}
    BY <1>2, <1>11, <1>12, <2>1 DEF Handled, Clear, Empty
  <2>3. ~Has(ResetStep) /\ ~DropboxWaits
    BY <1>2, <2>1, Underways
  <2>4. /\ Count(queue, Of(DropboxStep)) \in Nat /\ \A s : Count(queue, StepsOf(s)) \in Nat
    BY <1>2, Counted
  <2> QED BY <1>2, <2>1, <2>2, <2>3, <2>4, StepsLead DEF Has
<1>14. \A X : X \subseteq Of(ResetStep) => Count(queue', X) = Count(queue, X)
  <2>1. {"load", "ready"} \cap ResetStep = {}
    BY DEF ResetStep
  <2> QED BY <1>3, <2>1 DEF Swaps
<1>15. /\ \A to : Count(queue', StepsTo(to)) = Count(queue, StepsTo(to))
       /\ \A s : Count(queue', StepsOf(s)) = 0
       /\ Count(queue', Of(DropboxStep)) = 0
       /\ Count(queue', DownToExit) = Count(queue, DownToExit)
  <2>1. /\ \A to : StepsTo(to) \subseteq Of(ResetStep)
        /\ \A s : StepsOf(s) \subseteq Of(ResetStep)
        /\ Of(DropboxStep) \subseteq Of(ResetStep)
        /\ DownToExit \subseteq Of(ResetStep)
    BY DEF StepsTo, StepsOf, Of, ResetStep, SourceStep, DropboxStep, DownToExit
  <2> QED BY <1>13, <1>14, <2>1
<1>16. /\ DOMAIN handlers' = DOMAIN config'.sources
       /\ \A s \in DOMAIN handlers' : handlers'[s].shuttedDown = NoGoal
  <2>1. DOMAIN handlers' = DOMAIN config'.sources
    BY <1>6, <1>13
  <2>2. \A s \in DOMAIN handlers' : s \in DOMAIN handlers' \ DOMAIN handlers
    BY <1>13
  <2>3. \A s \in DOMAIN handlers' : handlers'[s].shuttedDown = NoGoal
    <3> TAKE s \in DOMAIN handlers'
    <3>1. handlers'[s] = [streamer |-> "idle", shuttedDown |-> NoGoal,
                          storage |-> config'.sources[s]]
      BY <1>6, <2>2
    <3> QED BY <3>1
  <2> QED BY <2>1, <2>3
<1>17. \A to \in Ends : ~Toward(to)'
  <2>1. \A to \in Ends : ~Toward(to)
    BY <1>12 DEF Ends
  <2> QED BY <1>8, <1>15, <1>16, <2>1, Goals DEF Toward, TowardOf
<1>18. Lone'
  <2>1. OneEach'
    BY <1>15, <1>16 DEF OneEach, Waits
  <2>2. LastDropbox'
    BY <1>8, <1>13, <1>15 DEF LastDropbox, DropboxWaits, Has
  <2>3. AllOrNone' /\ OneEnd'
    BY <1>17 DEF AllOrNone, OneEnd, Underway
  <2>4. ~Has({"dangling"})'
    BY <1>3, <1>11 DEF Lone, Has, Swaps
  <2> QED BY <2>1, <2>2, <2>3, <2>4 DEF Lone
<1>19. Handled'
  BY <1>16 DEF Handled
<1>20. /\ Counts(queue) /\ Counts(queue') /\ ~Over' /\ ~Has({"connected"})'
       /\ ~Toward("connect")' /\ ~Toward("exit")' /\ ~Toward("load")'
  <2>1. Counts(queue) /\ Counts(queue')
    BY <1>2, <1>3, KindsCounted
  <2>2. ~Over' /\ ~Has({"connected"})'
    BY <1>2, <1>3, <1>12 DEF Over, Has, Swaps
  <2> QED BY <1>17, <2>1, <2>2 DEF Ends
<1>21. Returning'
  BY <1>2, <1>3, <1>11, <1>12, <1>20 DEF Returning, Returns, Swaps
<1>22. Connecting'
  BY <1>2, <1>3, <1>11, <1>12, <1>20 DEF Connecting, Has, Swaps, Counts, Error
<1>23. Exiting'
  <2>1. ~dropbox'.gone
    BY <1>8, <1>12
  <2>2. Count(queue, DownToExit) = 0
    <3>1. Count(queue, DownToExit) \in Nat
      BY <1>2, Counted
    <3> QED BY <1>11, <1>12, <3>1 DEF Exiting
  <2> QED BY <1>2, <1>3, <1>11, <1>15, <1>20, <2>1, <2>2
          DEF Exiting, Has, Swaps
<1>24. Quiet'
  BY <1>2, <1>3, <1>8, <1>11, <1>12, <1>20 DEF Quiet, Has, Swaps, Error
<1> QED BY <1>18, <1>19, <1>21, <1>22, <1>23, <1>24

\* A box that has just started.
LEMMA Starting ==
  ASSUME NEW q, q = <<>>, NEW h, h = <<>>, NEW d, d = NewDropbox
  PROVE  /\ \A X : Count(q, X) = 0
         /\ \A X, Y : ~Before(q, X, Y)
         /\ q \in Seq(Item) /\ DOMAIN h = {}
         /\ d.goal = NoGoal /\ ~d.gone
         /\ d \in [used : BOOLEAN, gone : BOOLEAN, goal : Goal]
         /\ \A to \in Ends : ~TowardOf(q, h, d, to)
<1>1. \A X : Count(q, X) = 0
  BY CountEmpty
<1>2. \A X, Y : ~Before(q, X, Y)
  BY DEF Before
<1>3. DOMAIN h = {} /\ d.goal = NoGoal /\ ~d.gone
      /\ d \in [used : BOOLEAN, gone : BOOLEAN, goal : Goal]
  BY Goals DEF NewDropbox
<1>4. q \in Seq(Item)
  OBVIOUS
<1>5. \A to \in Ends : ~TowardOf(q, h, d, to)
  BY <1>1, <1>3, Goals DEF TowardOf
<1> QED BY <1>1, <1>2, <1>3, <1>4, <1>5

\* The process starts with it.
LEMMA InitHas == Init => IInv
<1> SUFFICES ASSUME Init PROVE IInv
  OBVIOUS
<1>1. /\ \A X : Count(queue, X) = 0
      /\ \A X, Y : ~Before(queue, X, Y)
      /\ queue \in Seq(Item) /\ DOMAIN handlers = {}
      /\ dropbox.goal = NoGoal /\ ~dropbox.gone
      /\ dropbox \in [used : BOOLEAN, gone : BOOLEAN, goal : Goal]
      /\ \A to \in Ends : ~Toward(to)
  BY Starting DEF Init, ControllerInit, Toward
<1>2. /\ DOMAIN NoConfig.sources = {} /\ NoConfig.token = FALSE
      /\ NoConfig.skipped = {}
  BY DEF NoConfig
<1>3. Typed
  <2>1. /\ phase = "running" /\ freed \in BOOLEAN /\ clash \in BOOLEAN
        /\ conn = "invalid" \/ conn = "connecting"
        /\ reading \in BOOLEAN /\ writing \in BOOLEAN /\ server = "silent"
        /\ readyFor \in SUBSET Sources /\ reported \in BOOLEAN
        /\ timer \in BOOLEAN /\ shuttingDown \in BOOLEAN
    BY DEF Init, ControllerInit
  <2>2. /\ DOMAIN config.sources = {} /\ config.token \in BOOLEAN
        /\ config.skipped \in SUBSET Sources
    BY <1>2 DEF Init, ControllerInit
  <2> QED BY <1>1, <2>1, <2>2, Contained DEF Typed, TypeOK, ControllerTypeOK
<1>4. /\ ~Underway /\ ~Toward("connect") /\ ~Toward("exit") /\ ~Toward("load")
      /\ \A dos : ~Has(dos)
      /\ ~Over /\ Clear
  BY <1>1, <1>2 DEF Underway, Ends, Has, Over, Clear, Empty, Init, ControllerInit
<1>5. Lone
  BY <1>1, <1>4
     DEF Lone, OneEach, LastDropbox, AllOrNone, OneEnd, Underway, Waits,
                    DropboxWaits
<1>6. Returning /\ Connecting
  BY <1>1, <1>4 DEF Returning, Returns, Connecting, Init
<1>7. Exiting /\ Quiet
  BY <1>1, <1>4 DEF Exiting, Quiet, Init
<1>8. Handled
  BY <1>1, <1>2 DEF Handled, Init, ControllerInit
<1> QED BY <1>3, <1>5, <1>6, <1>7, <1>8 DEF IInv

\* So it does when it is started again.
LEMMA RestartKeeps ==
  ASSUME IInv, Restart
  PROVE  IInv'
<1>1. /\ \A X : Count(queue', X) = 0
      /\ \A X, Y : ~Before(queue', X, Y)
      /\ queue' \in Seq(Item) /\ DOMAIN handlers' = {}
      /\ dropbox'.goal = NoGoal /\ ~dropbox'.gone
      /\ dropbox' \in [used : BOOLEAN, gone : BOOLEAN, goal : Goal]
      /\ \A to \in Ends : ~Toward(to)'
  BY Starting DEF Restart, Toward
<1>2. /\ DOMAIN NoConfig.sources = {} /\ NoConfig.token = FALSE
      /\ NoConfig.skipped = {}
  BY DEF NoConfig
<1>3. Typed'
  <2>1. /\ phase' = "running" /\ freed' \in BOOLEAN /\ clash' \in BOOLEAN
        /\ conn' = "connecting"
        /\ reading' \in BOOLEAN /\ writing' \in BOOLEAN /\ server' = "silent"
        /\ readyFor' \in SUBSET Sources /\ reported' \in BOOLEAN
        /\ timer' \in BOOLEAN /\ shuttingDown' \in BOOLEAN
    BY DEF Restart, NewConnection
  <2>2. /\ DOMAIN config'.sources = {} /\ config'.token \in BOOLEAN
        /\ config'.skipped \in SUBSET Sources
    BY <1>2 DEF Restart
  <2> QED BY <1>1, <2>1, <2>2, Contained
          DEF Typed, TypeOK, ControllerTypeOK
<1>4. /\ ~Underway' /\ ~Toward("connect")' /\ ~Toward("exit")'
      /\ ~Toward("load")'
      /\ \A dos : ~Has(dos)'
      /\ ~Over' /\ Clear'
  BY <1>1, <1>2 DEF Underway, Ends, Has, Over, Clear, Empty, Restart
<1>5. Lone'
  BY <1>1, <1>4
     DEF Lone, OneEach, LastDropbox, AllOrNone, OneEnd, Underway, Waits,
                    DropboxWaits
<1>6. Returning' /\ Connecting'
  BY <1>1, <1>4 DEF Returning, Returns, Connecting, Restart, NewConnection
<1>7. Exiting' /\ Quiet'
  BY <1>1, <1>4 DEF Exiting, Quiet, Restart
<1>8. Handled'
  BY <1>1, <1>2 DEF Handled, Restart
<1> QED BY <1>3, <1>5, <1>6, <1>7, <1>8 DEF IInv

-----------------------------------------------------------------------------
\* Every step keeps the invariant.
LEMMA StepKeeps == IInv /\ [Next]_vars => IInv'
<1> SUFFICES ASSUME IInv, [Next]_vars PROVE IInv'
  OBVIOUS
<1>1. CASE UNCHANGED vars
  BY <1>1, CalmSteps
<1>2. CASE RunController /\ ClientUnchanged
  <2>1. CASE RunReset
    BY <1>2, <2>1, RunResetKeeps
  <2>2. CASE RunSplitterDown
    <3>1. /\ queue \in Seq(Item) /\ queue # <<>>
          /\ Head(queue).do \in SourceStep
          /\ queue' = Tail(queue) \o <<[Head(queue) EXCEPT !.do = "folderDown"]>>
          /\ UNCHANGED <<phase, handlers, config, dropbox, freed, clash>>
      BY <2>2 DEF RunSplitterDown, Runs, Posts, SourceStep, IInv, Typed
    <3>2. queue' = Append(Tail(queue), [Head(queue) EXCEPT !.do = "folderDown"])
      BY <3>1
    <3> QED BY <1>2, <3>1, <3>2, SameSourceKeeps DEF SourceStep
  <2>3. CASE RunFolderDown
    BY <1>2, <2>3, RunFolderDownKeeps
  <2>4. CASE RunStreamerDown
    BY <1>2, <2>4, RunStreamerDownKeeps
  <2>5. CASE RunStopDropbox
    BY <1>2, <2>5, RunStopDropboxKeeps
  <2>6. CASE RunDropboxDown
    BY <1>2, <2>6, RunDropboxDownKeeps
  <2>7. CASE RunLoadAgain
    BY <1>2, <2>7, RunLoadAgainKeeps
  <2>8. CASE RunLoad
    BY <1>2, <2>8, RunLoadKeeps
  <2>9. CASE RunRequest \/ RunStop
    BY <1>2, <2>9, CalmSteps
  <2> QED BY <1>2, <2>1, <2>2, <2>3, <2>4, <2>5, <2>6, <2>7, <2>8, <2>9
          DEF RunController
<1>3. CASE RunConnected
  BY <1>3, GreetsKeeps, RefusedKeeps
<1>4. CASE RunError
  BY <1>4, RunErrorKeeps
<1>5. CASE RunMessage
  BY <1>5, GreetedKeeps, InstructedKeeps
<1>6. CASE RunSend \/ RunExit
  BY <1>6, CalmSteps
<1>7. CASE RunScheduleConnect
  BY <1>7, RunScheduleConnectKeeps
<1>8. CASE RunConnect
  BY <1>8, RunConnectKeeps
<1>9. CASE RunClientDown
  BY <1>9, RunClientDownKeeps
<1>10. CASE ControllerEnvironment /\ ClientUnchanged
  <2>1. CASE \E s \in Sources : DestroyStreaming(s)
    BY <1>10, <2>1, DestroyStreamingKeeps
  <2>2. CASE DropboxEnds
    BY <1>10, <2>2, DropboxEndsKeeps
  <2>3. CASE \/ UseFreedFolder
             \/ \E s \in Sources, streamer \in {"live", "stopped"} :
                   Streams(s, streamer)
    BY <1>10, <2>3, CalmSteps
  <2> QED BY <1>10, <2>1, <2>2, <2>3 DEF ControllerEnvironment
<1>11. CASE \E ok \in BOOLEAN : Connected(ok)
  BY <1>11, ConnectedKeeps
<1>12. CASE Breaks
  BY <1>12, CalmSteps
<1>13. CASE \E message \in Message : ReadCompletes(message)
  BY <1>13, ReadCompletesKeeps
<1>14. CASE ReadFails
  BY <1>14, ErrorKeeps
<1>15. CASE WriteEnds
  <2>1. conn = "up" \/ conn = "lost"
    BY <1>15 DEF WriteEnds
  <2> QED BY <1>15, <2>1, CalmSteps, ErrorKeeps
<1>16. CASE TimerExpires
  BY <1>16, TimerExpiresKeeps
<1>17. CASE Signal
  BY <1>17, SignalKeeps
<1>18. CASE Restart
  BY <1>18, RestartKeeps
<1>19. CASE Run
  BY <1>2, <1>3, <1>4, <1>5, <1>6, <1>7, <1>8, <1>9, <1>19 DEF Run
<1>20. CASE Environment
  BY <1>10, <1>11, <1>12, <1>13, <1>14, <1>15, <1>16, <1>17, <1>18, <1>20
  DEF Environment
<1> QED BY <1>1, <1>19, <1>20 DEF Next

\* So it holds always.
LEMMA Invariance == Spec => []IInv
BY InitHas, StepKeeps, PTL DEF Spec

-----------------------------------------------------------------------------
\* The state has its type, also where two resets have met: the queues of the
\* box hold nothing else than what Controller.cpp and Client.cpp post.
THEOREM TypeCorrect == Spec => []TypeOK
<1>1. IInv => TypeOK
  BY DEF IInv, Typed
<1> QED BY <1>1, Invariance, PTL

\* Where no reset is under way the sources with handlers are those of the
\* configuration, after any sequence of updates, errors and restarts in which
\* none has met the reset of another one.
THEOREM TheLoadedAreHandled == Spec => []HandledIsLoaded
<1>1. IInv => HandledIsLoaded
  <2> SUFFICES ASSUME IInv, ~clash, ~Resetting, ~dropbox.gone
               PROVE  DOMAIN handlers = DOMAIN config.sources
    BY DEF HandledIsLoaded
  <2>1. ~Underway /\ Handled
    BY Underways DEF IInv
  <2> QED BY <2>1 DEF Handled
<1> QED BY <1>1, Invariance, PTL

\* Client::connect finds the box without a connection, as long as no connection
\* was reset twice and no two resets have met: then a lost connection leads to
\* one reset, one timer and one connection.
THEOREM TheBoxConnectsOnce == Spec => []ConnectsOnce
<1>1. IInv => ConnectsOnce
  <2> SUFFICES ASSUME IInv, Runs("connect"), ~clash PROVE conn = "lost"
    BY DEF ConnectsOnce
  <2>1. /\ Typed /\ Returning /\ queue \in Seq(Item) /\ queue # <<>>
        /\ Head(queue).do = "connect"
    BY DEF IInv, Typed, Runs
  <2>2. Head(queue) \in Item /\ Removed(queue, Head(queue), Tail(queue))
    BY <2>1, Removing
  <2>3. Head(queue) \in Of({"reset", "scheduleConnect", "connect"})
    BY <2>1, <2>2 DEF Of
  <2>4. /\ Count(queue, Of({"reset", "scheduleConnect", "connect"})) > 0
        /\ Count(queue, Of({"reset", "scheduleConnect", "connect"})) \in Nat
    BY <2>2, <2>3 DEF Removed
  <2>5. Returns > 0
    BY <2>4 DEF Returns
  <2> QED BY <2>1, <2>5 DEF Returning
<1> QED BY <1>1, Invariance, PTL

\* Handlers get the limits of the configuration that makes them: a load finds
\* no handlers of an earlier one.
THEOREM StorageIsAsConfigured == Spec => StorageAsConfigured
<1> DEFINE Storage ==
             RunLoad /\ ~clash =>
                \A s \in DOMAIN handlers' :
                    LET sent == Head(queue).config.sources[s]
                    IN  IF sent < WordMegabytes THEN handlers'[s].storage = sent
                        ELSE handlers'[s].storage < sent
<1>1. ASSUME IInv, RunLoad, ~clash
      PROVE  \A s \in DOMAIN handlers' :
                LET sent == Head(queue).config.sources[s]
                IN  IF sent < WordMegabytes THEN handlers'[s].storage = sent
                    ELSE handlers'[s].storage < sent
  <2>1. /\ Typed /\ Quiet /\ Handled /\ queue \in Seq(Item) /\ queue # <<>>
        /\ Head(queue).do = "load" /\ Empty
    BY <1>1 DEF IInv, Typed, RunLoad, Runs
  <2>2. Head(queue) \in Item /\ Removed(queue, Head(queue), Tail(queue))
    BY <2>1, Removing
  <2>3. Has({"message", "load"})
    BY <2>1, <2>2, InOf DEF Removed, Has
  <2>4. ~Underway /\ ~dropbox.gone
    BY <2>1, <2>3 DEF Quiet, Underway, Ends
  <2>5. DOMAIN handlers = {}
    BY <2>1, <2>4 DEF Handled, Clear, Empty
  <2>6. PICK c \in Configs : c = Head(queue).config
    BY <2>1, <2>2, Parts
  <2>7. PICK skipped \in SUBSET DOMAIN c.sources :
           config' = Loaded(c, skipped) /\ StartHandleSources(config')
    BY <1>1, <2>6 DEF RunLoad
  <2> SUFFICES ASSUME NEW s \in DOMAIN handlers'
               PROVE  LET sent == c.sources[s]
                      IN  IF sent < WordMegabytes
                          THEN handlers'[s].storage = sent
                          ELSE handlers'[s].storage < sent
    BY <2>6
  <2>8. /\ s \in DOMAIN config'.sources
        /\ handlers'[s].storage = config'.sources[s]
    BY <2>5, <2>7 DEF StartHandleSources
  <2>9. s \in DOMAIN c.sources /\ config'.sources[s] = c.sources[s] % 4096
    BY <2>7, <2>8 DEF Loaded, MaxStorage, WordMegabytes
  <2>10. c.sources[s] \in Nat
    BY <2>9, ControllerAssumption
  <2>11. \A n \in Nat : (n < 4096 => n % 4096 = n) /\ (~(n < 4096) => n % 4096 < n)
    OBVIOUS
  <2> QED BY <2>8, <2>9, <2>10, <2>11 DEF WordMegabytes
<1>2. IInv /\ [Next]_vars => [Storage]_vars
  BY <1>1
<1>3. Spec => [][Storage]_vars
  BY <1>2, Invariance, PTL DEF Spec
<1> QED BY <1>3 DEF StorageAsConfigured

-----------------------------------------------------------------------------
\* What the server answers or asks for, and resets for a configuration.
News == Of({"load", "message", "request"}) \cup StepsTo("load")

\* The step from q to r posts none of it.
NoNews(q, r) ==
    \A X : X \subseteq News =>
        /\ Count(q, X) \in Nat /\ Count(r, X) \in Nat
        /\ Count(r, X) <= Count(q, X)
        /\ \A Y : Before(r, Y, X) => Before(q, Y, X)

\* A step that takes an item, or posts one that is no news, is such a step.
LEMMA Newsless ==
  ASSUME Typed,
         \/ queue' = queue
         \/ \E y \in Item \ News : queue' = Append(queue, y)
         \/ queue # <<>> /\ queue' = Tail(queue) \o <<>>
         \/ queue # <<>> /\ \E y \in Item \ News : queue' = Tail(queue) \o <<y>>
  PROVE  queue' \in Seq(Item) /\ NoNews(queue, queue')
<1>1. queue \in Seq(Item)
  BY DEF Typed
<1>2. CASE queue' = queue
  BY <1>1, <1>2, Counted DEF NoNews
<1>3. CASE \E y \in Item \ News : queue' = Append(queue, y)
  <2>1. PICK y \in Item \ News : queue' = Append(queue, y)
    BY <1>3
  <2>2. queue' \in Seq(Item) /\ Added(queue, y, queue')
    BY <1>1, <2>1, Adding
  <2>3. \A X : X \subseteq News => y \notin X
    BY <2>1
  <2> QED BY <2>2, <2>3 DEF Added, NoNews
<1>4. CASE queue # <<>> /\ queue' = Tail(queue) \o <<>>
  <2>1. queue' = Tail(queue)
    BY <1>1, <1>4
  <2>2. queue' \in Seq(Item) /\ Removed(queue, Head(queue), queue')
    BY <1>1, <1>4, <2>1, Removing
  <2>3. \A X : Count(queue', X) <= Count(queue, X)
    <3> TAKE X
    <3>1. Head(queue) \in X \/ Head(queue) \notin X
      OBVIOUS
    <3> QED BY <2>2, <3>1 DEF Removed
  <2> QED BY <2>2, <2>3 DEF Removed, NoNews
<1>5. CASE queue # <<>> /\ \E y \in Item \ News : queue' = Tail(queue) \o <<y>>
  <2>1. PICK y \in Item \ News : queue' = Tail(queue) \o <<y>>
    BY <1>5
  <2>2. queue' = Append(Tail(queue), y)
    BY <1>1, <1>5, <2>1
  <2>3. queue' \in Seq(Item) /\ Replaced(queue, Head(queue), y, queue')
    BY <1>1, <1>5, <2>1, <2>2, Replacing
  <2>4. \A X : X \subseteq News => y \notin X
    BY <2>1
  <2>5. \A X : X \subseteq News => Count(queue', X) <= Count(queue, X)
    <3> TAKE X
    <3>1. Head(queue) \in X \/ Head(queue) \notin X
      OBVIOUS
    <3> QED BY <2>3, <2>4, <3>1 DEF Replaced
  <2> QED BY <2>3, <2>4, <2>5 DEF Replaced, NoNews
<1> QED BY <1>2, <1>3, <1>4, <1>5

\* Nor does a reset that begins, and does not lead to a configuration.
LEMMA NewslessBeginning ==
  ASSUME Typed, queue # <<>>, NEW g \in RealGoal, g.to # "load",
         queue' = Tail(queue) \o StopHandleSources(g)
  PROVE  queue' \in Seq(Item) /\ NoNews(queue, queue')
<1>1. PICK t, u : t = StopHandleSources(g) /\ u = Tail(queue) /\ queue' = u \o t
  OBVIOUS
<1>2. /\ t \in Seq(Item) /\ Count(t, Of({"load", "message", "request"})) = 0
      /\ Count(t, StepsTo("load")) = 0
  <2>1. {"load", "message", "request"} \cap ResetStep = {}
    BY DEF ResetStep
  <2>2. t \in Seq(Item) /\ Count(t, Of({"load", "message", "request"})) = 0
        /\ ~(Count(t, StepsTo("load")) > 0)
    BY <1>1, <2>1, Stops
  <2> QED BY <2>2, CountType
<1>3. u \in Seq(Item) /\ Removed(queue, Head(queue), u)
  BY <1>1, Removing DEF Typed
<1>4. \A X : X \subseteq News => Count(t, X) = 0
  <2>1. \A i \in DOMAIN t : t[i] \notin News
    BY <1>2, CountPositive DEF News
  <2> QED BY <1>2, <2>1, CountPositive, CountType
<1>5. queue' \in Seq(Item)
  BY <1>1, <1>2, <1>3
<1>6. SUFFICES ASSUME NEW X, X \subseteq News
               PROVE  /\ Count(queue, X) \in Nat /\ Count(queue', X) \in Nat
                      /\ Count(queue', X) <= Count(queue, X)
                      /\ \A Y : Before(queue', Y, X) => Before(queue, Y, X)
  BY <1>5 DEF NoNews
<1>7. Count(queue', X) = Count(u, X) /\ Count(u, X) \in Nat
  <2>1. Count(u \o t, X) = Count(u, X) + Count(t, X) /\ Count(u, X) \in Nat
    BY <1>2, <1>3, CountConcat, CountType
  <2> QED BY <1>1, <1>4, <1>6, <2>1
<1>8. Count(queue, X) \in Nat /\ Count(u, X) <= Count(queue, X)
  <2>1. Head(queue) \in X \/ Head(queue) \notin X
    OBVIOUS
  <2> QED BY SMTT(30), <1>3, <2>1 DEF Removed
<1>9. \A Y : Before(queue', Y, X) => Before(queue, Y, X)
  <2> TAKE Y
  <2>1. Before(u \o t, Y, X) =>
           \/ Before(u, Y, X) \/ Before(t, Y, X)
           \/ Count(u, Y) > 0 /\ Count(t, X) > 0
    BY <1>2, <1>3, OrderConcat
  <2>2. Before(t, Y, X) => Count(t, X) > 0
    BY <1>2, OrderCounts
  <2>3. Before(u, Y, X) => Before(queue, Y, X)
    BY <1>3 DEF Removed
  <2> QED BY <1>1, <1>4, <1>6, <2>1, <2>2, <2>3
<1> QED BY <1>7, <1>8, <1>9

\* What is none of it.
LEMMA NoneOfIt ==
  /\ \A do \in {"ready", "status", "scheduleConnect", "exit", "connect",
                "clientDown", "readError", "writeError"} :
        [do |-> do] \in Item \ News
  /\ [do |-> "reset", goal |-> [to |-> "connect"]] \in Item \ News
  /\ \A ok \in BOOLEAN : [do |-> "connected", ok |-> ok] \in Item \ News
  /\ \A do \in SourceStep, s \in Sources, g \in RealGoal :
        g.to # "load" => [do |-> do, source |-> s, goal |-> g] \in Item \ News
  /\ \A do \in DropboxStep, g \in RealGoal :
        g.to # "load" => [do |-> do, goal |-> g] \in Item \ News
<1>1. \A x \in News :
         \/ x.do \in {"load", "message", "request"}
         \/ x.do \in ResetStep /\ x.goal.to = "load"
  BY DEF News, Of, StepsTo
<1> QED BY <1>1, Made DEF SourceStep, DropboxStep, ResetStep

\* What the first item is, and what cannot be behind it.
LEMMA FirstIs ==
  ASSUME IInv, RInv, ~clash, queue # <<>>, NEW x, x = Head(queue)
  PROVE  /\ x \in Item /\ Removed(queue, x, Tail(queue))
         /\ x.do \in ResetStep =>
              /\ x.goal \in RealGoal /\ x.goal.to # "load"
              /\ Count(Tail(queue), Of({"request"})) = 0
<1>1. x \in Item /\ Removed(queue, x, Tail(queue)) /\ Answered /\ Asked
  BY Removing DEF IInv, Typed, RInv
<1>2. ASSUME x.do \in ResetStep
      PROVE  /\ x.goal \in RealGoal /\ x.goal.to # "load"
             /\ Count(Tail(queue), Of({"request"})) = 0
  <2>1. x.goal \in RealGoal
    BY <1>1, <1>2, Parts DEF ResetStep, SourceStep, DropboxStep
  <2>2. x \notin StepsTo("load")
    <3>1. ~(Count(queue, StepsTo("load")) > 0)
      BY <1>1 DEF Answered, Toward, TowardOf
    <3> QED BY <1>1, <3>1 DEF Removed
  <2>3. x \in Of(ResetStep)
    BY <1>1, <1>2 DEF Of
  <2>4. Count(Tail(queue), Of({"request"})) = 0
    BY <1>1, <2>3 DEF Removed, Asked
  <2> QED BY <1>1, <1>2, <2>1, <2>2, <2>4 DEF StepsTo
<1> QED BY <1>1, <1>2

\* The streamers and Dropbox that a reset waits for.
Waiting == DropboxWaits \/ \E s \in Sources : Waits(s)

\* A step without news asks for nothing more, if the handlers that go are asked
\* for nothing.
LEMMA AskedStays ==
  ASSUME Asked, NoNews(queue, queue'),
         \A s \in Known \ Known' : Count(queue', Asks(s)) = 0,
         conn' = "up" => readyFor' \subseteq Known',
         Waiting' => Waiting \/ ~Has({"request"})'
  PROVE  Asked'
<1>1. Of({"request"}) \subseteq News /\ \A s : Asks(s) \subseteq News
  BY DEF Asks, News, Of
<1>2. \A s \in Sources : Count(queue', Asks(s)) > 0 => s \in Known'
  <2> TAKE s \in Sources
  <2>1. /\ Count(queue, Asks(s)) \in Nat /\ Count(queue', Asks(s)) \in Nat
        /\ Count(queue', Asks(s)) <= Count(queue, Asks(s))
    BY <1>1 DEF NoNews
  <2> QED BY <2>1 DEF Asked
<1>3. ~Before(queue', Of(ResetStep), Of({"request"}))
  BY <1>1 DEF Asked, NoNews
<1>4. Waiting' => ~Has({"request"})'
  <2>1. /\ Count(queue, Of({"request"})) \in Nat
        /\ Count(queue', Of({"request"})) \in Nat
        /\ Count(queue', Of({"request"})) <= Count(queue, Of({"request"}))
    BY <1>1 DEF NoNews
  <2>2. Waiting => ~Has({"request"})
    BY DEF Asked, Waiting
  <2> QED BY <2>1, <2>2 DEF Has
<1> QED BY <1>2, <1>3, <1>4 DEF Asked, Waiting

\* Nor does the server answer more.
LEMMA NoNewsKeeps ==
  ASSUME Typed, Answered, Asked, NoNews(queue, queue'),
         server' = server \/ server' = "silent",
         \/ Clear => Clear'
         \/ server' = "silent" /\ Count(queue', Answers) = 0,
         \A s \in DOMAIN handlers' : handlers'[s].shuttedDown.to # "load",
         dropbox'.goal.to # "load",
         \A s \in Known \ Known' : Count(queue', Asks(s)) = 0,
         conn' = "up" => readyFor' \subseteq Known',
         Waiting' => Waiting \/ ~Has({"request"})'
  PROVE  RInv'
<1>1. Answers \subseteq News /\ StepsTo("load") \subseteq News
  BY DEF Answers, News, Of
<1>2. Answered'
  <2>1. /\ Count(queue, Answers) \in Nat /\ Count(queue', Answers) \in Nat
        /\ Count(queue', Answers) <= Count(queue, Answers)
        /\ Count(queue, StepsTo("load")) \in Nat
        /\ Count(queue', StepsTo("load")) \in Nat
        /\ Count(queue', StepsTo("load")) <= Count(queue, StepsTo("load"))
    BY <1>1 DEF NoNews
  <2>2. ~Toward("load")'
    BY <2>1 DEF Answered, Toward, TowardOf
  <2>3. (IF server' = "silent" THEN 0 ELSE 1) + Count(queue', Answers) <= 1
    BY <2>1 DEF Answered
  <2>4. server' # "silent" \/ Count(queue', Answers) > 0 => Clear'
    BY <2>1 DEF Answered
  <2> QED BY <2>2, <2>3, <2>4 DEF Answered
<1>3. Asked'
  BY AskedStays
<1> QED BY <1>2, <1>3 DEF RInv

\* The same for steps that leave handlers and configuration alone.
LEMMA AsideKeeps ==
  ASSUME Typed, Answered, Asked, NoNews(queue, queue'),
         server' = server \/ server' = "silent",
         UNCHANGED <<config, dropbox>>,
         DOMAIN handlers' = DOMAIN handlers,
         \A s \in DOMAIN handlers :
            handlers'[s].shuttedDown \in {handlers[s].shuttedDown, NoGoal},
         \/ conn' = "up" => conn = "up" /\ readyFor' = readyFor
         \/ conn' = "up" => readyFor' \subseteq Known
  PROVE  RInv'
<1>1. Clear => Clear'
  BY DEF Clear, Empty
<1>2. /\ \A s \in DOMAIN handlers' : handlers'[s].shuttedDown.to # "load"
      /\ dropbox'.goal.to # "load"
  BY Goals DEF Answered, Toward, TowardOf
<1>3. Waiting' => Waiting
  BY DEF Waiting, DropboxWaits, Waits
<1>4. Known' = Known
  BY DEF Known
<1>5. conn' = "up" => readyFor' \subseteq Known'
  BY <1>4 DEF Asked
<1> QED BY <1>1, <1>2, <1>3, <1>4, <1>5, NoNewsKeeps

\* Steps of the reset that leave handlers alone, or begin it.
LEMMA ResetAsks ==
  ASSUME IInv, RInv, ~clash,
         \/ RunReset /\ ClientUnchanged
         \/ RunSplitterDown /\ ClientUnchanged
         \/ RunClientDown
  PROVE  RInv'
<1>1. Typed /\ Answered /\ Asked
  BY DEF IInv, RInv
<1>2. NoNews(queue, queue')
  <2>1. CASE RunReset
    <3>1. /\ queue # <<>>
          /\ queue' = Tail(queue) \o StopHandleSources(Head(queue).goal)
          /\ Head(queue).do = "reset" /\ Head(queue) \in Item
      BY <1>1, <2>1 DEF RunReset, Runs, Posts, Typed
    <3>2. Head(queue).goal \in RealGoal /\ Head(queue).goal.to # "load"
      BY <3>1, Parts, Goals
    <3> QED BY <1>1, <3>1, <3>2, NewslessBeginning
  <2>2. CASE RunSplitterDown
    <3>1. PICK x \in Item : x = Head(queue) /\ x.do = "splitterDown"
      BY <1>1, <2>2 DEF RunSplitterDown, Runs, Typed
    <3>2. /\ x.goal \in RealGoal /\ x.goal.to # "load" /\ x.source \in Sources
          /\ [x EXCEPT !.do = "folderDown"] \in Item
          /\ queue # <<>>
          /\ queue' = Tail(queue) \o <<[x EXCEPT !.do = "folderDown"]>>
      BY <2>2, <3>1, FirstIs, Parts
      DEF RunSplitterDown, Runs, Posts, ResetStep, SourceStep
    <3>3. [x EXCEPT !.do = "folderDown"] \notin News
      BY <3>1, <3>2 DEF News, Of, StepsTo, Item, ClientItem
    <3> QED BY <1>1, <3>2, <3>3, Newsless
  <2>3. CASE RunClientDown
    <3>1. /\ queue # <<>>
          /\ queue' = Tail(queue) \o StopHandleSources([to |-> "exit"])
      BY <2>3 DEF RunClientDown, Runs, Posts
    <3>2. [to |-> "exit"] \in RealGoal /\ [to |-> "exit"].to # "load"
      BY Goals
    <3> QED BY <1>1, <3>1, <3>2, NewslessBeginning
  <2> QED BY <2>1, <2>2, <2>3
<1>3. UNCHANGED <<handlers, config, dropbox, conn, server, readyFor>>
  BY DEF RunReset, RunSplitterDown, RunClientDown, ClientUnchanged, connVars
<1> QED BY <1>1, <1>2, <1>3, AsideKeeps

\* What the client and its surroundings do besides.
LEMMA ClientAsks ==
  ASSUME IInv, RInv, ~clash,
         \/ RunError \/ RunScheduleConnect \/ RunConnect \/ RunExit \/ Breaks
         \/ ReadFails \/ WriteEnds \/ TimerExpires \/ Signal \/ UNCHANGED vars
         \/ RunConnected /\ ~Head(queue).ok
         \/ UseFreedFolder /\ ClientUnchanged
  PROVE  RInv'
<1>1. Typed /\ Answered /\ Asked
  BY DEF IInv, RInv
<1>2. \/ queue' = queue
      \/ \E y \in Item \ News : queue' = Append(queue, y)
      \/ queue # <<>> /\ queue' = Tail(queue) \o <<>>
      \/ queue # <<>> /\ \E y \in Item \ News : queue' = Tail(queue) \o <<y>>
  <2>1. CASE RunError \/ (RunConnected /\ ~Head(queue).ok)
    BY <2>1, NoneOfIt DEF RunError, RunConnected, Runs, OnError, Posts
  <2>2. CASE RunScheduleConnect \/ RunConnect \/ RunExit
    BY <2>2 DEF RunScheduleConnect, RunConnect, RunExit, Runs, Posts
  <2>3. CASE ReadFails \/ WriteEnds \/ TimerExpires \/ Signal
    BY <2>3, NoneOfIt DEF ReadFails, WriteEnds, TimerExpires, Signal, Arrives
  <2>4. CASE Breaks \/ UNCHANGED vars \/ (UseFreedFolder /\ ClientUnchanged)
    BY <2>4 DEF Breaks, vars, controllerVars, UseFreedFolder
  <2> QED BY <2>1, <2>2, <2>3, <2>4
<1>3. NoNews(queue, queue')
  BY <1>1, <1>2, Newsless
<1>4. /\ UNCHANGED <<handlers, config, dropbox>>
      /\ server' = server \/ server' = "silent"
      /\ conn' = "up" => conn = "up" /\ readyFor' = readyFor
  BY DEF RunError, RunScheduleConnect, RunConnect, RunExit, Breaks, ReadFails,
         WriteEnds, TimerExpires, Signal, RunConnected, OnError, UseFreedFolder,
         ClientUnchanged, NewConnection, connVars, controllerVars, vars
<1> QED BY <1>1, <1>3, <1>4, AsideKeeps

\* The box is connected, and asked for nothing yet; or it is ready, and may be
\* asked for what it handles.
LEMMA ReadyAsks ==
  ASSUME IInv, RInv, ~clash, RunSend \/ (\E ok \in BOOLEAN : Connected(ok))
  PROVE  RInv'
<1>1. /\ Typed /\ Answered /\ Asked /\ Returning /\ Connecting /\ Exiting
      /\ Handled
  BY DEF IInv, RInv
<1>2. CASE RunSend
  <2>1. queue # <<>> /\ queue' = Tail(queue) \o <<>>
    BY <1>2 DEF RunSend, Runs, Posts
  <2>2. NoNews(queue, queue')
    BY <1>1, <2>1, Newsless
  <2>3. /\ UNCHANGED <<handlers, config, dropbox, server, conn>>
        /\ \/ readyFor' = readyFor
           \/ conn = "up" =>
                 readyFor' = DOMAIN config.sources \cup config.skipped
    BY <1>2 DEF RunSend
  <2>4. conn = "up" => DOMAIN handlers = DOMAIN config.sources
    <3> SUFFICES ASSUME conn = "up" PROVE DOMAIN handlers = DOMAIN config.sources
      OBVIOUS
    <3>1. ~Toward("exit") /\ ~dropbox.gone /\ ~Toward("load")
      BY <1>1 DEF Exiting, Answered
    <3>2. ~Toward("connect")
      <4>1. Count(queue, Of({"reset", "scheduleConnect", "connect"})) \in Nat
        BY <1>1, Counted DEF Typed
      <4> QED BY <1>1, <4>1 DEF Returning, Returns
    <3> QED BY <1>1, <3>1, <3>2 DEF Handled, Underway, Ends
  <2>5. conn' = "up" => readyFor' \subseteq Known
    BY <1>1, <2>3, <2>4 DEF Asked, Known
  <2> QED BY <1>1, <2>2, <2>3, <2>5, AsideKeeps
<1>3. CASE \E ok \in BOOLEAN : Connected(ok)
  <2>1. PICK ok \in BOOLEAN : Connected(ok)
    BY <1>3
  <2>2. queue' = Append(queue, [do |-> "connected", ok |-> ok])
    BY <2>1 DEF Connected, Arrives
  <2>3. NoNews(queue, queue')
    BY <1>1, <2>2, NoneOfIt, Newsless
  <2>4. /\ UNCHANGED <<handlers, config, dropbox, server, readyFor>>
        /\ conn = "connecting"
    BY <2>1 DEF Connected
  <2>5. readyFor' \subseteq Known
    BY <1>1, <2>4 DEF Connecting
  <2> QED BY <1>1, <2>3, <2>4, <2>5, AsideKeeps
<1> QED BY <1>2, <1>3


\* Streams come and go; a stopped one may have been waited for.
LEMMA StreamAsks ==
  ASSUME IInv, RInv, ~clash, ClientUnchanged,
         \/ RunRequest \/ RunStop
         \/ \E s \in Sources, streamer \in {"live", "stopped"} : Streams(s, streamer)
         \/ \E s \in Sources : DestroyStreaming(s)
  PROVE  RInv'
<1>1. /\ Typed /\ Answered /\ Asked /\ queue \in Seq(Item)
      /\ \A r \in DOMAIN handlers :
            /\ handlers[r] \in Handler
            /\ handlers[r].shuttedDown \in Goal
            /\ handlers[r].shuttedDown.to # "load"
  BY DEF IInv, RInv, Typed, TypeOK, ControllerTypeOK, Handler, Answered,
     Toward, TowardOf
<1>2. \/ queue' = queue
      \/ \E y \in Item \ News : queue' = Append(queue, y)
      \/ queue # <<>> /\ queue' = Tail(queue) \o <<>>
      \/ queue # <<>> /\ \E y \in Item \ News : queue' = Tail(queue) \o <<y>>
  <2>1. CASE RunRequest \/ RunStop
    BY <2>1 DEF RunRequest, RunStop, Runs, Posts
  <2>2. CASE \E s \in Sources, streamer \in {"live", "stopped"} : Streams(s, streamer)
    BY <2>2, NoneOfIt DEF Streams, Arrives
  <2>3. CASE \E s \in Sources : DestroyStreaming(s)
    <3>1. PICK s \in Sources : DestroyStreaming(s)
      BY <2>3
    <3>2. PICK g \in Goal : g = handlers[s].shuttedDown /\ g.to # "load"
      BY <1>1, <3>1 DEF DestroyStreaming
    <3>3. g # NoGoal => g \in RealGoal
      BY Goals
    <3>4. queue' = IF g = NoGoal THEN queue
                   ELSE Append(queue, [do |-> "streamerDown", source |-> s, goal |-> g])
      BY <3>1, <3>2 DEF DestroyStreaming
    <3>5. g # NoGoal =>
             [do |-> "streamerDown", source |-> s, goal |-> g] \in Item \ News
      BY <3>2, <3>3, NoneOfIt DEF SourceStep
    <3> QED BY <3>4, <3>5
  <2> QED BY <2>1, <2>2, <2>3
<1>3. NoNews(queue, queue')
  BY <1>1, <1>2, Newsless
<1>4. /\ DOMAIN handlers' = DOMAIN handlers
      /\ \A r \in DOMAIN handlers :
            handlers'[r].shuttedDown \in {handlers[r].shuttedDown, NoGoal}
  <2>1. CASE UNCHANGED handlers
    BY <2>1
  <2>2. CASE \E s \in Sources, streamer \in {"live", "stopped"} :
                handlers' = [handlers EXCEPT ![s].streamer = streamer]
    BY <1>1, <2>2 DEF Handler
  <2>3. CASE \E s \in Sources :
                handlers' = [handlers EXCEPT ![s].streamer = "idle",
                                             ![s].shuttedDown = NoGoal]
    BY <1>1, <2>3 DEF Handler
  <2>4. CASE RunRequest \/ RunStop
    <3>1. PICK x \in Item, s \in Sources : x = Head(queue) /\ s = x.source
      BY <1>1, <2>4, Parts DEF RunRequest, RunStop, Runs
    <3> QED BY <2>1, <2>2, <2>4, <3>1 DEF RunRequest, RunStop
  <2> QED BY <2>2, <2>3, <2>4 DEF Streams, DestroyStreaming
<1>5. UNCHANGED <<config, dropbox, conn, server, readyFor>>
  BY DEF RunRequest, RunStop, Streams, DestroyStreaming, ClientUnchanged,
     connVars
<1> QED BY <1>1, <1>3, <1>4, <1>5, AsideKeeps

\* A reset reaches a streamer, and may wait for it.
LEMMA FolderDownAsks ==
  ASSUME IInv, RInv, ~clash, RunFolderDown, ClientUnchanged
  PROVE  RInv'
<1>1. PICK x \in Item, s \in Sources, g \in RealGoal :
         x = Head(queue) /\ x.do = "folderDown" /\ s = x.source /\ g = x.goal
  <2>1. Head(queue) \in Item /\ Head(queue).do = "folderDown"
    BY DEF IInv, Typed, RunFolderDown, Runs
  <2> QED BY <2>1, Parts DEF SourceStep
<1>2. /\ Typed /\ Answered /\ Asked /\ queue \in Seq(Item) /\ queue # <<>>
      /\ \A r \in DOMAIN handlers : handlers[r] \in Handler
      /\ UNCHANGED <<config, dropbox, conn, server, readyFor>>
  BY DEF IInv, RInv, RunFolderDown, Runs, Typed, TypeOK, ControllerTypeOK,
         ClientUnchanged, connVars
<1>3. g.to # "load" /\ Count(Tail(queue), Of({"request"})) = 0
  BY <1>1, <1>2, FirstIs DEF ResetStep
<1>4. CASE UNCHANGED handlers /\ queue' = Tail(queue) \o <<[x EXCEPT !.do = "streamerDown"]>>
  <2>1. [x EXCEPT !.do = "streamerDown"] \in Item
    BY <1>1, Parts DEF SourceStep
  <2>2. [x EXCEPT !.do = "streamerDown"] \notin News
    BY <1>1, <1>3, <2>1 DEF News, Of, StepsTo, Item, ClientItem
  <2>3. NoNews(queue, queue')
    BY <1>2, <1>4, <2>1, <2>2, Newsless
  <2> QED BY <1>2, <1>4, <2>3, AsideKeeps
<1>5. CASE /\ queue' = Tail(queue) \o <<>>
           /\ handlers' = [handlers EXCEPT ![s].streamer = "stopped",
                                           ![s].shuttedDown = g]
  <2>1. NoNews(queue, queue')
    BY <1>2, <1>5, Newsless
  <2>2. DOMAIN handlers' = DOMAIN handlers
    BY <1>5
  <2>3. \A r \in DOMAIN handlers' : handlers'[r].shuttedDown.to # "load"
    BY <1>2, <1>3, <1>5 DEF Handler, Answered, Toward, TowardOf
  <2>4. dropbox'.goal.to # "load"
    BY <1>2 DEF Answered, Toward, TowardOf
  <2>5. ~Has({"request"})'
    BY <1>2, <1>3, <1>5 DEF Has
  <2>6. Clear => Clear'
    BY <1>2 DEF Clear, Empty
  <2>7. Known' = Known
    BY <1>2, <2>2 DEF Known
  <2>8. conn' = "up" => readyFor' \subseteq Known'
    BY <1>2, <2>7 DEF Asked
  <2> QED BY <1>2, <2>1, <2>3, <2>4, <2>5, <2>6, <2>7, <2>8, NoNewsKeeps
<1> QED BY <1>1, <1>4, <1>5 DEF RunFolderDown, Posts

\* It reaches Dropbox, and may wait for that.
LEMMA StopDropboxAsks ==
  ASSUME IInv, RInv, ~clash, RunStopDropbox, ClientUnchanged
  PROVE  RInv'
<1>1. PICK x \in Item, g \in RealGoal :
         x = Head(queue) /\ x.do = "stopDropbox" /\ g = x.goal
  <2>1. Head(queue) \in Item /\ Head(queue).do = "stopDropbox"
    BY DEF IInv, Typed, RunStopDropbox, Runs
  <2> QED BY <2>1, Parts DEF DropboxStep
<1>2. /\ Typed /\ Answered /\ Asked /\ queue \in Seq(Item) /\ queue # <<>>
      /\ dropbox \in [used : BOOLEAN, gone : BOOLEAN, goal : Goal]
      /\ UNCHANGED <<handlers, config, conn, server, readyFor>>
  BY DEF IInv, RInv, RunStopDropbox, Runs, Typed, TypeOK, ControllerTypeOK,
         ClientUnchanged, connVars
<1>3. g.to # "load" /\ Count(Tail(queue), Of({"request"})) = 0
  BY <1>1, <1>2, FirstIs DEF ResetStep
<1>4. CASE UNCHANGED dropbox
           /\ queue' = Tail(queue) \o <<[do |-> "dropboxDown", goal |-> g]>>
  <2>1. [do |-> "dropboxDown", goal |-> g] \in Item \ News
    BY <1>3, NoneOfIt DEF DropboxStep
  <2>2. NoNews(queue, queue')
    BY <1>2, <1>4, <2>1, Newsless
  <2> QED BY <1>2, <1>4, <2>2, AsideKeeps
<1>5. CASE /\ queue' = Tail(queue) \o <<>>
           /\ \E to \in {g, dropbox.goal} \ {NoGoal} :
                 dropbox' = [dropbox EXCEPT !.goal = to]
  <2>1. NoNews(queue, queue')
    BY <1>2, <1>5, Newsless
  <2>2. dropbox'.goal.to # "load"
    BY <1>2, <1>3, <1>5 DEF Answered, Toward, TowardOf
  <2>3. \A r \in DOMAIN handlers' : handlers'[r].shuttedDown.to # "load"
    BY <1>2 DEF Answered, Toward, TowardOf
  <2>4. ~Has({"request"})'
    BY <1>2, <1>3, <1>5 DEF Has
  <2>5. Clear => Clear'
    BY <1>2 DEF Clear, Empty
  <2>6. Known' = Known
    BY <1>2 DEF Known
  <2>7. conn' = "up" => readyFor' \subseteq Known'
    BY <1>2, <2>6 DEF Asked
  <2> QED BY <1>2, <2>1, <2>2, <2>3, <2>4, <2>5, <2>6, <2>7, NoNewsKeeps
<1> QED BY <1>1, <1>4, <1>5 DEF RunStopDropbox, Posts

\* A step of a reset finds that the server asks for nothing: the box has lost its
\* connection, or is to exit, and what the server sent before is done.
LEMMA NothingAsked ==
  ASSUME IInv, RInv, ~clash, queue # <<>>,
         NEW x, x = Head(queue), x.do \in ResetStep
  PROVE  /\ conn # "up" /\ ~Has({"message", "load"})
         /\ \A r : Count(queue, Asks(r)) = 0
<1>1. /\ Typed /\ Answered /\ Asked /\ queue \in Seq(Item)
      /\ Lone /\ Returning /\ Exiting /\ Quiet
  BY DEF IInv, RInv, Typed
<1>2. PICK g \in RealGoal :
         /\ g = x.goal /\ g.to # "load" /\ x \in Item
         /\ Count(Tail(queue), Of({"request"})) = 0
         /\ Removed(queue, x, Tail(queue))
  BY FirstIs
<1>3. g.to = "connect" \/ g.to = "exit"
  BY <1>2, Goals DEF RealGoal, Ends
<1>4. Toward(g.to)
  <2>1. x \in StepsTo(g.to)
    BY <1>2 DEF StepsTo
  <2> QED BY <1>2, <2>1 DEF Removed, Toward, TowardOf
<1>5. conn # "up" /\ ~Has({"message", "load"})
  <2>1. CASE g.to = "connect"
    <3>1. Returns > 0
      <4>1. Count(queue, Of({"reset", "scheduleConnect", "connect"})) \in Nat
        BY <1>1, Counted
      <4> QED BY <1>4, <2>1, <4>1 DEF Returns
    <3> QED BY <1>1, <1>4, <2>1, <3>1 DEF Returning, Quiet
  <2>2. CASE g.to = "exit"
    BY <1>1, <1>4, <2>2 DEF Exiting, Quiet
  <2> QED BY <1>3, <2>1, <2>2
<1>6. \A r : Count(queue, Asks(r)) = 0
  <2>1. x \notin Of({"request"})
    BY DEF Of, ResetStep
  <2>2. Count(queue, Of({"request"})) = 0
    BY <1>2, <2>1 DEF Removed
  <2>3. \A i \in DOMAIN queue : queue[i].do \notin {"request", "message"}
    BY <1>1, <1>5, <2>2, Counted DEF Has
  <2>4. \A r : \A i \in DOMAIN queue : queue[i] \notin Asks(r)
    BY <2>3 DEF Asks
  <2> QED BY <1>1, <2>4, Counted
<1> QED BY <1>5, <1>6

\* What was not asked for is not, once a step without news is done.
LEMMA StaysUnasked ==
  ASSUME NoNews(queue, queue'), \A r : Count(queue, Asks(r)) = 0
  PROVE  \A r : Count(queue', Asks(r)) = 0
<1>1. \A r : Asks(r) \subseteq News
  BY DEF Asks, News, Of
<1>2. \A r : /\ Count(queue, Asks(r)) \in Nat /\ Count(queue', Asks(r)) \in Nat
             /\ Count(queue', Asks(r)) <= Count(queue, Asks(r))
  BY <1>1 DEF NoNews
<1> QED BY <1>2

\* Dropbox has ended, and the configuration is cleared.
LEMMA DropboxAsks ==
  ASSUME IInv, RInv, ~clash, DropboxEnds \/ RunDropboxDown, ClientUnchanged
  PROVE  RInv'
<1>1. /\ Typed /\ Answered /\ Asked /\ queue \in Seq(Item)
      /\ dropbox.goal \in Goal
      /\ UNCHANGED <<handlers, conn, server, readyFor>>
  BY DEF IInv, RInv, Typed, TypeOK, ControllerTypeOK, DropboxEnds,
     RunDropboxDown,
         ClientUnchanged, connVars
<1>2. /\ \A r \in DOMAIN handlers' : handlers'[r].shuttedDown.to # "load"
      /\ dropbox.goal.to # "load"
  BY <1>1 DEF Answered, Toward, TowardOf
<1>3. CASE DropboxEnds
  <2>1. PICK g \in RealGoal : g = dropbox.goal
    BY <1>1, <1>3, Goals DEF DropboxEnds
  <2>2. [do |-> "dropboxDown", goal |-> g] \in Item \ News
    BY <1>2, <2>1, NoneOfIt DEF DropboxStep
  <2>3. queue' = Append(queue, [do |-> "dropboxDown", goal |-> g])
    BY <1>3, <2>1 DEF DropboxEnds
  <2>4. NoNews(queue, queue')
    BY <1>1, <2>2, <2>3, Newsless
  <2>5. dropbox'.goal = NoGoal /\ dropbox'.goal.to # "load" /\ config' = config
    BY <1>3, Goals DEF DropboxEnds, NewDropbox
  <2>6. Waiting' => Waiting
    BY <1>1, <2>5 DEF Waiting, DropboxWaits, Waits
  <2>7. (Clear => Clear') /\ Known' = Known
    BY <1>1, <2>5 DEF Clear, Empty, Known
  <2>8. conn' = "up" => readyFor' \subseteq Known'
    BY <1>1, <2>7 DEF Asked
  <2> QED BY <1>1, <1>2, <2>4, <2>5, <2>6, <2>7, <2>8, NoNewsKeeps
<1>4. CASE RunDropboxDown
  <2>1. PICK x \in Item, g \in RealGoal :
           x = Head(queue) /\ x.do = "dropboxDown" /\ g = x.goal
    <3>1. Head(queue) \in Item /\ Head(queue).do = "dropboxDown"
      BY <1>1, <1>4 DEF RunDropboxDown, Runs
    <3> QED BY <3>1, Parts DEF DropboxStep
  <2>2. queue # <<>> /\ g.to # "load" /\ dropbox' = dropbox
    BY <1>4, <2>1, FirstIs DEF ResetStep, RunDropboxDown, Runs
  <2>3. g.to = "connect" \/ g.to = "exit"
    BY <2>2, Goals DEF RealGoal, Ends
  <2>4. /\ \E y \in Item \ News : queue' = Tail(queue) \o <<y>>
        /\ config' = config \/ config' = NoConfig
    BY <1>4, <2>1, <2>3, NoneOfIt DEF RunDropboxDown, Posts, ClearedConfig
  <2>5. NoNews(queue, queue')
    BY <1>1, <2>2, <2>4, Newsless
  <2>6. Clear => Clear'
    BY <2>4 DEF Clear, Empty, NoConfig
  <2>7. Waiting' => Waiting
    BY <1>1, <2>2 DEF Waiting, DropboxWaits, Waits
  <2>8. conn # "up" /\ \A r : Count(queue', Asks(r)) = 0
    BY <2>1, <2>2, <2>5, NothingAsked, StaysUnasked DEF ResetStep
  <2> QED BY <1>1, <1>2, <2>2, <2>5, <2>6, <2>7, <2>8, NoNewsKeeps
<1> QED BY <1>3, <1>4

\* A source that loses its handlers is asked for nothing: the box has lost its
\* connection, or is to exit, and what the server sent before is done.
LEMMA StreamerDownAsks ==
  ASSUME IInv, RInv, ~clash, RunStreamerDown, ClientUnchanged
  PROVE  RInv'
<1>1. PICK x \in Item, s \in Sources, g \in RealGoal :
         x = Head(queue) /\ x.do = "streamerDown" /\ s = x.source /\ g = x.goal
  <2>1. Head(queue) \in Item /\ Head(queue).do = "streamerDown"
    BY DEF IInv, Typed, RunStreamerDown, Runs
  <2> QED BY <2>1, Parts DEF SourceStep
<1>2. /\ Typed /\ Answered /\ Asked /\ queue \in Seq(Item) /\ queue # <<>>
      /\ Lone /\ Returning /\ Exiting /\ Quiet
      /\ UNCHANGED <<config, dropbox, conn, server, readyFor>>
  BY DEF IInv, RInv, RunStreamerDown, Runs, Typed, ClientUnchanged, connVars
<1>3. /\ g.to # "load" /\ Count(Tail(queue), Of({"request"})) = 0
      /\ Removed(queue, x, Tail(queue)) /\ Tail(queue) \in Seq(Item)
  BY <1>1, <1>2, FirstIs DEF ResetStep
<1>7. conn # "up" /\ \A r : Count(queue, Asks(r)) = 0
  BY <1>1, <1>2, NothingAsked DEF ResetStep
<1>8. Dangle(Tail(queue), s) = Tail(queue)
  <2>1. x \in StepsOf(s)
    BY <1>1 DEF StepsOf, SourceStep
  <2>2. /\ Count(queue, StepsOf(s)) = Count(Tail(queue), StepsOf(s)) + 1
        /\ Count(Tail(queue), StepsOf(s)) \in Nat
    BY <1>3, <2>1 DEF Removed
  <2>3. Count(Tail(queue), StepsOf(s)) = 0
    BY <1>2, <2>2 DEF Lone, OneEach
  <2> QED BY <1>3, <2>3, Dangles
<1>9. /\ DOMAIN handlers' = DOMAIN handlers \ {s}
      /\ \A r \in DOMAIN handlers' : handlers'[r] = handlers[r]
      /\ queue' = Tail(queue) \o
            (IF DOMAIN handlers \ {s} = {}
             THEN <<[do |-> "stopDropbox", goal |-> g]>> ELSE <<>>)
  <2>1. handlers' = [r \in DOMAIN handlers \ {s} |-> handlers[r]]
    BY <1>1 DEF RunStreamerDown, RemoveSource
  <2>2. queue' = Dangle(Tail(queue), s) \o
            (IF DOMAIN handlers \ {s} = {}
             THEN <<[do |-> "stopDropbox", goal |-> g]>> ELSE <<>>)
    BY <1>1 DEF RunStreamerDown, RemoveSource
  <2> QED BY <1>8, <2>1, <2>2
<1>10. NoNews(queue, queue')
  <2>1. [do |-> "stopDropbox", goal |-> g] \in Item \ News
    BY <1>3, NoneOfIt DEF DropboxStep
  <2> QED BY <1>2, <1>9, <2>1, Newsless
<1>11. \A r : Count(queue', Asks(r)) = 0
  BY <1>7, <1>10, StaysUnasked
<1>12. /\ \A r \in DOMAIN handlers' : handlers'[r].shuttedDown.to # "load"
       /\ dropbox'.goal.to # "load"
  BY <1>2, <1>9 DEF Answered, Toward, TowardOf
<1>13. Waiting' => Waiting
  BY <1>2, <1>9 DEF Waiting, DropboxWaits, Waits
<1>14. Clear => Clear'
  BY <1>2 DEF Clear, Empty
<1> QED BY <1>2, <1>7, <1>10, <1>11, <1>12, <1>13, <1>14, NoNewsKeeps

\* A configuration is loaded once: the server answers once, and a box that has
\* one is not sent another.
LEMMA LoadAsks ==
  ASSUME IInv, RInv, ~clash, RunLoad \/ RunLoadAgain, ClientUnchanged
  PROVE  RInv'
<1>1. PICK x \in Item, c \in Configs :
         x = Head(queue) /\ x.do = "load" /\ c = x.config
  <2>1. Head(queue) \in Item /\ Head(queue).do = "load"
    BY DEF IInv, Typed, RunLoad, RunLoadAgain, Runs
  <2> QED BY <2>1, Parts
<1>2. /\ Typed /\ Answered /\ Asked /\ queue \in Seq(Item) /\ queue # <<>>
      /\ UNCHANGED <<conn, server, readyFor>>
  BY DEF IInv, RInv, RunLoad, RunLoadAgain, Runs, Typed, ClientUnchanged,
     connVars
<1>3. /\ Removed(queue, x, Tail(queue)) /\ Tail(queue) \in Seq(Item)
      /\ x \in Answers
  BY <1>1, <1>2, Removing DEF Answers
<1>4. /\ Count(queue, Answers) = Count(Tail(queue), Answers) + 1
      /\ Count(Tail(queue), Answers) \in Nat
  BY <1>3 DEF Removed
<1>5. Clear /\ server = "silent" /\ Count(queue, Answers) = 1
  BY <1>2, <1>4 DEF Answered
<1>6. RunLoad /\ queue' = Tail(queue) \o <<[do |-> "ready"]>>
  BY <1>5 DEF RunLoad, RunLoadAgain, Posts, Clear
<1>7. NoNews(queue, queue')
  BY <1>2, <1>6, NoneOfIt, Newsless
<1>8. Count(queue', Answers) = 0
  <2>1. PICK y \in Item : y = [do |-> "ready"]
    BY Made
  <2>2. queue' = Append(Tail(queue), y) /\ y \notin Answers
    BY <1>3, <1>6, <2>1 DEF Answers
  <2>3. Replaced(queue, x, y, queue')
    BY <1>1, <1>2, <2>2, Replacing
  <2>4. /\ Count(queue, Answers) = Count(queue', Answers) + 1
        /\ Count(queue', Answers) \in Nat
    BY <1>3, <2>2, <2>3 DEF Replaced
  <2> QED BY <1>5, <2>4
<1>9. /\ DOMAIN handlers \subseteq DOMAIN handlers'
      /\ \A r \in DOMAIN handlers' :
            \/ r \in DOMAIN handlers /\ handlers'[r] = handlers[r]
            \/ handlers'[r].shuttedDown = NoGoal
      /\ dropbox'.goal = dropbox.goal
  <2>1. PICK skipped : StartHandleSources(config')
    BY <1>6 DEF RunLoad
  <2>2. dropbox \in [used : BOOLEAN, gone : BOOLEAN, goal : Goal]
    BY <1>2 DEF Typed, TypeOK, ControllerTypeOK
  <2> QED BY <2>1, <2>2 DEF StartHandleSources
<1>10. /\ \A r \in DOMAIN handlers' : handlers'[r].shuttedDown.to # "load"
       /\ dropbox'.goal.to # "load"
  BY <1>2, <1>9, Goals DEF Answered, Toward, TowardOf
<1>11. Waiting' => Waiting
  BY <1>9 DEF Waiting, DropboxWaits, Waits
<1>12. Known \subseteq Known'
  BY <1>5, <1>9 DEF Known, Clear
<1>13. conn' = "up" => readyFor' \subseteq Known'
  BY <1>2, <1>12 DEF Asked
<1> QED BY <1>2, <1>5, <1>7, <1>8, <1>10, <1>11, <1>12, <1>13, NoNewsKeeps

\* The box is connected, and the server will greet it; or it is greeted, and the
\* server will send its configuration.
LEMMA GreetingAsks ==
  ASSUME IInv, RInv, ~clash,
         \/ RunConnected /\ Head(queue).ok
         \/ RunMessage /\ Head(queue).message.type = "greeting"
  PROVE  RInv'
<1>1. /\ Typed /\ Answered /\ Asked /\ queue \in Seq(Item) /\ queue # <<>>
      /\ Connecting
      /\ queue' = Tail(queue) \o <<>>
      /\ UNCHANGED <<handlers, config, dropbox, conn, readyFor>>
      /\ server' = "greeting" \/ server' = "config"
  BY DEF IInv, RInv, Typed, RunConnected, RunMessage, Runs, Posts
<1>2. PICK x \in Item : x = Head(queue) /\ Removed(queue, x, Tail(queue))
  BY <1>1, Removing
<1>3. NoNews(queue, queue') /\ queue' = Tail(queue)
  BY <1>1, Newsless
<1>4. Count(queue', Answers) = 0 /\ Clear
  <2>1. CASE RunConnected
    <3>1. x \in Of({"connected"})
      BY <1>2, <2>1 DEF RunConnected, Runs, Of
    <3>2. ~Has({"message", "load"}) /\ Clear
      BY <1>1, <1>2, <3>1 DEF Removed, Has, Connecting
    <3>3. \A i \in DOMAIN queue : queue[i] \notin Answers
      BY <1>1, <3>2, Counted DEF Has, Answers
    <3>4. Count(queue, Answers) = 0
      BY <1>1, <3>3, Counted
    <3>5. Answers \subseteq News
      BY DEF Answers, News, Of
    <3>6. /\ Count(queue', Answers) <= Count(queue, Answers)
          /\ Count(queue', Answers) \in Nat
      BY <1>3, <3>5 DEF NoNews
    <3> QED BY <3>2, <3>4, <3>6
  <2>2. CASE RunMessage /\ Head(queue).message.type = "greeting"
    <3>1. x \in Answers
      BY <1>2, <2>2 DEF RunMessage, Runs, Answers
    <3>2. /\ Count(queue, Answers) = Count(Tail(queue), Answers) + 1
          /\ Count(Tail(queue), Answers) \in Nat
      BY <1>2, <3>1 DEF Removed
    <3> QED BY <1>1, <1>3, <3>2 DEF Answered
  <2> QED BY <2>1, <2>2
<1>5. Answered'
  <2>1. StepsTo("load") \subseteq News
    BY DEF News
  <2>2. /\ Count(queue, StepsTo("load")) \in Nat
        /\ Count(queue', StepsTo("load")) \in Nat
        /\ Count(queue', StepsTo("load")) <= Count(queue, StepsTo("load"))
    BY <1>3, <2>1 DEF NoNews
  <2>3. ~Toward("load")'
    BY <1>1, <2>2 DEF Answered, Toward, TowardOf
  <2> QED BY <1>1, <1>4, <2>3 DEF Answered, Clear, Empty
<1>6. Asked'
  <2>1. Waiting' => Waiting
    BY <1>1 DEF Waiting, DropboxWaits, Waits
  <2>2. Known' = Known
    BY <1>1 DEF Known
  <2> QED BY <1>1, <1>3, <2>1, <2>2, AskedStays DEF Asked
<1> QED BY <1>5, <1>6 DEF RInv

\* A message is passed on, as what it is, while no reset is under way.
LEMMA InstructedAsks ==
  ASSUME IInv, RInv, ~clash, RunMessage, Head(queue).message.type # "greeting"
  PROVE  RInv'
<1>1. PICK x \in Item, y \in Item :
         /\ x = Head(queue) /\ x.do = "message" /\ y = ToController(x)
         /\ y.do \in {"load", "request", "stop"} /\ x.message \in Message
  <2>1. Head(queue) \in Item /\ Head(queue).do = "message"
    BY DEF IInv, Typed, RunMessage, Runs
  <2> QED BY <2>1, Unpacked, Parts
<1>2. /\ Typed /\ Answered /\ Asked /\ Quiet /\ queue \in Seq(Item)
      /\ queue # <<>>
      /\ UNCHANGED <<handlers, config, dropbox, conn, readyFor, server>>
  BY DEF IInv, RInv, Typed, RunMessage, Runs
<1>3. queue' = Append(Tail(queue), y)
  <2>1. queue' = Tail(queue) \o <<y>>
    BY <1>1 DEF RunMessage, Posts
  <2> QED BY <1>2, <2>1
<1>4. Replaced(queue, x, y, queue')
  BY <1>1, <1>2, <1>3, Replacing
<1>5. /\ x.message.type \in {"config", "updated", "request", "stop"}
      /\ x.message.type \in {"config", "updated"} => y.do = "load"
      /\ x.message.type = "request" =>
            /\ y.do = "request" /\ y.source = x.message.source
            /\ y.afterReady = x.afterReady
      /\ x.message.type = "stop" => y.do = "stop"
  <2>1. x.message.type \in {"config", "updated", "request", "stop"}
    BY <1>1 DEF Message, RunMessage
  <2> QED BY <1>1, <2>1 DEF ToController
<1>6. /\ x \in Answers <=> y \in Answers
      /\ \A s : x \in Asks(s) <=> y \in Asks(s)
      /\ x \notin StepsTo("load") /\ y \notin StepsTo("load")
  BY <1>1, <1>5 DEF Answers, Asks, StepsTo, ResetStep
<1>7. /\ Count(queue', Answers) = Count(queue, Answers)
      /\ \A s : Count(queue', Asks(s)) = Count(queue, Asks(s))
      /\ Count(queue', StepsTo("load")) = Count(queue, StepsTo("load"))
  BY <1>4, <1>6 DEF Replaced
<1>8. ~Has(ResetStep) /\ ~Waiting
  <2>1. x \in Of({"message", "load"})
    BY <1>1 DEF Of
  <2>2. Has({"message", "load"})
    BY <1>2, <1>4, <2>1, <1>1, Removing DEF Removed, Has
  <2>3. ~Underway
    BY <1>2, <2>2 DEF Quiet, Answered, Underway, Ends
  <2>4. ~Has(ResetStep) /\ ~DropboxWaits /\ \A s \in DOMAIN handlers : ~Waits(s)
    BY <1>2, <2>3, Underways
  <2> QED BY <2>4 DEF Waiting, Waits
<1>9. Answered'
  BY <1>2, <1>7 DEF Answered, Toward, TowardOf, Clear, Empty
<1>10. Asked'
  <2>0. Known' = Known
    BY <1>2 DEF Known
  <2>1. \A s \in Sources : Count(queue', Asks(s)) > 0 => s \in Known'
    BY <1>2, <1>7, <2>0 DEF Asked
  <2>2. conn' = "up" => readyFor' \subseteq Known'
    BY <1>2, <2>0 DEF Asked
  <2>3. ~Before(queue', Of(ResetStep), Of({"request"}))
    BY <1>2, <1>4, <1>8 DEF Asked, Has, Replaced
  <2>4. ~Waiting'
    BY <1>2, <1>8 DEF Waiting, DropboxWaits, Waits
  <2> QED BY <2>1, <2>2, <2>3, <2>4 DEF Asked, Waiting
<1> QED BY <1>9, <1>10 DEF RInv

\* What a server that sends no updates sends: its answers, one at a time, and
\* requests for what the box is ready for.
LEMMA MessageAsks ==
  ASSUME IInv, RInv, ~clash, Updates = FALSE,
         NEW message \in Message, ReadCompletes(message)
  PROVE  RInv'
<1> DEFINE after == message.type = "request" /\ message.source \in readyFor
           y == [do |-> "message", message |-> message, afterReady |-> after]
<1>1. /\ Typed /\ Answered /\ Asked /\ queue \in Seq(Item) /\ conn = "up"
      /\ queue' = Append(queue, y) /\ y \in Item
      /\ y.do = "message" /\ y.message = message /\ y.afterReady = after
      /\ UNCHANGED <<handlers, config, dropbox, conn, readyFor>>
  BY Made DEF IInv, RInv, Typed, ReadCompletes, Arrives
<1>2. /\ message.type \in {"greeting", "config", "request", "stop"}
      /\ message.type \in {"greeting", "config"} =>
            server = message.type /\ server' = "silent"
      /\ message.type \in {"request", "stop"} => server' = server
  BY DEF ReadCompletes, Sends, Message
<1>3. /\ y \in Answers <=> message.type \in {"greeting", "config"}
      /\ \A s : y \in Asks(s) => s \in readyFor
      /\ y \notin StepsTo("load") /\ y \notin Of({"request"})
  BY <1>1, <1>2 DEF Answers, Asks, StepsTo, ResetStep, Of
<1> HIDE DEF y, after
<1>4. Added(queue, y, queue')
  BY <1>1, Adding
<1>5. Answered'
  <2>1. ~Toward("load")'
    BY <1>1, <1>3, <1>4 DEF Added, Answered, Toward, TowardOf
  <2>2. CASE message.type \in {"greeting", "config"}
    <3>1. server # "silent" /\ server' = "silent" /\ y \in Answers
      BY <1>2, <1>3, <2>2
    <3>2. /\ Count(queue', Answers) = Count(queue, Answers) + 1
          /\ Count(queue, Answers) \in Nat
      BY <1>4, <3>1 DEF Added
    <3> QED BY <1>1, <2>1, <3>1, <3>2 DEF Answered, Clear, Empty
  <2>3. CASE message.type \in {"request", "stop"}
    <3>1. server' = server /\ y \notin Answers
      BY <1>2, <1>3, <2>3
    <3>2. Count(queue', Answers) = Count(queue, Answers)
      BY <1>4, <3>1 DEF Added
    <3> QED BY <1>1, <2>1, <3>1, <3>2 DEF Answered, Clear, Empty
  <2> QED BY <1>2, <2>2, <2>3
<1>6. Asked'
  <2>0. Known' = Known
    BY <1>1 DEF Known
  <2>1. \A s \in Sources : Count(queue', Asks(s)) > 0 => s \in Known'
    <3> TAKE s \in Sources
    <3>1. CASE y \in Asks(s)
      BY <1>1, <1>3, <2>0, <3>1 DEF Asked
    <3>2. CASE y \notin Asks(s)
      BY <1>1, <1>4, <2>0, <3>2 DEF Asked, Added
    <3> QED BY <3>1, <3>2
  <2>2. conn' = "up" => readyFor' \subseteq Known'
    BY <1>1, <2>0 DEF Asked
  <2>3. ~Before(queue', Of(ResetStep), Of({"request"}))
    BY <1>1, <1>3, <1>4 DEF Asked, Added
  <2>4. Has({"request"})' <=> Has({"request"})
    BY <1>3, <1>4 DEF Added, Has
  <2>5. Waiting' => Waiting
    BY <1>1 DEF Waiting, DropboxWaits, Waits
  <2> QED BY <1>1, <2>1, <2>2, <2>3, <2>4, <2>5 DEF Asked, Waiting
<1> QED BY <1>5, <1>6 DEF RInv

\* It holds of a process that starts.
LEMMA InitAsks == Init => RInv
<1> SUFFICES ASSUME Init PROVE RInv
  OBVIOUS
<1>1. /\ \A X : Count(queue, X) = 0
      /\ \A X, Y : ~Before(queue, X, Y)
      /\ DOMAIN handlers = {} /\ dropbox.goal = NoGoal
      /\ \A to \in Ends : ~Toward(to)
      /\ server = "silent" /\ conn # "up"
  BY Starting DEF Init, ControllerInit, Toward
<1> QED BY <1>1 DEF RInv, Answered, Asked, Ends, DropboxWaits, Waits, Has

\* And of one that is started again.
LEMMA RestartAsks == Restart => RInv'
<1> SUFFICES ASSUME Restart PROVE RInv'
  OBVIOUS
<1>1. /\ \A X : Count(queue', X) = 0
      /\ \A X, Y : ~Before(queue', X, Y)
      /\ DOMAIN handlers' = {} /\ dropbox'.goal = NoGoal
      /\ \A to \in Ends : ~Toward(to)'
      /\ server' = "silent" /\ conn' # "up"
  BY Starting DEF Restart, NewConnection, Toward
<1> QED BY <1>1 DEF RInv, Answered, Asked, Ends, DropboxWaits, Waits, Has

\* What has clashed stays so, in this process.
LEMMA ClashStays == [Next]_vars /\ clash => clash' \/ Restart
<1> SUFFICES ASSUME [Next]_vars, clash, ~Restart PROVE clash'
  OBVIOUS
<1>1. CASE UNCHANGED vars
  BY <1>1 DEF vars, controllerVars
<1>2. CASE RunController
  BY <1>2 DEF RunController, RunReset, RunSplitterDown, RunFolderDown,
              RunStreamerDown, RunStopDropbox, RunDropboxDown, RunLoadAgain,
              RunLoad, RunRequest, RunStop
<1>3. CASE \/ RunConnected \/ RunError \/ RunMessage \/ RunSend
           \/ RunScheduleConnect \/ RunConnect \/ RunClientDown \/ RunExit
  BY <1>3 DEF RunConnected, RunError, RunMessage, RunSend, RunScheduleConnect,
              RunConnect, RunClientDown, RunExit, OnError
<1>4. CASE ControllerEnvironment
  BY <1>4 DEF ControllerEnvironment, DestroyStreaming, DropboxEnds, Streams,
              UseFreedFolder
<1>5. CASE \/ \E ok \in BOOLEAN : Connected(ok)
           \/ \E message \in Message : ReadCompletes(message)
           \/ Breaks \/ ReadFails \/ WriteEnds \/ TimerExpires \/ Signal
  BY <1>5 DEF Connected, ReadCompletes, Breaks, ReadFails, WriteEnds,
              TimerExpires, Signal, controllerVars
<1> QED BY <1>1, <1>2, <1>3, <1>4, <1>5 DEF Next, Run, Environment

\* Every step keeps it.
LEMMA StepAsks ==
  ASSUME Updates = FALSE
  PROVE  IInv /\ RInv /\ [Next]_vars => RInv'
<1> SUFFICES ASSUME IInv, RInv, [Next]_vars PROVE RInv'
  OBVIOUS
<1>1. CASE Restart
  BY <1>1, RestartAsks
<1>2. CASE clash /\ ~Restart
  BY <1>2, ClashStays DEF RInv
<1>3. CASE ~clash /\ ~Restart
  <2>1. CASE RunController /\ ClientUnchanged
    BY <1>3, <2>1, ResetAsks, FolderDownAsks, StreamerDownAsks,
       StopDropboxAsks,
       DropboxAsks, LoadAsks, StreamAsks DEF RunController
  <2>2. CASE ControllerEnvironment /\ ClientUnchanged
    BY <1>3, <2>2, StreamAsks, DropboxAsks, ClientAsks
       DEF ControllerEnvironment
  <2>3. CASE RunConnected \/ RunMessage
    BY <1>3, <2>3, GreetingAsks, InstructedAsks, ClientAsks
  <2>4. CASE RunSend \/ (\E ok \in BOOLEAN : Connected(ok))
    BY <1>3, <2>4, ReadyAsks
  <2>5. CASE RunClientDown
    BY <1>3, <2>5, ResetAsks
  <2>6. CASE \E message \in Message : ReadCompletes(message)
    BY <1>3, <2>6, MessageAsks
  <2>7. CASE \/ RunError \/ RunScheduleConnect \/ RunConnect \/ RunExit
             \/ Breaks \/ ReadFails \/ WriteEnds \/ TimerExpires \/ Signal
             \/ UNCHANGED vars
    BY <1>3, <2>7, ClientAsks
  <2> QED BY <1>3, <2>1, <2>2, <2>3, <2>4, <2>5, <2>6, <2>7
          DEF Next, Run, Environment
<1> QED BY <1>1, <1>2, <1>3

\* With the server of this repository, which sends no updates, what it asks for
\* after ClientReady finds its handler, unless the box could not load it.
THEOREM TheRestoredAreHandled ==
  ASSUME Updates = FALSE
  PROVE  Spec => []RestoredIsHandled
<1>1. Spec => [](IInv /\ RInv)
  <2>1. Init => IInv /\ RInv
    BY InitHas, InitAsks
  <2>2. IInv /\ RInv /\ [Next]_vars => (IInv /\ RInv)'
    BY StepKeeps, StepAsks
  <2> QED BY <2>1, <2>2, PTL DEF Spec
<1>2. IInv /\ RInv => RestoredIsHandled
  <2> SUFFICES ASSUME IInv, RInv, Runs("request"), Head(queue).afterReady, ~clash
               PROVE  Head(queue).source \in Known
    BY DEF RestoredIsHandled, Known
  <2>1. /\ queue \in Seq(Item) /\ queue # <<>> /\ Head(queue).do = "request"
        /\ Asked
    BY DEF IInv, RInv, Typed, Runs
  <2>2. PICK x \in Item, s \in Sources :
           /\ x = Head(queue) /\ s = x.source /\ Removed(queue, x, Tail(queue))
    BY <2>1, Removing, Parts
  <2>3. x \in Asks(s)
    BY <2>1, <2>2 DEF Asks
  <2>4. Count(queue, Asks(s)) > 0
    BY <2>2, <2>3 DEF Removed
  <2> QED BY <2>1, <2>2, <2>4 DEF Asked
<1> QED BY <1>1, <1>2, PTL

-----------------------------------------------------------------------------
(* What a reset finds and leaves: the streamers it removes are idle, and    *)
(* what it frees too early are folders of sources with storage.             *)

\* A folder that was freed, and handlers with storage, have used Dropbox.
Stored ==
    /\ phase = "crashed" => freed
    /\ ~clash =>
          ((freed \/ \E s \in DOMAIN handlers : handlers[s].storage > 0) =>
              dropbox.used)

\* The storage of what a step leaves is as it was.
LEMMA StoredStays ==
  ASSUME Stored, ~clash, UNCHANGED freed,
         phase' = "crashed" => freed,
         dropbox'.used = dropbox.used,
         DOMAIN handlers' = DOMAIN handlers,
         \A s \in DOMAIN handlers : handlers'[s].storage = handlers[s].storage
  PROVE  Stored'
BY DEF Stored

\* Streamers start, stop and are destroyed.
LEMMA StreamStores ==
  ASSUME IInv, Stored, ~clash,
         \/ RunRequest \/ RunStop \/ RunFolderDown
         \/ \E s \in Sources, streamer \in {"live", "stopped"} : Streams(s, streamer)
         \/ \E s \in Sources : DestroyStreaming(s)
  PROVE  Stored'
<1>1. \A r \in DOMAIN handlers : handlers[r] \in Handler
  BY DEF IInv, Typed, TypeOK, ControllerTypeOK
<1>2. UNCHANGED <<phase, dropbox, freed>>
  BY DEF RunRequest, RunStop, RunFolderDown, Streams, DestroyStreaming
<1>3. ASSUME NEW s, NEW streamer, NEW goal,
             \/ UNCHANGED handlers
             \/ handlers' = [handlers EXCEPT ![s].streamer = streamer]
             \/ handlers' = [handlers EXCEPT ![s].streamer = streamer,
                                             ![s].shuttedDown = goal]
      PROVE  Stored'
  <2>1. DOMAIN handlers' = DOMAIN handlers
    BY <1>3
  <2>2. ASSUME NEW r \in DOMAIN handlers
        PROVE  handlers'[r].storage = handlers[r].storage
    BY <1>1, <1>3, <2>2 DEF Handler
  <2> QED BY <1>2, <2>1, <2>2, StoredStays DEF Stored
<1>4. CASE RunRequest \/ RunStop
  BY <1>3, <1>4 DEF RunRequest, RunStop
<1>5. CASE RunFolderDown
  BY <1>3, <1>5 DEF RunFolderDown
<1>6. CASE \E s \in Sources, streamer \in {"live", "stopped"} : Streams(s, streamer)
  BY <1>3, <1>6 DEF Streams
<1>7. CASE \E s \in Sources : DestroyStreaming(s)
  <2>1. PICK s \in Sources : DestroyStreaming(s)
    BY <1>7
  <2>2. handlers' = [handlers EXCEPT ![s].streamer = "idle",
                                     ![s].shuttedDown = NoGoal]
    BY <2>1 DEF DestroyStreaming
  <2> QED BY <1>3, <2>2
<1> QED BY <1>4, <1>5, <1>6, <1>7

\* Steps of the process that leave handlers and folders alone.
LEMMA AsideStores ==
  ASSUME IInv, Stored, ~clash,
         \/ RunReset \/ RunSplitterDown \/ RunStopDropbox \/ RunDropboxDown
         \/ RunLoadAgain \/ UseFreedFolder \/ UNCHANGED vars
         \/ RunConnected \/ RunError \/ RunMessage \/ RunSend
         \/ RunScheduleConnect \/ RunConnect \/ RunClientDown \/ RunExit
         \/ (\E ok \in BOOLEAN : Connected(ok)) \/ Breaks \/ ReadFails
         \/ WriteEnds \/ TimerExpires \/ Signal
         \/ \E message \in Message : ReadCompletes(message)
  PROVE  Stored'
<1>6. dropbox \in [used : BOOLEAN, gone : BOOLEAN, goal : Goal]
  BY DEF IInv, Typed, TypeOK, ControllerTypeOK
<1>1. CASE RunReset \/ RunSplitterDown \/ RunDropboxDown \/ RunLoadAgain
  BY <1>1, StoredStays
     DEF RunReset, RunSplitterDown, RunDropboxDown, RunLoadAgain, Stored
<1>2. CASE RunStopDropbox
  <2>1. UNCHANGED <<phase, handlers, freed>>
    BY <1>2 DEF RunStopDropbox
  <2>2. dropbox'.used = dropbox.used
    BY <1>2, <1>6 DEF RunStopDropbox
  <2> QED BY <2>1, <2>2, StoredStays DEF Stored
<1>3. CASE UseFreedFolder
  BY <1>3, StoredStays DEF UseFreedFolder
<1>4. CASE \/ RunConnected \/ RunError \/ RunMessage \/ RunSend
           \/ RunScheduleConnect \/ RunConnect \/ RunClientDown \/ RunExit
  BY <1>4, StoredStays
     DEF RunConnected, RunError, RunMessage, RunSend, RunScheduleConnect,
         RunConnect, RunClientDown, RunExit, Stored
<1>5. CASE \/ (\E ok \in BOOLEAN : Connected(ok)) \/ Breaks \/ ReadFails
           \/ WriteEnds \/ TimerExpires \/ Signal \/ UNCHANGED vars
           \/ \E message \in Message : ReadCompletes(message)
  <2>1. UNCHANGED <<phase, handlers, dropbox, freed>>
    BY <1>5 DEF Connected, Breaks, ReadFails, WriteEnds, TimerExpires, Signal,
                ReadCompletes, vars, controllerVars
  <2> QED BY <2>1, StoredStays DEF Stored
<1> QED BY <1>1, <1>2, <1>3, <1>4, <1>5

\* Every step keeps it.
LEMMA StepStores == IInv /\ Stored /\ [Next]_vars => Stored'
<1> SUFFICES ASSUME IInv, Stored, [Next]_vars PROVE Stored'
  OBVIOUS
<1>1. CASE Restart
  BY <1>1 DEF Restart, Stored
<1>2. CASE clash /\ ~Restart
  <2>1. clash'
    BY <1>2, ClashStays
  <2>2. phase' = "crashed" => freed'
    <3>1. freed => freed' \/ Restart
      BY DEF Next, Run, Environment, RunController, ControllerEnvironment,
             ClientUnchanged, vars, controllerVars, RunReset, RunSplitterDown,
             RunFolderDown, RunStreamerDown, RemoveSource, RunStopDropbox,
             RunDropboxDown, RunLoadAgain, RunLoad, RunRequest, RunStop,
             DestroyStreaming, DropboxEnds, Streams, UseFreedFolder,
             RunConnected, RunError, RunMessage, RunSend, RunScheduleConnect,
             RunConnect, RunClientDown, RunExit, Connected, Breaks, ReadFails,
             WriteEnds, TimerExpires, Signal, ReadCompletes
    <3>2. phase' = "crashed" => phase = "crashed" \/ UseFreedFolder
      BY <1>2 DEF Next, Run, Environment, RunController, ControllerEnvironment,
             ClientUnchanged, vars, controllerVars, RunReset, RunSplitterDown,
             RunFolderDown, RunStreamerDown, RunStopDropbox,
             RunDropboxDown, RunLoadAgain, RunLoad, RunRequest, RunStop,
             DestroyStreaming, DropboxEnds, Streams,
             RunConnected, RunError, RunMessage, RunSend, RunScheduleConnect,
             RunConnect, RunClientDown, RunExit, Connected, Breaks, ReadFails,
             WriteEnds, TimerExpires, Signal, ReadCompletes
    <3> QED BY <1>2, <3>1, <3>2 DEF Stored, UseFreedFolder
  <2> QED BY <2>1, <2>2 DEF Stored
<1>3. CASE ~clash /\ RunStreamerDown
  <2>1. /\ UNCHANGED <<phase, dropbox>>
        /\ \E s : /\ handlers' = [r \in DOMAIN handlers \ {s} |-> handlers[r]]
                  /\ freed' = (freed \/ (s \in DOMAIN handlers
                                           /\ handlers[s].storage > 0))
    BY <1>3 DEF RunStreamerDown, RemoveSource
  <2> QED BY <1>3, <2>1 DEF Stored
<1>4. CASE ~clash /\ DropboxEnds
  <2>1. ~dropbox.used /\ UNCHANGED <<phase, handlers, freed>>
    BY <1>4 DEF DropboxEnds
  <2> QED BY <1>4, <2>1 DEF Stored
<1>5. CASE ~clash /\ RunLoad
  <2>1. /\ StartHandleSources(config') /\ UNCHANGED <<phase, freed>>
        /\ queue # <<>> /\ Head(queue).do = "load"
    BY <1>5 DEF RunLoad, Runs
  <2>2. Typed /\ Quiet /\ queue \in Seq(Item)
        /\ dropbox \in [used : BOOLEAN, gone : BOOLEAN, goal : Goal]
    BY <1>5 DEF IInv, Typed, TypeOK, ControllerTypeOK
  <2>3. Head(queue) \in Item /\ Removed(queue, Head(queue), Tail(queue))
    BY <2>1, <2>2, Removing
  <2>4. Has({"message", "load"})
    <3>1. Head(queue) \in Of({"message", "load"})
      BY <2>1, <2>3 DEF Of
    <3> QED BY <2>3, <3>1 DEF Removed, Has
  <2>5. ~dropbox.gone
    BY <2>2, <2>4 DEF Quiet
  <2>6. dropbox'.used =
           (dropbox.used \/ \E s \in DOMAIN config'.sources :
                               config'.sources[s] > 0)
    BY <2>1, <2>2, <2>5 DEF StartHandleSources
  <2>7. \A s \in DOMAIN handlers' :
           \/ s \in DOMAIN handlers /\ handlers'[s] = handlers[s]
           \/ /\ s \in DOMAIN config'.sources
              /\ handlers'[s].storage = config'.sources[s]
    BY <2>1 DEF StartHandleSources
  <2> QED BY <1>5, <2>1, <2>6, <2>7 DEF Stored
<1>6. CASE ~clash /\ RunController
  BY <1>3, <1>5, <1>6, AsideStores, StreamStores DEF RunController
<1>7. CASE ~clash /\ ControllerEnvironment
  BY <1>4, <1>7, AsideStores, StreamStores DEF ControllerEnvironment
<1> QED BY <1>1, <1>2, <1>6, <1>7, AsideStores DEF Next, Run, Environment

\* What is queued.
Items(q) == {q[i] : i \in DOMAIN q}

\* What is counted is there.
LEMMA ItemsCounted ==
  ASSUME NEW q \in Seq(Item), NEW dos
  PROVE  Count(q, Of(dos)) > 0 <=> \E x \in Items(q) : x.do \in dos
BY Counted DEF Items

\* An item that comes.
LEMMA ItemsAppended ==
  ASSUME NEW q \in Seq(Item), NEW y
  PROVE  Items(Append(q, y)) = Items(q) \cup {y}
<1>1. /\ DOMAIN Append(q, y) = DOMAIN q \cup {Len(q) + 1}
      /\ \A i \in DOMAIN q : Append(q, y)[i] = q[i]
      /\ Append(q, y)[Len(q) + 1] = y
  OBVIOUS
<1> QED BY <1>1 DEF Items

\* An item that goes.
LEMMA ItemsTaken ==
  ASSUME NEW q \in Seq(Item), q # <<>>
  PROVE  /\ Tail(q) \in Seq(Item) /\ Head(q) \in Items(q)
         /\ Items(Tail(q)) \subseteq Items(q)
<1>1. /\ 1 \in DOMAIN q /\ Head(q) = q[1]
      /\ \A i \in DOMAIN Tail(q) : i + 1 \in DOMAIN q /\ Tail(q)[i] = q[i + 1]
  OBVIOUS
<1>2. ASSUME NEW y \in Items(Tail(q)) PROVE y \in Items(q)
  <2>1. PICK i \in DOMAIN Tail(q) : y = Tail(q)[i]
    BY <1>2 DEF Items
  <2>2. PICK j \in DOMAIN q : y = q[j]
    BY <1>1, <2>1
  <2> QED BY <2>2 DEF Items
<1>3. Head(q) \in Items(q)
  BY <1>1 DEF Items
<1> QED BY <1>2, <1>3

\* Items that come.
LEMMA ItemsJoined ==
  ASSUME NEW q \in Seq(Item), NEW t \in Seq(Item)
  PROVE  Items(q \o t) = Items(q) \cup Items(t)
<1>1. /\ \A i \in DOMAIN q : i \in DOMAIN (q \o t) /\ (q \o t)[i] = q[i]
      /\ \A i \in DOMAIN t :
            Len(q) + i \in DOMAIN (q \o t) /\ (q \o t)[Len(q) + i] = t[i]
      /\ \A i \in DOMAIN (q \o t) :
            \/ i \in DOMAIN q /\ (q \o t)[i] = q[i]
            \/ i - Len(q) \in DOMAIN t /\ (q \o t)[i] = t[i - Len(q)]
  OBVIOUS
<1>2. ASSUME NEW y \in Items(q \o t) PROVE y \in Items(q) \cup Items(t)
  BY <1>1, <1>2 DEF Items
<1>3. ASSUME NEW y \in Items(q) PROVE y \in Items(q \o t)
  BY <1>1, <1>3 DEF Items
<1>4. ASSUME NEW y \in Items(t) PROVE y \in Items(q \o t)
  <2>1. PICK i \in DOMAIN t : y = t[i]
    BY <1>4 DEF Items
  <2>2. PICK j \in DOMAIN (q \o t) : y = (q \o t)[j]
    BY <1>1, <2>1
  <2> QED BY <2>2 DEF Items
<1> QED BY <1>2, <1>3, <1>4

\* A streamer whose end is queued is idle, and is not asked to stream before it
\* is removed: what was asked for is done once the reset is past its recorder.
Idle ==
    \A x \in Items(queue) :
        /\ x.do = "streamerDown" =>
              /\ x.source \in DOMAIN handlers
              /\ handlers[x.source].streamer = "idle"
        /\ x.do \in {"folderDown", "streamerDown"} =>
              \A y \in Items(queue) : y.do # "request"

QInv == ~clash => Idle

\* A step that posts none of these, and starts no idle streamer, keeps it.
LEMMA IdleStays ==
  ASSUME Idle,
         \A x \in Items(queue') :
            x \in Items(queue)
              \/ x.do \notin {"folderDown", "streamerDown", "request"},
         \A s \in DOMAIN handlers :
            handlers[s].streamer = "idle" =>
                s \in DOMAIN handlers' /\ handlers'[s].streamer = "idle"
  PROVE  Idle'
BY DEF Idle

\* Nothing is asked for while a step of a reset is at the head of the queue, or
\* a streamer is waited for.
LEMMA NoRequests ==
  ASSUME IInv, RInv, ~clash,
         \/ queue # <<>> /\ Head(queue).do \in ResetStep
         \/ \E s \in Sources : Waits(s)
  PROVE  /\ (\E s \in Sources : Waits(s)) =>
               \A y \in Items(queue) : y.do # "request"
         /\ queue # <<>> /\ Head(queue).do \in ResetStep =>
               \A y \in Items(Tail(queue)) : y.do # "request"
<1>1. queue \in Seq(Item) /\ Asked
  BY DEF IInv, RInv, Typed
<1>2. ASSUME \E s \in Sources : Waits(s)
      PROVE  \A y \in Items(queue) : y.do # "request"
  <2>1. ~Has({"request"})
    BY <1>1, <1>2 DEF Asked
  <2>2. Count(queue, Of({"request"})) > 0 <=>
           \E y \in Items(queue) : y.do \in {"request"}
    BY <1>1, ItemsCounted
  <2> QED BY <2>1, <2>2 DEF Has
<1>3. ASSUME queue # <<>>, Head(queue).do \in ResetStep
      PROVE  \A y \in Items(Tail(queue)) : y.do # "request"
  <2>1. Count(Tail(queue), Of({"request"})) = 0 /\ Tail(queue) \in Seq(Item)
    BY <1>1, <1>3, FirstIs
  <2>2. Count(Tail(queue), Of({"request"})) > 0 <=>
           \E y \in Items(Tail(queue)) : y.do \in {"request"}
    BY <2>1, ItemsCounted
  <2> QED BY <2>1, <2>2
<1> QED BY <1>2, <1>3

\* What a step takes, and posts.
LEMMA PostsAll ==
  ASSUME Typed, queue # <<>>, NEW t \in Seq(Item), queue' = Tail(queue) \o t
  PROVE  /\ Items(queue') = Items(Tail(queue)) \cup Items(t)
         /\ Items(Tail(queue)) \subseteq Items(queue)
         /\ Head(queue) \in Items(queue)
<1>1. Tail(queue) \in Seq(Item) /\ queue \in Seq(Item)
  BY DEF Typed
<1>2. Items(queue') = Items(Tail(queue)) \cup Items(t)
  BY <1>1, ItemsJoined
<1> QED BY <1>1, <1>2, ItemsTaken

LEMMA PostsOne ==
  ASSUME Typed, queue # <<>>, NEW y \in Item, queue' = Tail(queue) \o <<y>>
  PROVE  /\ Items(queue') = Items(Tail(queue)) \cup {y}
         /\ Items(Tail(queue)) \subseteq Items(queue)
         /\ Head(queue) \in Items(queue)
<1>1. PICK t \in Seq(Item) : t = <<y>>
  OBVIOUS
<1>2. Items(t) = {y}
  BY <1>1 DEF Items
<1> QED BY <1>1, <1>2, PostsAll

LEMMA PostsNone ==
  ASSUME Typed, queue # <<>>, queue' = Tail(queue) \o <<>>
  PROVE  /\ Items(queue') = Items(Tail(queue))
         /\ Items(Tail(queue)) \subseteq Items(queue)
         /\ Head(queue) \in Items(queue)
<1>1. <<>> \in Seq(Item) /\ Items(<<>>) = {}
  BY DEF Items
<1> QED BY <1>1, PostsAll

\* Nothing but a reset's first steps is posted by what begins it.
LEMMA BeginsIdle ==
  ASSUME Idle, Typed, queue # <<>>, NEW g \in RealGoal,
         queue' = Tail(queue) \o StopHandleSources(g), UNCHANGED handlers
  PROVE  Idle'
<1>1. PICK t : t = StopHandleSources(g)
  OBVIOUS
<1>2. t \in Seq(Item)
  BY <1>1, Stops
<1>3. \A x \in Items(t) : x.do \in {"stopDropbox", "splitterDown"}
  <2>1. CASE DOMAIN handlers = {}
    BY <1>1, <2>1 DEF StopHandleSources, Items
  <2>2. CASE DOMAIN handlers # {}
    BY <1>1, <2>2 DEF StopHandleSources, Items
  <2> QED BY <2>1, <2>2
<1>4. /\ Items(queue') = Items(Tail(queue)) \cup Items(t)
      /\ Items(Tail(queue)) \subseteq Items(queue)
  BY <1>1, <1>2, PostsAll
<1> QED BY <1>3, <1>4, IdleStays

\* A source's recorder is down, or its folder.
LEMMA DownIdle ==
  ASSUME IInv, RInv, Idle, ~clash, RunSplitterDown \/ RunFolderDown
  PROVE  Idle'
<1>1. PICK x \in Item, s \in Sources :
         /\ x = Head(queue) /\ s = x.source
         /\ x.do \in {"splitterDown", "folderDown"}
  <2>1. Head(queue) \in Item /\ Head(queue).do \in {"splitterDown", "folderDown"}
    BY DEF IInv, Typed, RunSplitterDown, RunFolderDown, Runs
  <2> QED BY <2>1, Parts DEF SourceStep
<1>2. /\ Typed /\ queue \in Seq(Item) /\ queue # <<>> /\ Lone
      /\ \A r \in DOMAIN handlers : handlers[r] \in Handler
  BY DEF IInv, RunSplitterDown, RunFolderDown, Runs, Typed, TypeOK,
         ControllerTypeOK
<1>3. /\ \A y \in Items(Tail(queue)) : y.do # "request"
      /\ Items(Tail(queue)) \subseteq Items(queue)
  BY <1>1, <1>2, NoRequests, ItemsTaken DEF ResetStep
<1>4. s \in DOMAIN handlers
  <2>1. x \in StepsOf(s) /\ Removed(queue, x, Tail(queue))
    BY <1>1, <1>2, Removing DEF StepsOf, SourceStep
  <2>2. Count(queue, StepsOf(s)) > 0
    BY <2>1 DEF Removed
  <2> QED BY <1>2, <2>2 DEF Lone, OneEach
<1>5. ASSUME NEW do \in {"folderDown", "streamerDown"},
             queue' = Tail(queue) \o <<[x EXCEPT !.do = do]>>,
             UNCHANGED handlers,
             do = "streamerDown" => handlers[s].streamer = "idle"
      PROVE  Idle'
  <2>1. PICK y \in Item : /\ y = [x EXCEPT !.do = do]
                          /\ y.do = do /\ y.source = s
    <3>1. [x EXCEPT !.do = do] \in Item
      BY <1>1, Parts DEF SourceStep
    <3>2. [x EXCEPT !.do = do].do = do /\ [x EXCEPT !.do = do].source = s
      BY <1>1 DEF Item, ClientItem
    <3> QED BY <3>1, <3>2
  <2>2. queue' = Tail(queue) \o <<y>>
    BY <1>5, <2>1
  <2>3. Items(queue') = Items(Tail(queue)) \cup {y}
    BY <1>2, <2>1, <2>2, PostsOne
  <2> QED BY <1>3, <1>4, <1>5, <2>1, <2>3 DEF Idle
<1>6. CASE RunSplitterDown
  BY <1>1, <1>5, <1>6 DEF RunSplitterDown, Posts
<1>7. CASE RunFolderDown /\ handlers[s].streamer = "idle"
  BY <1>1, <1>5, <1>7 DEF RunFolderDown, Posts
<1>8. CASE RunFolderDown /\ handlers[s].streamer # "idle"
  <2>1. /\ queue' = Tail(queue) \o <<>>
        /\ handlers' = [handlers EXCEPT ![s].streamer = "stopped",
                                        ![s].shuttedDown = x.goal]
    BY <1>1, <1>8 DEF RunFolderDown, Posts
  <2>2. Items(queue') = Items(Tail(queue))
    BY <1>2, <2>1, PostsNone
  <2>3. \A r \in DOMAIN handlers :
           handlers[r].streamer = "idle" =>
               r \in DOMAIN handlers' /\ handlers'[r].streamer = "idle"
    BY <1>8, <2>1
  <2> QED BY <1>3, <2>2, <2>3, IdleStays
<1> QED BY <1>6, <1>7, <1>8

\* A source is removed, of which nothing else is queued.
LEMMA RemovedIdle ==
  ASSUME IInv, Idle, ~clash, RunStreamerDown
  PROVE  Idle'
<1>1. PICK x \in Item, s \in Sources, g \in RealGoal :
         x = Head(queue) /\ x.do = "streamerDown" /\ s = x.source /\ g = x.goal
  <2>1. Head(queue) \in Item /\ Head(queue).do = "streamerDown"
    BY DEF IInv, Typed, RunStreamerDown, Runs
  <2> QED BY <2>1, Parts DEF SourceStep
<1>2. Typed /\ queue \in Seq(Item) /\ queue # <<>> /\ Lone
  BY DEF IInv, RunStreamerDown, Runs, Typed
<1>3. Count(Tail(queue), StepsOf(s)) = 0 /\ Tail(queue) \in Seq(Item)
  <2>1. x \in StepsOf(s) /\ Removed(queue, x, Tail(queue))
    BY <1>1, <1>2, Removing DEF StepsOf, SourceStep
  <2>2. /\ Count(queue, StepsOf(s)) = Count(Tail(queue), StepsOf(s)) + 1
        /\ Count(Tail(queue), StepsOf(s)) \in Nat
    BY <2>1 DEF Removed
  <2> QED BY <1>2, <2>2 DEF Lone, OneEach
<1>4. Dangle(Tail(queue), s) = Tail(queue)
  BY <1>3, Dangles
<1>5. \A y \in Items(Tail(queue)) : y.do = "streamerDown" => y.source # s
  <2>1. ~\E i \in DOMAIN Tail(queue) : Tail(queue)[i] \in StepsOf(s)
    <3>1. Count(Tail(queue), StepsOf(s)) > 0 <=>
             \E i \in DOMAIN Tail(queue) : Tail(queue)[i] \in StepsOf(s)
      BY <1>3, Counted
    <3> QED BY <1>3, <3>1
  <2>2. \A y \in Items(Tail(queue)) : y \notin StepsOf(s) /\ y \in Item
    BY <1>3, <2>1 DEF Items
  <2> QED BY <2>2 DEF StepsOf, SourceStep
<1>6. PICK t \in Seq(Item) :
         /\ queue' = Tail(queue) \o t
         /\ \A y \in Items(t) : y.do = "stopDropbox"
  <2>1. queue' = Tail(queue) \o
            (IF DOMAIN handlers \ {s} = {}
             THEN <<[do |-> "stopDropbox", goal |-> g]>> ELSE <<>>)
    BY <1>1, <1>4 DEF RunStreamerDown, RemoveSource
  <2>2. PICK y \in Item : y = [do |-> "stopDropbox", goal |-> g]
    BY Made DEF DropboxStep
  <2>3. y.do = "stopDropbox"
    BY <2>2
  <2>4. <<>> \in Seq(Item) /\ <<y>> \in Seq(Item)
    OBVIOUS
  <2>5. Items(<<>>) = {} /\ Items(<<y>>) = {y}
    BY DEF Items
  <2>6. CASE DOMAIN handlers \ {s} = {}
    <3>1. queue' = Tail(queue) \o <<y>>
      BY <2>1, <2>2, <2>6
    <3> QED BY <2>3, <2>4, <2>5, <3>1
  <2>7. CASE DOMAIN handlers \ {s} # {}
    <3>1. queue' = Tail(queue) \o <<>>
      BY <2>1, <2>7
    <3> QED BY <2>4, <2>5, <3>1
  <2> QED BY <2>6, <2>7
<1>7. /\ Items(queue') = Items(Tail(queue)) \cup Items(t)
      /\ Items(Tail(queue)) \subseteq Items(queue)
  BY <1>2, <1>6, PostsAll
<1>8. handlers' = [r \in DOMAIN handlers \ {s} |-> handlers[r]]
  BY <1>1 DEF RunStreamerDown, RemoveSource
<1> QED BY <1>5, <1>6, <1>7, <1>8 DEF Idle

\* Streams begin and end.
LEMMA StreamIdle ==
  ASSUME IInv, RInv, Idle, ~clash,
         \/ RunRequest \/ RunStop
         \/ \E s \in Sources, streamer \in {"live", "stopped"} : Streams(s, streamer)
         \/ \E s \in Sources : DestroyStreaming(s)
  PROVE  Idle'
<1>1. /\ Typed /\ queue \in Seq(Item)
      /\ \A r \in DOMAIN handlers : /\ handlers[r] \in Handler
                                    /\ handlers[r].shuttedDown \in Goal
  BY DEF IInv, Typed, TypeOK, ControllerTypeOK, Handler
<1>2. CASE RunRequest
  <2>1. queue # <<>> /\ Head(queue).do = "request" /\ queue' = Tail(queue) \o <<>>
    BY <1>2 DEF RunRequest, Runs, Posts
  <2>2. /\ Items(queue') = Items(Tail(queue)) /\ Head(queue) \in Items(queue)
        /\ Items(Tail(queue)) \subseteq Items(queue)
    BY <1>1, <2>1, PostsNone
  <2> QED BY <2>1, <2>2 DEF Idle
<1>3. CASE RunStop
  <2>1. queue # <<>> /\ queue' = Tail(queue) \o <<>>
    BY <1>3 DEF RunStop, Runs, Posts
  <2>2. Items(queue') \subseteq Items(queue)
    BY <1>1, <2>1, PostsNone
  <2>3. \A r \in DOMAIN handlers :
           handlers[r].streamer = "idle" =>
               r \in DOMAIN handlers' /\ handlers'[r].streamer = "idle"
    BY <1>3 DEF RunStop
  <2> QED BY <2>2, <2>3, IdleStays
<1>4. CASE \E s \in Sources, streamer \in {"live", "stopped"} : Streams(s, streamer)
  <2>1. PICK s \in Sources, streamer \in {"live", "stopped"} : Streams(s, streamer)
    BY <1>4
  <2>2. Items(queue') = Items(queue) \cup {[do |-> "status"]}
    <3>1. queue' = Append(queue, [do |-> "status"])
      BY <2>1 DEF Streams, Arrives
    <3> QED BY <1>1, <3>1, ItemsAppended
  <2>3. \A r \in DOMAIN handlers :
           handlers[r].streamer = "idle" =>
               r \in DOMAIN handlers' /\ handlers'[r].streamer = "idle"
    BY <2>1 DEF Streams
  <2> QED BY <2>2, <2>3, IdleStays
<1>5. CASE \E s \in Sources : DestroyStreaming(s)
  <2>1. PICK s \in Sources : DestroyStreaming(s)
    BY <1>5
  <2>2. /\ s \in DOMAIN handlers
        /\ DOMAIN handlers' = DOMAIN handlers
        /\ handlers'[s].streamer = "idle"
        /\ \A r \in DOMAIN handlers :
              handlers[r].streamer = "idle" => handlers'[r].streamer = "idle"
    BY <1>1, <2>1 DEF DestroyStreaming, Handler
  <2>3. CASE handlers[s].shuttedDown = NoGoal
    <3>1. queue' = queue
      BY <2>1, <2>3 DEF DestroyStreaming
    <3> QED BY <2>2, <3>1, IdleStays
  <2>4. CASE handlers[s].shuttedDown # NoGoal
    <3>1. \A y \in Items(queue) : y.do # "request"
      BY <2>2, <2>4, NoRequests DEF Waits
    <3>2. PICK y : y = [do |-> "streamerDown", source |-> s,
                        goal |-> handlers[s].shuttedDown]
      OBVIOUS
    <3>4. y.do = "streamerDown" /\ y.source = s
      BY <3>2
    <3>5. queue' = Append(queue, y)
      BY <2>1, <2>4, <3>2 DEF DestroyStreaming
    <3>3. Items(queue') = Items(queue) \cup {y}
      BY <1>1, <3>5, ItemsAppended
    <3> QED BY <2>2, <3>1, <3>4, <3>3 DEF Idle
  <2> QED BY <2>3, <2>4
<1> QED BY <1>2, <1>3, <1>4, <1>5

\* A message is passed on while no reset is under way.
LEMMA MessageIdle ==
  ASSUME IInv, RInv, Idle, ~clash, RunMessage
  PROVE  Idle'
<1>1. /\ Typed /\ Answered /\ Quiet /\ queue \in Seq(Item) /\ queue # <<>>
      /\ UNCHANGED handlers /\ Head(queue).do = "message"
  BY DEF IInv, RInv, Typed, RunMessage, Runs
<1>2. CASE Head(queue).message.type = "greeting"
  <2>1. queue' = Tail(queue) \o <<>>
    BY <1>2 DEF RunMessage, Posts
  <2>2. Items(queue') \subseteq Items(queue)
    BY <1>1, <2>1, PostsNone
  <2> QED BY <1>1, <2>2, IdleStays
<1>3. CASE Head(queue).message.type # "greeting"
  <2>1. PICK y \in Item : /\ y = ToController(Head(queue))
                          /\ y.do \in {"load", "request", "stop"}
                          /\ queue' = Tail(queue) \o <<y>>
    <3>1. Head(queue) \in Item
      BY <1>1
    <3> QED BY <1>1, <1>3, <3>1, Unpacked DEF RunMessage, Posts
  <2>2. /\ Items(queue') = Items(Tail(queue)) \cup {y}
        /\ Items(Tail(queue)) \subseteq Items(queue)
        /\ Head(queue) \in Items(queue)
    BY <1>1, <2>1, PostsOne
  <2>3. Has({"message", "load"})
    <3>1. Count(queue, Of({"message", "load"})) > 0 <=>
             \E x \in Items(queue) : x.do \in {"message", "load"}
      BY <1>1, ItemsCounted
    <3> QED BY <1>1, <2>2, <3>1 DEF Has
  <2>4. ~Underway
    BY <1>1, <2>3 DEF Quiet, Answered, Underway, Ends
  <2>5. ~Has(ResetStep)
    BY <1>1, <2>4, Underways
  <2>6. \A x \in Items(queue) : x.do \notin {"folderDown", "streamerDown"}
    <3>1. Count(queue, Of(ResetStep)) > 0 <=>
             \E x \in Items(queue) : x.do \in ResetStep
      BY <1>1, ItemsCounted
    <3> QED BY <2>5, <3>1 DEF Has, ResetStep
  <2> QED BY <1>1, <2>1, <2>2, <2>6 DEF Idle
<1> QED BY <1>2, <1>3

\* What else the controller does.
LEMMA ControllerIdle ==
  ASSUME IInv, RInv, Idle, ~clash,
         \/ RunReset \/ RunStopDropbox \/ RunDropboxDown \/ RunLoad
         \/ RunLoadAgain \/ DropboxEnds
  PROVE  Idle'
<1>1. Typed /\ queue \in Seq(Item) /\ dropbox.goal \in Goal
  BY DEF IInv, Typed, TypeOK, ControllerTypeOK
<1>2. CASE RunReset
  <2>1. /\ queue # <<>> /\ Head(queue).do = "reset" /\ Head(queue) \in Item
        /\ queue' = Tail(queue) \o StopHandleSources(Head(queue).goal)
        /\ UNCHANGED handlers
    BY <1>1, <1>2 DEF RunReset, Runs, Posts
  <2>2. Head(queue).goal \in RealGoal
    BY <2>1, Parts, Goals
  <2> QED BY <1>1, <2>1, <2>2, BeginsIdle
<1>3. CASE RunLoadAgain
  <2>1. PICK c \in Configs :
           /\ queue # <<>> /\ UNCHANGED handlers
           /\ queue' = Tail(queue)
                         \o StopHandleSources([to |-> "load", config |-> c])
    <3>1. Head(queue) \in Item /\ Head(queue).do = "load"
      BY <1>1, <1>3 DEF RunLoadAgain, Runs
    <3> QED BY <1>3, <3>1, Parts DEF RunLoadAgain, Runs, Posts
  <2> QED BY <1>1, <2>1, Goals, BeginsIdle
<1>4. CASE RunLoad
  <2>1. queue # <<>> /\ queue' = Tail(queue) \o <<[do |-> "ready"]>>
    BY <1>4 DEF RunLoad, Runs, Posts
  <2>2. PICK y \in Item : y = [do |-> "ready"] /\ y.do = "ready"
    BY Made
  <2>3. /\ Items(queue') = Items(Tail(queue)) \cup {y}
        /\ Items(Tail(queue)) \subseteq Items(queue)
    BY <1>1, <2>1, <2>2, PostsOne
  <2>4. \A s \in DOMAIN handlers : s \in DOMAIN handlers' /\ handlers'[s] = handlers[s]
    BY <1>4 DEF RunLoad, StartHandleSources
  <2> QED BY <2>2, <2>3, <2>4, IdleStays
<1>5. CASE RunStopDropbox \/ RunDropboxDown
  <2>1. queue # <<>> /\ UNCHANGED handlers /\ Head(queue).do \in DropboxStep
    BY <1>5 DEF RunStopDropbox, RunDropboxDown, Runs, DropboxStep
  <2>2. Head(queue) \in Item
    BY <1>1, <2>1
  <2>3. PICK g \in RealGoal : g = Head(queue).goal
    BY <2>1, <2>2, Parts
  <2>4. g.to \in Ends /\ (g.to = "load" => g.config \in Configs)
    BY Goals
  <2>5. ASSUME NEW y \in Item, queue' = Tail(queue) \o <<y>>,
               y.do \in {"dropboxDown", "scheduleConnect", "load", "exit"}
        PROVE  Idle'
    <3>1. /\ Items(queue') = Items(Tail(queue)) \cup {y}
          /\ Items(Tail(queue)) \subseteq Items(queue)
      BY <1>1, <2>1, <2>5, PostsOne
    <3> QED BY <2>1, <2>5, <3>1, IdleStays
  <2>6. CASE RunStopDropbox
    <3>1. CASE dropbox.gone
      <4>1. PICK y \in Item : /\ y = [do |-> "dropboxDown", goal |-> g]
                              /\ y.do = "dropboxDown"
        BY Made DEF DropboxStep
      <4> QED BY <2>3, <2>5, <2>6, <3>1, <4>1 DEF RunStopDropbox, Posts
    <3>2. CASE ~dropbox.gone
      <4>1. queue' = Tail(queue) \o <<>>
        BY <2>6, <3>2 DEF RunStopDropbox, Posts
      <4>2. Items(queue') \subseteq Items(queue)
        BY <1>1, <2>1, <4>1, PostsNone
      <4> QED BY <2>1, <4>2, IdleStays
    <3> QED BY <3>1, <3>2
  <2>7. CASE RunDropboxDown
    <3>1. CASE g.to = "connect"
      <4>1. PICK y \in Item : /\ y = [do |-> "scheduleConnect"]
                              /\ y.do = "scheduleConnect"
        BY Made
      <4> QED BY <2>3, <2>5, <2>7, <3>1, <4>1 DEF RunDropboxDown, Posts
    <3>2. CASE g.to = "load"
      <4>1. PICK y \in Item : /\ y = [do |-> "load", config |-> g.config]
                              /\ y.do = "load"
        BY <2>4, <3>2, Made
      <4> QED BY <2>3, <2>5, <2>7, <3>2, <4>1 DEF RunDropboxDown, Posts
    <3>3. CASE g.to = "exit"
      <4>1. PICK y \in Item : y = [do |-> "exit"] /\ y.do = "exit"
        BY Made
      <4> QED BY <2>3, <2>5, <2>7, <3>3, <4>1 DEF RunDropboxDown, Posts
    <3> QED BY <2>4, <3>1, <3>2, <3>3 DEF Ends
  <2> QED BY <1>5, <2>6, <2>7
<1>6. CASE DropboxEnds
  <2>1. PICK y : /\ y.do = "dropboxDown" /\ queue' = Append(queue, y)
                 /\ UNCHANGED handlers
    BY <1>6 DEF DropboxEnds
  <2>2. Items(queue') = Items(queue) \cup {y}
    BY <1>1, <2>1, ItemsAppended
  <2> QED BY <2>1, <2>2, IdleStays
<1> QED BY <1>2, <1>3, <1>4, <1>5, <1>6

\* And the client and its surroundings.
LEMMA ClientIdle ==
  ASSUME IInv, RInv, Idle, ~clash,
         \/ RunConnected \/ RunError \/ RunSend \/ RunScheduleConnect
         \/ RunConnect \/ RunClientDown \/ RunExit \/ Breaks \/ ReadFails
         \/ WriteEnds \/ TimerExpires \/ Signal \/ UseFreedFolder
         \/ UNCHANGED vars
         \/ (\E ok \in BOOLEAN : Connected(ok))
         \/ \E message \in Message : ReadCompletes(message)
  PROVE  Idle'
<1>1. Typed /\ queue \in Seq(Item)
  BY DEF IInv, Typed
<1>2. CASE RunClientDown
  <2>1. /\ queue # <<>> /\ UNCHANGED handlers
        /\ queue' = Tail(queue) \o StopHandleSources([to |-> "exit"])
    BY <1>2 DEF RunClientDown, Runs, Posts
  <2> QED BY <1>1, <2>1, Goals, BeginsIdle
<1>3. CASE \/ RunConnected \/ RunError \/ RunSend \/ RunScheduleConnect
           \/ RunConnect \/ RunExit
  <2>1. /\ queue # <<>> /\ UNCHANGED handlers
        /\ \/ queue' = Tail(queue) \o <<>>
           \/ queue' = Tail(queue)
                        \o <<[do |-> "reset", goal |-> [to |-> "connect"]]>>
    BY <1>3 DEF RunConnected, RunError, RunSend, RunScheduleConnect, RunConnect,
                RunExit, Runs, Posts, OnError
  <2>2. PICK y \in Item : /\ y = [do |-> "reset", goal |-> [to |-> "connect"]]
                          /\ y.do = "reset"
    BY Made
  <2>3. CASE queue' = Tail(queue) \o <<>>
    <3>1. Items(queue') \subseteq Items(queue)
      BY <1>1, <2>1, <2>3, PostsNone
    <3> QED BY <2>1, <3>1, IdleStays
  <2>4. CASE queue' = Tail(queue) \o <<y>>
    <3>1. /\ Items(queue') = Items(Tail(queue)) \cup {y}
          /\ Items(Tail(queue)) \subseteq Items(queue)
      BY <1>1, <2>1, <2>4, PostsOne
    <3> QED BY <2>1, <2>2, <3>1, IdleStays
  <2> QED BY <2>1, <2>2, <2>3, <2>4
<1>4. CASE \/ Breaks \/ ReadFails \/ WriteEnds \/ TimerExpires \/ Signal
           \/ UseFreedFolder \/ UNCHANGED vars
           \/ (\E ok \in BOOLEAN : Connected(ok))
           \/ \E message \in Message : ReadCompletes(message)
  <2> DEFINE arrived == {"readError", "writeError", "connect", "clientDown",
                         "connected", "message"}
  <2>1. UNCHANGED handlers
    BY <1>4 DEF Breaks, ReadFails, WriteEnds, TimerExpires, Signal,
         UseFreedFolder, vars, controllerVars, Connected, ReadCompletes
  <2>2. ASSUME NEW y, y.do \in arrived, queue' = Append(queue, y)
        PROVE  Idle'
    <3>1. Items(queue') = Items(queue) \cup {y}
      BY <1>1, <2>2, ItemsAppended
    <3> QED BY <2>1, <2>2, <3>1, IdleStays
  <2>3. CASE UNCHANGED queue
    BY <2>1, <2>3, IdleStays
  <2>4. CASE ReadFails \/ TimerExpires \/ Signal
    BY <2>2, <2>4 DEF ReadFails, TimerExpires, Signal
  <2>5. CASE WriteEnds
    BY <2>2, <2>3, <2>5 DEF WriteEnds, Arrives
  <2>6. CASE \E ok \in BOOLEAN : Connected(ok)
    BY <2>2, <2>6 DEF Connected, Arrives
  <2>7. CASE \E message \in Message : ReadCompletes(message)
    BY <2>2, <2>7 DEF ReadCompletes, Arrives
  <2>8. CASE Breaks \/ UseFreedFolder \/ UNCHANGED vars
    BY <2>3, <2>8 DEF Breaks, UseFreedFolder, vars, controllerVars
  <2> QED BY <1>4, <2>4, <2>5, <2>6, <2>7, <2>8
<1> QED BY <1>2, <1>3, <1>4

\* Every step keeps it.
LEMMA StepIdle == IInv /\ RInv /\ QInv /\ [Next]_vars => QInv'
<1> SUFFICES ASSUME IInv, RInv, QInv, [Next]_vars PROVE QInv'
  OBVIOUS
<1>1. CASE Restart
  <2>1. Items(queue') = {}
    BY <1>1 DEF Restart, Items
  <2> QED BY <2>1 DEF QInv, Idle
<1>2. CASE clash /\ ~Restart
  BY <1>2, ClashStays DEF QInv
<1>3. CASE ~clash /\ RunController
  BY <1>3, DownIdle, RemovedIdle, StreamIdle, ControllerIdle
     DEF RunController, QInv
<1>4. CASE ~clash /\ ControllerEnvironment
  BY <1>4, StreamIdle, ControllerIdle, ClientIdle
     DEF ControllerEnvironment, QInv
<1>5. CASE ~clash /\ RunMessage
  BY <1>5, MessageIdle DEF QInv
<1>6. CASE ~clash /\ ~Restart /\ ~RunController /\ ~ControllerEnvironment
           /\ ~RunMessage
  BY <1>6, ClientIdle DEF Next, Run, Environment, QInv
<1> QED BY <1>1, <1>2, <1>3, <1>4, <1>5, <1>6

\* With the server of this repository, which sends no updates, a reset that
\* meets no other one finds what it removes, and its streamer idle (the
\* assertions of Controller.cpp:94, 98 and 248), and leaves nothing behind that
\* refers to it but the folders of sources with storage (Controller.cpp:100).
THEOREM LoneResetsFreeFoldersOnly ==
  ASSUME Updates = FALSE
  PROVE  Spec => []LoneResetFreesFoldersOnly
<1>1. Spec => [](IInv /\ RInv /\ Stored /\ QInv)
  <2>1. Init => IInv /\ RInv /\ Stored /\ QInv
    <3>1. Init => Stored /\ QInv
      BY DEF Init, ControllerInit, Stored, QInv, Idle, Items
    <3> QED BY <3>1, InitHas, InitAsks
  <2>2. IInv /\ RInv /\ Stored /\ QInv /\ [Next]_vars =>
            (IInv /\ RInv /\ Stored /\ QInv)'
    BY StepKeeps, StepAsks, StepStores, StepIdle
  <2> QED BY <2>1, <2>2, PTL DEF Spec
<1>2. IInv /\ RInv /\ Stored /\ QInv => LoneResetFreesFoldersOnly
  <2> SUFFICES ASSUME IInv, Stored, QInv, ~clash
               PROVE  /\ RemoveAssertion /\ IdleAssertion /\ ClearAssertion
                      /\ ~Queued({"dangling"})
                      /\ freed \/ phase = "crashed" => dropbox.used
    BY DEF LoneResetFreesFoldersOnly
  <2>1. Typed /\ Lone /\ queue \in Seq(Item) /\ Idle
    BY DEF IInv, Typed, QInv
  <2>2. ~Queued({"dangling"})
    BY <2>1, Underways DEF Lone
  <2>3. freed \/ phase = "crashed" => dropbox.used
    BY DEF Stored
  <2>4. RemoveAssertion /\ IdleAssertion
    <3> SUFFICES ASSUME queue # <<>>, Head(queue).do = "streamerDown"
                 PROVE  /\ Head(queue).source \in DOMAIN handlers
                        /\ handlers[Head(queue).source].streamer = "idle"
      BY DEF RemoveAssertion, IdleAssertion, Runs
    <3>1. Head(queue) \in Items(queue)
      BY <2>1, ItemsTaken
    <3> QED BY <2>1, <3>1 DEF Idle
  <2>5. ClearAssertion
    <3> SUFFICES ASSUME queue # <<>>, Head(queue).do = "dropboxDown"
                 PROVE  DOMAIN handlers = {}
      BY DEF ClearAssertion, Runs
    <3>1. Head(queue) \in Items(queue)
      BY <2>1, ItemsTaken
    <3>2. Has(DropboxStep)
      <4>1. Count(queue, Of(DropboxStep)) > 0 <=>
               \E x \in Items(queue) : x.do \in DropboxStep
        BY <2>1, ItemsCounted
      <4> QED BY <3>1, <4>1 DEF Has, DropboxStep
    <3> QED BY <2>1, <3>2 DEF Lone, LastDropbox
  <2> QED BY <2>2, <2>3, <2>4, <2>5
<1> QED BY <1>1, <1>2, PTL
=============================================================================
