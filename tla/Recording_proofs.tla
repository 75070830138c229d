-------------------------- MODULE Recording_proofs --------------------------
(***************************************************************************)
(* The way of a recording (Recording.tla), for any cameras, slots, files   *)
(* and processes: a report finds the handlers of its camera, an upload     *)
(* finds its file complete, every file of the process is on one way to its *)
(* removal, and a complete recording is lost only by a failed upload or to *)
(* a later one of its name.                                                *)
(*                                                                         *)
(* The invariant counts, for every file, on how many of the four ways it   *)
(* is (Places): reported, requested, being uploaded, answered.  A step     *)
(* takes it from one way to the next, so that it is on one at most and     *)
(* removed only when answered, whoever is killed or stopped in between.    *)
(***************************************************************************)
EXTENDS Recording, DataFacts

\* The answer to the upload of f.
Answer(f) == [do |-> "answer", file |-> f]

\* The handlers that stop the camera s, and those that report its files.
Way == {"splitterDown", "folderDown", "streamerDown"}
DownOf(s) == {Down(do, s) : do \in Way}
ReadyOf(s) == {Ready(f) : f \in {g \in File : g.source = s}}

\* On how many ways from its report to its removal a file is.
Places(f) ==
    Count(queue, {Ready(f)}) + Count(requested, {f})
        + (IF f \in uploads THEN 1 ELSE 0) + Count(queue, {Answer(f)})

\* A stopped camera has one handler left that goes on to its removal, and its
\* reports are ahead of that one.  A camera without handlers has no reports.
Stopping ==
    \A s \in Sources :
        /\ Count(queue, DownOf(s)) = IF pipeline[s] = "stopped" THEN 1 ELSE 0
        /\ ~Before(queue, DownOf(s), ReadyOf(s))
        /\ pipeline[s] = "absent" => Count(queue, ReadyOf(s)) = 0

\* A file is open in a pipeline that runs, or has stalled, and is on the disk.
Opened ==
    \A s \in opened :
        /\ pipeline[s] \in {"linked", "stalled"}
        /\ next[s] < MaxFiles
        /\ Current(s) \in local

\* A file is on one way at most, and complete, of this process and on the
\* disk while it is.
Placed ==
    \A f \in File :
        /\ Places(f) <= 1
        /\ Places(f) > 0 => f \in local /\ f \in closed /\ f.session = session

\* A file of this process is being written, or on a way, while it is there.
Accounted ==
    \A f \in File :
        f \in local /\ f.session = session =>
            (\E s \in opened : f = Current(s)) \/ Places(f) > 0

\* Nothing is of a process to come, and no number was used that splitmuxsink
\* is still to give.
Numbered ==
    /\ \A f \in local : f.session <= session
    /\ \A f \in closed :
          /\ f.session <= session
          /\ f.session = session => f.number < next[f.source]
    /\ \A name \in DOMAIN cloud : cloud[name] <= session

\* The archive c has the recording, or a later one of its name.
Has(c, f) == CloudName(f) \in DOMAIN c /\ c[CloudName(f)] >= f.session

\* A recording that is complete is on the disk, failed or archived, and one
\* that is answered, and so is about to leave the disk, failed or archived.
Kept ==
    /\ \A f \in closed : f \in local \/ f \in failed \/ Has(cloud, f)
    /\ \A f \in File :
          Count(queue, {Answer(f)}) > 0 => f \in failed \/ Has(cloud, f)

\* The inductive invariant.
IInv ==
    TypeOK /\ Stopping /\ Opened /\ Placed /\ Accounted /\ Numbered /\ Kept

-----------------------------------------------------------------------------
\* What reports, answers and ends are, and that they differ.
LEMMA Kinds ==
  /\ \A f \in File :
        /\ Ready(f) \in Item /\ Answer(f) \in Item
        /\ Ready(f).do = "fileReady" /\ Answer(f).do = "answer"
        /\ Ready(f).file = f /\ Answer(f).file = f
        /\ f.source \in Sources /\ f.session \in Session /\ f.number \in Number
  /\ \A f, g \in File :
        /\ Ready(f) \in {Ready(g)} <=> f = g
        /\ Answer(f) \in {Answer(g)} <=> f = g
        /\ Ready(f) \notin {Answer(g)} /\ Answer(f) \notin {Ready(g)}
  /\ \A f \in File, s \in Sources :
        /\ Ready(f) \in ReadyOf(s) <=> f.source = s
        /\ Answer(f) \notin ReadyOf(s)
        /\ Ready(f) \notin DownOf(s) /\ Answer(f) \notin DownOf(s)
  /\ \A do \in Way, s, t \in Sources :
        /\ Down(do, s) \in Item /\ Down(do, s).do = do
        /\ Down(do, s).source = s
        /\ Down(do, s) \in DownOf(t) <=> s = t
        /\ Down(do, s) \notin ReadyOf(t)
  /\ \A do \in Way, s \in Sources, f \in File :
        Down(do, s) \notin {Ready(f)} /\ Down(do, s) \notin {Answer(f)}
<1>1. \A f \in File :
        /\ Ready(f) \in Item /\ Answer(f) \in Item
        /\ Ready(f).do = "fileReady" /\ Answer(f).do = "answer"
        /\ Ready(f).file = f /\ Answer(f).file = f
        /\ f.source \in Sources /\ f.session \in Session /\ f.number \in Number
  BY DEF Ready, Answer, Item, File
<1>2. \A do \in Way, s \in Sources :
        Down(do, s) \in Item /\ Down(do, s).do = do /\ Down(do, s).source = s
  BY DEF Down, Item, Way
<1>3. \A f, g \in File :
        /\ Ready(f) \in {Ready(g)} <=> f = g
        /\ Answer(f) \in {Answer(g)} <=> f = g
        /\ Ready(f) \notin {Answer(g)} /\ Answer(f) \notin {Ready(g)}
  <2> TAKE f, g \in File
  <2>1. /\ Ready(f).file = f /\ Ready(g).file = g
        /\ Answer(f).file = f /\ Answer(g).file = g
        /\ Ready(f).do # Answer(g).do /\ Answer(f).do # Ready(g).do
    BY <1>1
  <2> QED BY <2>1
<1>4. \A do \in Way : do # "fileReady" /\ do # "answer"
  BY DEF Way
<1>5. \A do \in Way, s \in Sources, f \in File :
        Down(do, s) \notin {Ready(f)} /\ Down(do, s) \notin {Answer(f)}
  <2> TAKE do \in Way, s \in Sources, f \in File
  <2>1. Down(do, s).do # Ready(f).do /\ Down(do, s).do # Answer(f).do
    BY <1>1, <1>2, <1>4
  <2> QED BY <2>1
<1>6. \A f \in File, s \in Sources :
        /\ Ready(f) \in ReadyOf(s) <=> f.source = s
        /\ Answer(f) \notin ReadyOf(s)
        /\ Ready(f) \notin DownOf(s) /\ Answer(f) \notin DownOf(s)
  <2> TAKE f \in File, s \in Sources
  <2>1. Ready(f) \in ReadyOf(s) <=> f.source = s
    BY <1>3 DEF ReadyOf
  <2>2. Answer(f) \notin ReadyOf(s)
    BY <1>3 DEF ReadyOf
  <2>3. Ready(f) \notin DownOf(s) /\ Answer(f) \notin DownOf(s)
    BY <1>5 DEF DownOf
  <2> QED BY <2>1, <2>2, <2>3
<1>7. \A do \in Way, s, t \in Sources :
        /\ Down(do, s) \in DownOf(t) <=> s = t
        /\ Down(do, s) \notin ReadyOf(t)
  <2> TAKE do \in Way, s, t \in Sources
  <2>1. Down(do, s) \in DownOf(t) => s = t
    BY <1>2 DEF DownOf
  <2>2. s = t => Down(do, s) \in DownOf(t)
    BY DEF DownOf
  <2>3. Down(do, s) \notin ReadyOf(t)
    BY <1>5 DEF ReadyOf
  <2> QED BY <2>1, <2>2, <2>3
<1> QED BY <1>1, <1>2, <1>3, <1>5, <1>6, <1>7

\* The handler that runs.
LEMMA Heads ==
  ASSUME TypeOK, queue # <<>>
  PROVE  /\ Head(queue).do \in {"fileReady", "answer"} =>
               \E f \in File :
                  /\ f = Head(queue).file
                  /\ Head(queue) = IF Head(queue).do = "answer" THEN Answer(f)
                                   ELSE Ready(f)
         /\ Head(queue).do \in Way =>
               \E s \in Sources :
                  /\ s = Head(queue).source
                  /\ Head(queue) = Down(Head(queue).do, s)
         /\ Tail(queue) \in Seq(Item)
         /\ Takes(queue, Head(queue), Tail(queue))
<1>1. queue \in Seq(Item) /\ Head(queue) \in Item
  BY DEF TypeOK
<1> DEFINE h == Head(queue)
<1>2. \/ h \in [do : {"fileReady", "answer"}, file : File]
      \/ h \in [do : Way, source : Sources]
  BY <1>1 DEF Item, Way
<1> HIDE DEF h
<1>3. ASSUME h \in [do : {"fileReady", "answer"}, file : File]
      PROVE  /\ h.file \in File /\ h.do \in {"fileReady", "answer"}
             /\ h = IF h.do = "answer" THEN Answer(h.file) ELSE Ready(h.file)
  BY <1>3 DEF Answer, Ready
<1>4. ASSUME h \in [do : Way, source : Sources]
      PROVE  h.source \in Sources /\ h.do \in Way /\ h = Down(h.do, h.source)
  BY <1>4 DEF Down
<1>5. \A do \in Way : do \notin {"fileReady", "answer"}
  BY DEF Way
<1>6. h.do \in {"fileReady", "answer"} =>
         \E f \in File :
            /\ f = h.file
            /\ h = IF h.do = "answer" THEN Answer(f) ELSE Ready(f)
  BY <1>2, <1>3, <1>4, <1>5
<1>7. h.do \in Way =>
         \E s \in Sources : s = h.source /\ h = Down(h.do, s)
  BY <1>2, <1>3, <1>4, <1>5
<1> QED BY <1>1, <1>6, <1>7, Taking DEF h

\* The file a camera writes.
LEMMA Currents ==
  ASSUME TypeOK
  PROVE  \A s \in Sources :
            /\ Current(s).source = s /\ Current(s).session = session
            /\ Current(s).number = next[s]
            /\ next[s] \in Nat /\ next[s] <= MaxFiles
            /\ next[s] < MaxFiles => Current(s) \in File
<1>1. \A s \in Sources : next[s] \in 0 .. MaxFiles
  BY DEF TypeOK
<1>2. session \in Session /\ MaxFiles \in Nat
  BY RecordingAssumption DEF TypeOK
<1> QED BY <1>1, <1>2 DEF Current, File, Number

\* The numbers of the invariant are numbers.
LEMMA Numbers ==
  ASSUME TypeOK
  PROVE  /\ \A X : Count(queue, X) \in Nat /\ Count(requested, X) \in Nat
         /\ \A f \in File : Places(f) \in Nat
<1>1. \A X : Count(queue, X) \in Nat /\ Count(requested, X) \in Nat
  BY CountType DEF TypeOK
<1> QED BY <1>1 DEF Places

\* The archive never falls behind.
LEMMA Archiving ==
  ASSUME TypeOK, Numbered, NEW done \in SUBSET File, NEW c, c = Archived(done)
  PROVE  /\ DOMAIN c \subseteq CloudFile
         /\ \A name \in DOMAIN c : c[name] \in Session /\ c[name] <= session
         /\ \A f \in File : f.session <= session /\ Has(cloud, f) => Has(c, f)
         /\ \A f \in done : f.session <= session => Has(c, f)
<1>1. /\ session \in Session /\ DOMAIN cloud \subseteq CloudFile
      /\ \A name \in DOMAIN cloud :
            cloud[name] \in Session /\ cloud[name] <= session
  BY DEF TypeOK, Numbered
<1>2. Session \subseteq Nat /\ \A f \in File : f.session \in Session
  BY RecordingAssumption DEF Session, File
<1>3. \A f \in done : CloudName(f) \in CloudFile
  BY DEF CloudName, CloudFile, File
<1>4. /\ DOMAIN c = DOMAIN cloud \cup {CloudName(f) : f \in done}
      /\ \A name \in DOMAIN c :
            c[name] = IF \E f \in done : CloudName(f) = name THEN session
                      ELSE cloud[name]
  BY DEF Archived
<1>5. \A name \in DOMAIN c : c[name] =
          session \/ (name \in DOMAIN cloud /\ c[name] = cloud[name])
  BY <1>4
<1>6. DOMAIN c \subseteq CloudFile
  BY <1>1, <1>3, <1>4
<1>7. \A name \in DOMAIN c : c[name] \in Session /\ c[name] <= session
  BY <1>1, <1>2, <1>5
<1>8. ASSUME NEW f \in File, f.session <=
          session, Has(cloud, f) PROVE Has(c, f)
  <2>1. CloudName(f) \in DOMAIN cloud /\ cloud[CloudName(f)] >= f.session
    BY <1>8 DEF Has
  <2>2. CloudName(f) \in DOMAIN c
    BY <1>4, <2>1
  <2>3. c[CloudName(f)] = session \/ c[CloudName(f)] = cloud[CloudName(f)]
    BY <1>5, <2>2
  <2>4. c[CloudName(f)] >= f.session
    BY <1>1, <1>2, <1>8, <2>1, <2>3
  <2> QED BY <2>2, <2>4 DEF Has
<1>9. ASSUME NEW f \in done, f.session <= session PROVE Has(c, f)
  <2>1. CloudName(f) \in DOMAIN c /\ c[CloudName(f)] = session
    BY <1>4
  <2>2. session >= f.session
    BY <1>1, <1>2, <1>9
  <2> QED BY <2>1, <2>2 DEF Has
<1> QED BY <1>6, <1>7, <1>8, <1>9

-----------------------------------------------------------------------------
\* Pipelines change, and neither stop nor disappear.
LEMMA OnlyPipelines ==
  ASSUME IInv,
         UNCHANGED <<queue, session, next, opened, requested, uploads, local,
                     cloud, closed, failed>>,
         pipeline' \in [Sources ->
            {"absent", "null", "playing", "linked", "stalled", "stopped"}],
         \A s \in Sources :
            /\ pipeline'[s] = "stopped" <=> pipeline[s] = "stopped"
            /\ pipeline'[s] = "absent" => pipeline[s] = "absent",
         \A s \in opened : pipeline'[s] \in {"linked", "stalled"}
  PROVE  IInv'
<1>1. TypeOK'
  BY DEF IInv, TypeOK
<1>2. Stopping'
  BY DEF IInv, Stopping
<1>3. \A f : Places(f)' = Places(f) /\ \A s : Current(s)' = Current(s)
  BY DEF Places, Current
<1>4. Opened' /\ Placed' /\ Accounted'
  BY <1>3 DEF IInv, Opened, Placed, Accounted
<1>5. Numbered' /\ Kept'
  BY DEF IInv, Numbered, Kept
<1> QED BY <1>1, <1>2, <1>4, <1>5 DEF IInv

\* The camera's stream is found.
LEMMA DecodebinPadAddedKeeps ==
  ASSUME IInv, NEW s \in Sources, DecodebinPadAdded(s)
  PROVE  IInv'
<1>1. /\ pipeline \in [Sources ->
            {"absent", "null", "playing", "linked", "stalled", "stopped"}]
      /\ pipeline[s] = "playing"
      /\ pipeline' = [pipeline EXCEPT ![s] = "linked"]
  BY DEF IInv, TypeOK, DecodebinPadAdded
<1>2. \A t \in opened : t \in Sources /\ pipeline[t] \in {"linked", "stalled"}
  BY DEF IInv, TypeOK, Opened
<1> QED BY <1>1, <1>2, OnlyPipelines DEF DecodebinPadAdded

\* The camera's stream ends, with a file open or without.
LEMMA StallsKeeps ==
  ASSUME IInv, NEW s \in Sources, Stalls(s)
  PROVE  IInv'
<1>1. /\ pipeline \in [Sources ->
            {"absent", "null", "playing", "linked", "stalled", "stopped"}]
      /\ pipeline[s] = "linked"
      /\ pipeline' = [pipeline EXCEPT ![s] = "stalled"]
  BY DEF IInv, TypeOK, Stalls
<1>2. \A t \in opened : t \in Sources /\ pipeline[t] \in {"linked", "stalled"}
  BY DEF IInv, TypeOK, Opened
<1> QED BY <1>1, <1>2, OnlyPipelines DEF Stalls

\* The cameras of a process that has none are started.
LEMMA StartHandleSourcesKeeps ==
  ASSUME IInv, StartHandleSources
  PROVE  IInv'
<1>1. /\ pipeline' \in [Sources -> {"null", "playing"}]
      /\ \A s \in Sources : pipeline[s] = "absent"
  BY DEF StartHandleSources
<1>2. pipeline' \in [Sources ->
            {"absent", "null", "playing", "linked", "stalled", "stopped"}]
  BY <1>1
<1>3. \A s \in Sources :
            /\ pipeline'[s] = "stopped" <=> pipeline[s] = "stopped"
            /\ pipeline'[s] = "absent" => pipeline[s] = "absent"
  BY <1>1
<1>4. opened = {}
  BY <1>1 DEF IInv, TypeOK, Opened
<1> QED BY <1>2, <1>3, <1>4, OnlyPipelines DEF StartHandleSources

\* A file is opened: its name is new.
LEMMA OpenFileKeeps ==
  ASSUME IInv, NEW s \in Sources, OpenFile(s)
  PROVE  IInv'
<1>1. /\ pipeline[s] = "linked" /\ s \notin opened /\ next[s] < MaxFiles
      /\ opened' = opened \cup {s} /\ local' = local \cup {Current(s)}
      /\ UNCHANGED <<queue, session, pipeline, next, requested, uploads, cloud,
                     closed, failed>>
  BY DEF OpenFile
<1>2. TypeOK
  BY DEF IInv
<1>3. Current(s) \in File /\ Current(s).session = session
  BY <1>1, <1>2, Currents
<1>4. session \in Nat
  BY <1>2, RecordingAssumption DEF TypeOK, Session
<1>5. \A f : Places(f)' = Places(f) /\ \A t : Current(t)' = Current(t)
  BY <1>1 DEF Places, Current
<1>6. TypeOK'
  BY <1>1, <1>2, <1>3 DEF TypeOK
<1>7. Stopping'
  BY <1>1 DEF IInv, Stopping
<1>8. Opened'
  BY <1>1, <1>5 DEF IInv, Opened
<1>9. Placed'
  BY <1>1, <1>5 DEF IInv, Placed
<1>10. Accounted'
  BY <1>1, <1>5 DEF IInv, Accounted
<1>11. Numbered'
  BY <1>1, <1>3, <1>4 DEF IInv, Numbered
<1>12. Kept'
  BY <1>1 DEF IInv, Kept
<1> QED BY <1>6, <1>7, <1>8, <1>9, <1>10, <1>11, <1>12 DEF IInv

\* A file is complete, and its report is posted: it is nowhere else yet.
LEMMA OnFilesinkStateChangedKeeps ==
  ASSUME IInv, NEW s \in Sources, OnFilesinkStateChanged(s)
  PROVE  IInv'
<1> DEFINE g == Current(s)
<1>1. /\ pipeline[s] = "linked" /\ s \in opened
      /\ queue' = Append(queue, Ready(g))
      /\ opened' = opened \ {s} /\ next' = [next EXCEPT ![s] = @ + 1]
      /\ closed' = closed \cup {g}
      /\ UNCHANGED <<session, pipeline, requested, uploads, local, cloud,
                   failed>>
  BY DEF OnFilesinkStateChanged, FileReady, Ready
<1>2. /\ TypeOK
      /\ queue \in Seq(Item) /\ next \in [Sources -> 0 .. MaxFiles]
      /\ MaxFiles \in Nat /\ opened \in SUBSET Sources
      /\ session \in Nat /\ closed \in SUBSET File
  BY RecordingAssumption DEF IInv, TypeOK, Session
<1>3. next[s] < MaxFiles /\ g \in local
  BY <1>1 DEF IInv, Opened
<1>4. /\ g \in File /\ g.session = session /\ g.source = s
      /\ g.number = next[s]
      /\ next[s] \in Nat
  BY <1>2, <1>3, Currents
<1> HIDE DEF g
<1>5. queue' \in Seq(Item) /\ Puts(queue, Ready(g), queue')
  BY <1>1, <1>2, <1>4, Kinds, Putting
<1>6. g \notin closed
  BY <1>4 DEF IInv, Numbered
<1>7. Places(g) = 0
  BY <1>2, <1>4, <1>6, Numbers DEF IInv, Placed
<1>8. \A f \in File :
         Places(f)' = IF f = g THEN Places(f) + 1 ELSE Places(f)
  <2> TAKE f \in File
  <2>1. /\ Count(queue', {Ready(f)}) =
              Count(queue, {Ready(f)}) + (IF f = g THEN 1 ELSE 0)
        /\ Count(queue', {Answer(f)}) = Count(queue, {Answer(f)})
        /\ Count(queue, {Ready(f)}) \in Nat
        /\ Count(queue, {Answer(f)}) \in Nat
    BY <1>4, <1>5, Kinds DEF Puts
  <2>2. Count(requested, {f}) \in Nat
    BY <1>2, Numbers
  <2> QED BY <1>1, <2>1, <2>2 DEF Places
<1>9. \A t \in Sources :
         /\ t # s => Current(t)' = Current(t) /\ next'[t] = next[t]
         /\ next'[s] = next[s] + 1
  BY <1>1, <1>2 DEF Current
<1>10. TypeOK'
  <2>1. next' \in [Sources -> 0 .. MaxFiles]
    BY <1>1, <1>2, <1>3, <1>4
  <2> QED BY <1>1, <1>2, <1>4, <1>5, <2>1 DEF TypeOK
<1>11. Stopping'
  <2>1. \A t \in Sources :
           /\ Count(queue', DownOf(t)) = Count(queue, DownOf(t))
           /\ Count(queue', ReadyOf(t)) =
                 Count(queue, ReadyOf(t)) + (IF s = t THEN 1 ELSE 0)
           /\ Before(queue', DownOf(t), ReadyOf(t)) <=>
                 \/ Before(queue, DownOf(t), ReadyOf(t))
                 \/ Count(queue, DownOf(t)) > 0 /\ s = t
    BY <1>4, <1>5, Kinds DEF Puts
  <2>2. Count(queue, DownOf(s)) = 0
    BY <1>1 DEF IInv, Stopping
  <2>3. \A t \in Sources : Count(queue, ReadyOf(t)) \in Nat
    BY <1>2, Numbers
  <2> QED BY <1>1, <2>1, <2>2, <2>3 DEF IInv, Stopping
<1>12. Opened'
  BY <1>1, <1>2, <1>9 DEF IInv, Opened
<1>13. Placed'
  BY <1>1, <1>3, <1>4, <1>7, <1>8 DEF IInv, Placed
<1>14. Accounted'
  <2> SUFFICES ASSUME NEW f \in File, f \in local, f.session = session
               PROVE  (\E t \in opened' : f = Current(t)') \/ Places(f)' > 0
    BY <1>1 DEF Accounted
  <2>1. CASE f = g
    BY <1>7, <1>8, <2>1
  <2>2. CASE f # g
    <3>1. (\E t \in opened : f = Current(t)) \/ Places(f) > 0
      BY DEF IInv, Accounted
    <3>2. ASSUME NEW t \in opened, f = Current(t)
          PROVE  t \in opened' /\ f = Current(t)'
      BY <1>1, <1>2, <1>9, <2>2, <3>2 DEF g
    <3> QED BY <1>8, <2>2, <3>1, <3>2
  <2> QED BY <2>1, <2>2
<1>15. Numbered'
  <2>1. ASSUME NEW f \in closed', f.session = session
        PROVE  f.number < next'[f.source]
    <3>1. f \in File /\ f.source \in Sources /\ f.number \in Nat
      BY <1>1, <1>2, <1>4, Kinds, RecordingAssumption DEF Number
    <3>2. CASE f = g
      BY <1>4, <1>9, <3>2
    <3>3. CASE f # g
      <4>1. f.number < next[f.source] /\ next[f.source] \in Nat
        BY <1>1, <1>2, <2>1, <3>1, <3>3 DEF IInv, Numbered
      <4> QED BY <1>9, <3>1, <4>1
    <3> QED BY <3>2, <3>3
  <2>2. \A f \in closed' : f.session <= session
    BY <1>1, <1>2, <1>4 DEF IInv, Numbered
  <2> QED BY <1>1, <2>1, <2>2 DEF IInv, Numbered
<1>16. Kept'
  <2>1. \A f \in File : Count(queue', {Answer(f)}) = Count(queue, {Answer(f)})
    BY <1>4, <1>5, Kinds DEF Puts
  <2> QED BY <1>1, <1>3, <2>1 DEF IInv, Kept
<1> QED BY <1>10, <1>11, <1>12, <1>13, <1>14, <1>15, <1>16 DEF IInv

\* The end of one of a camera's handlers is followed by another one's.
LEMMA FollowsKeeps ==
  ASSUME IInv, NEW do \in Way, NEW then \in Way, Follows(do, then)
  PROVE  IInv'
<1>1. /\ TypeOK /\ queue \in Seq(Item) /\ queue # <<>> /\ Head(queue).do = do
      /\ queue' = Append(Tail(queue), Down(then, Head(queue).source))
      /\ UNCHANGED <<session, pipeline, next, opened, requested, uploads,
                   local,
                     cloud, closed, failed>>
  BY DEF IInv, TypeOK, Follows, Runs
<1>2. PICK s \in Sources : s = Head(queue).source /\ Head(queue) = Down(do, s)
  BY <1>1, Heads
<1> DEFINE t == Tail(queue)
<1>3. t \in Seq(Item) /\ Takes(queue, Down(do, s), t)
  BY <1>1, <1>2, Heads
<1> HIDE DEF t
<1>4. queue' = Append(t, Down(then, s))
  BY <1>1, <1>2 DEF t
<1>5. queue' \in Seq(Item) /\ Puts(t, Down(then, s), queue')
  BY <1>3, <1>4, Kinds, Putting
<1>6. \A f \in File :
         /\ Count(queue', {Ready(f)}) = Count(queue, {Ready(f)})
         /\ Count(queue', {Answer(f)}) = Count(queue, {Answer(f)})
  BY <1>3, <1>5, Kinds DEF Takes, Puts
<1>7. \A f \in File : Places(f)' = Places(f) /\ \A c : Current(c)' = Current(c)
  BY <1>1, <1>6 DEF Places, Current
<1>8. TypeOK'
  BY <1>1, <1>5 DEF TypeOK
<1>9. Stopping'
  <2> SUFFICES ASSUME NEW c \in Sources
               PROVE  /\ Count(queue', DownOf(c)) =
                            IF pipeline[c] = "stopped" THEN 1 ELSE 0
                      /\ ~Before(queue', DownOf(c), ReadyOf(c))
                      /\ pipeline[c] = "absent" =>
                             Count(queue', ReadyOf(c)) = 0
    BY <1>1 DEF Stopping
  <2>1. /\ Count(queue', DownOf(c)) = Count(queue, DownOf(c))
        /\ Count(queue', ReadyOf(c)) = Count(queue, ReadyOf(c))
    BY <1>3, <1>5, Kinds DEF Takes, Puts
  <2>2. Before(queue', DownOf(c), ReadyOf(c)) =>
            Before(queue, DownOf(c), ReadyOf(c))
    BY <1>3, <1>5, Kinds DEF Takes, Puts
  <2> QED BY <2>1, <2>2 DEF IInv, Stopping
<1>10. Opened' /\ Placed'
  BY <1>1, <1>7 DEF IInv, TypeOK, Opened, Placed
<1>11. Accounted'
  <2>1. \A c : Current(c)' = Current(c)
    BY <1>1 DEF Current
  <2> QED BY <1>1, <1>7, <2>1 DEF IInv, Accounted
<1>12. Numbered' /\ Kept'
  BY <1>1, <1>6 DEF IInv, Numbered, Kept
<1> QED BY <1>8, <1>9, <1>10, <1>11, <1>12 DEF IInv

\* The camera's handlers are removed: no report of it is behind.
LEMMA RunStreamerDownKeeps ==
  ASSUME IInv, RunStreamerDown
  PROVE  IInv'
<1>1. /\ TypeOK /\ queue \in Seq(Item) /\ queue # <<>>
      /\ Head(queue).do = "streamerDown" /\ "streamerDown" \in Way
      /\ queue' = Tail(queue)
      /\ pipeline' = [pipeline EXCEPT ![Head(queue).source] = "absent"]
      /\ pipeline \in [Sources ->
            {"absent", "null", "playing", "linked", "stalled", "stopped"}]
      /\ UNCHANGED <<session, next, opened, requested, uploads, local, cloud,
                     closed, failed>>
  BY DEF IInv, TypeOK, RunStreamerDown, Runs, Way
<1>2. PICK s \in Sources :
         s = Head(queue).source /\ Head(queue) = Down("streamerDown", s)
  BY <1>1, Heads
<1>3. queue' \in Seq(Item) /\ Takes(queue, Down("streamerDown", s), queue')
  BY <1>1, <1>2, Heads
<1>4. \A f \in File :
         /\ Count(queue', {Ready(f)}) = Count(queue, {Ready(f)})
         /\ Count(queue', {Answer(f)}) = Count(queue, {Answer(f)})
  BY <1>1, <1>3, Kinds DEF Takes
<1>5. \A f \in File : Places(f)' = Places(f)
  BY <1>1, <1>4 DEF Places
<1>6. \A c : Current(c)' = Current(c)
  BY <1>1 DEF Current
<1>7. /\ pipeline' \in [Sources ->
            {"absent", "null", "playing", "linked", "stalled", "stopped"}]
      /\ pipeline'[s] = "absent"
      /\ \A c \in Sources : c # s => pipeline'[c] = pipeline[c]
  BY <1>1, <1>2
<1>8. TypeOK'
  BY <1>1, <1>3, <1>7 DEF TypeOK
<1>9. /\ pipeline[s] = "stopped" /\ Count(queue', DownOf(s)) = 0
      /\ Count(queue', ReadyOf(s)) = 0
  <2>1. /\ Count(queue, DownOf(s)) = Count(queue', DownOf(s)) + 1
        /\ Count(queue', DownOf(s)) \in Nat
        /\ Count(queue', ReadyOf(s)) \in Nat
        /\ Before(queue, DownOf(s), ReadyOf(s)) <=>
              \/ Before(queue', DownOf(s), ReadyOf(s))
              \/ Count(queue', ReadyOf(s)) > 0
    BY <1>1, <1>3, Kinds DEF Takes
  <2> QED BY <2>1 DEF IInv, Stopping
<1>10. Stopping'
  <2> SUFFICES ASSUME NEW c \in Sources
               PROVE  /\ Count(queue', DownOf(c)) =
                            IF pipeline'[c] = "stopped" THEN 1 ELSE 0
                      /\ ~Before(queue', DownOf(c), ReadyOf(c))
                      /\ pipeline'[c] = "absent" =>
                             Count(queue', ReadyOf(c)) = 0
    BY DEF Stopping
  <2>1. CASE c = s
    <3>1. ~Before(queue', DownOf(c), ReadyOf(c))
      BY <1>3, <1>9, <2>1, OrderCounts
    <3> QED BY <1>7, <1>9, <2>1, <3>1
  <2>2. CASE c # s
    <3>1. /\ Count(queue', DownOf(c)) = Count(queue, DownOf(c))
          /\ Count(queue', ReadyOf(c)) = Count(queue, ReadyOf(c))
      BY <1>1, <1>3, <2>2, Kinds DEF Takes
    <3>2. Before(queue', DownOf(c), ReadyOf(c)) =>
              Before(queue, DownOf(c), ReadyOf(c))
      BY <1>3 DEF Takes
    <3> QED BY <1>7, <2>2, <3>1, <3>2 DEF IInv, Stopping
  <2> QED BY <2>1, <2>2
<1>11. Opened'
  BY <1>1, <1>6, <1>7, <1>9 DEF IInv, TypeOK, Opened
<1>12. Placed' /\ Accounted'
  BY <1>1, <1>5, <1>6 DEF IInv, Placed, Accounted
<1>13. Numbered' /\ Kept'
  BY <1>1, <1>4 DEF IInv, Numbered, Kept
<1> QED BY <1>8, <1>10, <1>11, <1>12, <1>13 DEF IInv

\* A report becomes a request.
LEMMA RunFileReadyKeeps ==
  ASSUME IInv, RunFileReady
  PROVE  IInv'
<1>1. /\ TypeOK /\ queue \in Seq(Item) /\ queue # <<>>
      /\ Head(queue).do = "fileReady"
      /\ queue' = Tail(queue) /\ requested \in Seq(File)
      /\ requested' = Append(requested, Head(queue).file)
      /\ UNCHANGED <<session, pipeline, next, opened, uploads, local, cloud,
                     closed, failed>>
  BY DEF IInv, TypeOK, RunFileReady, Runs
<1>2. PICK g \in File : g = Head(queue).file /\ Head(queue) = Ready(g)
  BY <1>1, Heads
<1>3. queue' \in Seq(Item) /\ Takes(queue, Ready(g), queue')
  BY <1>1, <1>2, Heads
<1>4. requested' \in Seq(File) /\ Puts(requested, g, requested')
  BY <1>1, <1>2, Putting
<1>5. \A f \in File :
         /\ Count(queue, {Ready(f)}) =
              Count(queue', {Ready(f)}) + (IF f = g THEN 1 ELSE 0)
         /\ Count(queue', {Answer(f)}) = Count(queue, {Answer(f)})
         /\ Count(requested', {f}) =
              Count(requested, {f}) + (IF f = g THEN 1 ELSE 0)
         /\ Count(queue, {Ready(f)}) \in Nat
         /\ Count(queue', {Ready(f)}) \in Nat
         /\ Count(queue, {Answer(f)}) \in Nat /\ Count(requested, {f}) \in Nat
  BY <1>3, <1>4, Kinds DEF Takes, Puts
<1>6. \A f \in File : Places(f)' = Places(f)
  <2> TAKE f \in File
  <2> DEFINE u == IF f \in uploads THEN 1 ELSE 0
  <2>1. u \in Nat /\ u' = u
    BY <1>1
  <2>2. /\ Places(f) = Count(queue, {Ready(f)}) + Count(requested, {f}) + u
                           + Count(queue, {Answer(f)})
        /\ Places(f)' = Count(queue', {Ready(f)}) + Count(requested', {f}) + u'
                           + Count(queue', {Answer(f)})
    BY DEF Places
  <2> HIDE DEF u
  <2> QED BY <1>5, <2>1, <2>2
<1>7. \A c : Current(c)' = Current(c)
  BY <1>1 DEF Current
<1>8. TypeOK'
  BY <1>1, <1>3, <1>4 DEF TypeOK
<1>9. Stopping'
  <2>1. \A c \in Sources :
           /\ Count(queue', DownOf(c)) = Count(queue, DownOf(c))
           /\ Count(queue', ReadyOf(c)) <= Count(queue, ReadyOf(c))
           /\ Count(queue', ReadyOf(c)) \in Nat
           /\ Count(queue, ReadyOf(c)) \in Nat
           /\ Before(queue', DownOf(c), ReadyOf(c)) =>
                 Before(queue, DownOf(c), ReadyOf(c))
    BY <1>3, Kinds DEF Takes
  <2> QED BY <1>1, <2>1 DEF IInv, Stopping
<1>10. Opened' /\ Placed' /\ Accounted'
  BY <1>1, <1>6, <1>7 DEF IInv, Opened, Placed, Accounted
<1>11. Numbered' /\ Kept'
  BY <1>1, <1>5 DEF IInv, Numbered, Kept
<1> QED BY <1>8, <1>9, <1>10, <1>11 DEF IInv

\* An answered file is removed: it is archived, or was refused.
LEMMA RunAnswerKeeps ==
  ASSUME IInv, RunAnswer
  PROVE  IInv'
<1>1. /\ TypeOK /\ queue \in Seq(Item) /\ queue # <<>>
      /\ Head(queue).do = "answer"
      /\ queue' = Tail(queue) /\ local' = local \ {Head(queue).file}
      /\ UNCHANGED <<session, pipeline, next, opened, requested, uploads,
                   cloud,
                     closed, failed>>
  BY DEF IInv, TypeOK, RunAnswer, Runs
<1>2. PICK g \in File : g = Head(queue).file /\ Head(queue) = Answer(g)
  BY <1>1, Heads
<1>3. queue' \in Seq(Item) /\ Takes(queue, Answer(g), queue')
  BY <1>1, <1>2, Heads
<1>4. \A f \in File :
         /\ Count(queue', {Ready(f)}) = Count(queue, {Ready(f)})
         /\ Count(queue, {Answer(f)}) =
              Count(queue', {Answer(f)}) + (IF f = g THEN 1 ELSE 0)
         /\ Count(queue, {Answer(f)}) \in Nat
         /\ Count(queue', {Answer(f)}) \in Nat
         /\ Count(queue, {Ready(f)}) \in Nat /\ Count(requested, {f}) \in Nat
  <2>1. \A X : Count(requested, X) \in Nat
    BY <1>1, Numbers
  <2> QED BY <1>3, <2>1, Kinds DEF Takes
<1>5. \A f \in File :
         /\ Places(f) = Places(f)' + (IF f = g THEN 1 ELSE 0)
         /\ Places(f) \in Nat /\ Places(f)' \in Nat
  <2> TAKE f \in File
  <2> DEFINE u == IF f \in uploads THEN 1 ELSE 0
  <2>1. u \in Nat /\ u' = u
    BY <1>1
  <2>2. /\ Places(f) = Count(queue, {Ready(f)}) + Count(requested, {f}) + u
                           + Count(queue, {Answer(f)})
        /\ Places(f)' = Count(queue', {Ready(f)}) + Count(requested, {f}) + u'
                           + Count(queue', {Answer(f)})
    BY <1>1 DEF Places
  <2> HIDE DEF u
  <2> QED BY <1>4, <2>1, <2>2
<1>6. \A c : Current(c)' = Current(c)
  BY <1>1 DEF Current
<1>7. TypeOK'
  BY <1>1, <1>3 DEF TypeOK
<1>8. Stopping'
  <2>1. \A c \in Sources :
           /\ Count(queue', DownOf(c)) = Count(queue, DownOf(c))
           /\ Count(queue', ReadyOf(c)) = Count(queue, ReadyOf(c))
           /\ Before(queue', DownOf(c), ReadyOf(c)) =>
                 Before(queue, DownOf(c), ReadyOf(c))
    BY <1>3, Kinds DEF Takes
  <2> QED BY <1>1, <2>1 DEF IInv, Stopping
<1>9. /\ Places(g) = 1 /\ Places(g)' = 0 /\ g \in closed /\ g.session = session
      /\ g \in failed \/ Has(cloud, g)
  <2>1. /\ Places(g) = Places(g)' + 1 /\ Places(g)' \in Nat
        /\ Count(queue, {Answer(g)}) = Count(queue', {Answer(g)}) + 1
        /\ Count(queue', {Answer(g)}) \in Nat
    BY <1>4, <1>5
  <2>2. Places(g) > 0 /\ Count(queue, {Answer(g)}) > 0
    BY <2>1
  <2> QED BY <2>1, <2>2 DEF IInv, Placed, Kept
<1>10. Opened'
  <2>1. \A s \in opened : s \in Sources /\ Current(s) # g
    <3> TAKE s \in opened
    <3>1. s \in Sources /\ next[s] \in Nat
      BY <1>1, Currents DEF TypeOK
    <3>2. Current(s).number = next[s] /\ Current(s).source = s
      BY <1>1, <3>1, Currents
    <3>3. g.number < next[g.source]
      BY <1>9 DEF IInv, Numbered
    <3> QED BY <3>1, <3>2, <3>3
  <2> QED BY <1>1, <1>2, <1>6, <2>1 DEF IInv, Opened
<1>11. Placed'
  BY <1>1, <1>2, <1>5, <1>9 DEF IInv, Placed
<1>12. Accounted'
  BY <1>1, <1>2, <1>5, <1>6 DEF IInv, Accounted
<1>13. Numbered'
  BY <1>1 DEF IInv, Numbered
<1>14. Kept'
  <2>1. ASSUME NEW f \in closed
        PROVE  f \in local' \/ f \in failed \/ Has(cloud, f)
    BY <1>1, <1>2, <1>9 DEF IInv, Kept
  <2>2. ASSUME NEW f \in File, Count(queue', {Answer(f)}) > 0
        PROVE  f \in failed \/ Has(cloud, f)
    <3> DEFINE v == IF f = g THEN 1 ELSE 0
    <3>1. v \in Nat
      OBVIOUS
    <3>2. /\ Count(queue, {Answer(f)}) = Count(queue', {Answer(f)}) + v
          /\ Count(queue', {Answer(f)}) \in Nat
      BY <1>4
    <3> HIDE DEF v
    <3>3. Count(queue, {Answer(f)}) > 0
      BY <2>2, <3>1, <3>2
    <3> QED BY <3>3 DEF IInv, Kept
  <2> QED BY <1>1, <2>1, <2>2 DEF Kept
<1> QED BY <1>7, <1>8, <1>10, <1>11, <1>12, <1>13, <1>14 DEF IInv

\* An upload begins, or is refused and answered without a free slot.
LEMMA RunUploadKeeps ==
  ASSUME IInv, Upload
  PROVE  IInv'
<1> DEFINE g == Head(requested)
<1>1. /\ TypeOK /\ queue \in Seq(Item)
      /\ requested \in Seq(File) /\ requested # <<>>
      /\ requested' = Tail(requested) /\ uploads \in SUBSET File
      /\ failed \in SUBSET File
      /\ UNCHANGED <<session, pipeline, next, opened, local, cloud, closed>>
  BY DEF IInv, TypeOK, Upload
<1>2. /\ g \in File
      /\ requested' \in Seq(File) /\ Takes(requested, g, requested')
  BY <1>1, Taking
<1>3. \/ uploads' = uploads \cup {g} /\ UNCHANGED <<queue, failed>>
      \/ queue' = Append(queue, Answer(g)) /\ failed' = failed \cup {g}
           /\ uploads' = uploads
  BY DEF Upload, Answers, Answer
<1> HIDE DEF g
<1>4. \A X : /\ Count(queue, X) \in Nat /\ Count(requested, X) \in Nat
             /\ Count(requested', X) \in Nat
  BY <1>1, <1>2, CountType
<1>5. \A f \in File :
         /\ Count(requested, {f}) =
              Count(requested', {f}) + (IF f = g THEN 1 ELSE 0)
         /\ Places(f) \in Nat
  BY <1>1, <1>2, Numbers DEF Takes
<1>6. /\ Places(g) = 1 /\ g \notin uploads /\ g \in local /\ g \in closed
      /\ g.session = session /\ Count(requested', {g}) = 0
  <2> DEFINE u == IF g \in uploads THEN 1 ELSE 0
  <2>1. u \in Nat /\ (g \in uploads => u = 1)
    OBVIOUS
  <2>2. Places(g) = Count(queue, {Ready(g)}) + Count(requested, {g}) + u
                      + Count(queue, {Answer(g)})
    BY DEF Places
  <2> HIDE DEF u
  <2>3. Places(g) > 0 /\ Places(g) <= 1
    BY <1>2, <1>4, <1>5, <2>1, <2>2 DEF IInv, Placed
  <2>4. Count(requested, {g}) = Count(requested', {g}) + 1
    BY <1>2, <1>5
  <2>5. u = 0 /\ Count(requested', {g}) = 0
    BY <1>4, <2>1, <2>2, <2>3, <2>4
  <2>6. Places(g) = 1 /\ g \notin uploads
    <3>1. Places(g) \in Nat
      BY <1>2, <1>5
    <3> QED BY <2>1, <2>3, <2>5, <3>1
  <2>7. g \in local /\ g \in closed /\ g.session = session
    BY <1>2, <2>3 DEF IInv, Placed
  <2> QED BY <2>5, <2>6, <2>7
<1>7. \A c : Current(c)' = Current(c)
  BY <1>1 DEF Current
<1>8. ASSUME queue' \in Seq(Item),
             uploads' \in SUBSET File, failed' \in SUBSET File,
             \A f \in File : Places(f)' = Places(f), Stopping', Kept'
      PROVE  IInv'
  <2>1. TypeOK'
    BY <1>1, <1>2, <1>8 DEF TypeOK
  <2>2. Opened' /\ Placed' /\ Accounted' /\ Numbered'
    BY <1>1, <1>7, <1>8 DEF IInv, Opened, Placed, Accounted, Numbered
  <2> QED BY <1>8, <2>1, <2>2 DEF IInv
<1>9. CASE uploads' = uploads \cup {g} /\ UNCHANGED <<queue, failed>>
  <2>1. \A f \in File : Places(f)' = Places(f)
    <3> TAKE f \in File
    <3> DEFINE u == IF f \in uploads THEN 1 ELSE 0
               v == IF f = g THEN 1 ELSE 0
    <3>1. u \in Nat /\ v \in Nat /\ u' = u + v
      BY <1>6, <1>9
    <3>2. /\ Places(f) = Count(queue, {Ready(f)}) + Count(requested, {f}) + u
                           + Count(queue, {Answer(f)})
          /\ Places(f)' =
                 Count(queue, {Ready(f)}) + Count(requested', {f}) + u'
                           + Count(queue, {Answer(f)})
      BY <1>9 DEF Places
    <3>3. Count(requested, {f}) = Count(requested', {f}) + v
      BY <1>5
    <3> HIDE DEF u, v
    <3> QED BY <1>4, <3>1, <3>2, <3>3
  <2>2. Stopping' /\ Kept'
    BY <1>1, <1>9 DEF IInv, Stopping, Kept
  <2>3. /\ queue' \in Seq(Item) /\ uploads' \in SUBSET File
        /\ failed' \in SUBSET File
    BY <1>1, <1>2, <1>9
  <2> QED BY <1>8, <2>1, <2>2, <2>3
<1>10. CASE queue' = Append(queue, Answer(g)) /\ failed' = failed \cup {g}
              /\ uploads' = uploads
  <2>1. queue' \in Seq(Item) /\ Puts(queue, Answer(g), queue')
    BY <1>1, <1>2, <1>10, Kinds, Putting
  <2>2. \A f \in File :
           /\ Count(queue', {Answer(f)}) =
                Count(queue, {Answer(f)}) + (IF f = g THEN 1 ELSE 0)
           /\ Count(queue', {Ready(f)}) = Count(queue, {Ready(f)})
    BY <1>2, <2>1, Kinds DEF Puts
  <2>3. \A f \in File : Places(f)' = Places(f)
    <3> TAKE f \in File
    <3> DEFINE u == IF f \in uploads THEN 1 ELSE 0
               v == IF f = g THEN 1 ELSE 0
    <3>1. u \in Nat /\ v \in Nat /\ u' = u
      BY <1>10
    <3>2. /\ Places(f) = Count(queue, {Ready(f)}) + Count(requested, {f}) + u
                           + Count(queue, {Answer(f)})
          /\ Places(f)' =
                 Count(queue', {Ready(f)}) + Count(requested', {f}) + u'
                           + Count(queue', {Answer(f)})
      BY DEF Places
    <3>3. /\ Count(requested, {f}) = Count(requested', {f}) + v
          /\ Count(queue', {Answer(f)}) = Count(queue, {Answer(f)}) + v
          /\ Count(queue', {Ready(f)}) = Count(queue, {Ready(f)})
      BY <1>5, <2>2
    <3> HIDE DEF u, v
    <3> QED BY <1>4, <3>1, <3>2, <3>3
  <2>4. Stopping'
    <3>1. \A c \in Sources :
             /\ Count(queue', DownOf(c)) = Count(queue, DownOf(c))
             /\ Count(queue', ReadyOf(c)) = Count(queue, ReadyOf(c))
             /\ Before(queue', DownOf(c), ReadyOf(c)) <=>
                   Before(queue, DownOf(c), ReadyOf(c))
      BY <1>2, <2>1, Kinds DEF Puts
    <3> QED BY <1>1, <3>1 DEF IInv, Stopping
  <2>5. Kept'
    <3>1. ASSUME NEW f \in closed
          PROVE  f \in local \/ f \in failed' \/ Has(cloud, f)
      BY <1>10 DEF IInv, Kept
    <3>2. ASSUME NEW f \in File, Count(queue', {Answer(f)}) > 0
          PROVE  f \in failed' \/ Has(cloud, f)
      <4>1. CASE f = g
        BY <1>10, <4>1
      <4>2. CASE f # g
        <5>1. Count(queue', {Answer(f)}) = Count(queue, {Answer(f)})
          <6> DEFINE v == IF f = g THEN 1 ELSE 0
          <6>1. v = 0
            BY <4>2
          <6>2. Count(queue', {Answer(f)}) = Count(queue, {Answer(f)}) + v
            BY <2>2
          <6>3. Count(queue, {Answer(f)}) \in Nat
            BY <1>4
          <6> HIDE DEF v
          <6> QED BY <6>1, <6>2, <6>3
        <5> QED BY <1>10, <3>2, <5>1 DEF IInv, Kept
      <4> QED BY <4>1, <4>2
    <3> QED BY <1>1, <3>1, <3>2 DEF Kept
  <2>6. uploads' \in SUBSET File /\ failed' \in SUBSET File
    BY <1>1, <1>2, <1>10
  <2> QED BY <1>8, <2>1, <2>3, <2>4, <2>5, <2>6
<1> QED BY <1>3, <1>9, <1>10

\* A transfer ends, and is answered.
LEMMA UploadEndsKeeps ==
  ASSUME IInv, NEW g \in uploads, UploadEnds(g)
  PROVE  IInv'
<1>1. /\ TypeOK /\ queue \in Seq(Item) /\ g \in File /\ g \in uploads
      /\ queue' = Append(queue, Answer(g)) /\ uploads' = uploads \ {g}
      /\ uploads \in SUBSET File /\ failed \in SUBSET File
      /\ UNCHANGED <<session, pipeline, next, opened, requested, local,
                   closed>>
      /\ DOMAIN cloud \subseteq CloudFile
      /\ \A name \in DOMAIN cloud : cloud[name] \in Session
  BY DEF IInv, TypeOK, UploadEnds, Answers, Answer
<1>2. queue' \in Seq(Item) /\ Puts(queue, Answer(g), queue')
  BY <1>1, Kinds, Putting
<1>3. \A X : Count(queue, X) \in Nat /\ Count(requested, X) \in Nat
  BY <1>1, Numbers
<1>4. \A f \in File :
         /\ Count(queue', {Answer(f)}) =
              Count(queue, {Answer(f)}) + (IF f = g THEN 1 ELSE 0)
         /\ Count(queue', {Ready(f)}) = Count(queue, {Ready(f)})
  BY <1>1, <1>2, Kinds DEF Puts
<1>5. \A f \in File : Places(f)' = Places(f)
  <2> TAKE f \in File
  <2> DEFINE u == IF f \in uploads THEN 1 ELSE 0
             v == IF f = g THEN 1 ELSE 0
  <2>1. u \in Nat /\ v \in Nat /\ u' \in Nat /\ u = u' + v
    BY <1>1
  <2>2. /\ Places(f) = Count(queue, {Ready(f)}) + Count(requested, {f}) + u
                         + Count(queue, {Answer(f)})
        /\ Places(f)' = Count(queue', {Ready(f)}) + Count(requested, {f}) + u'
                         + Count(queue', {Answer(f)})
    BY <1>1 DEF Places
  <2>3. /\ Count(queue', {Answer(f)}) = Count(queue, {Answer(f)}) + v
        /\ Count(queue', {Ready(f)}) = Count(queue, {Ready(f)})
    BY <1>4
  <2> HIDE DEF u, v
  <2> QED BY <1>3, <2>1, <2>2, <2>3
<1>6. \A c : Current(c)' = Current(c)
  BY <1>1 DEF Current
<1>7. g \in closed /\ g.session = session
  <2> DEFINE u == IF g \in uploads THEN 1 ELSE 0
  <2>1. u = 1
    BY <1>1
  <2>2. Places(g) = Count(queue, {Ready(g)}) + Count(requested, {g}) + u
                      + Count(queue, {Answer(g)})
    BY DEF Places
  <2> HIDE DEF u
  <2>3. Places(g) > 0
    BY <1>3, <2>1, <2>2
  <2> QED BY <1>1, <2>3 DEF IInv, Placed
<1>8. /\ failed' \in SUBSET File /\ failed \subseteq failed'
      /\ DOMAIN cloud' \subseteq CloudFile
      /\ \A name \in DOMAIN cloud' : cloud'[name] \in Session
                                     /\ cloud'[name] <= session
      /\ \A f \in File : f.session <= session
                         /\ Has(cloud, f) => Has(cloud', f)
      /\ g \in failed' \/ Has(cloud', g)
  <2>1. CASE cloud' = Archived({g}) /\ UNCHANGED failed
    <3>1. {g} \in SUBSET File /\ g.session <= session
      BY <1>1, <1>7 DEF IInv, Numbered
    <3> QED BY <1>1, <2>1, <3>1, Archiving DEF IInv
  <2>2. CASE failed' = failed \cup {g} /\ UNCHANGED cloud
    BY <1>1, <2>2 DEF IInv, Numbered
  <2> QED BY <2>1, <2>2 DEF UploadEnds
<1>9. TypeOK'
  BY <1>1, <1>2, <1>8 DEF TypeOK
<1>10. Stopping'
  <2>1. \A c \in Sources :
           /\ Count(queue', DownOf(c)) = Count(queue, DownOf(c))
           /\ Count(queue', ReadyOf(c)) = Count(queue, ReadyOf(c))
           /\ Before(queue', DownOf(c), ReadyOf(c)) <=>
                 Before(queue, DownOf(c), ReadyOf(c))
    BY <1>1, <1>2, Kinds DEF Puts
  <2> QED BY <1>1, <2>1 DEF IInv, Stopping
<1>11. Opened' /\ Placed' /\ Accounted'
  BY <1>1, <1>5, <1>6 DEF IInv, Opened, Placed, Accounted
<1>12. Numbered'
  BY <1>1, <1>8 DEF IInv, Numbered
<1>13. Kept'
  <2>1. ASSUME NEW f \in closed
        PROVE  f \in local \/ f \in failed' \/ Has(cloud', f)
    <3>1. f \in File /\ f.session <= session
      BY <1>1 DEF IInv, TypeOK, Numbered
    <3> QED BY <1>8, <3>1 DEF IInv, Kept
  <2>2. ASSUME NEW f \in File, Count(queue', {Answer(f)}) > 0
        PROVE  f \in failed' \/ Has(cloud', f)
    <3>1. CASE f = g
      BY <1>8, <3>1
    <3>2. CASE f # g
      <4>1. Count(queue, {Answer(f)}) > 0
        <5>1. Count(queue', {Answer(f)}) = Count(queue, {Answer(f)})
          <6> DEFINE v == IF f = g THEN 1 ELSE 0
          <6>1. v = 0
            BY <3>2
          <6>2. Count(queue', {Answer(f)}) = Count(queue, {Answer(f)}) + v
            BY <1>4
          <6>3. Count(queue, {Answer(f)}) \in Nat
            BY <1>3
          <6> HIDE DEF v
          <6> QED BY <6>1, <6>2, <6>3
        <5> QED BY <2>2, <5>1
      <4>2. Places(f) > 0
        <5> DEFINE u == IF f \in uploads THEN 1 ELSE 0
        <5>1. u \in Nat
          OBVIOUS
        <5>2. Places(f) = Count(queue, {Ready(f)}) + Count(requested, {f}) + u
                            + Count(queue, {Answer(f)})
          BY DEF Places
        <5> HIDE DEF u
        <5> QED BY <1>3, <4>1, <5>1, <5>2
      <4>3. f.session <= session
        BY <4>2 DEF IInv, Placed, Numbered
      <4> QED BY <1>8, <4>1, <4>3 DEF IInv, Kept
    <3> QED BY <3>1, <3>2
  <2> QED BY <1>1, <2>1, <2>2 DEF Kept
<1> QED BY <1>9, <1>10, <1>11, <1>12, <1>13 DEF IInv

\* A new process finds the disk and the archive, and nothing else.
LEMMA RestartKeeps ==
  ASSUME IInv, Restart
  PROVE  IInv'
<1>1. /\ TypeOK /\ session \in Nat /\ MaxSessions \in Nat
      /\ session \in Session
      /\ session < MaxSessions /\ session' = session + 1
      /\ queue' = <<>> /\ pipeline' = [s \in Sources |-> "absent"]
      /\ next' = [s \in Sources |-> 0] /\ opened' = {}
      /\ requested' = <<>> /\ uploads' = {}
      /\ UNCHANGED <<local, closed, failed>>
      /\ uploads \in SUBSET File /\ local \in SUBSET File
      /\ closed \in SUBSET File /\ failed \in SUBSET File
  BY RecordingAssumption DEF IInv, TypeOK, Restart, Session
<1>2. PICK done \in SUBSET uploads : cloud' = Archived(done)
  BY DEF Restart
<1>3. /\ DOMAIN cloud' \subseteq CloudFile
      /\ \A name \in DOMAIN cloud' : cloud'[name] \in Session
                                     /\ cloud'[name] <= session
      /\ \A f \in File : f.session <= session
                         /\ Has(cloud, f) => Has(cloud', f)
  <2>1. done \in SUBSET File
    BY <1>1
  <2> QED BY <1>1, <1>2, <2>1, Archiving DEF IInv
<1>4. /\ \A X : Count(<<>>, X) = 0
      /\ \A X, Y : ~Before(<<>>, X, Y)
  BY CountEmpty, NoOrder
<1>5. TypeOK'
  <2>1. queue' \in Seq(Item) /\ requested' \in Seq(File)
    BY <1>1
  <2>2. session' \in Session /\ next' \in [Sources -> 0 .. MaxFiles]
    BY <1>1, RecordingAssumption DEF Session
  <2>3. pipeline' \in [Sources ->
           {"absent", "null", "playing", "linked", "stalled", "stopped"}]
    BY <1>1
  <2> QED BY <1>1, <1>3, <2>1, <2>2, <2>3 DEF TypeOK
<1>6. Stopping' /\ Opened'
  BY <1>1, <1>4 DEF Stopping, Opened
<1>7. \A f : Places(f)' = 0
  BY <1>1, <1>4 DEF Places
<1>8. Placed'
  BY <1>7 DEF Placed
<1>9. /\ \A f \in File : f.session \in Nat
      /\ \A f \in local : f.session <= session /\ f.session < session'
      /\ \A f \in closed : f.session <= session /\ f.session < session'
  <2>1. \A f \in File : f.session \in Nat
    BY RecordingAssumption DEF File, Session
  <2>2. /\ \A f \in local : f.session <= session
        /\ \A f \in closed : f.session <= session
    BY DEF IInv, Numbered
  <2> QED BY <1>1, <2>1, <2>2
<1>10. Accounted'
  BY <1>1, <1>9 DEF Accounted
<1>11. Numbered'
  <2>1. \A name \in DOMAIN cloud' : cloud'[name] <= session'
    BY <1>1, <1>3, RecordingAssumption DEF Session
  <2>2. /\ \A f \in local : f.session <= session'
        /\ \A f \in closed : f.session <= session' /\ f.session # session'
    BY <1>1, <1>9
  <2> QED BY <1>1, <2>1, <2>2 DEF Numbered
<1>12. Kept'
  <2>1. \A f \in closed : f \in local \/ f \in failed \/ Has(cloud', f)
    BY <1>1, <1>3, <1>9 DEF IInv, Kept
  <2>2. \A f \in File : ~(Count(queue', {Answer(f)}) > 0)
    BY <1>1, <1>4
  <2> QED BY <1>1, <2>1, <2>2 DEF Kept
<1> QED BY <1>5, <1>6, <1>8, <1>10, <1>11, <1>12 DEF IInv

\* All cameras are stopped: each one's report is ahead of its end, and of no
\* file that was reported already.
LEMMA StopHandleSourcesKeeps ==
  ASSUME IInv, StopHandleSources
  PROVE  IInv'
<1> DEFINE T == Reports \cup Ends
<1>1. /\ TypeOK /\ queue \in Seq(Item) /\ opened \in SUBSET Sources
      /\ next \in [Sources -> 0 .. MaxFiles] /\ MaxFiles \in Nat
      /\ closed \in SUBSET File
      /\ \A s \in Sources : pipeline[s] \notin {"stopped", "absent"}
      /\ UNCHANGED <<session, requested, uploads, local, cloud, failed>>
  BY RecordingAssumption DEF IInv, TypeOK, StopHandleSources
<1>2. PICK posts \in SetToSeqs(T) :
         /\ \A s \in opened, i, j \in DOMAIN posts :
               posts[i] = FileReady(s) /\ posts[j] = Down("splitterDown", s) =>
                  i < j
         /\ Shutdown(posts)
  BY DEF StopHandleSources
<1>3. /\ queue' = queue \o posts /\ opened' = {}
      /\ next' = [s \in Sources |-> next[s] + (IF s \in opened THEN 1 ELSE 0)]
      /\ closed' = closed \cup {Current(s) : s \in opened}
      /\ pipeline' = [s \in Sources |-> "stopped"]
  BY <1>2 DEF Shutdown
<1>4. \A s \in opened :
         /\ s \in Sources /\ next[s] < MaxFiles /\ next[s] \in Nat
         /\ Current(s) \in local /\ Current(s) \in File
         /\ Current(s).source = s /\ Current(s).session = session
         /\ Current(s).number = next[s]
  BY <1>1, Currents DEF IInv, Opened
<1>5. \A s : FileReady(s) = Ready(Current(s))
  BY DEF FileReady, Ready
<1>6. T \subseteq Item /\ IsFiniteSet(T)
  <2>1. \A s \in opened : FileReady(s) \in Item
    BY <1>4, <1>5, Kinds
  <2>2. "splitterDown" \in Way
    BY DEF Way
  <2>3. \A s \in Sources : Down("splitterDown", s) \in Item
    BY <2>2, Kinds
  <2>4. IsFiniteSet(Sources) /\ IsFiniteSet(opened)
    BY <1>1, RecordingAssumption, FS_Subset
  <2>5. IsFiniteSet(Reports) /\ IsFiniteSet(Ends)
    <3> DEFINE R == [s \in opened |-> FileReady(s)]
               E == [s \in Sources |-> Down("splitterDown", s)]
    <3>1. Reports = {R[s] : s \in opened} /\ Ends = {E[s] : s \in Sources}
      BY DEF Reports, Ends
    <3> QED BY <2>4, <3>1, FiniteValues
  <2> QED BY <2>1, <2>3, <2>5, FS_Union DEF Reports, Ends
<1>7. /\ posts \in Seq(T)
      /\ \A x : Count(posts, {x}) = IF x \in T THEN 1 ELSE 0
  BY <1>2, <1>6, Ordered, CountOrdered
<1>8. posts \in Seq(Item) /\ queue' \in Seq(Item)
  BY <1>1, <1>3, <1>6, <1>7
<1>9. \A X : /\ Count(queue', X) = Count(queue, X) + Count(posts, X)
             /\ Count(queue, X) \in Nat /\ Count(posts, X) \in Nat
             /\ Count(requested, X) \in Nat
  BY <1>1, <1>3, <1>8, CountConcat, CountType, Numbers
<1> HIDE DEF T
<1>10. \A f \in File :
          /\ Ready(f) \in T <=> \E s \in opened : f = Current(s)
          /\ Answer(f) \notin T
  <2>1. "splitterDown" \in Way
    BY DEF Way
  <2> TAKE f \in File
  <2>2. Ready(f) \notin Ends /\ Answer(f) \notin Ends
    BY <2>1, Kinds DEF Ends
  <2>3. Ready(f) \in Reports <=> \E s \in opened : f = Current(s)
    BY <1>4, <1>5, Kinds DEF Reports
  <2>4. Answer(f) \notin Reports
    BY <1>4, <1>5, Kinds DEF Reports
  <2> QED BY <2>2, <2>3, <2>4 DEF T
<1>11. \A f \in File :
          (\E s \in opened : f = Current(s)) =>
              f \notin closed /\ Places(f) = 0 /\ f \in local
                /\ f.session = session
  <2>1. ASSUME NEW s \in opened
        PROVE  Current(s) \notin closed /\ Places(Current(s)) = 0
    <3>1. Current(s) \notin closed
      BY <1>4 DEF IInv, Numbered
    <3>2. Places(Current(s)) \in Nat /\ ~(Places(Current(s)) > 0)
      BY <1>1, <1>4, <3>1, Numbers DEF IInv, Placed
    <3> QED BY <3>1, <3>2
  <2> QED BY <1>4, <2>1
<1>12. \A f \in File :
          Places(f)' = IF \E s \in opened : f =
              Current(s) THEN 1 ELSE Places(f)
  <2> TAKE f \in File
  <2> DEFINE u == IF f \in uploads THEN 1 ELSE 0
             v == IF \E s \in opened : f = Current(s) THEN 1 ELSE 0
  <2>1. /\ u \in Nat /\ u' = u
        /\ v = IF \E s \in opened : f = Current(s) THEN 1 ELSE 0
    BY <1>1
  <2>2. /\ Places(f) = Count(queue, {Ready(f)}) + Count(requested, {f}) + u
                         + Count(queue, {Answer(f)})
        /\ Places(f)' = Count(queue', {Ready(f)}) + Count(requested, {f}) + u'
                         + Count(queue', {Answer(f)})
    BY <1>1 DEF Places
  <2>3. Count(posts, {Ready(f)}) = v /\ Count(posts, {Answer(f)}) = 0
    BY <1>7, <1>10
  <2> HIDE DEF u, v
  <2>4. v \in Nat /\ Places(f)' = Places(f) + v
    BY <1>9, <2>1, <2>2, <2>3
  <2>5. v = 1 => Places(f) = 0
    BY <1>11, <2>1
  <2>6. Places(f) \in Nat
    BY <1>1, Numbers
  <2> QED BY <2>1, <2>4, <2>5, <2>6
<1>13. \A s \in Sources :
          /\ next'[s] = next[s] + (IF s \in opened THEN 1 ELSE 0)
          /\ next[s] \in Nat /\ next[s] <= MaxFiles
  BY <1>1, <1>3
<1>14. TypeOK'
  <2>1. next' \in [Sources -> 0 .. MaxFiles]
    <3>1. \A s \in Sources :
             next[s] + (IF s \in opened THEN 1 ELSE 0) \in 0 .. MaxFiles
      BY <1>1, <1>4
    <3> QED BY <1>3, <3>1
  <2>2. pipeline' \in [Sources ->
           {"absent", "null", "playing", "linked", "stalled", "stopped"}]
    BY <1>3
  <2>3. closed' \in SUBSET File
    BY <1>1, <1>3, <1>4
  <2> QED BY <1>1, <1>3, <1>8, <2>1, <2>2, <2>3 DEF TypeOK
<1>15. Stopping'
  <2> SUFFICES ASSUME NEW s \in Sources
               PROVE  /\ Count(queue', DownOf(s)) = 1
                      /\ ~Before(queue', DownOf(s), ReadyOf(s))
    BY <1>3 DEF Stopping
  <2>1. \A x \in T :
           /\ x \in DownOf(s) <=> x = Down("splitterDown", s)
           /\ x \in ReadyOf(s) => s \in opened /\ x = FileReady(s)
    <3>1. "splitterDown" \in Way
      BY DEF Way
    <3>2. ASSUME NEW c \in Sources
          PROVE  /\ Down("splitterDown", c) \in DownOf(s) <=> c = s
                 /\ Down("splitterDown", c) \notin ReadyOf(s)
                 /\ Down("splitterDown", c).source = c
      BY <3>1, Kinds
    <3>3. ASSUME NEW c \in opened
          PROVE  /\ FileReady(c) \notin DownOf(s)
                 /\ FileReady(c) \in ReadyOf(s) => c = s
      BY <1>4, <1>5, Kinds
    <3>4. ASSUME NEW x \in Ends
          PROVE  /\ x \in DownOf(s) <=> x = Down("splitterDown", s)
                 /\ x \in ReadyOf(s) => s \in opened /\ x = FileReady(s)
      BY <3>2 DEF Ends
    <3>5. Down("splitterDown", s) \in DownOf(s)
      BY <3>2
    <3>6. ASSUME NEW x \in Reports
          PROVE  /\ x \in DownOf(s) <=> x = Down("splitterDown", s)
                 /\ x \in ReadyOf(s) => s \in opened /\ x = FileReady(s)
      BY <3>3, <3>5 DEF Reports
    <3> QED BY <3>4, <3>6 DEF T
  <2>2. /\ DOMAIN posts = 1 .. Len(posts)
        /\ \A i \in DOMAIN posts : posts[i] \in T
    BY <1>7
  <2>3. Count(posts, DownOf(s)) = 1
    <3>1. At(posts, DownOf(s)) = At(posts, {Down("splitterDown", s)})
      BY <2>1, <2>2 DEF At
    <3>2. Down("splitterDown", s) \in T
      BY DEF T, Ends
    <3> QED BY <1>7, <3>1, <3>2 DEF Count
  <2>4. Count(queue, DownOf(s)) = 0
    BY <1>1 DEF IInv, Stopping
  <2>5. ~Before(posts, DownOf(s), ReadyOf(s))
    <3> SUFFICES ASSUME NEW i \in DOMAIN posts, NEW j \in DOMAIN posts, i < j,
                        posts[i] \in DownOf(s), posts[j] \in ReadyOf(s)
                 PROVE  FALSE
      BY DEF Before
    <3>1. /\ posts[i] = Down("splitterDown", s)
          /\ s \in opened /\ posts[j] = FileReady(s)
      BY <2>1, <2>2
    <3>2. j < i
      BY <1>2, <3>1
    <3> QED BY <2>2, <3>2
  <2>6. ~Before(queue, DownOf(s), ReadyOf(s))
    BY DEF IInv, Stopping
  <2>7. ~Before(queue', DownOf(s), ReadyOf(s))
    BY <1>1, <1>3, <1>8, <2>4, <2>5, <2>6, OrderConcat
  <2> QED BY <1>9, <2>3, <2>4, <2>7
<1>16. Opened'
  BY <1>3 DEF Opened
<1>17. Placed'
  <2> SUFFICES ASSUME NEW f \in File
               PROVE  /\ Places(f)' <= 1
                      /\ Places(f)' > 0 =>
                            f \in local /\ f \in closed' /\ f.session = session
    BY <1>1 DEF Placed
  <2>1. CASE \E s \in opened : f = Current(s)
    <3>1. Places(f)' = 1 /\ f \in local /\ f.session = session
      BY <1>11, <1>12, <2>1
    <3>2. f \in closed'
      BY <1>3, <2>1
    <3> QED BY <3>1, <3>2
  <2>2. CASE ~\E s \in opened : f = Current(s)
    <3>1. Places(f)' = Places(f)
      BY <1>12, <2>2
    <3> QED BY <1>3, <3>1 DEF IInv, Placed
  <2> QED BY <2>1, <2>2
<1>18. Accounted'
  <2> SUFFICES ASSUME NEW f \in File, f \in local, f.session = session
               PROVE  Places(f)' > 0
    BY <1>1 DEF Accounted
  <2>1. (\E s \in opened : f = Current(s)) \/ Places(f) > 0
    BY DEF IInv, Accounted
  <2> QED BY <1>12, <2>1
<1>19. Numbered'
  <2>1. ASSUME NEW f \in closed'
        PROVE  /\ f.session <= session
               /\ f.session = session => f.number < next'[f.source]
    <3>1. /\ f \in File /\ f.source \in Sources /\ f.number \in Nat
          /\ session \in Nat
      BY <1>1, <1>3, <1>4, Kinds, RecordingAssumption
         DEF Number, TypeOK, Session
    <3>2. CASE f \in closed
      <4>1. /\ f.session <= session
            /\ f.session = session => f.number < next[f.source]
        BY <3>2 DEF IInv, Numbered
      <4> QED BY <1>13, <3>1, <4>1
    <3>3. ASSUME NEW s \in opened, f = Current(s)
          PROVE  f.session = session /\ f.number < next'[f.source]
      BY <1>4, <1>13, <3>3
    <3> QED BY <1>3, <3>1, <3>2, <3>3
  <2> QED BY <1>1, <2>1 DEF IInv, Numbered
<1>20. Kept'
  <2>1. ASSUME NEW f \in closed'
        PROVE  f \in local \/ f \in failed \/ Has(cloud, f)
    BY <1>3, <1>4 DEF IInv, Kept
  <2>2. ASSUME NEW f \in File, Count(queue', {Answer(f)}) > 0
        PROVE  f \in failed \/ Has(cloud, f)
    <3>1. Count(queue', {Answer(f)}) = Count(queue, {Answer(f)})
      BY <1>7, <1>9, <1>10
    <3> QED BY <2>2, <3>1 DEF IInv, Kept
  <2> QED BY <1>1, <2>1, <2>2 DEF Kept
<1> QED BY <1>14, <1>15, <1>16, <1>17, <1>18, <1>19, <1>20 DEF IInv

-----------------------------------------------------------------------------
\* Nothing is queued or on the disk at first.
LEMMA InitHolds ==
  ASSUME Init
  PROVE  IInv
<1>1. /\ \A X : Count(<<>>, X) = 0
      /\ \A X, Y : ~Before(<<>>, X, Y)
  BY CountEmpty, NoOrder
<1>2. <<>> \in Seq(Item) /\ <<>> \in Seq(File) /\ DOMAIN <<>> = {}
  OBVIOUS
<1>3. TypeOK
  BY <1>2, RecordingAssumption DEF Init, TypeOK, Session
<1>4. Stopping /\ Opened
  BY <1>1 DEF Init, Stopping, Opened
<1>5. \A f : Places(f) = 0
  BY <1>1 DEF Init, Places
<1>6. Placed /\ Accounted /\ Numbered
  BY <1>2, <1>5 DEF Init, Placed, Accounted, Numbered
<1>7. Kept
  BY <1>1 DEF Init, Kept
<1> QED BY <1>3, <1>4, <1>6, <1>7 DEF IInv

\* A step that changes nothing.
LEMMA StutterKeeps ==
  ASSUME IInv, UNCHANGED vars
  PROVE  IInv'
<1>1. (\A f : Places(f)' = Places(f)) /\ (\A s : Current(s)' = Current(s))
  BY DEF vars, Places, Current
<1>2. TypeOK' /\ Stopping' /\ Numbered' /\ Kept'
  BY DEF IInv, TypeOK, Stopping, Numbered, Kept, vars
<1>3. Opened' /\ Placed' /\ Accounted'
  BY <1>1 DEF IInv, Opened, Placed, Accounted, vars
<1> QED BY <1>2, <1>3 DEF IInv

\* Every step keeps the invariant.
LEMMA StepKeeps ==
  ASSUME IInv, [Next]_vars
  PROVE  IInv'
<1>1. CASE Pipelines
  BY <1>1, DecodebinPadAddedKeeps, OpenFileKeeps, OnFilesinkStateChangedKeeps,
     StallsKeeps DEF Pipelines
<1>2. CASE StartHandleSources
  BY <1>2, StartHandleSourcesKeeps
<1>3. CASE StopHandleSources
  BY <1>3, StopHandleSourcesKeeps
<1>4. CASE RunSplitterDown \/ RunFolderDown
  <2>1. {"splitterDown", "folderDown", "streamerDown"} \subseteq Way
    BY DEF Way
  <2> QED BY <1>4, <2>1, FollowsKeeps DEF RunSplitterDown, RunFolderDown
<1>5. CASE RunStreamerDown
  BY <1>5, RunStreamerDownKeeps
<1>6. CASE RunFileReady
  BY <1>6, RunFileReadyKeeps
<1>7. CASE RunAnswer
  BY <1>7, RunAnswerKeeps
<1>8. CASE Transfers
  BY <1>8, RunUploadKeeps, UploadEndsKeeps DEF Transfers
<1>9. CASE Restart
  BY <1>9, RestartKeeps
<1>10. CASE UNCHANGED vars
  BY <1>10, StutterKeeps
<1> QED BY <1>1, <1>2, <1>3, <1>4, <1>5, <1>6, <1>7, <1>8, <1>9, <1>10
        DEF Next, IoThread

\* So it is an invariant.
LEMMA Invariance == Spec => []IInv
<1>1. Init => IInv
  BY InitHolds
<1>2. IInv /\ [Next]_vars => IInv'
  BY StepKeeps
<1> QED BY <1>1, <1>2, PTL DEF Spec

\* What the invariant implies for the reports, uploads and files.
LEMMA WhatItMeans ==
  ASSUME IInv
  PROVE  HandlerAlive /\ UploadsReadable /\ AccountedFor /\ RecordingKept
<1>1. /\ TypeOK /\ queue \in Seq(Item) /\ requested \in Seq(File)
      /\ \A X : Count(queue, X) \in Nat /\ Count(requested, X) \in Nat
      /\ closed \in SUBSET File
  BY Numbers DEF IInv, TypeOK
<1>2. /\ \A x : Queued(x) <=> Count(queue, {x}) > 0
      /\ \A f : Requested(f) <=> Count(requested, {f}) > 0
  BY <1>1, CountPositive DEF Queued, Requested
<1>3. \A f \in File : Answered(f) <=> Count(queue, {Answer(f)}) > 0
  BY <1>2 DEF Answered, Answer
<1>4. \A f \in File :
         /\ Places(f) > 0 <=> \/ Queued(Ready(f)) \/ Requested(f)
                              \/ f \in uploads \/ Answered(f)
         /\ Places(f) <= 1 =>
              /\ ~(Requested(f) /\ f \in uploads)
              /\ Queued(Ready(f)) \/ Requested(f) \/ f \in uploads =>
                    ~Answered(f)
  <2> TAKE f \in File
  <2> DEFINE u == IF f \in uploads THEN 1 ELSE 0
  <2>1. u \in Nat /\ u <= 1 /\ (f \in uploads <=> u > 0)
    OBVIOUS
  <2>2. Places(f) = Count(queue, {Ready(f)}) + Count(requested, {f}) + u
                      + Count(queue, {Answer(f)})
    BY DEF Places
  <2> HIDE DEF u
  <2>3. /\ Queued(Ready(f)) <=> Count(queue, {Ready(f)}) > 0
        /\ Requested(f) <=> Count(requested, {f}) > 0
        /\ Answered(f) <=> Count(queue, {Answer(f)}) > 0
    BY <1>2, <1>3
  <2> QED BY <1>1, <2>1, <2>2, <2>3
<1>5. HandlerAlive
  <2> SUFFICES ASSUME NEW i \in DOMAIN queue, queue[i].do = "fileReady"
               PROVE  /\ pipeline[queue[i].file.source] # "absent"
                      /\ \A j \in 1 .. i - 1 :
                            queue[j] # Down("streamerDown",
                                      queue[i].file.source)
    BY DEF HandlerAlive
  <2>1. /\ queue[i] \in Item /\ DOMAIN queue = 1 .. Len(queue)
        /\ Len(queue) \in Nat
    BY <1>1
  <2>2. "streamerDown" \in Way /\ "fileReady" \notin Way
    BY DEF Way
  <2>3. PICK f \in File : queue[i] = Ready(f) /\ queue[i].file = f
    <3>1. \/ queue[i] \in [do : {"fileReady", "answer"}, file : File]
          \/ queue[i] \in [do : Way, source : Sources]
      BY <2>1 DEF Item, Way
    <3>2. queue[i] \in [do : {"fileReady", "answer"}, file : File]
      BY <2>2, <3>1
    <3> QED BY <3>2 DEF Ready
  <2>4. f.source \in Sources /\ queue[i] \in ReadyOf(f.source)
    BY <2>3, Kinds
  <2>5. Count(queue, ReadyOf(f.source)) > 0
    BY <1>1, <2>4, CountPositive
  <2>6. /\ pipeline[f.source] # "absent"
        /\ ~Before(queue, DownOf(f.source), ReadyOf(f.source))
    BY <2>4, <2>5 DEF IInv, Stopping
  <2>7. ASSUME NEW j \in 1 .. i - 1, queue[j] = Down("streamerDown", f.source)
        PROVE  FALSE
    <3>1. j \in DOMAIN queue /\ j < i
      BY <2>1
    <3>2. queue[j] \in DownOf(f.source)
      BY <2>2, <2>7 DEF DownOf
    <3> QED BY <2>4, <2>6, <3>1, <3>2 DEF Before
  <2> QED BY <2>3, <2>6, <2>7
<1>6. UploadsReadable
  BY <1>4 DEF IInv, Placed, UploadsReadable
<1>7. AccountedFor
  <2> SUFFICES ASSUME NEW f \in File
               PROVE  Ways(f) = IF f \in local /\ f.session = session
                                  THEN 1 ELSE 0
    BY DEF IInv, AccountedFor
  <2> DEFINE w == IF \E s \in opened : f = Current(s) THEN 1 ELSE 0
             u == IF f \in uploads THEN 1 ELSE 0
  <2>1. /\ w \in Nat /\ u \in Nat
        /\ w = IF \E s \in opened : f = Current(s) THEN 1 ELSE 0
    OBVIOUS
  <2>2. \A item : /\ Times(item, queue) = Count(queue, {item})
                  /\ Times(item, requested) = Count(requested, {item})
    BY DEF Times, Count, At
  <2>3. /\ Ways(f) = w + Times(Ready(f), queue) + Times(f, requested) + u
                       + Times(Answer(f), queue)
        /\ Places(f) = Count(queue, {Ready(f)}) + Count(requested, {f}) + u
                         + Count(queue, {Answer(f)})
    BY DEF Ways, Places, Answer
  <2> HIDE DEF w, u
  <2>4. Ways(f) = w + Places(f) /\ Places(f) \in Nat
    <3> DEFINE r == Count(queue, {Ready(f)})
               q == Count(requested, {f})
               a == Count(queue, {Answer(f)})
    <3>1. r \in Nat /\ q \in Nat /\ a \in Nat
      BY <1>1
    <3>2. Ways(f) = w + r + q + u + a /\ Places(f) = r + q + u + a
      BY <2>2, <2>3
    <3> HIDE DEF r, q, a
    <3> QED BY <2>1, <3>1, <3>2
  <2>5. ASSUME NEW s \in opened, f = Current(s)
        PROVE  f \in local /\ f.session = session /\ Places(f) = 0
    <3>1. s \in Sources /\ Current(s) \in local
      BY DEF IInv, TypeOK, Opened
    <3>2. f.session = session /\ f.source = s /\ f.number = next[s]
      BY <2>5 DEF Current
    <3>3. next[s] \in Nat
      BY <3>1, RecordingAssumption DEF IInv, TypeOK
    <3>4. f \notin closed
      BY <3>2, <3>3 DEF IInv, Numbered
    <3>5. ~(Places(f) > 0)
      BY <3>4 DEF IInv, Placed
    <3> QED BY <2>4, <2>5, <3>1, <3>2, <3>5
  <2>6. CASE \E s \in opened : f = Current(s)
    BY <2>1, <2>4, <2>5, <2>6
  <2>7. CASE ~\E s \in opened : f = Current(s)
    <3>1. Places(f) <= 1 /\ (Places(f) > 0 => f \in local /\ f.session = session)
      BY DEF IInv, Placed
    <3>2. f \in local /\ f.session = session => Places(f) > 0
      BY <2>7 DEF IInv, Accounted
    <3> QED BY <2>1, <2>4, <2>7, <3>1, <3>2
  <2> QED BY <2>6, <2>7
<1>8. RecordingKept
  BY DEF IInv, Kept, Has, RecordingKept
<1> QED BY <1>5, <1>6, <1>7, <1>8

-----------------------------------------------------------------------------
\* A report finds the handlers of its camera (newFileAvailable,
\* Controller.cpp:46-50).
THEOREM ReportsFindTheirHandlers == Spec => []HandlerAlive
<1>1. IInv => HandlerAlive
  BY WhatItMeans
<1> QED BY <1>1, Invariance, PTL

\* A file that is to be uploaded is complete and on the disk until its
\* upload was answered (Dropbox.cpp:418-422).
THEOREM UploadsAreReadable == Spec => []UploadsReadable
<1>1. IInv => UploadsReadable
  BY WhatItMeans
<1> QED BY <1>1, Invariance, PTL

\* Each file of this process on the disk is being written or has one report,
\* request, upload or answer, and no other file has any (Controller.cpp:55-60).
THEOREM FilesAreAccountedFor == Spec => []AccountedFor
<1>1. IInv => AccountedFor
  BY WhatItMeans
<1> QED BY <1>1, Invariance, PTL

\* No complete recording is lost but by a failed upload or a later one of its
\* name, whenever the process dies.
THEOREM RecordingsAreKept == Spec => []RecordingKept
<1>1. IInv => RecordingKept
  BY WhatItMeans
<1> QED BY <1>1, Invariance, PTL
=============================================================================
