-------------------------- MODULE ConfigSyncProofs --------------------------
(* What the sync of the settings folder promises, for every set of         *)
(* devices, files and contents: the shape a task has at each of its steps, *)
(* and from it what may replace a file and what may be announced.          *)
EXTENDS ConfigSync, SequenceTheorems, FiniteSetTheorems, TLAPS

Message == {Opened} \cup Manifest \cup Request \cup FileSent \cup Delete
Kind == {"none", "scan", "rescope", "opened", "manifest", "file", "delete", "apply"}
ReadingOf == [path : Path, mtime : 1 .. MaxTime]
SendTo == [to : Device, path : Path]
SendingOf == [to : Device, path : Path, mtime : 1 .. MaxTime]
WritingOf == [path : Path, hash : Hash \ Large, mtime : 1 .. MaxTime]
DropOf == [path : Path, at : 1 .. MaxTime]
TaskSet ==
    [kind : Kind, from : Device \cup {0}, msg : Message, announce : BOOLEAN, todo : SUBSET Path,
     reading : SUBSET ReadingOf, sends : SUBSET SendTo, sending : SUBSET SendingOf,
     writing : SUBSET WritingOf, written : BOOLEAN, drops : SUBSET DropOf,
     trashing : SUBSET DropOf, wants : SUBSET Path]

AtMostOne(S) == \A x, y \in S : x = y

(* What a task holds is told by how far it is: it writes or trashes only   *)
(* when its paths are refreshed and nothing is left to send.               *)
Phase(t) ==
    /\ t.kind = "none" => t = NoTask
    /\ t.kind = "file" => t.msg \in FileSent /\ t.msg.hash \notin Large
    /\ t.kind = "delete" => t.msg \in Delete
    /\ t.kind = "manifest" => t.msg \in Manifest
    /\ t.kind \notin {"none", "scan", "rescope"} => t.from \in Device
    /\ AtMostOne(t.reading) /\ AtMostOne(t.sending) /\ AtMostOne(t.writing) /\ AtMostOne(t.trashing)
    /\ t.todo # {} \/ t.reading # {} => t.kind \notin {"none", "apply"}
    /\ t.reading # {} => t.sends = {} /\ t.sending = {}
    /\ t.trashing # {} => t.kind = "apply"
    /\ t.writing # {} => t.kind = "file"
    /\ t.writing # {} \/ t.trashing # {} =>
          t.todo = {} /\ t.reading = {} /\ t.sends = {} /\ t.sending = {}
    /\ t.written => t.writing # {}

NetTyped == net \in [Device -> [Device -> Seq(Message)]]
TaskTyped == task \in [Device -> TaskSet]
InPhase == \A d \in Device : Phase(task[d])
Folders ==
    /\ disk \in [Device -> [Path -> File \cup {NoFile}]]
    /\ baseline \in [Device -> [Path -> File \cup {NoFile}]]
    /\ tombs \in [Device -> [Path -> 0 .. MaxTime]]
Rest ==
    /\ now \in 1 .. MaxTime
    /\ scanned \in [Device -> BOOLEAN]
    /\ scope \in [Device -> {"off", "appearance", "full"}]
    /\ rescoped \subseteq Device
    /\ \A link \in linked : link \subseteq Device /\ Cardinality(link) = 2
    /\ events \in 0 .. MaxEvents /\ troubled \in BOOLEAN

Shape == NetTyped /\ TaskTyped /\ InPhase /\ Folders /\ Rest

(* What is on the disk was saved by this device's user, or it is small and *)
(* the baseline has it, or will as soon as the write is recorded.          *)
Overwritten(d, p) == \E w \in task[d].writing : task[d].written /\ w.path = p
Held(d, p) ==
    /\ disk[d][p].hash \notin Large
    /\ IF Overwritten(d, p) THEN \E w \in task[d].writing : disk[d][p].hash = w.hash
       ELSE disk[d][p].hash = baseline[d][p].hash
Owned(d, p) == Here(disk[d][p]) => d \in Writers[disk[d][p].hash] \/ Held(d, p)
AllOwned == \A d \in Device, p \in Path : Owned(d, p)

(* The version about to be written, or the deletion about to be applied,   *)
(* is at least as new as the file it takes away.                           *)
Outdated(d, p, at) == Here(disk[d][p]) /\ Here(baseline[d][p]) => disk[d][p].mtime <= at
Fresh(d) ==
    /\ \A w \in task[d].writing : ~task[d].written => Outdated(d, w.path, w.mtime)
    /\ \A x \in task[d].trashing : Outdated(d, x.path, x.at)
AllFresh == \A d \in Device : Fresh(d)

(* What a step on d leaves alone.                                          *)
OnlyTask(d) == \A e \in Device : e # d => task'[e] = task[e]
OnlyFolder(d) == \A e \in Device : e # d => disk'[e] = disk[e] /\ baseline'[e] = baseline[e]

-----------------------------------------------------------------------------
(* Tasks.                                                                  *)

LEMMA NoTaskFits == NoTask \in TaskSet /\ Phase(NoTask)
<1>1. NoTask \in TaskSet
  BY DEF NoTask, Task, TaskSet, Message, Kind
<1>2. Phase(NoTask)
  BY DEF NoTask, Task, Phase, AtMostOne
<1>3. QED
  BY <1>1, <1>2

(* Nothing is on its way into the folder.                                  *)
Calm(t) == t.written = FALSE /\ t.writing = {} /\ t.trashing = {}

(* A task of its kind k with paths to refresh.                             *)
Starts(k, e, m) ==
    /\ k \in {"scan", "rescope", "opened", "manifest", "file", "delete"}
    /\ m \in Message
    /\ k = "file" => m \in FileSent /\ m.hash \notin Large
    /\ k = "delete" => m \in Delete
    /\ k = "manifest" => m \in Manifest
    /\ k \notin {"scan", "rescope"} => e \in Device

LEMMA TaskFits ==
    ASSUME NEW k, NEW e \in Device \cup {0}, NEW m, NEW todo \in SUBSET Path,
           NEW a \in BOOLEAN, Starts(k, e, m)
    PROVE  /\ Task(k, e, m, todo, a) \in TaskSet
           /\ Phase(Task(k, e, m, todo, a))
           /\ Calm(Task(k, e, m, todo, a))
<1> DEFINE t == [kind |-> k, from |-> e, msg |-> m, announce |-> a, todo |-> todo,
                 reading |-> {}, sends |-> {}, sending |-> {}, writing |-> {}, written |-> FALSE,
                 drops |-> {}, trashing |-> {}, wants |-> {}]
<1>1. Task(k, e, m, todo, a) = t
  BY DEF Task
<1>2. t \in TaskSet
  BY DEF TaskSet, Kind, Starts
<1>3. Phase(t)
  BY DEF Phase, AtMostOne, Starts
<1>4. Calm(t)
  BY DEF Calm
<1>5. QED
  BY <1>1, <1>2, <1>3, <1>4

-----------------------------------------------------------------------------
(* Messages.                                                               *)

LEMMA SeqOfASet ==
    ASSUME NEW S, IsFiniteSet(S)
    PROVE  SetToSeq(S) \in Seq(S)
<1>1. PICK f \in [1 .. Cardinality(S) -> S] : IsInjective(f)
  BY FS_CardinalityType DEF ExistsBijection, Bijection, Injection
<1>2. SetToSeq(S) \in [1 .. Cardinality(S) -> S]
  BY <1>1 DEF SetToSeq
<1>3. QED
  BY <1>2, FS_CardinalityType

LEMMA MessagesAre ==
    /\ Opened \in Message
    /\ \A m \in Message :
          /\ m.type \in {"opened", "manifest", "request", "file", "delete"}
          /\ m.type = "manifest" => m \in Manifest
          /\ m.type = "request" => m \in Request
          /\ m.type = "file" => m \in FileSent
          /\ m.type = "delete" => m \in Delete
BY DEF Message, Opened, Manifest, Request, FileSent, Delete

LEMMA SingleMessage == ASSUME NEW m \in Message PROVE <<m>> \in Seq(Message)
OBVIOUS

LEMMA SentTyped ==
    ASSUME NetTyped, NEW d \in Device, NEW to, NEW ms, \A e \in Device : ms[e] \in Seq(Message)
    PROVE  Sent(d, to, ms) \in [Device -> [Device -> Seq(Message)]]
<1> DEFINE row == [e \in Device |-> IF e \in to \cap Linked(d) THEN net[d][e] \o ms[e] ELSE net[d][e]]
<1>1. \A e \in Device : net[d][e] \in Seq(Message)
  BY DEF NetTyped
<1>2. row \in [Device -> Seq(Message)]
  <2>1. ASSUME NEW e \in Device PROVE net[d][e] \o ms[e] \in Seq(Message)
    BY <1>1, ConcatProperties
  <2>2. QED
    BY <1>1, <2>1
<1>3. Sent(d, to, ms) = [net EXCEPT ![d] = row]
  BY DEF Sent
<1> HIDE DEF row
<1>4. QED
  BY <1>2, <1>3 DEF NetTyped

LEMMA ReceivedTyped ==
    ASSUME NetTyped, NEW d \in Device, NEW e \in Device, net[e][d] # <<>>
    PROVE  /\ Received(d, e) \in [Device -> [Device -> Seq(Message)]]
           /\ Head(net[e][d]) \in Message
<1> DEFINE q == net[e][d]
<1>1. q \in Seq(Message) /\ q # <<>>
  BY DEF NetTyped
<1> HIDE DEF q
<1>2. Head(q) \in Message /\ Tail(q) \in Seq(Message)
  BY <1>1, HeadTailProperties
<1>3. Received(d, e) = [net EXCEPT ![e][d] = Tail(q)]
  BY DEF Received, q
<1>4. Head(net[e][d]) \in Message
  BY <1>2 DEF q
<1>5. QED
  BY <1>2, <1>3, <1>4 DEF NetTyped

LEMMA ManifestFits ==
    ASSUME Folders, NEW d \in Device, NEW e \in Device
    PROVE  ManifestFor(d, e) \in Message
<1>1. \A p \in Path : baseline[d][p] \in File \cup {NoFile} /\ tombs[d][p] \in 0 .. MaxTime
  BY DEF Folders
<1>2. 0 \in 0 .. MaxTime
  BY ConfigAssumption
<1>3. ManifestFor(d, e) \in Manifest
  BY <1>1, <1>2 DEF ManifestFor, Manifest
<1>4. QED
  BY <1>3 DEF Message

LEMMA DeletionFits ==
    ASSUME NEW p \in Path, NEW at \in 1 .. MaxTime
    PROVE  DeleteMsg(p, at) \in Message
BY DEF DeleteMsg, Message, Delete

LEMMA AnswerFits ==
    ASSUME NEW e \in Device, NEW a \in BOOLEAN, NEW sends \in SUBSET SendTo,
           NEW drops \in SUBSET DropOf, NEW wants \in SUBSET Path
    PROVE  /\ Answer(e, a, sends, drops, wants) \in TaskSet
           /\ Phase(Answer(e, a, sends, drops, wants))
           /\ Calm(Answer(e, a, sends, drops, wants))
<1>1. Answer(e, a, sends, drops, wants) \in TaskSet
  BY MessagesAre DEF Answer, TaskSet, Kind
<1>2. Phase(Answer(e, a, sends, drops, wants))
  BY DEF Answer, Phase, AtMostOne
<1>3. Calm(Answer(e, a, sends, drops, wants))
  BY DEF Answer, Calm
<1>4. QED
  BY <1>1, <1>2, <1>3

-----------------------------------------------------------------------------
(* One device's task.                                                      *)

TaskStep(d) == task' \in [Device -> TaskSet] /\ Phase(task'[d]) /\ OnlyTask(d)

(* Neither the folder nor what the task is about to write changes.         *)
Harmless(d) ==
    /\ disk' = disk /\ baseline' = baseline
    /\ ~task[d].written /\ ~task'[d].written
    /\ task'[d].writing \subseteq task[d].writing /\ task'[d].trashing \subseteq task[d].trashing

LEMMA TaskIs ==
    ASSUME TaskTyped, NEW d \in Device
    PROVE  task[d] \in TaskSet
BY DEF TaskTyped

LEMMA IdleIsCalm ==
    ASSUME NEW d, Idle(d)
    PROVE  /\ Calm(task[d]) /\ task[d].todo = {} /\ task[d].reading = {} /\ task[d].sends = {}
           /\ task[d].sending = {} /\ task[d].drops = {}
BY DEF Idle, NoTask, Task, Calm

LEMMA ReadyFacts ==
    ASSUME NEW d, NEW kind, Ready(d, kind)
    PROVE  /\ task[d].kind = kind /\ task[d].todo = {} /\ task[d].reading = {}
           /\ task[d].writing = {} /\ task[d].trashing = {}
           /\ task[d].sends = {} /\ task[d].sending = {}
BY DEF Ready, Sending

LEMMA ReadyIsCalm ==
    ASSUME TaskTyped, InPhase, NEW d \in Device, NEW kind, Ready(d, kind)
    PROVE  Calm(task[d])
<1>1. task[d].written => task[d].writing # {}
  BY DEF InPhase, Phase
<1>2. task[d].written \in BOOLEAN
  BY TaskIs DEF TaskSet
<1>3. QED
  BY <1>1, <1>2, ReadyFacts DEF Calm

LEMMA Starting ==
    ASSUME TaskTyped, NEW d \in Device, NEW t \in TaskSet, Phase(t), Calm(t), Calm(task[d]),
           task' = [task EXCEPT ![d] = t], disk' = disk, baseline' = baseline
    PROVE  TaskStep(d) /\ Harmless(d)
<1>1. task' \in [Device -> TaskSet] /\ task'[d] = t /\ OnlyTask(d)
  BY DEF TaskTyped, OnlyTask
<1>2. QED
  BY <1>1 DEF TaskStep, Harmless, Calm

LEMMA ScanBegins ==
    ASSUME Shape, NEW d \in Device, NEW k, NEW e \in Device \cup {0}, NEW m,
           Starts(k, e, m), Idle(d), BeginScan(d, k, e, m)
    PROVE  /\ TaskStep(d) /\ Harmless(d)
           /\ tombs' \in [Device -> [Path -> 0 .. MaxTime]]
           /\ scanned' \in [Device -> BOOLEAN]
           /\ events' \in 0 .. MaxEvents /\ troubled' \in BOOLEAN
           /\ UNCHANGED <<now, scope, linked>>
<1>1. PICK listed \in BOOLEAN :
        /\ IF listed THEN UNCHANGED events ELSE Count
        /\ troubled' = (troubled \/ ~listed)
        /\ tombs' = IF scope[d] # "off" THEN [tombs EXCEPT ![d] = [p \in Path |->
                                     IF now - @[p] > Retention THEN 0 ELSE @[p]]]
                    ELSE tombs
        /\ scanned' = [scanned EXCEPT ![d] = @ \/ (scope[d] # "off" /\ listed)]
        /\ task' = [task EXCEPT ![d] =
                Task(k, e, m,
                     {p \in Path : /\ listed /\ InScope(d, p)
                                   /\ Here(disk[d][p]) \/ Here(baseline[d][p])},
                     scanned[d])]
        /\ UNCHANGED <<now, disk, baseline, scope, linked>>
  BY DEF BeginScan
<1>2. TaskStep(d) /\ Harmless(d)
  <2> DEFINE todo == {p \in Path : /\ listed /\ InScope(d, p)
                                   /\ Here(disk[d][p]) \/ Here(baseline[d][p])}
             t == Task(k, e, m, todo, scanned[d])
  <2>1. todo \in SUBSET Path /\ scanned[d] \in BOOLEAN
    BY DEF Shape, Rest
  <2>2. task' = [task EXCEPT ![d] = t]
    BY <1>1
  <2>3. t \in TaskSet /\ Phase(t) /\ Calm(t)
    <3> HIDE DEF todo
    <3>1. /\ Task(k, e, m, todo, scanned[d]) \in TaskSet /\ Phase(Task(k, e, m, todo, scanned[d]))
          /\ Calm(Task(k, e, m, todo, scanned[d]))
      BY <2>1, TaskFits
    <3>2. QED
      BY <3>1
  <2>4. disk' = disk /\ baseline' = baseline
    BY <1>1
  <2>5. Calm(task[d]) /\ TaskTyped
    BY IdleIsCalm DEF Shape
  <2> HIDE DEF t
  <2>6. QED
    BY <2>2, <2>3, <2>4, <2>5, Starting
<1>3. tombs' \in [Device -> [Path -> 0 .. MaxTime]]
  <2>1. tombs \in [Device -> [Path -> 0 .. MaxTime]] /\ 0 \in 0 .. MaxTime
    BY ConfigAssumption DEF Shape, Folders
  <2>2. QED
    BY <1>1, <2>1
<1>4. scanned' \in [Device -> BOOLEAN]
  BY <1>1 DEF Shape, Rest
<1>5. events' \in 0 .. MaxEvents
  BY <1>1, ConfigAssumption DEF Shape, Rest, Count
<1>6. troubled' \in BOOLEAN
  BY <1>1 DEF Shape, Rest
<1>7. QED
  BY <1>1, <1>2, <1>3, <1>4, <1>5, <1>6

-----------------------------------------------------------------------------
(* What a device turns to when it is idle.                                 *)

Moves(d) == TaskStep(d) /\ NetTyped' /\ Folders' /\ Rest'

LEMMA ScanMoves ==
    ASSUME Shape, NEW d \in Device, NEW k, NEW e \in Device \cup {0}, NEW m,
           Starts(k, e, m), Idle(d), BeginScan(d, k, e, m), rescoped' \subseteq Device, NetTyped'
    PROVE  Moves(d) /\ Harmless(d)
<1>1. /\ TaskStep(d) /\ Harmless(d)
      /\ tombs' \in [Device -> [Path -> 0 .. MaxTime]]
      /\ scanned' \in [Device -> BOOLEAN]
      /\ events' \in 0 .. MaxEvents /\ troubled' \in BOOLEAN
      /\ UNCHANGED <<now, scope, linked>>
  BY ScanBegins
<1>2. Folders'
  BY <1>1 DEF Harmless, Folders, Shape
<1>3. Rest'
  BY <1>1 DEF Rest, Shape
<1>4. QED
  BY <1>1, <1>2, <1>3 DEF Moves

LEMMA ScanIsFine ==
    ASSUME Shape, NEW d \in Device, Scan(d) \/ SettingsChanged(d)
    PROVE  Moves(d) /\ Harmless(d)
<1>1. Starts("scan", 0, Opened) /\ Starts("rescope", 0, Opened)
  BY MessagesAre DEF Starts
<1>2. CASE Scan(d)
  <2>1. Idle(d) /\ BeginScan(d, "scan", 0, Opened) /\ UNCHANGED <<rescoped, net>>
    BY <1>2 DEF Scan
  <2>2. rescoped' \subseteq Device /\ NetTyped'
    BY <2>1 DEF Shape, Rest, NetTyped
  <2>3. QED
    BY <1>1, <2>1, <2>2, ScanMoves
<1>3. CASE SettingsChanged(d)
  <2>1. Idle(d) /\ BeginScan(d, "rescope", 0, Opened) /\ UNCHANGED net /\ rescoped' = rescoped \ {d}
    BY <1>3 DEF SettingsChanged
  <2>2. rescoped' \subseteq Device /\ NetTyped'
    BY <2>1 DEF Shape, Rest, NetTyped
  <2>3. QED
    BY <1>1, <2>1, <2>2, ScanMoves
<1>4. QED
  BY <1>2, <1>3

(* A step that changes the tasks and the messages at most.                 *)
LEMMA RestStays ==
    ASSUME Shape, UNCHANGED <<folder, scanned, world>>
    PROVE  Folders' /\ Rest' /\ disk' = disk /\ baseline' = baseline
BY DEF Shape, Folders, Rest, folder, world, quiet

LEMMA NothingStarts ==
    ASSUME Shape, NEW d \in Device, Idle(d), UNCHANGED task, disk' = disk, baseline' = baseline
    PROVE  TaskStep(d) /\ Harmless(d)
<1>1. task' \in [Device -> TaskSet] /\ Phase(task'[d]) /\ OnlyTask(d)
  BY DEF Shape, TaskTyped, InPhase, OnlyTask
<1>2. QED
  BY <1>1, IdleIsCalm DEF TaskStep, Harmless, Calm

LEMMA TakeFacts ==
    ASSUME Shape, NEW d \in Device, NEW e \in Device, NEW types, Waits(d, e, types)
    PROVE  /\ Idle(d) /\ Head(net[e][d]) \in Message /\ Head(net[e][d]).type \in types
           /\ Received(d, e) \in [Device -> [Device -> Seq(Message)]]
BY ReceivedTyped DEF Waits, Shape

LEMMA TakeScanningIsFine ==
    ASSUME Shape, NEW d \in Device, NEW e \in Device, TakeScanning(d, e)
    PROVE  Moves(d) /\ Harmless(d)
<1> DEFINE m == Head(net[e][d])
<1>1. /\ Waits(d, e, {"opened", "manifest"}) /\ net' = Received(d, e) /\ rescoped' = rescoped
      /\ \/ UNCHANGED <<now, folder, scanned, scope, linked, task, events, troubled>>
         \/ BeginScan(d, m.type, e, m)
  BY DEF TakeScanning
<1>2. Idle(d) /\ m \in Message /\ m.type \in {"opened", "manifest"} /\ NetTyped'
  BY <1>1, TakeFacts DEF NetTyped
<1>3. Starts(m.type, e, m)
  BY <1>2, MessagesAre DEF Starts
<1> HIDE DEF m
<1>4. CASE BeginScan(d, m.type, e, m)
  <2>1. rescoped' \subseteq Device
    BY <1>1 DEF Shape, Rest
  <2>2. QED
    BY <1>2, <1>3, <1>4, <2>1, ScanMoves
<1>5. CASE UNCHANGED <<now, folder, scanned, scope, linked, task, events, troubled>>
  <2>1. UNCHANGED <<folder, scanned, world>> /\ UNCHANGED task
    BY <1>1, <1>5 DEF world, quiet
  <2>2. Folders' /\ Rest' /\ disk' = disk /\ baseline' = baseline
    BY <2>1, RestStays
  <2>3. TaskStep(d) /\ Harmless(d)
    BY <1>2, <2>1, <2>2, NothingStarts
  <2>4. QED
    BY <1>2, <2>2, <2>3 DEF Moves
<1>6. QED
  BY <1>1, <1>4, <1>5

LEMMA HandleRequestIsFine ==
    ASSUME Shape, NEW d \in Device, NEW e \in Device, HandleRequest(d, e)
    PROVE  Moves(d) /\ Harmless(d)
<1> DEFINE m == Head(net[e][d])
           sends == {[to |-> e, path |-> p] :
                       p \in {q \in m.paths : InScope(d, q) /\ Here(baseline[d][q])}}
           t == Answer(e, FALSE, sends, {}, {})
<1>1. /\ Waits(d, e, {"request"}) /\ net' = Received(d, e)
      /\ task' = [task EXCEPT ![d] = t]
      /\ UNCHANGED <<folder, scanned, world>>
  BY DEF HandleRequest
<1>2. Idle(d) /\ m \in Message /\ m.type = "request" /\ NetTyped'
  BY <1>1, TakeFacts DEF NetTyped
<1>3. sends \in SUBSET SendTo
  <2>1. m.paths \in SUBSET Path
    BY <1>2, MessagesAre DEF Request
  <2>2. QED
    BY <2>1 DEF SendTo
<1> HIDE DEF sends
<1>4. t \in TaskSet /\ Phase(t) /\ Calm(t)
  BY <1>3, AnswerFits
<1>5. Folders' /\ Rest' /\ disk' = disk /\ baseline' = baseline
  BY <1>1, RestStays
<1>6. TaskTyped /\ Calm(task[d])
  BY <1>2, IdleIsCalm DEF Shape
<1> HIDE DEF t, m
<1>7. TaskStep(d) /\ Harmless(d)
  BY <1>1, <1>4, <1>5, <1>6, Starting
<1>8. QED
  BY <1>2, <1>5, <1>7 DEF Moves

LEMMA HandleFileIsFine ==
    ASSUME Shape, NEW d \in Device, NEW e \in Device, HandleFile(d, e)
    PROVE  Moves(d) /\ Harmless(d)
<1> DEFINE m == Head(net[e][d])
           taken == InScope(d, m.path) /\ Trusts(d, e, m.path) /\ m.hash \notin Large
           again == [type |-> "request", paths |-> {m.path}]
<1>1. /\ Waits(d, e, {"file"})
      /\ \/ /\ net' = Received(d, e)
            /\ task' = IF taken THEN [task EXCEPT ![d] = Task("file", e, m, {m.path}, scanned[d])]
                       ELSE task
            /\ UNCHANGED <<folder, scanned, world>>
         \/ /\ Count
            /\ net' = [Received(d, e) EXCEPT ![d][e] =
                          IF {d, e} \in linked THEN Append(@, again) ELSE @]
            /\ UNCHANGED <<folder, scanned, now, scope, rescoped, linked, task, troubled>>
  BY DEF HandleFile
<1>2. /\ Idle(d) /\ m \in Message /\ m.type = "file"
      /\ Received(d, e) \in [Device -> [Device -> Seq(Message)]]
  BY <1>1, TakeFacts
<1>3. m \in FileSent /\ m.path \in Path
  BY <1>2, MessagesAre DEF FileSent
<1>4. again \in Message
  BY <1>3 DEF Message, Request
<1>5. TaskTyped /\ Calm(task[d])
  BY <1>2, IdleIsCalm DEF Shape
<1> HIDE DEF m, again
<1>6. CASE /\ net' = Received(d, e)
           /\ task' = IF taken THEN [task EXCEPT ![d] = Task("file", e, m, {m.path}, scanned[d])]
                      ELSE task
           /\ UNCHANGED <<folder, scanned, world>>
  <2>1. Folders' /\ Rest' /\ disk' = disk /\ baseline' = baseline
    BY <1>6, RestStays
  <2>2. NetTyped'
    BY <1>2, <1>6 DEF NetTyped
  <2>3. CASE ~taken
    <3>1. UNCHANGED task
      BY <1>6, <2>3
    <3>2. QED
      BY <1>2, <2>1, <2>2, <3>1, NothingStarts DEF Moves
  <2>4. CASE taken
    <3> DEFINE t == Task("file", e, m, {m.path}, scanned[d])
    <3>1. Starts("file", e, m) /\ {m.path} \in SUBSET Path /\ scanned[d] \in BOOLEAN
      BY <1>2, <1>3, <2>4 DEF Starts, Shape, Rest
    <3>2. t \in TaskSet /\ Phase(t) /\ Calm(t)
      BY <3>1, TaskFits
    <3>3. task' = [task EXCEPT ![d] = t]
      BY <1>6, <2>4
    <3> HIDE DEF t
    <3>4. TaskStep(d) /\ Harmless(d)
      BY <1>5, <2>1, <3>2, <3>3, Starting
    <3>5. QED
      BY <2>1, <2>2, <3>4 DEF Moves
  <2>5. QED
    BY <2>3, <2>4
<1>7. CASE /\ Count
           /\ net' = [Received(d, e) EXCEPT ![d][e] =
                         IF {d, e} \in linked THEN Append(@, again) ELSE @]
           /\ UNCHANGED <<folder, scanned, now, scope, rescoped, linked, task, troubled>>
  <2> DEFINE q == Received(d, e)[d][e]
  <2>1. q \in Seq(Message)
    BY <1>2
  <2> HIDE DEF q
  <2>2. Append(q, again) \in Seq(Message)
    BY <1>4, <2>1, AppendProperties
  <2>3. net' = [Received(d, e) EXCEPT ![d][e] = IF {d, e} \in linked THEN Append(q, again) ELSE q]
    BY <1>7 DEF q
  <2>4. NetTyped'
    BY <1>2, <2>1, <2>2, <2>3 DEF NetTyped
  <2>5. Folders'
    BY <1>7 DEF Shape, Folders, folder
  <2>6. Rest'
    <3>1. events' \in 0 .. MaxEvents
      BY <1>7, ConfigAssumption DEF Shape, Rest, Count
    <3>2. QED
      BY <1>7, <3>1 DEF Shape, Rest
  <2>7. UNCHANGED task /\ disk' = disk /\ baseline' = baseline
    BY <1>7 DEF folder
  <2>8. QED
    BY <1>2, <2>4, <2>5, <2>6, <2>7, NothingStarts DEF Moves
<1>8. QED
  BY <1>1, <1>6, <1>7

LEMMA HandleDeleteIsFine ==
    ASSUME Shape, NEW d \in Device, NEW e \in Device, HandleDelete(d, e)
    PROVE  Moves(d) /\ Harmless(d)
<1> DEFINE m == Head(net[e][d])
           t == Task("delete", e, m, {m.path}, scanned[d])
<1>1. /\ Waits(d, e, {"delete"}) /\ net' = Received(d, e)
      /\ task' = IF InScope(d, m.path) THEN [task EXCEPT ![d] = t] ELSE task
      /\ UNCHANGED <<folder, scanned, world>>
  BY DEF HandleDelete
<1>2. Idle(d) /\ m \in Message /\ m.type = "delete" /\ NetTyped'
  BY <1>1, TakeFacts DEF NetTyped
<1>3. Starts("delete", e, m) /\ {m.path} \in SUBSET Path /\ scanned[d] \in BOOLEAN
  BY <1>2, MessagesAre DEF Starts, Delete, Shape, Rest
<1> HIDE DEF m
<1>4. t \in TaskSet /\ Phase(t) /\ Calm(t)
  BY <1>3, TaskFits
<1>5. Folders' /\ Rest' /\ disk' = disk /\ baseline' = baseline
  BY <1>1, RestStays
<1>6. TaskTyped /\ Calm(task[d])
  BY <1>2, IdleIsCalm DEF Shape
<1> HIDE DEF t
<1>7. CASE task' = [task EXCEPT ![d] = t]
  <2>1. TaskStep(d) /\ Harmless(d)
    BY <1>4, <1>5, <1>6, <1>7, Starting
  <2>2. QED
    BY <1>2, <1>5, <2>1 DEF Moves
<1>8. CASE task' = task
  BY <1>2, <1>5, <1>8, NothingStarts DEF Moves
<1>9. QED
  BY <1>1, <1>7, <1>8

-----------------------------------------------------------------------------
(* Bringing the baseline up to date.                                       *)

LEMMA RefreshingIsCalm ==
    ASSUME Shape, NEW d \in Device, NEW p, Refreshing(d, p)
    PROVE  /\ Calm(task[d]) /\ task[d].kind \notin {"none", "apply"} /\ TaskTyped
           /\ task[d] \in TaskSet /\ Phase(task[d])
           /\ task[d].reading = {} /\ task[d].sends = {} /\ task[d].sending = {}
<1>1. task[d] \in TaskSet /\ Phase(task[d]) /\ TaskTyped
  BY TaskIs DEF Shape, InPhase
<1>2. task[d].todo # {} /\ task[d].reading = {} /\ task[d].sends = {} /\ task[d].sending = {}
  BY DEF Refreshing, Sending
<1>3. task[d].written \in BOOLEAN
  BY <1>1 DEF TaskSet
<1>4. QED
  BY <1>1, <1>2, <1>3 DEF Phase, Calm

LEMMA RefreshedFits ==
    ASSUME Shape, NEW d \in Device, NEW p, Refreshing(d, p), task' = Refreshed(d, p)
    PROVE  TaskStep(d) /\ Calm(task'[d])
<1>1. /\ Calm(task[d]) /\ task[d].kind \notin {"none", "apply"} /\ TaskTyped
      /\ task[d] \in TaskSet /\ Phase(task[d])
  BY RefreshingIsCalm
<1>2. /\ task' \in [Device -> TaskSet] /\ OnlyTask(d)
      /\ task'[d].kind = task[d].kind /\ task'[d].from = task[d].from /\ task'[d].msg = task[d].msg
      /\ task'[d].reading = task[d].reading /\ task'[d].sends = task[d].sends
      /\ task'[d].sending = task[d].sending /\ task'[d].writing = task[d].writing
      /\ task'[d].written = task[d].written /\ task'[d].trashing = task[d].trashing
  BY <1>1 DEF TaskTyped, TaskSet, Refreshed, OnlyTask
<1>3. Phase(task'[d])
  BY <1>1, <1>2 DEF Phase, Calm
<1>4. Calm(task'[d])
  BY <1>1, <1>2 DEF Calm
<1>5. QED
  BY <1>2, <1>3, <1>4 DEF TaskStep

LEMMA CalmIsHarmless ==
    ASSUME NEW d, Calm(task[d]), Calm(task'[d]), disk' = disk, baseline' = baseline
    PROVE  Harmless(d)
BY DEF Calm, Harmless

LEMMA NothingNewIsFine ==
    ASSUME Shape, NEW d \in Device, NEW p, NothingNew(d, p)
    PROVE  Moves(d) /\ Harmless(d)
<1>1. Refreshing(d, p) /\ task' = Refreshed(d, p) /\ UNCHANGED <<folder, scanned, net, world>>
  BY DEF NothingNew
<1>2. TaskStep(d) /\ Calm(task'[d]) /\ Calm(task[d])
  BY <1>1, RefreshedFits, RefreshingIsCalm
<1>3. Folders' /\ Rest' /\ disk' = disk /\ baseline' = baseline
  BY <1>1, RestStays
<1>4. NetTyped'
  BY <1>1 DEF Shape, NetTyped
<1>5. QED
  BY <1>2, <1>3, <1>4, CalmIsHarmless DEF Moves

LEMMA DiskFits ==
    ASSUME Folders, NEW d \in Device, NEW p \in Path
    PROVE  /\ disk[d][p] \in File \cup {NoFile} /\ baseline[d][p] \in File \cup {NoFile}
           /\ tombs[d][p] \in 0 .. MaxTime
           /\ Here(disk[d][p]) => disk[d][p] \in File
           /\ Here(baseline[d][p]) => baseline[d][p] \in File
           /\ disk[d][p].mtime \in Nat /\ baseline[d][p].mtime \in Nat
<1>1. /\ disk[d][p] \in File \cup {NoFile} /\ baseline[d][p] \in File \cup {NoFile}
      /\ tombs[d][p] \in 0 .. MaxTime
  BY DEF Folders
<1>2. \A f \in File \cup {NoFile} : (Here(f) => f \in File) /\ f.mtime \in Nat
  BY ConfigAssumption DEF File, NoFile, Here
<1>3. QED
  BY <1>1, <1>2

LEMMA NoticeChangedIsFine ==
    ASSUME Shape, NEW d \in Device, NEW p \in Path, NoticeChanged(d, p)
    PROVE  Moves(d) /\ Harmless(d)
<1> DEFINE r == [path |-> p, mtime |-> disk[d][p].mtime]
<1>1. /\ Refreshing(d, p) /\ Here(disk[d][p])
      /\ task' = [Refreshed(d, p) EXCEPT ![d].reading = {r}]
      /\ UNCHANGED <<folder, scanned, net, world>>
  BY DEF NoticeChanged
<1>2. r \in ReadingOf
  BY <1>1, DiskFits DEF Shape, File, ReadingOf
<1> HIDE DEF r
<1>3. /\ Calm(task[d]) /\ task[d].kind \notin {"none", "apply"} /\ TaskTyped
      /\ task[d] \in TaskSet /\ Phase(task[d])
      /\ task[d].reading = {} /\ task[d].sends = {} /\ task[d].sending = {}
  BY <1>1, RefreshingIsCalm
<1>4. /\ task' \in [Device -> TaskSet] /\ OnlyTask(d)
      /\ task'[d].kind = task[d].kind /\ task'[d].from = task[d].from /\ task'[d].msg = task[d].msg
      /\ task'[d].reading = {r} /\ task'[d].sends = task[d].sends
      /\ task'[d].sending = task[d].sending /\ task'[d].writing = task[d].writing
      /\ task'[d].written = task[d].written /\ task'[d].trashing = task[d].trashing
  BY <1>1, <1>2, <1>3 DEF TaskTyped, TaskSet, Refreshed, OnlyTask
<1>5. Phase(task'[d]) /\ Calm(task'[d])
  BY <1>3, <1>4 DEF Phase, Calm, AtMostOne
<1>6. Folders' /\ Rest' /\ disk' = disk /\ baseline' = baseline
  BY <1>1, RestStays
<1>7. NetTyped'
  BY <1>1 DEF Shape, NetTyped
<1>8. QED
  BY <1>3, <1>4, <1>5, <1>6, <1>7, CalmIsHarmless DEF Moves, TaskStep

(* Only the baseline of one path changes, and what is there is known.      *)
LEMMA NoticeGoneIsFine ==
    ASSUME Shape, NEW d \in Device, NEW p \in Path, NoticeGone(d, p)
    PROVE  /\ Moves(d) /\ Calm(task[d]) /\ Calm(task'[d]) /\ disk' = disk
           /\ ~Here(disk[d][p]) /\ baseline' = [baseline EXCEPT ![d][p] = NoFile]
<1>1. /\ Refreshing(d, p) /\ task' = Refreshed(d, p)
      /\ ~Here(disk[d][p]) /\ disk' = disk
      /\ baseline' = [baseline EXCEPT ![d][p] = NoFile]
      /\ tombs' = [tombs EXCEPT ![d][p] = now]
      /\ net' = IF task[d].announce
                THEN Sent(d, {e \in Device : Trusts(d, e, p)}, [e \in Device |-> <<DeleteMsg(p, now)>>])
                ELSE net
      /\ UNCHANGED <<scanned, world>>
  BY DEF NoticeGone
<1>2. TaskStep(d) /\ Calm(task'[d]) /\ Calm(task[d])
  BY <1>1, RefreshedFits, RefreshingIsCalm
<1>3. now \in 1 .. MaxTime /\ now \in 0 .. MaxTime
  BY ConfigAssumption DEF Shape, Rest
<1>4. Folders'
  BY <1>1, <1>3 DEF Shape, Folders
<1>5. Rest'
  BY <1>1 DEF Shape, Rest, world, quiet
<1>6. NetTyped'
  <2>1. CASE ~task[d].announce
    BY <1>1, <2>1 DEF Shape, NetTyped
  <2>2. CASE task[d].announce
    <3> DEFINE ms == [e \in Device |-> <<DeleteMsg(p, now)>>]
    <3>1. \A e \in Device : ms[e] \in Seq(Message)
      BY <1>3, DeletionFits, SingleMessage
    <3>2. net' = Sent(d, {e \in Device : Trusts(d, e, p)}, ms)
      BY <1>1, <2>2
    <3> HIDE DEF ms
    <3>3. QED
      BY <3>1, <3>2, SentTyped DEF Shape, NetTyped
  <2>3. QED
    BY <2>1, <2>2
<1>7. QED
  BY <1>1, <1>2, <1>4, <1>5, <1>6 DEF Moves

LEMMA NoticeLargeIsFine ==
    ASSUME Shape, NEW d \in Device, NEW p \in Path, NoticeLarge(d, p)
    PROVE  /\ Moves(d) /\ Calm(task[d]) /\ Calm(task'[d]) /\ disk' = disk
           /\ disk[d][p].hash \in Large /\ baseline' = [baseline EXCEPT ![d][p] = NoFile]
<1>1. /\ Refreshing(d, p) /\ task' = Refreshed(d, p) /\ disk[d][p].hash \in Large
      /\ baseline' = [baseline EXCEPT ![d][p] = NoFile] /\ troubled' = TRUE
      /\ UNCHANGED <<disk, tombs, scanned, net, quiet>>
  BY DEF NoticeLarge
<1>2. TaskStep(d) /\ Calm(task'[d]) /\ Calm(task[d])
  BY <1>1, RefreshedFits, RefreshingIsCalm
<1>3. Folders'
  BY <1>1 DEF Shape, Folders
<1>4. Rest' /\ NetTyped'
  BY <1>1 DEF Shape, Rest, quiet, NetTyped
<1>5. QED
  BY <1>1, <1>2, <1>3, <1>4 DEF Moves

LEMMA ReadingIsCalm ==
    ASSUME Shape, NEW d \in Device, NEW r \in task[d].reading
    PROVE  /\ Calm(task[d]) /\ TaskTyped /\ task[d] \in TaskSet /\ Phase(task[d])
           /\ task[d].kind \notin {"none", "apply"}
           /\ r \in ReadingOf /\ r.path \in Path /\ r.mtime \in 1 .. MaxTime
           /\ task[d].sends = {} /\ task[d].sending = {}
<1>1. task[d] \in TaskSet /\ Phase(task[d]) /\ TaskTyped
  BY TaskIs DEF Shape, InPhase
<1>2. task[d].written \in BOOLEAN /\ task[d].reading \subseteq ReadingOf
  BY <1>1 DEF TaskSet
<1>3. r \in ReadingOf /\ r.path \in Path /\ r.mtime \in 1 .. MaxTime
  BY <1>2 DEF ReadingOf
<1>4. QED
  BY <1>1, <1>2, <1>3 DEF Phase, Calm

(* What is read becomes the baseline, and is announced only when its       *)
(* content is new.                                                         *)
LEMMA ReadChangedIsFine ==
    ASSUME Shape, NEW d \in Device, ReadChanged(d)
    PROVE  /\ Moves(d) /\ Calm(task[d]) /\ Calm(task'[d]) /\ disk' = disk
           /\ \E r \in task[d].reading :
                 /\ r.path \in Path
                 /\ \/ ~Here(disk[d][r.path]) /\ baseline' = baseline /\ task'[d].sends = {}
                    \/ /\ baseline' = [baseline EXCEPT ![d][r.path] =
                                          [hash |-> disk[d][r.path].hash, mtime |-> r.mtime]]
                       /\ Here(disk[d][r.path])
                       /\ task'[d].sends # {} => disk[d][r.path].hash # baseline[d][r.path].hash
<1>1. PICK r \in task[d].reading :
        /\ IF Here(disk[d][r.path])
           THEN /\ baseline' = [baseline EXCEPT ![d][r.path] =
                                   [hash |-> disk[d][r.path].hash, mtime |-> r.mtime]]
                /\ tombs' = [tombs EXCEPT ![d][r.path] = 0]
           ELSE UNCHANGED state
        /\ task' = [task EXCEPT
                ![d].reading = {},
                ![d].sends = IF Here(disk[d][r.path]) /\ task[d].announce
                                /\ ~(disk[d][r.path].hash = baseline[d][r.path].hash)
                             THEN {[to |-> e, path |-> r.path] : e \in Linked(d)} ELSE {}]
        /\ troubled' = (troubled \/ disk[d][r.path].hash = baseline[d][r.path].hash)
        /\ UNCHANGED <<disk, scanned, net, quiet>>
  BY DEF ReadChanged
<1> DEFINE sends == IF Here(disk[d][r.path]) /\ task[d].announce
                       /\ ~(disk[d][r.path].hash = baseline[d][r.path].hash)
                    THEN {[to |-> e, path |-> r.path] : e \in Linked(d)} ELSE {}
<1>2. /\ Calm(task[d]) /\ TaskTyped /\ task[d] \in TaskSet /\ Phase(task[d])
      /\ task[d].kind \notin {"none", "apply"} /\ r.path \in Path /\ r.mtime \in 1 .. MaxTime
      /\ task[d].sends = {} /\ task[d].sending = {}
  BY ReadingIsCalm
<1>3. sends \in SUBSET SendTo
  <2> DEFINE everyone == {[to |-> e, path |-> r.path] : e \in Linked(d)}
  <2>1. everyone \in SUBSET SendTo
    <3>1. Linked(d) \subseteq Device
      BY DEF Linked
    <3>2. QED
      BY <1>2, <3>1 DEF SendTo
  <2>2. sends \in {everyone, {}}
    OBVIOUS
  <2> HIDE DEF sends, everyone
  <2>3. QED
    BY <2>1, <2>2
<1>4. sends # {} => Here(disk[d][r.path]) /\ disk[d][r.path].hash # baseline[d][r.path].hash
  OBVIOUS
<1>5. task' = [task EXCEPT ![d].reading = {}, ![d].sends = sends]
  BY <1>1
<1> HIDE DEF sends
<1>6. /\ task' \in [Device -> TaskSet] /\ OnlyTask(d)
      /\ task'[d].kind = task[d].kind /\ task'[d].from = task[d].from /\ task'[d].msg = task[d].msg
      /\ task'[d].reading = {} /\ task'[d].sends = sends
      /\ task'[d].sending = task[d].sending /\ task'[d].writing = task[d].writing
      /\ task'[d].written = task[d].written /\ task'[d].trashing = task[d].trashing
  BY <1>2, <1>3, <1>5 DEF TaskTyped, TaskSet, OnlyTask
<1>7. Phase(task'[d]) /\ Calm(task'[d])
  BY <1>2, <1>6 DEF Phase, Calm, AtMostOne
<1>8. Folders'
  <2>1. Here(disk[d][r.path]) => [hash |-> disk[d][r.path].hash, mtime |-> r.mtime] \in File
    BY <1>2, DiskFits DEF Shape, File
  <2>2. 0 \in 0 .. MaxTime
    BY ConfigAssumption
  <2>3. CASE Here(disk[d][r.path])
    <3> DEFINE f == [hash |-> disk[d][r.path].hash, mtime |-> r.mtime]
    <3>1. /\ baseline' = [baseline EXCEPT ![d][r.path] = f]
          /\ tombs' = [tombs EXCEPT ![d][r.path] = 0] /\ disk' = disk
      BY <1>1, <2>3
    <3>2. f \in File
      BY <2>1, <2>3
    <3> HIDE DEF f
    <3>3. QED
      BY <1>2, <2>2, <3>1, <3>2 DEF Shape, Folders
  <2>4. CASE ~Here(disk[d][r.path])
    BY <1>1, <2>4 DEF Shape, Folders, state
  <2>5. QED
    BY <2>3, <2>4
<1>9. Rest' /\ NetTyped'
  BY <1>1 DEF Shape, Rest, quiet, NetTyped
<1>10. /\ r.path \in Path
       /\ \/ ~Here(disk[d][r.path]) /\ baseline' = baseline /\ task'[d].sends = {}
          \/ /\ baseline' = [baseline EXCEPT ![d][r.path] =
                                [hash |-> disk[d][r.path].hash, mtime |-> r.mtime]]
             /\ Here(disk[d][r.path])
             /\ task'[d].sends # {} => disk[d][r.path].hash # baseline[d][r.path].hash
  <2>1. CASE Here(disk[d][r.path])
    BY <1>1, <1>2, <1>4, <1>6, <2>1
  <2>2. CASE ~Here(disk[d][r.path])
    BY <1>1, <1>2, <1>4, <1>6, <2>2 DEF state
  <2>3. QED
    BY <2>1, <2>2
<1>11. QED
  BY <1>1, <1>2, <1>6, <1>7, <1>8, <1>9, <1>10 DEF Moves, TaskStep

-----------------------------------------------------------------------------
(* Sending a file.                                                         *)

LEMMA SendingIsCalm ==
    ASSUME Shape, NEW d \in Device, Sending(d)
    PROVE  /\ Calm(task[d]) /\ TaskTyped /\ task[d] \in TaskSet /\ Phase(task[d])
           /\ task[d].kind # "none" /\ task[d].reading = {}
<1>1. task[d] \in TaskSet /\ Phase(task[d]) /\ TaskTyped
  BY TaskIs DEF Shape, InPhase
<1>2. task[d].written \in BOOLEAN
  BY <1>1 DEF TaskSet
<1>3. task[d] # NoTask
  BY DEF Sending, NoTask, Task
<1>4. QED
  BY <1>1, <1>2, <1>3 DEF Phase, Calm, Sending

LEMMA SendStatIsFine ==
    ASSUME Shape, NEW d \in Device, SendStat(d)
    PROVE  Moves(d) /\ Harmless(d)
<1>1. PICK s \in task[d].sends :
        /\ task' = [task EXCEPT
                ![d].sends = @ \ {s},
                ![d].sending = IF (/\ InScope(d, s.path) /\ Trusts(d, s.to, s.path)
                                   /\ disk[d][s.path].hash \notin Large) /\ Here(disk[d][s.path])
                               THEN {[to |-> s.to, path |-> s.path, mtime |-> disk[d][s.path].mtime]}
                               ELSE {}]
        /\ troubled' = (troubled \/ ~Here(disk[d][s.path]))
        /\ UNCHANGED <<folder, scanned, net, quiet>>
  BY DEF SendStat
<1> DEFINE sending == IF (/\ InScope(d, s.path) /\ Trusts(d, s.to, s.path)
                          /\ disk[d][s.path].hash \notin Large) /\ Here(disk[d][s.path])
                      THEN {[to |-> s.to, path |-> s.path, mtime |-> disk[d][s.path].mtime]}
                      ELSE {}
<1>2. /\ Calm(task[d]) /\ TaskTyped /\ task[d] \in TaskSet /\ Phase(task[d])
      /\ task[d].kind # "none" /\ task[d].reading = {}
  BY SendingIsCalm DEF Sending
<1>3. s \in SendTo
  BY <1>2 DEF TaskSet
<1>4. sending \in SUBSET SendingOf /\ AtMostOne(sending)
  <2>1. s.path \in Path /\ s.to \in Device
    BY <1>3 DEF SendTo
  <2>2. Here(disk[d][s.path]) => disk[d][s.path].mtime \in 1 .. MaxTime
    BY <2>1, DiskFits DEF Shape, File
  <2>3. QED
    BY <2>1, <2>2 DEF SendingOf, AtMostOne
<1>5. task' = [task EXCEPT ![d].sends = @ \ {s}, ![d].sending = sending]
  BY <1>1
<1> HIDE DEF sending
<1>6. /\ task' \in [Device -> TaskSet] /\ OnlyTask(d)
      /\ task'[d].kind = task[d].kind /\ task'[d].from = task[d].from /\ task'[d].msg = task[d].msg /\ task'[d].todo = task[d].todo
      /\ task'[d].reading = {} /\ task'[d].sending = sending
      /\ task'[d].writing = task[d].writing
      /\ task'[d].written = task[d].written /\ task'[d].trashing = task[d].trashing
  BY <1>2, <1>4, <1>5 DEF TaskTyped, TaskSet, OnlyTask
<1>7. Phase(task'[d]) /\ Calm(task'[d])
  BY <1>2, <1>4, <1>6 DEF Phase, Calm
<1>8. Folders' /\ Rest' /\ NetTyped' /\ disk' = disk /\ baseline' = baseline
  BY <1>1 DEF Shape, Folders, Rest, NetTyped, folder, quiet
<1>9. QED
  BY <1>2, <1>6, <1>7, <1>8, CalmIsHarmless DEF Moves, TaskStep

LEMMA SendReadIsFine ==
    ASSUME Shape, NEW d \in Device, SendRead(d)
    PROVE  Moves(d) /\ Harmless(d)
<1>1. PICK s \in task[d].sending :
        /\ net' = IF Here(disk[d][s.path])
                  THEN Sent(d, {s.to}, [e \in Device |-> <<[type |-> "file", path |-> s.path,
                                                     mtime |-> s.mtime, hash |-> disk[d][s.path].hash]>>])
                  ELSE net
        /\ task' = [task EXCEPT ![d].sending = {}]
        /\ troubled' = (troubled \/ ~Here(disk[d][s.path]))
        /\ UNCHANGED <<folder, scanned, quiet>>
  BY DEF SendRead
<1>2. /\ Calm(task[d]) /\ TaskTyped /\ task[d] \in TaskSet /\ Phase(task[d])
      /\ task[d].kind # "none" /\ task[d].reading = {}
  BY SendingIsCalm DEF Sending
<1>3. s \in SendingOf
  BY <1>2 DEF TaskSet
<1>4. s.path \in Path /\ s.mtime \in 1 .. MaxTime
  BY <1>3 DEF SendingOf
<1>5. NetTyped'
  <2>1. CASE ~Here(disk[d][s.path])
    BY <1>1, <2>1 DEF Shape, NetTyped
  <2>2. CASE Here(disk[d][s.path])
    <3> DEFINE m == [type |-> "file", path |-> s.path, mtime |-> s.mtime, hash |-> disk[d][s.path].hash]
               ms == [e \in Device |-> <<m>>]
    <3>1. disk[d][s.path].hash \in Hash
      BY <1>4, <2>2, DiskFits DEF Shape, File
    <3>2. m \in Message
      BY <1>4, <3>1 DEF Message, FileSent
    <3>3. net' = Sent(d, {s.to}, ms)
      BY <1>1, <2>2
    <3> HIDE DEF m
    <3>4. \A e \in Device : ms[e] \in Seq(Message)
      BY <3>2, SingleMessage
    <3> HIDE DEF ms
    <3>5. QED
      BY <3>3, <3>4, SentTyped DEF Shape, NetTyped
  <2>3. QED
    BY <2>1, <2>2
<1>6. /\ task' \in [Device -> TaskSet] /\ OnlyTask(d)
      /\ task'[d].kind = task[d].kind /\ task'[d].from = task[d].from /\ task'[d].msg = task[d].msg /\ task'[d].todo = task[d].todo
      /\ task'[d].reading = {} /\ task'[d].sending = {} /\ task'[d].sends = task[d].sends
      /\ task'[d].writing = task[d].writing
      /\ task'[d].written = task[d].written /\ task'[d].trashing = task[d].trashing
  BY <1>1, <1>2 DEF TaskTyped, TaskSet, OnlyTask
<1>7. Phase(task'[d]) /\ Calm(task'[d])
  BY <1>2, <1>6 DEF Phase, Calm, AtMostOne
<1>8. Folders' /\ Rest' /\ disk' = disk /\ baseline' = baseline
  BY <1>1 DEF Shape, Folders, Rest, folder, quiet
<1>9. QED
  BY <1>2, <1>5, <1>6, <1>7, <1>8, CalmIsHarmless DEF Moves, TaskStep

-----------------------------------------------------------------------------
(* What a task comes to once its paths are refreshed.                      *)

LEMMA ReadyTask ==
    ASSUME Shape, NEW d \in Device, NEW kind, Ready(d, kind)
    PROVE  /\ Calm(task[d]) /\ TaskTyped /\ task[d] \in TaskSet /\ Phase(task[d])
           /\ task[d].kind = kind /\ task[d].todo = {} /\ task[d].reading = {}
           /\ task[d].sends = {} /\ task[d].sending = {}
           /\ task[d].writing = {} /\ task[d].trashing = {}
BY TaskIs, ReadyIsCalm, ReadyFacts DEF Shape, InPhase

LEMMA Stopping ==
    ASSUME Shape, NEW d \in Device, Calm(task[d]), task' = [task EXCEPT ![d] = NoTask],
           UNCHANGED <<folder, scanned, world>>, NetTyped'
    PROVE  Moves(d) /\ Harmless(d)
<1>1. Folders' /\ Rest' /\ disk' = disk /\ baseline' = baseline
  BY RestStays
<1>2. NoTask \in TaskSet /\ Phase(NoTask) /\ Calm(NoTask)
  BY NoTaskFits DEF NoTask, Task, Calm
<1>3. TaskStep(d) /\ Harmless(d)
  BY <1>1, <1>2, Starting DEF Shape
<1>4. QED
  BY <1>1, <1>3 DEF Moves

LEMMA SendManifestIsFine ==
    ASSUME Shape, NEW d \in Device, SendManifest(d)
    PROVE  Moves(d) /\ Harmless(d)
<1> DEFINE ms == [e \in Device |-> <<ManifestFor(d, e)>>]
<1>1. /\ \/ Ready(d, "opened") /\ net' = Sent(d, {task[d].from}, ms)
         \/ Ready(d, "rescope") /\ net' = Sent(d, Device, ms)
      /\ task' = [task EXCEPT ![d] = NoTask]
      /\ UNCHANGED <<folder, scanned, world>>
  BY DEF SendManifest
<1>2. \A e \in Device : ms[e] \in Seq(Message)
  BY ManifestFits, SingleMessage DEF Shape
<1> HIDE DEF ms
<1>3. NetTyped'
  <2>1. /\ Sent(d, {task[d].from}, ms) \in [Device -> [Device -> Seq(Message)]]
        /\ Sent(d, Device, ms) \in [Device -> [Device -> Seq(Message)]]
    BY <1>2, SentTyped DEF Shape
  <2>2. QED
    BY <1>1, <2>1 DEF NetTyped
<1>4. Calm(task[d])
  BY <1>1, ReadyTask
<1>5. QED
  BY <1>1, <1>3, <1>4, Stopping

LEMMA FinishTaskIsFine ==
    ASSUME Shape, NEW d \in Device, FinishTask(d)
    PROVE  Moves(d) /\ Harmless(d)
<1> DEFINE m == [type |-> "request", paths |-> task[d].wants]
           ms == [e \in Device |-> <<m>>]
<1>1. /\ Ready(d, "scan") \/ Ready(d, "apply")
      /\ net' = IF task[d].wants = {} THEN net ELSE Sent(d, {task[d].from}, ms)
      /\ task' = [task EXCEPT ![d] = NoTask]
      /\ UNCHANGED <<folder, scanned, world>>
  BY DEF FinishTask
<1>2. Calm(task[d]) /\ task[d] \in TaskSet
  BY <1>1, ReadyTask
<1>3. m \in Message
  BY <1>2 DEF TaskSet, Message, Request
<1> HIDE DEF m
<1>4. \A e \in Device : ms[e] \in Seq(Message)
  BY <1>3, SingleMessage
<1> HIDE DEF ms
<1>5. NetTyped'
  BY <1>1, <1>4, SentTyped DEF Shape, NetTyped
<1>6. QED
  BY <1>1, <1>2, <1>5, Stopping

LEMMA CompareManifestIsFine ==
    ASSUME Shape, NEW d \in Device, CompareManifest(d)
    PROVE  Moves(d) /\ Harmless(d)
<1> DEFINE m == task[d].msg
           e == task[d].from
           considered == {p \in Path : Here(m.files[p]) /\ InScope(d, p) /\ Trusts(d, e, p)}
           here == {p \in considered : Here(baseline[d][p])}
           refused == {p \in considered \ here :
                         tombs[d][p] > 0 /\ ~RemoteWins(d, e, m.files[p], Deletion(tombs[d][p]))}
           told == {DeleteMsg(p, tombs[d][p]) : p \in refused}
           ms == [x \in Device |-> SetToSeq(told)]
           drops == {[path |-> p, at |-> m.deleted[p]] :
                       p \in {q \in Path : m.deleted[q] > 0 /\ InScope(d, q)}}
           wants == {p \in here : /\ m.files[p].hash # baseline[d][p].hash
                                  /\ RemoteWins(d, e, m.files[p], baseline[d][p])}
                      \cup (considered \ (here \cup refused))
           t == Answer(e, task[d].announce, {}, drops, wants)
<1>1. /\ Ready(d, "manifest")
      /\ net' = Sent(d, {e}, ms)
      /\ task' = [task EXCEPT ![d] = t]
      /\ UNCHANGED <<folder, scanned, world>>
  BY DEF CompareManifest
<1>2. /\ Calm(task[d]) /\ TaskTyped /\ task[d] \in TaskSet /\ Phase(task[d])
      /\ task[d].kind = "manifest"
  BY <1>1, ReadyTask
<1>3. m \in Manifest /\ e \in Device /\ task[d].announce \in BOOLEAN
  BY <1>2 DEF Phase, TaskSet
<1> HIDE DEF m, e
<1>4. wants \in SUBSET Path
  OBVIOUS
<1>5. drops \in SUBSET DropOf
  <2>1. \A p \in Path : m.deleted[p] \in 0 .. MaxTime
    BY <1>3 DEF Manifest
  <2>2. \A p \in Path : m.deleted[p] > 0 => m.deleted[p] \in 1 .. MaxTime
    BY <2>1
  <2>3. QED
    BY <2>2 DEF DropOf
<1>6. told \subseteq Message /\ IsFiniteSet(told)
  <2>1. \A p \in refused : p \in Path /\ tombs[d][p] \in 0 .. MaxTime /\ tombs[d][p] > 0
    BY DEF Shape, Folders
  <2>2. refused \subseteq Path
    OBVIOUS
  <2> HIDE DEF refused
  <2>3. told \subseteq Message
    <3>1. \A p \in refused : tombs[d][p] \in 1 .. MaxTime
      BY <2>1
    <3>2. QED
      BY <2>2, <3>1, DeletionFits
  <2>4. IsFiniteSet(refused)
    BY <2>2, FS_Subset, ConfigAssumption
  <2>5. IsFiniteSet(told)
    <3> DEFINE f == [p \in refused |-> DeleteMsg(p, tombs[d][p])]
    <3>1. f \in Surjection(refused, told)
      BY DEF Surjection
    <3> HIDE DEF f, told
    <3>2. QED
      BY <2>4, <3>1, FS_Surjection
  <2>6. QED
    BY <2>3, <2>5
<1> HIDE DEF told
<1>7. \A x \in Device : ms[x] \in Seq(Message)
  <2>1. SetToSeq(told) \in Seq(told)
    BY <1>6, SeqOfASet
  <2>2. SetToSeq(told) \in Seq(Message)
    BY <1>6, <2>1
  <2>3. QED
    BY <2>2
<1> HIDE DEF ms, drops, wants
<1>8. NetTyped'
  BY <1>1, <1>7, SentTyped DEF Shape, NetTyped
<1>9. t \in TaskSet /\ Phase(t) /\ Calm(t)
  BY <1>3, <1>4, <1>5, AnswerFits
<1>10. Folders' /\ Rest' /\ disk' = disk /\ baseline' = baseline
  BY <1>1, RestStays
<1> HIDE DEF t
<1>11. TaskStep(d) /\ Harmless(d)
  BY <1>1, <1>2, <1>9, <1>10, Starting
<1>12. QED
  BY <1>8, <1>10, <1>11 DEF Moves

LEMMA DeleteRefreshedIsFine ==
    ASSUME Shape, NEW d \in Device, DeleteRefreshed(d)
    PROVE  Moves(d) /\ Harmless(d)
<1> DEFINE x == [path |-> task[d].msg.path, at |-> task[d].msg.at]
<1>1. /\ Ready(d, "delete")
      /\ task' = [task EXCEPT ![d].kind = "apply", ![d].drops = {x}]
      /\ UNCHANGED <<folder, scanned, net, world>>
  BY DEF DeleteRefreshed
<1>2. /\ Calm(task[d]) /\ TaskTyped /\ task[d] \in TaskSet /\ Phase(task[d])
      /\ task[d].kind = "delete" /\ task[d].todo = {} /\ task[d].reading = {}
      /\ task[d].sends = {} /\ task[d].sending = {}
  BY <1>1, ReadyTask
<1>3. task[d].msg \in Delete /\ task[d].from \in Device
  BY <1>2 DEF Phase
<1>4. x \in DropOf
  BY <1>3 DEF Delete, DropOf
<1> HIDE DEF x
<1>5. /\ task' \in [Device -> TaskSet] /\ OnlyTask(d)
      /\ task'[d].kind = "apply" /\ task'[d].from = task[d].from /\ task'[d].msg = task[d].msg
      /\ task'[d].todo = task[d].todo /\ task'[d].reading = task[d].reading
      /\ task'[d].sends = task[d].sends /\ task'[d].sending = task[d].sending
      /\ task'[d].writing = task[d].writing
      /\ task'[d].written = task[d].written /\ task'[d].trashing = task[d].trashing
  BY <1>1, <1>2, <1>4 DEF TaskTyped, TaskSet, OnlyTask, Kind
<1>6. Phase(task'[d]) /\ Calm(task'[d])
  BY <1>2, <1>3, <1>5 DEF Phase, Calm, AtMostOne
<1>7. Folders' /\ Rest' /\ disk' = disk /\ baseline' = baseline
  BY <1>1, RestStays
<1>8. NetTyped'
  BY <1>1 DEF Shape, NetTyped
<1>9. QED
  BY <1>2, <1>5, <1>6, <1>7, <1>8, CalmIsHarmless DEF Moves, TaskStep

-----------------------------------------------------------------------------
(* Who is newer.                                                           *)

LEMMA RemoteWinsIsNewer ==
    ASSUME NEW d, NEW e, NEW theirs, NEW ours, theirs.mtime \in Nat, ours.mtime \in Nat,
           RemoteWins(d, e, theirs, ours)
    PROVE  ours.mtime <= theirs.mtime
BY DEF RemoteWins, NewerIsFirst

(* The file as it is on the disk is no newer than the baseline of it.      *)
LEMMA UnchangedSince ==
    ASSUME Shape, NEW d \in Device, NEW p \in Path, NEW at \in Nat, ~ChangedSince(d, p),
           Here(baseline[d][p]) => baseline[d][p].mtime <= at
    PROVE  Outdated(d, p, at)
<1>1. disk[d][p].mtime \in Nat /\ baseline[d][p].mtime \in Nat
  BY DiskFits DEF Shape
<1>2. QED
  BY <1>1 DEF ChangedSince, Outdated

-----------------------------------------------------------------------------
(* Deletions.                                                              *)

LEMMA TombsFit ==
    ASSUME tombs \in [Device -> [Path -> 0 .. MaxTime]], NEW d \in Device, NEW p, NEW at \in 0 .. MaxTime
    PROVE  [tombs EXCEPT ![d][p] = at] \in [Device -> [Path -> 0 .. MaxTime]]
OBVIOUS

LEMMA ApplyDeleteIsFine ==
    ASSUME Shape, NEW d \in Device, ApplyDelete(d)
    PROVE  /\ Moves(d) /\ Calm(task[d]) /\ disk' = disk /\ baseline' = baseline
           /\ task'[d].written = FALSE /\ task'[d].writing = {}
           /\ \A x \in task'[d].trashing : Outdated(d, x.path, x.at)
<1>1. PICK x \in task[d].drops :
        /\ Ready(d, "apply")
        /\ \/ tombs' = tombs \/ tombs' = [tombs EXCEPT ![d][x.path] = x.at]
        /\ \/ task' = [task EXCEPT ![d].drops = @ \ {x}]
           \/ task' = [task EXCEPT ![d].drops = @ \ {x},
                                   ![d].sends = {[to |-> task[d].from, path |-> x.path]}]
           \/ /\ RemoteWins(d, task[d].from, Deletion(x.at), baseline[d][x.path])
              /\ ~ChangedSince(d, x.path)
              /\ task' = [task EXCEPT ![d].drops = @ \ {x}, ![d].trashing = {x}]
        /\ UNCHANGED <<disk, baseline, scanned, net, world>>
  BY DEF ApplyDelete
<1>2. /\ Calm(task[d]) /\ TaskTyped /\ task[d] \in TaskSet /\ Phase(task[d])
      /\ task[d].kind = "apply" /\ task[d].todo = {} /\ task[d].reading = {}
      /\ task[d].sends = {} /\ task[d].sending = {}
      /\ task[d].writing = {} /\ task[d].trashing = {}
  BY <1>1, ReadyTask
<1>3. task[d].from \in Device
  BY <1>2 DEF Phase
<1>4. x \in DropOf /\ x.path \in Path /\ x.at \in 1 .. MaxTime /\ x.at \in 0 .. MaxTime /\ x.at \in Nat
  <2>1. x \in DropOf
    BY <1>2 DEF TaskSet
  <2>2. QED
    BY <2>1, ConfigAssumption DEF DropOf
<1>5. Folders'
  <2>1. tombs \in [Device -> [Path -> 0 .. MaxTime]]
    BY DEF Shape, Folders
  <2>2. [tombs EXCEPT ![d][x.path] = x.at] \in [Device -> [Path -> 0 .. MaxTime]]
    BY <1>4, <2>1, TombsFit
  <2>3. tombs' \in [Device -> [Path -> 0 .. MaxTime]]
    BY <1>1, <2>1, <2>2
  <2>4. disk' = disk /\ baseline' = baseline
    BY <1>1
  <2>5. QED
    BY <2>3, <2>4 DEF Shape, Folders
<1>6. Rest' /\ NetTyped'
  BY <1>1 DEF Shape, Rest, NetTyped, world, quiet
<1> DEFINE Same(t) == /\ task' \in [Device -> TaskSet] /\ OnlyTask(d)
                      /\ t.kind = task[d].kind /\ t.from = task[d].from /\ t.msg = task[d].msg
                      /\ t.todo = task[d].todo /\ t.reading = task[d].reading
                      /\ t.sending = task[d].sending /\ t.writing = task[d].writing
                      /\ t.written = task[d].written
<1>7. CASE task' = [task EXCEPT ![d].drops = @ \ {x}]
  <2>1. Same(task'[d]) /\ task'[d].sends = {} /\ task'[d].trashing = {}
    BY <1>2, <1>7 DEF TaskTyped, TaskSet, OnlyTask
  <2>2. TaskStep(d) /\ task'[d].written = FALSE /\ task'[d].writing = {}
    BY <1>2, <1>3, <2>1 DEF Phase, AtMostOne, Calm, TaskStep
  <2>3. QED
    BY <1>1, <1>2, <1>5, <1>6, <2>1, <2>2 DEF Moves
<1>8. CASE task' = [task EXCEPT ![d].drops = @ \ {x},
                                ![d].sends = {[to |-> task[d].from, path |-> x.path]}]
  <2> DEFINE s == [to |-> task[d].from, path |-> x.path]
  <2>1. s \in SendTo
    BY <1>3, <1>4 DEF SendTo
  <2>2. task' = [task EXCEPT ![d].drops = @ \ {x}, ![d].sends = {s}]
    BY <1>8
  <2> HIDE DEF s
  <2>3. Same(task'[d]) /\ task'[d].trashing = {}
    BY <1>2, <2>1, <2>2 DEF TaskTyped, TaskSet, OnlyTask
  <2>4. TaskStep(d) /\ task'[d].written = FALSE /\ task'[d].writing = {}
    BY <1>2, <1>3, <2>3 DEF Phase, AtMostOne, Calm, TaskStep
  <2>5. QED
    BY <1>1, <1>2, <1>5, <1>6, <2>3, <2>4 DEF Moves
<1>9. CASE /\ RemoteWins(d, task[d].from, Deletion(x.at), baseline[d][x.path])
           /\ ~ChangedSince(d, x.path)
           /\ task' = [task EXCEPT ![d].drops = @ \ {x}, ![d].trashing = {x}]
  <2>1. Same(task'[d]) /\ task'[d].sends = {} /\ task'[d].trashing = {x}
    BY <1>2, <1>4, <1>9 DEF TaskTyped, TaskSet, OnlyTask
  <2>2. TaskStep(d) /\ task'[d].written = FALSE /\ task'[d].writing = {}
    BY <1>2, <1>3, <2>1 DEF Phase, AtMostOne, Calm, TaskStep
  <2>3. Outdated(d, x.path, x.at)
    <3>1. baseline[d][x.path].mtime \in Nat
      BY <1>4, DiskFits DEF Shape
    <3>2. Deletion(x.at).mtime = x.at
      BY DEF Deletion
    <3>3. baseline[d][x.path].mtime <= x.at
      BY <1>4, <1>9, <3>1, <3>2, RemoteWinsIsNewer
    <3>4. QED
      BY <1>4, <1>9, <3>3, UnchangedSince
  <2>4. \A y \in task'[d].trashing : Outdated(d, y.path, y.at)
    BY <2>1, <2>3
  <2>5. QED
    BY <1>1, <1>2, <1>5, <1>6, <2>2, <2>4 DEF Moves
<1>10. QED
  BY <1>1, <1>7, <1>8, <1>9

LEMMA TrashIsFine ==
    ASSUME Shape, NEW d \in Device, Trash(d)
    PROVE  /\ Moves(d) /\ ~task[d].written /\ Calm(task'[d])
           /\ \E x \in task[d].trashing :
                /\ x.path \in Path
                /\ \/ disk' = disk /\ baseline' = baseline
                   \/ /\ disk' = [disk EXCEPT ![d][x.path] = NoFile]
                      /\ baseline' = [baseline EXCEPT ![d][x.path] = NoFile]
                      /\ tombs' = [tombs EXCEPT ![d][x.path] = x.at]
<1>1. PICK x \in task[d].trashing :
        /\ task' = [task EXCEPT ![d].trashing = {}]
        /\ IF Here(disk[d][x.path])
           THEN /\ disk' = [disk EXCEPT ![d][x.path] = NoFile]
                /\ baseline' = [baseline EXCEPT ![d][x.path] = NoFile]
                /\ tombs' = [tombs EXCEPT ![d][x.path] = x.at]
           ELSE UNCHANGED folder
        /\ UNCHANGED <<scanned, net, world>>
  BY DEF Trash
<1>2. task[d] \in TaskSet /\ Phase(task[d]) /\ TaskTyped
  BY TaskIs DEF Shape, InPhase
<1>3. x \in DropOf /\ x.path \in Path /\ x.at \in 0 .. MaxTime
  <2>1. x \in DropOf
    BY <1>2 DEF TaskSet
  <2>2. QED
    BY <2>1, ConfigAssumption DEF DropOf
<1>4. /\ task[d].kind = "apply" /\ task[d].writing = {} /\ ~task[d].written
      /\ task[d].written \in BOOLEAN
  BY <1>2 DEF Phase, TaskSet
<1>5. /\ task' \in [Device -> TaskSet] /\ OnlyTask(d)
      /\ task'[d].kind = task[d].kind /\ task'[d].from = task[d].from /\ task'[d].msg = task[d].msg
      /\ task'[d].todo = task[d].todo /\ task'[d].reading = task[d].reading
      /\ task'[d].sends = task[d].sends /\ task'[d].sending = task[d].sending
      /\ task'[d].writing = task[d].writing
      /\ task'[d].written = task[d].written /\ task'[d].trashing = {}
  BY <1>1, <1>2 DEF TaskTyped, TaskSet, OnlyTask
<1>6. Phase(task'[d]) /\ Calm(task'[d])
  BY <1>2, <1>4, <1>5 DEF Phase, Calm, AtMostOne
<1>7. Folders' /\ (\/ disk' = disk /\ baseline' = baseline
                   \/ /\ disk' = [disk EXCEPT ![d][x.path] = NoFile]
                      /\ baseline' = [baseline EXCEPT ![d][x.path] = NoFile]
                      /\ tombs' = [tombs EXCEPT ![d][x.path] = x.at])
  <2>1. CASE Here(disk[d][x.path])
    <3>1. /\ disk' = [disk EXCEPT ![d][x.path] = NoFile]
          /\ baseline' = [baseline EXCEPT ![d][x.path] = NoFile]
          /\ tombs' = [tombs EXCEPT ![d][x.path] = x.at]
      BY <1>1, <2>1
    <3>2. tombs' \in [Device -> [Path -> 0 .. MaxTime]]
      BY <1>3, <3>1, TombsFit DEF Shape, Folders
    <3>3. QED
      BY <1>3, <3>1, <3>2 DEF Shape, Folders
  <2>2. CASE ~Here(disk[d][x.path])
    BY <1>1, <2>2 DEF Shape, Folders, folder
  <2>3. QED
    BY <2>1, <2>2
<1>8. Rest' /\ NetTyped'
  BY <1>1 DEF Shape, Rest, NetTyped, world, quiet
<1>9. QED
  BY <1>3, <1>4, <1>5, <1>6, <1>7, <1>8 DEF Moves, TaskStep

-----------------------------------------------------------------------------
(* A file of another device.                                               *)

LEMMA FileReady ==
    ASSUME Shape, NEW d \in Device, Ready(d, "file")
    PROVE  /\ Calm(task[d]) /\ TaskTyped /\ task[d] \in TaskSet /\ Phase(task[d])
           /\ task[d].kind = "file" /\ task[d].todo = {} /\ task[d].reading = {}
           /\ task[d].sends = {} /\ task[d].sending = {}
           /\ task[d].writing = {} /\ task[d].trashing = {}
           /\ task[d].from \in Device /\ task[d].msg \in FileSent
           /\ task[d].msg.path \in Path /\ task[d].msg.mtime \in 1 .. MaxTime
           /\ task[d].msg.hash \in Hash \ Large
<1>1. /\ Calm(task[d]) /\ TaskTyped /\ task[d] \in TaskSet /\ Phase(task[d])
      /\ task[d].kind = "file" /\ task[d].todo = {} /\ task[d].reading = {}
      /\ task[d].sends = {} /\ task[d].sending = {}
      /\ task[d].writing = {} /\ task[d].trashing = {}
  BY ReadyTask
<1>2. task[d].from \in Device /\ task[d].msg \in FileSent /\ task[d].msg.hash \notin Large
  BY <1>1 DEF Phase
<1>3. QED
  BY <1>1, <1>2 DEF FileSent

LEMMA BaselineFits ==
    ASSUME baseline \in [Device -> [Path -> File \cup {NoFile}]], NEW d \in Device, NEW p,
           NEW f \in File \cup {NoFile}
    PROVE  [baseline EXCEPT ![d][p] = f] \in [Device -> [Path -> File \cup {NoFile}]]
OBVIOUS

LEMMA SameContentIsFine ==
    ASSUME Shape, NEW d \in Device, SameContent(d)
    PROVE  /\ Moves(d) /\ Calm(task[d]) /\ Calm(task'[d]) /\ disk' = disk
           /\ \A e \in Device, p \in Path : baseline'[e][p].hash = baseline[e][p].hash
           /\ \A e \in Device : e # d => baseline'[e] = baseline[e]
<1> DEFINE m == task[d].msg
           p == m.path
           f == [baseline[d][p] EXCEPT !.mtime = m.mtime]
<1>1. /\ Ready(d, "file") /\ baseline[d][p].hash = m.hash
      /\ \/ baseline' = baseline \/ baseline' = [baseline EXCEPT ![d][p].mtime = m.mtime]
      /\ task' = [task EXCEPT ![d] = NoTask]
      /\ UNCHANGED <<disk, tombs, scanned, net, world>>
  BY DEF SameContent
<1>2. /\ Calm(task[d]) /\ TaskTyped /\ p \in Path /\ m.mtime \in 1 .. MaxTime
      /\ m.hash \in Hash
  BY <1>1, FileReady
<1> HIDE DEF p, m
<1>3. baseline[d][p] \in File
  <2>1. baseline[d][p].hash # 0
    BY <1>1, <1>2, ConfigAssumption
  <2>2. QED
    BY <1>2, <2>1, DiskFits DEF Shape, Here
<1>4. f \in File /\ f.hash = baseline[d][p].hash
  BY <1>2, <1>3 DEF File
<1>5. baseline \in [Device -> [Path -> File \cup {NoFile}]]
  BY DEF Shape, Folders
<1>6. \/ baseline' = baseline \/ baseline' = [baseline EXCEPT ![d][p] = f]
  BY <1>1, <1>2, <1>5
<1> HIDE DEF f
<1>7. baseline' \in [Device -> [Path -> File \cup {NoFile}]]
  BY <1>4, <1>5, <1>6, BaselineFits
<1>8. \A e \in Device, q \in Path : baseline'[e][q].hash = baseline[e][q].hash
  BY <1>2, <1>4, <1>5, <1>6
<1>9. \A e \in Device : e # d => baseline'[e] = baseline[e]
  BY <1>5, <1>6
<1>10. Folders' /\ Rest' /\ NetTyped'
  BY <1>1, <1>7 DEF Shape, Folders, Rest, NetTyped, world, quiet
<1>11. TaskStep(d) /\ Calm(task'[d])
  <2>1. NoTask \in TaskSet /\ Phase(NoTask) /\ Calm(NoTask)
    BY NoTaskFits DEF NoTask, Task, Calm
  <2>2. task' \in [Device -> TaskSet] /\ task'[d] = NoTask /\ OnlyTask(d)
    BY <1>1, <1>2, <2>1 DEF TaskTyped, OnlyTask
  <2>3. QED
    BY <2>1, <2>2 DEF TaskStep
<1>12. QED
  BY <1>1, <1>2, <1>8, <1>9, <1>10, <1>11 DEF Moves

LEMMA AnswerOlderIsFine ==
    ASSUME Shape, NEW d \in Device, AnswerOlder(d)
    PROVE  Moves(d) /\ Harmless(d)
<1> DEFINE m == task[d].msg
           e == task[d].from
           s == [to |-> e, path |-> m.path]
           msg == DeleteMsg(m.path, tombs[d][m.path])
           ms == [x \in Device |-> <<msg>>]
<1>1. /\ Ready(d, "file") /\ Beaten(d)
      /\ \/ /\ task' = [task EXCEPT ![d].kind = "apply", ![d].sends = {s}]
            /\ UNCHANGED net
         \/ /\ ~Here(baseline[d][m.path])
            /\ net' = Sent(d, {e}, ms)
            /\ task' = [task EXCEPT ![d] = NoTask]
      /\ UNCHANGED <<folder, scanned, world>>
  BY DEF AnswerOlder
<1>2. /\ Calm(task[d]) /\ TaskTyped /\ task[d] \in TaskSet /\ Phase(task[d])
      /\ task[d].todo = {} /\ task[d].reading = {} /\ task[d].sending = {}
      /\ task[d].from \in Device /\ m.path \in Path
  BY <1>1, FileReady
<1>3. s \in SendTo
  BY <1>2 DEF SendTo
<1>4. CASE /\ task' = [task EXCEPT ![d].kind = "apply", ![d].sends = {s}]
           /\ UNCHANGED net
  <2> HIDE DEF s
  <2>1. /\ task' \in [Device -> TaskSet] /\ OnlyTask(d)
        /\ task'[d].kind = "apply" /\ task'[d].from = task[d].from /\ task'[d].msg = task[d].msg
        /\ task'[d].todo = task[d].todo /\ task'[d].reading = task[d].reading
        /\ task'[d].sending = task[d].sending /\ task'[d].writing = task[d].writing
        /\ task'[d].written = task[d].written /\ task'[d].trashing = task[d].trashing
    BY <1>2, <1>3, <1>4 DEF TaskTyped, TaskSet, OnlyTask, Kind
  <2>2. Phase(task'[d]) /\ Calm(task'[d])
    BY <1>2, <2>1 DEF Phase, Calm, AtMostOne
  <2>3. Folders' /\ Rest' /\ disk' = disk /\ baseline' = baseline
    BY <1>1, RestStays
  <2>4. NetTyped'
    BY <1>4 DEF Shape, NetTyped
  <2>5. QED
    BY <1>2, <2>1, <2>2, <2>3, <2>4, CalmIsHarmless DEF Moves, TaskStep
<1>5. CASE /\ ~Here(baseline[d][m.path])
           /\ net' = Sent(d, {e}, ms)
           /\ task' = [task EXCEPT ![d] = NoTask]
  <2>1. tombs[d][m.path] \in 1 .. MaxTime
    <3>1. tombs[d][m.path] \in 0 .. MaxTime
      BY <1>2, DiskFits DEF Shape
    <3>2. tombs[d][m.path] > 0
      BY <1>1, <1>5 DEF Beaten
    <3>3. QED
      BY <3>1, <3>2
  <2>2. msg \in Message
    BY <1>2, <2>1, DeletionFits
  <2> HIDE DEF msg
  <2>3. \A x \in Device : ms[x] \in Seq(Message)
    BY <2>2, SingleMessage
  <2> HIDE DEF ms
  <2>4. NetTyped'
    BY <1>5, <2>3, SentTyped DEF Shape, NetTyped
  <2>5. QED
    BY <1>1, <1>2, <1>5, <2>4, Stopping
<1>6. QED
  BY <1>1, <1>4, <1>5

(* The version taken is as new as the file it will replace.                *)
LEMMA AcceptNewerIsFine ==
    ASSUME Shape, NEW d \in Device, AcceptNewer(d)
    PROVE  /\ Moves(d) /\ Calm(task[d]) /\ disk' = disk /\ baseline' = baseline
           /\ task'[d].written = FALSE /\ task'[d].trashing = {}
           /\ \A w \in task'[d].writing : Outdated(d, w.path, w.mtime)
<1> DEFINE m == task[d].msg
           w == [path |-> m.path, hash |-> m.hash, mtime |-> m.mtime]
<1>1. /\ Ready(d, "file") /\ ~Beaten(d)
      /\ \/ task' = [task EXCEPT ![d] = NoTask]
         \/ ~ChangedSince(d, m.path) /\ task' = [task EXCEPT ![d].writing = {w}]
      /\ UNCHANGED <<folder, scanned, net, world>>
  BY DEF AcceptNewer
<1>2. /\ Calm(task[d]) /\ TaskTyped /\ task[d] \in TaskSet /\ Phase(task[d])
      /\ task[d].kind = "file" /\ task[d].todo = {} /\ task[d].reading = {}
      /\ task[d].sends = {} /\ task[d].sending = {} /\ task[d].trashing = {}
      /\ m.path \in Path /\ m.mtime \in 1 .. MaxTime /\ m.hash \in Hash \ Large
  BY <1>1, FileReady
<1>3. Folders' /\ Rest' /\ disk' = disk /\ baseline' = baseline
  BY <1>1, RestStays
<1>4. NetTyped'
  BY <1>1 DEF Shape, NetTyped
<1>5. CASE task' = [task EXCEPT ![d] = NoTask]
  <2>1. Moves(d) /\ Harmless(d)
    BY <1>1, <1>2, <1>4, <1>5, Stopping
  <2>2. task'[d].written = FALSE /\ task'[d].writing = {} /\ task'[d].trashing = {}
    BY <1>2, <1>5 DEF TaskTyped, NoTask, Task
  <2>3. QED
    BY <1>2, <1>3, <2>1, <2>2
<1>6. CASE ~ChangedSince(d, m.path) /\ task' = [task EXCEPT ![d].writing = {w}]
  <2>1. w \in WritingOf /\ w.path = m.path /\ w.mtime = m.mtime
    BY <1>2 DEF WritingOf
  <2> HIDE DEF w
  <2>2. /\ task' \in [Device -> TaskSet] /\ OnlyTask(d)
        /\ task'[d].kind = task[d].kind /\ task'[d].from = task[d].from /\ task'[d].msg = task[d].msg
        /\ task'[d].todo = task[d].todo /\ task'[d].reading = task[d].reading
        /\ task'[d].sends = task[d].sends /\ task'[d].sending = task[d].sending
        /\ task'[d].writing = {w}
        /\ task'[d].written = task[d].written /\ task'[d].trashing = task[d].trashing
    BY <1>2, <1>6, <2>1 DEF TaskTyped, TaskSet, OnlyTask
  <2>3. Phase(task'[d]) /\ task'[d].written = FALSE /\ task'[d].trashing = {}
    BY <1>2, <2>2 DEF Phase, Calm, AtMostOne
  <2>4. Outdated(d, m.path, m.mtime)
    <3>1. baseline[d][m.path].mtime \in Nat /\ m.mtime \in Nat
      BY <1>2, DiskFits DEF Shape
    <3>2. Here(baseline[d][m.path]) => baseline[d][m.path].mtime <= m.mtime
      BY <1>1, <3>1, RemoteWinsIsNewer DEF Beaten
    <3>3. QED
      BY <1>2, <1>6, <3>1, <3>2, UnchangedSince
  <2>5. \A x \in task'[d].writing : Outdated(d, x.path, x.mtime)
    BY <2>1, <2>2, <2>4
  <2>6. QED
    BY <1>2, <1>3, <1>4, <2>2, <2>3, <2>5 DEF Moves, TaskStep
<1>7. QED
  BY <1>1, <1>5, <1>6

LEMMA WritingFacts ==
    ASSUME Shape, NEW d \in Device, NEW w \in task[d].writing
    PROVE  /\ TaskTyped /\ task[d] \in TaskSet /\ Phase(task[d])
           /\ w \in WritingOf /\ w.path \in Path /\ w.hash \in Hash \ Large /\ w.mtime \in 1 .. MaxTime
           /\ task[d].kind = "file" /\ task[d].todo = {} /\ task[d].reading = {}
           /\ task[d].sends = {} /\ task[d].sending = {} /\ task[d].trashing = {}
           /\ \A x \in task[d].writing : x = w
<1>1. task[d] \in TaskSet /\ Phase(task[d]) /\ TaskTyped
  BY TaskIs DEF Shape, InPhase
<1>2. w \in WritingOf
  BY <1>1 DEF TaskSet
<1>3. w.path \in Path /\ w.hash \in Hash \ Large /\ w.mtime \in 1 .. MaxTime
  BY <1>2 DEF WritingOf
<1>4. /\ task[d].kind = "file" /\ task[d].todo = {} /\ task[d].reading = {}
      /\ task[d].sends = {} /\ task[d].sending = {} /\ task[d].trashing = {}
      /\ \A x \in task[d].writing : x = w
  BY <1>1 DEF Phase, AtMostOne
<1>5. QED
  BY <1>1, <1>2, <1>3, <1>4

LEMMA DiskChangeFits ==
    ASSUME Folders, NEW d \in Device, NEW p \in Path, NEW f \in File \cup {NoFile},
           disk' = [disk EXCEPT ![d][p] = f]
    PROVE  /\ disk' \in [Device -> [Path -> File \cup {NoFile}]]
           /\ disk'[d][p] = f /\ \A q \in Path : q # p => disk'[d][q] = disk[d][q]
           /\ \A e \in Device : e # d => disk'[e] = disk[e]
BY DEF Folders

LEMMA BaselineChangeFits ==
    ASSUME Folders, NEW d \in Device, NEW p \in Path, NEW f \in File \cup {NoFile},
           baseline' = [baseline EXCEPT ![d][p] = f]
    PROVE  /\ baseline' \in [Device -> [Path -> File \cup {NoFile}]]
           /\ baseline'[d][p] = f /\ \A q \in Path : q # p => baseline'[d][q] = baseline[d][q]
           /\ \A e \in Device : e # d => baseline'[e] = baseline[e]
BY DEF Folders

LEMMA WriteFileIsFine ==
    ASSUME Shape, NEW d \in Device, WriteFile(d)
    PROVE  /\ Moves(d) /\ baseline' = baseline /\ task[d].written = FALSE /\ task'[d].written = TRUE
           /\ task'[d].writing = task[d].writing /\ task'[d].trashing = {} /\ task'[d].reading = {}
           /\ \E w \in task[d].writing :
                /\ w.path \in Path /\ w.hash \in Hash \ Large
                /\ disk' = [disk EXCEPT ![d][w.path] = [hash |-> w.hash, mtime |-> w.mtime]]
<1>1. PICK w \in task[d].writing :
        /\ ~task[d].written
        /\ disk' = [disk EXCEPT ![d][w.path] = [hash |-> w.hash, mtime |-> w.mtime]]
        /\ task' = [task EXCEPT ![d].written = TRUE]
        /\ UNCHANGED <<state, scanned, net, world>>
  BY DEF WriteFile
<1>2. /\ TaskTyped /\ task[d] \in TaskSet /\ Phase(task[d])
      /\ w.path \in Path /\ w.hash \in Hash \ Large /\ w.mtime \in 1 .. MaxTime
      /\ task[d].reading = {} /\ task[d].trashing = {}
  BY WritingFacts
<1>3. /\ task' \in [Device -> TaskSet] /\ OnlyTask(d)
      /\ task'[d].kind = task[d].kind /\ task'[d].from = task[d].from /\ task'[d].msg = task[d].msg
      /\ task'[d].todo = task[d].todo /\ task'[d].reading = task[d].reading
      /\ task'[d].sends = task[d].sends /\ task'[d].sending = task[d].sending
      /\ task'[d].writing = task[d].writing
      /\ task'[d].written = TRUE /\ task'[d].trashing = task[d].trashing
  BY <1>1, <1>2 DEF TaskTyped, TaskSet, OnlyTask
<1>4. task[d].kind # "none" /\ task[d].writing # {} /\ task[d].written = FALSE
  BY <1>1, <1>2, WritingFacts DEF TaskSet
<1>5. Phase(task'[d])
  BY <1>2, <1>3, <1>4 DEF Phase
<1>6. [hash |-> w.hash, mtime |-> w.mtime] \in File
  BY <1>2 DEF File
<1>7. disk' \in [Device -> [Path -> File \cup {NoFile}]]
  BY <1>1, <1>2, <1>6, DiskChangeFits DEF Shape
<1>8. Folders' /\ Rest' /\ NetTyped' /\ baseline' = baseline
  BY <1>1, <1>7 DEF Shape, Folders, Rest, NetTyped, state, world, quiet
<1>9. QED
  BY <1>1, <1>2, <1>3, <1>4, <1>5, <1>8 DEF Moves, TaskStep

LEMMA RecordFileIsFine ==
    ASSUME Shape, NEW d \in Device, RecordFile(d)
    PROVE  /\ Moves(d) /\ disk' = disk /\ Calm(task'[d]) /\ task[d].written
           /\ \E w \in task[d].writing, f \in File :
                /\ w.path \in Path /\ f.hash = w.hash
                /\ baseline' = [baseline EXCEPT ![d][w.path] = f]
<1>1. PICK w \in task[d].writing :
        /\ task[d].written
        /\ baseline' = [baseline EXCEPT ![d][w.path] =
              [hash |-> w.hash, mtime |-> IF Here(disk[d][w.path]) THEN disk[d][w.path].mtime ELSE w.mtime]]
        /\ tombs' = [tombs EXCEPT ![d][w.path] = 0]
        /\ task' = [task EXCEPT ![d] = NoTask]
        /\ UNCHANGED <<disk, scanned, net, world>>
  BY DEF RecordFile
<1> DEFINE f == [hash |-> w.hash,
                 mtime |-> IF Here(disk[d][w.path]) THEN disk[d][w.path].mtime ELSE w.mtime]
<1>2. TaskTyped /\ w.path \in Path /\ w.hash \in Hash \ Large /\ w.mtime \in 1 .. MaxTime
  BY WritingFacts
<1>3. f \in File /\ f.hash = w.hash
  <2>1. Here(disk[d][w.path]) => disk[d][w.path].mtime \in 1 .. MaxTime
    BY <1>2, DiskFits DEF Shape, File
  <2>2. QED
    BY <1>2, <2>1 DEF File
<1>4. baseline' = [baseline EXCEPT ![d][w.path] = f]
  BY <1>1
<1> HIDE DEF f
<1>5. baseline' \in [Device -> [Path -> File \cup {NoFile}]]
  BY <1>2, <1>3, <1>4, BaselineChangeFits DEF Shape
<1>6. tombs' \in [Device -> [Path -> 0 .. MaxTime]]
  <2>1. 0 \in 0 .. MaxTime
    BY ConfigAssumption
  <2>2. QED
    BY <1>1, <2>1, TombsFit DEF Shape, Folders
<1>7. Folders' /\ Rest' /\ NetTyped'
  BY <1>1, <1>5, <1>6 DEF Shape, Folders, Rest, NetTyped, world, quiet
<1>8. TaskStep(d) /\ Calm(task'[d])
  <2>1. NoTask \in TaskSet /\ Phase(NoTask) /\ Calm(NoTask)
    BY NoTaskFits DEF NoTask, Task, Calm
  <2>2. task' \in [Device -> TaskSet] /\ task'[d] = NoTask /\ OnlyTask(d)
    BY <1>1, <1>2, <2>1 DEF TaskTyped, OnlyTask
  <2>3. QED
    BY <2>1, <2>2 DEF TaskStep
<1>9. QED
  BY <1>1, <1>2, <1>3, <1>4, <1>7, <1>8 DEF Moves

LEMMA FaultIsFine ==
    ASSUME Shape, NEW d \in Device, Fault(d)
    PROVE  Moves(d) /\ Harmless(d) /\ task'[d].sends \subseteq task[d].sends
<1>1. /\ \/ task[d].reading # {} \/ task[d].sending # {} \/ task[d].trashing # {}
         \/ task[d].writing # {} /\ ~task[d].written
      /\ Count /\ troubled' = TRUE
      /\ \/ task' = [task EXCEPT ![d] = NoTask]
         \/ /\ task[d].writing = {}
            /\ task' = [task EXCEPT ![d].reading = {}, ![d].sending = {}, ![d].trashing = {}]
      /\ UNCHANGED <<now, folder, scanned, scope, rescoped, linked, net>>
  <2>1. task[d].writing = {} => task' = [task EXCEPT ![d] =
            [@ EXCEPT !.reading = {}, !.sending = {}, !.trashing = {}]]
    BY DEF Fault
  <2>2. QED
    BY <2>1 DEF Fault
<1>2. task[d] \in TaskSet /\ Phase(task[d]) /\ TaskTyped
  BY TaskIs DEF Shape, InPhase
<1>3. task[d].written = FALSE
  BY <1>1, <1>2 DEF Phase, TaskSet
<1>4. Folders' /\ NetTyped' /\ disk' = disk /\ baseline' = baseline
  BY <1>1 DEF Shape, Folders, NetTyped, folder
<1>5. Rest'
  <2>1. events' \in 0 .. MaxEvents
    BY <1>1, ConfigAssumption DEF Shape, Rest, Count
  <2>2. QED
    BY <1>1, <2>1 DEF Shape, Rest
<1>6. CASE task' = [task EXCEPT ![d] = NoTask]
  <2>1. NoTask \in TaskSet /\ Phase(NoTask) /\ Calm(NoTask) /\ NoTask.sends = {}
    BY NoTaskFits DEF NoTask, Task, Calm
  <2>2. task' \in [Device -> TaskSet] /\ task'[d] = NoTask /\ OnlyTask(d)
    BY <1>2, <1>6, <2>1 DEF TaskTyped, OnlyTask
  <2>3. QED
    BY <1>3, <1>4, <1>5, <2>1, <2>2 DEF Moves, TaskStep, Harmless, Calm
<1>7. CASE /\ task[d].writing = {}
           /\ task' = [task EXCEPT ![d].reading = {}, ![d].sending = {}, ![d].trashing = {}]
  <2>1. /\ task' \in [Device -> TaskSet] /\ OnlyTask(d)
        /\ task'[d].kind = task[d].kind /\ task'[d].from = task[d].from /\ task'[d].msg = task[d].msg
        /\ task'[d].todo = task[d].todo /\ task'[d].reading = {}
        /\ task'[d].sends = task[d].sends /\ task'[d].sending = {}
        /\ task'[d].writing = task[d].writing
        /\ task'[d].written = task[d].written /\ task'[d].trashing = {}
    BY <1>2, <1>7 DEF TaskTyped, TaskSet, OnlyTask
  <2>2. task[d].kind # "none"
    BY <1>1, <1>2, <1>7 DEF Phase, NoTask, Task
  <2>3. Phase(task'[d])
    BY <1>2, <1>3, <1>7, <2>1, <2>2 DEF Phase, AtMostOne
  <2>4. Harmless(d)
    BY <1>3, <1>4, <2>1 DEF Harmless
  <2>5. QED
    BY <1>4, <1>5, <2>1, <2>3, <2>4 DEF Moves, TaskStep
<1>8. QED
  BY <1>1, <1>6, <1>7

-----------------------------------------------------------------------------
(* The users and the connections.                                          *)

LEMMA TasksStay ==
    ASSUME Shape, UNCHANGED task
    PROVE  TaskTyped' /\ InPhase'
BY DEF Shape, TaskTyped, InPhase

LEMMA UserIsFine ==
    ASSUME Shape, NEW d \in Device, NEW p \in Path, NEW t \in 1 .. MaxTime,
           RemoveFile(d, p, t) \/ \E h \in Hash : Save(d, p, h, t)
    PROVE  /\ Shape' /\ task' = task /\ baseline' = baseline /\ MaySave(d, p, t)
           /\ \E f \in File \cup {NoFile} :
                /\ Here(f) => d \in Writers[f.hash]
                /\ disk' = [disk EXCEPT ![d][p] = f]
<1>1. PICK f \in File \cup {NoFile} : (Here(f) => d \in Writers[f.hash]) /\ Changed(d, p, f, t)
  <2>1. CASE RemoveFile(d, p, t)
    <3>1. Changed(d, p, NoFile, t) /\ ~Here(NoFile)
      BY <2>1 DEF RemoveFile, Here, NoFile
    <3>2. QED
      BY <3>1
  <2>2. CASE \E h \in Hash : Save(d, p, h, t)
    <3>1. PICK h \in Hash : Save(d, p, h, t)
      BY <2>2
    <3> DEFINE f == [hash |-> h, mtime |-> t]
    <3>2. f \in File /\ f.hash = h
      BY DEF File
    <3>3. d \in Writers[f.hash] /\ Changed(d, p, f, t)
      BY <3>1, <3>2 DEF Save
    <3> HIDE DEF f
    <3>4. QED
      BY <3>2, <3>3
  <2>3. QED
    BY <2>1, <2>2
<1>2. /\ MaySave(d, p, t) /\ now' = t /\ Count
      /\ disk' = [disk EXCEPT ![d][p] = f]
      /\ UNCHANGED <<state, scanned, scope, rescoped, linked, net, task, troubled>>
  BY <1>1 DEF Changed
<1>3. disk' \in [Device -> [Path -> File \cup {NoFile}]]
  BY <1>2, DiskChangeFits DEF Shape
<1>4. Folders' /\ NetTyped'
  BY <1>2, <1>3 DEF Shape, Folders, NetTyped, state
<1>5. Rest'
  <2>1. events' \in 0 .. MaxEvents
    BY <1>2, ConfigAssumption DEF Shape, Rest, Count
  <2>2. QED
    BY <1>2, <2>1 DEF Shape, Rest
<1>6. TaskTyped' /\ InPhase'
  BY <1>2, TasksStay
<1>7. Shape'
  BY <1>4, <1>5, <1>6 DEF Shape
<1>8. QED
  BY <1>1, <1>2, <1>7 DEF state

Settled == task' = task /\ disk' = disk /\ baseline' = baseline

LEMMA TwoDevices ==
    ASSUME NEW d, NEW e, d # e
    PROVE  Cardinality({d, e}) = 2
<1>1. {d, e} = {d} \cup {e} /\ e \notin {d}
  OBVIOUS
<1>2. IsFiniteSet({d}) /\ Cardinality({d}) = 1
  BY FS_Singleton
<1>3. QED
  BY <1>1, <1>2, FS_AddElement

LEMMA ConnectIsFine ==
    ASSUME Shape, NEW d \in Device, NEW e \in Device, Connect(d, e)
    PROVE  Shape' /\ Settled
<1> DEFINE q == Append(net[d][e], Opened)
           r == Append(net[e][d], Opened)
<1>1. /\ d < e /\ linked' = linked \cup {{d, e}} /\ troubled' = FALSE
      /\ net' = [net EXCEPT ![d][e] = q, ![e][d] = r]
      /\ UNCHANGED <<now, folder, scanned, scope, rescoped, task, events>>
  <2>1. d # e
    BY DeviceAssumption DEF Connect
  <2>2. QED
    BY <2>1 DEF Connect
<1>2. d # e
  BY <1>1, DeviceAssumption
<1>3. q \in Seq(Message) /\ r \in Seq(Message)
  <2>1. net[d][e] \in Seq(Message) /\ net[e][d] \in Seq(Message)
    BY DEF Shape, NetTyped
  <2>2. QED
    BY <2>1, MessagesAre, AppendProperties
<1> HIDE DEF q, r
<1>4. NetTyped'
  BY <1>1, <1>2, <1>3 DEF Shape, NetTyped
<1>5. {d, e} \subseteq Device /\ Cardinality({d, e}) = 2
  BY <1>2, TwoDevices
<1>6. Rest'
  BY <1>1, <1>5 DEF Shape, Rest
<1>7. Folders' /\ Settled
  BY <1>1 DEF Shape, Folders, folder, Settled
<1>8. TaskTyped' /\ InPhase'
  BY <1>1, TasksStay
<1>9. QED
  BY <1>4, <1>6, <1>7, <1>8 DEF Shape

LEMMA CutIsFine ==
    ASSUME Shape, NEW d \in Device, NEW e \in Device, Cut(d, e)
    PROVE  Shape' /\ Settled
<1>1. /\ d < e /\ Count /\ linked' = linked \ {{d, e}}
      /\ UNCHANGED <<now, folder, scanned, scope, rescoped, task, troubled>>
  BY DEF Cut
<1>2. d # e
  BY <1>1, DeviceAssumption
<1>3. PICK i \in 0 .. Len(net[d][e]), j \in 0 .. Len(net[e][d]) :
        net' = [net EXCEPT ![d][e] = SubSeq(@, 1, i), ![e][d] = SubSeq(@, 1, j)]
  BY DEF Cut
<1> DEFINE q == SubSeq(net[d][e], 1, i)
           r == SubSeq(net[e][d], 1, j)
<1>4. q \in Seq(Message) /\ r \in Seq(Message)
  <2>1. net[d][e] \in Seq(Message) /\ net[e][d] \in Seq(Message)
    BY DEF Shape, NetTyped
  <2>2. ASSUME NEW s \in Seq(Message), NEW k \in 0 .. Len(s)
        PROVE  SubSeq(s, 1, k) \in Seq(Message)
    BY SubSeqProperties
  <2>3. QED
    BY <2>1, <2>2
<1>5. net' = [net EXCEPT ![d][e] = q, ![e][d] = r]
  BY <1>2, <1>3
<1> HIDE DEF q, r
<1>6. NetTyped'
  BY <1>2, <1>4, <1>5 DEF Shape, NetTyped
<1>7. Rest'
  <2>1. events' \in 0 .. MaxEvents
    BY <1>1, ConfigAssumption DEF Shape, Rest, Count
  <2>2. QED
    BY <1>1, <2>1 DEF Shape, Rest
<1>8. Folders' /\ Settled
  BY <1>1 DEF Shape, Folders, folder, Settled
<1>9. TaskTyped' /\ InPhase'
  BY <1>1, TasksStay
<1>10. QED
  BY <1>6, <1>7, <1>8, <1>9 DEF Shape

LEMMA RestartIsFine ==
    ASSUME Shape, NEW d \in Device, Restart(d)
    PROVE  Shape' /\ Settled
<1>1. /\ scanned' = [scanned EXCEPT ![d] = \E p \in Path : Here(baseline[d][p])]
      /\ rescoped' = rescoped \ {d}
      /\ net' = [e \in Device |-> [net[e] EXCEPT ![d] = <<>>]]
      /\ UNCHANGED <<now, folder, scope, linked, task, events, troubled>>
  BY DEF Restart
<1>2. NetTyped'
  <2>1. <<>> \in Seq(Message)
    OBVIOUS
  <2>2. QED
    BY <1>1, <2>1 DEF Shape, NetTyped
<1>3. Rest'
  <2>1. scanned' \in [Device -> BOOLEAN]
    BY <1>1 DEF Shape, Rest
  <2>2. QED
    BY <1>1, <2>1 DEF Shape, Rest
<1>4. Folders' /\ Settled
  BY <1>1 DEF Shape, Folders, folder, Settled
<1>5. TaskTyped' /\ InPhase'
  BY <1>1, TasksStay
<1>6. QED
  BY <1>2, <1>3, <1>4, <1>5 DEF Shape

LEMMA ChangeScopeIsFine ==
    ASSUME Shape, NEW d \in Device, NEW s \in Scopes, ChangeScope(d, s)
    PROVE  Shape' /\ Settled
<1>1. /\ Count /\ scope' = [scope EXCEPT ![d] = s]
      /\ rescoped' \subseteq rescoped \cup {d} /\ troubled' = TRUE
      /\ UNCHANGED <<now, folder, scanned, linked, net, task>>
  BY DEF ChangeScope
<1>2. Rest'
  <2>1. events' \in 0 .. MaxEvents
    BY <1>1, ConfigAssumption DEF Shape, Rest, Count
  <2>2. s \in {"off", "appearance", "full"}
    BY ConfigAssumption
  <2>3. QED
    BY <1>1, <2>1, <2>2 DEF Shape, Rest
<1>3. Folders' /\ NetTyped' /\ Settled
  BY <1>1 DEF Shape, Folders, NetTyped, folder, Settled
<1>4. TaskTyped' /\ InPhase'
  BY <1>1, TasksStay
<1>5. QED
  BY <1>2, <1>3, <1>4 DEF Shape

-----------------------------------------------------------------------------
(* What a step of one device keeps.                                        *)

Replaced(d) ==
    \A p \in Path :
        disk'[d][p] # disk[d][p] /\ Here(disk[d][p]) /\ Here(baseline[d][p])
        => disk[d][p].mtime <= (IF Here(disk'[d][p]) THEN disk'[d][p].mtime ELSE tombs'[d][p])

Kept(d) ==
    /\ Moves(d) /\ OnlyFolder(d)
    /\ AllOwned => \A p \in Path : Owned(d, p)'
    /\ Fresh(d) => Fresh(d)' /\ Replaced(d)

LEMMA StillOwned ==
    ASSUME NEW d \in Device, NEW p \in Path, Owned(d, p),
           ~task[d].written, ~task'[d].written, disk' = disk,
           Here(disk[d][p]) /\ disk[d][p].hash \notin Large =>
              baseline'[d][p].hash \in {baseline[d][p].hash, disk[d][p].hash}
    PROVE  Owned(d, p)'
<1>1. ~Overwritten(d, p)
  BY DEF Overwritten
<1>2. ~(\E w \in task'[d].writing : task'[d].written /\ w.path = p)
  OBVIOUS
<1>3. CASE d \in Writers[disk[d][p].hash] \/ ~Here(disk[d][p])
  BY <1>3 DEF Owned
<1>4. CASE d \notin Writers[disk[d][p].hash] /\ Here(disk[d][p])
  <2>1. disk[d][p].hash \notin Large /\ disk[d][p].hash = baseline[d][p].hash
    BY <1>1, <1>4 DEF Owned, Held
  <2>2. disk'[d][p].hash \notin Large /\ disk'[d][p].hash = baseline'[d][p].hash
    BY <1>4, <2>1
  <2>3. Held(d, p)'
    BY <1>2, <2>2 DEF Held, Overwritten
  <2>4. QED
    BY <2>3 DEF Owned
<1>5. QED
  BY <1>3, <1>4

LEMMA SteadyKeeps ==
    ASSUME NEW d \in Device, Moves(d), ~task[d].written, ~task'[d].written, disk' = disk,
           \A e \in Device : e # d => baseline'[e] = baseline[e],
           \A p \in Path : Here(disk[d][p]) /\ disk[d][p].hash \notin Large =>
              baseline'[d][p].hash \in {baseline[d][p].hash, disk[d][p].hash},
           Fresh(d) => Fresh(d)'
    PROVE  Kept(d)
<1>1. OnlyFolder(d)
  BY DEF OnlyFolder
<1>2. ASSUME AllOwned, NEW p \in Path PROVE Owned(d, p)'
  <2>1. /\ Owned(d, p)
        /\ Here(disk[d][p]) /\ disk[d][p].hash \notin Large =>
            baseline'[d][p].hash \in {baseline[d][p].hash, disk[d][p].hash}
    BY <1>2 DEF AllOwned
  <2>2. QED
    BY <2>1, StillOwned
<1>3. Replaced(d)
  BY DEF Replaced
<1>4. QED
  BY <1>1, <1>2, <1>3 DEF Kept

LEMMA HarmlessKeeps ==
    ASSUME NEW d \in Device, Moves(d), Harmless(d)
    PROVE  Kept(d)
<1>1. /\ disk' = disk /\ baseline' = baseline /\ ~task[d].written /\ ~task'[d].written
      /\ task'[d].writing \subseteq task[d].writing /\ task'[d].trashing \subseteq task[d].trashing
  BY DEF Harmless
<1>2. Fresh(d) => Fresh(d)'
  BY <1>1 DEF Fresh, Outdated
<1>3. \A e \in Device : baseline'[e] = baseline[e]
  BY <1>1
<1>4. QED
  BY <1>1, <1>2, <1>3, SteadyKeeps

LEMMA CalmIsFresh ==
    ASSUME NEW d, Calm(task'[d])
    PROVE  Fresh(d)' /\ ~task'[d].written
BY DEF Calm, Fresh

LEMMA BaselineMoves ==
    ASSUME Shape, NEW d \in Device, Moves(d), Calm(task[d]), Calm(task'[d]), disk' = disk,
           NEW p \in Path, NEW f, baseline' = [baseline EXCEPT ![d][p] = f],
           ~Here(disk[d][p]) \/ disk[d][p].hash \in Large \/ f.hash = disk[d][p].hash
    PROVE  Kept(d)
<1>1. baseline \in [Device -> [Path -> File \cup {NoFile}]]
  BY DEF Shape, Folders
<1>2. \A e \in Device : e # d => baseline'[e] = baseline[e]
  BY <1>1
<1>3. baseline'[d][p] = f /\ \A q \in Path : q # p => baseline'[d][q] = baseline[d][q]
  BY <1>1
<1>4. ASSUME NEW q \in Path, Here(disk[d][q]), disk[d][q].hash \notin Large
      PROVE  baseline'[d][q].hash \in {baseline[d][q].hash, disk[d][q].hash}
  BY <1>3, <1>4
<1>5. ~task[d].written /\ ~task'[d].written /\ Fresh(d)'
  BY CalmIsFresh DEF Calm
<1>6. QED
  BY <1>2, <1>4, <1>5, SteadyKeeps

LEMMA RefreshKeeps ==
    ASSUME Shape, NEW d \in Device, NEW p \in Path,
           NothingNew(d, p) \/ NoticeGone(d, p) \/ NoticeLarge(d, p) \/ NoticeChanged(d, p)
    PROVE  Kept(d)
<1>1. CASE NothingNew(d, p) \/ NoticeChanged(d, p)
  BY <1>1, NothingNewIsFine, NoticeChangedIsFine, HarmlessKeeps
<1>2. CASE NoticeGone(d, p)
  <2>1. /\ Moves(d) /\ Calm(task[d]) /\ Calm(task'[d]) /\ disk' = disk
        /\ ~Here(disk[d][p]) /\ baseline' = [baseline EXCEPT ![d][p] = NoFile]
    BY <1>2, NoticeGoneIsFine
  <2>2. QED
    BY <2>1, BaselineMoves
<1>3. CASE NoticeLarge(d, p)
  <2>1. /\ Moves(d) /\ Calm(task[d]) /\ Calm(task'[d]) /\ disk' = disk
        /\ disk[d][p].hash \in Large /\ baseline' = [baseline EXCEPT ![d][p] = NoFile]
    BY <1>3, NoticeLargeIsFine
  <2>2. QED
    BY <2>1, BaselineMoves
<1>4. QED
  BY <1>1, <1>2, <1>3

LEMMA ReadKeeps ==
    ASSUME Shape, NEW d \in Device, ReadChanged(d)
    PROVE  Kept(d)
<1>1. /\ Moves(d) /\ Calm(task[d]) /\ Calm(task'[d]) /\ disk' = disk
      /\ \E r \in task[d].reading :
            /\ r.path \in Path
            /\ \/ baseline' = baseline
               \/ baseline' = [baseline EXCEPT ![d][r.path] =
                                 [hash |-> disk[d][r.path].hash, mtime |-> r.mtime]]
  BY ReadChangedIsFine
<1>2. CASE baseline' = baseline
  <2>1. Harmless(d)
    BY <1>1, <1>2, CalmIsHarmless
  <2>2. QED
    BY <1>1, <2>1, HarmlessKeeps
<1>3. CASE baseline' # baseline
  <2>1. PICK r \in task[d].reading :
          /\ r.path \in Path
          /\ baseline' = [baseline EXCEPT ![d][r.path] =
                            [hash |-> disk[d][r.path].hash, mtime |-> r.mtime]]
    BY <1>1, <1>3
  <2> DEFINE f == [hash |-> disk[d][r.path].hash, mtime |-> r.mtime]
  <2>2. f.hash = disk[d][r.path].hash /\ baseline' = [baseline EXCEPT ![d][r.path] = f]
    BY <2>1
  <2> HIDE DEF f
  <2>3. QED
    BY <1>1, <2>1, <2>2, BaselineMoves
<1>4. QED
  BY <1>2, <1>3

LEMMA SameContentKeeps ==
    ASSUME Shape, NEW d \in Device, SameContent(d)
    PROVE  Kept(d)
<1>1. /\ Moves(d) /\ Calm(task[d]) /\ Calm(task'[d]) /\ disk' = disk
      /\ \A p \in Path : baseline'[d][p].hash = baseline[d][p].hash
      /\ \A e \in Device : e # d => baseline'[e] = baseline[e]
  BY SameContentIsFine
<1>2. ~task[d].written /\ ~task'[d].written /\ Fresh(d)'
  BY <1>1, CalmIsFresh DEF Calm
<1>3. QED
  BY <1>1, <1>2, SteadyKeeps

LEMMA DecisionKeeps ==
    ASSUME Shape, NEW d \in Device, ApplyDelete(d) \/ AcceptNewer(d)
    PROVE  Kept(d)
<1>1. /\ Moves(d) /\ Calm(task[d]) /\ disk' = disk /\ baseline' = baseline
      /\ task'[d].written = FALSE
      /\ \A w \in task'[d].writing : Outdated(d, w.path, w.mtime)
      /\ \A x \in task'[d].trashing : Outdated(d, x.path, x.at)
  BY ApplyDeleteIsFine, AcceptNewerIsFine
<1>2. Fresh(d)'
  BY <1>1 DEF Fresh, Outdated
<1>3. ~task[d].written /\ ~task'[d].written
  BY <1>1 DEF Calm
<1>4. \A e \in Device : baseline'[e] = baseline[e]
  BY <1>1
<1>5. QED
  BY <1>1, <1>2, <1>3, <1>4, SteadyKeeps

LEMMA TrashKeeps ==
    ASSUME Shape, NEW d \in Device, Trash(d)
    PROVE  Kept(d)
<1>1. /\ Moves(d) /\ ~task[d].written /\ Calm(task'[d])
      /\ \E x \in task[d].trashing :
            /\ x.path \in Path
            /\ \/ disk' = disk /\ baseline' = baseline
               \/ /\ disk' = [disk EXCEPT ![d][x.path] = NoFile]
                  /\ baseline' = [baseline EXCEPT ![d][x.path] = NoFile]
                  /\ tombs' = [tombs EXCEPT ![d][x.path] = x.at]
  BY TrashIsFine
<1>2. Fresh(d)' /\ ~task'[d].written
  BY <1>1, CalmIsFresh
<1>3. CASE disk' = disk /\ baseline' = baseline
  <2>1. \A e \in Device : baseline'[e] = baseline[e]
    BY <1>3
  <2>2. QED
    BY <1>1, <1>2, <1>3, <2>1, SteadyKeeps
<1>4. CASE ~(disk' = disk /\ baseline' = baseline)
  <2>1. PICK x \in task[d].trashing :
            /\ x.path \in Path
            /\ disk' = [disk EXCEPT ![d][x.path] = NoFile]
            /\ baseline' = [baseline EXCEPT ![d][x.path] = NoFile]
            /\ tombs' = [tombs EXCEPT ![d][x.path] = x.at]
    BY <1>1, <1>4
  <2>2. /\ disk'[d][x.path] = NoFile /\ \A q \in Path : q # x.path => disk'[d][q] = disk[d][q]
        /\ \A e \in Device : e # d => disk'[e] = disk[e]
    BY <2>1, DiskChangeFits DEF Shape
  <2>3. /\ \A q \in Path : q # x.path => baseline'[d][q] = baseline[d][q]
        /\ \A e \in Device : e # d => baseline'[e] = baseline[e]
    BY <2>1, BaselineChangeFits DEF Shape
  <2>4. tombs'[d][x.path] = x.at
    BY <2>1 DEF Shape, Folders
  <2>5. ~Here(NoFile)
    BY DEF Here, NoFile
  <2>6. ASSUME AllOwned, NEW q \in Path PROVE Owned(d, q)'
    <3>1. CASE q = x.path
      BY <2>2, <2>5, <3>1 DEF Owned
    <3>2. CASE q # x.path
      <4>1. disk'[d][q] = disk[d][q] /\ baseline'[d][q] = baseline[d][q] /\ Owned(d, q)
        BY <2>2, <2>3, <2>6, <3>2 DEF AllOwned
      <4>2. ~Overwritten(d, q) /\ ~(\E w \in task'[d].writing : task'[d].written /\ w.path = q)
        BY <1>1, <1>2 DEF Overwritten
      <4>3. QED
        BY <4>1, <4>2 DEF Owned, Held, Overwritten
    <3>3. QED
      BY <3>1, <3>2
  <2>7. ASSUME Fresh(d) PROVE Replaced(d)
    <3>1. Outdated(d, x.path, x.at)
      BY <2>7 DEF Fresh
    <3>2. QED
      BY <2>2, <2>4, <2>5, <3>1 DEF Replaced, Outdated
  <2>8. OnlyFolder(d)
    BY <2>2, <2>3 DEF OnlyFolder
  <2>9. QED
    BY <1>1, <1>2, <2>6, <2>7, <2>8 DEF Kept
<1>5. QED
  BY <1>3, <1>4

LEMMA WriteKeeps ==
    ASSUME Shape, NEW d \in Device, WriteFile(d)
    PROVE  Kept(d)
<1>1. /\ Moves(d) /\ baseline' = baseline /\ task[d].written = FALSE /\ task'[d].written = TRUE
      /\ task'[d].writing = task[d].writing /\ task'[d].trashing = {}
  BY WriteFileIsFine
<1>2. PICK w \in task[d].writing :
        /\ w.path \in Path /\ w.hash \in Hash \ Large
        /\ disk' = [disk EXCEPT ![d][w.path] = [hash |-> w.hash, mtime |-> w.mtime]]
  BY WriteFileIsFine
<1> DEFINE f == [hash |-> w.hash, mtime |-> w.mtime]
<1>3. f \in File /\ f.hash = w.hash /\ f.mtime = w.mtime /\ disk' = [disk EXCEPT ![d][w.path] = f]
  BY <1>2, WritingFacts DEF File
<1> HIDE DEF f
<1>4. /\ disk'[d][w.path] = f /\ \A q \in Path : q # w.path => disk'[d][q] = disk[d][q]
      /\ \A e \in Device : e # d => disk'[e] = disk[e]
  <2>1. f \in File \cup {NoFile} /\ w.path \in Path /\ Folders
    BY <1>2, <1>3 DEF Shape
  <2>2. disk' = [disk EXCEPT ![d][w.path] = f]
    BY <1>3
  <2>3. QED
    BY <2>1, <2>2, DiskChangeFits
<1>5. \A x \in task[d].writing : x = w
  BY WritingFacts
<1>6. ASSUME AllOwned, NEW q \in Path PROVE Owned(d, q)'
  <2>1. CASE q = w.path
    <3>1. disk'[d][q].hash = w.hash /\ w.hash \notin Large
      BY <1>2, <1>3, <1>4, <2>1
    <3>2. Held(d, q)'
      BY <1>1, <3>1, <2>1 DEF Held, Overwritten
    <3>3. QED
      BY <3>2 DEF Owned
  <2>2. CASE q # w.path
    <3>1. disk'[d][q] = disk[d][q] /\ baseline'[d][q] = baseline[d][q] /\ Owned(d, q)
      BY <1>1, <1>4, <1>6, <2>2 DEF AllOwned
    <3>2. ~Overwritten(d, q) /\ ~(\E x \in task'[d].writing : task'[d].written /\ x.path = q)
      BY <1>1, <1>5, <2>2 DEF Overwritten
    <3>3. QED
      BY <3>1, <3>2 DEF Owned, Held, Overwritten
  <2>3. QED
    BY <2>1, <2>2
<1>7. Fresh(d)'
  BY <1>1 DEF Fresh
<1>8. ASSUME Fresh(d) PROVE Replaced(d)
  <2>1. Outdated(d, w.path, w.mtime)
    BY <1>1, <1>8 DEF Fresh
  <2>2. Here(f)
    BY <1>2, <1>3, ConfigAssumption DEF Here
  <2>3. QED
    BY <1>3, <1>4, <2>1, <2>2 DEF Replaced, Outdated
<1>9. OnlyFolder(d)
  BY <1>1, <1>4 DEF OnlyFolder
<1>10. QED
  BY <1>1, <1>6, <1>7, <1>8, <1>9 DEF Kept

LEMMA RecordKeeps ==
    ASSUME Shape, NEW d \in Device, RecordFile(d)
    PROVE  Kept(d)
<1>1. Moves(d) /\ disk' = disk /\ Calm(task'[d]) /\ task[d].written
  BY RecordFileIsFine
<1>2. PICK w \in task[d].writing, f \in File :
        /\ w.path \in Path /\ f.hash = w.hash
        /\ baseline' = [baseline EXCEPT ![d][w.path] = f]
  BY RecordFileIsFine
<1>3. /\ baseline'[d][w.path] = f
      /\ \A q \in Path : q # w.path => baseline'[d][q] = baseline[d][q]
      /\ \A e \in Device : e # d => baseline'[e] = baseline[e]
  BY <1>2, BaselineChangeFits DEF Shape
<1>4. \A x \in task[d].writing : x = w
  BY WritingFacts
<1>5. Fresh(d)' /\ ~task'[d].written
  BY <1>1, CalmIsFresh
<1>6. ASSUME AllOwned, NEW q \in Path PROVE Owned(d, q)'
  <2>1. Owned(d, q) /\ disk'[d][q] = disk[d][q]
    BY <1>1, <1>6 DEF AllOwned
  <2>2. Held(d, q) => disk'[d][q].hash \notin Large /\ disk'[d][q].hash = baseline'[d][q].hash
    <3>1. CASE q = w.path
      <4>1. Overwritten(d, q)
        BY <1>1, <3>1 DEF Overwritten
      <4>2. QED
        BY <1>2, <1>3, <1>4, <2>1, <3>1, <4>1 DEF Held
    <3>2. CASE q # w.path
      <4>1. ~Overwritten(d, q)
        BY <1>4, <3>2 DEF Overwritten
      <4>2. QED
        BY <1>3, <2>1, <3>2, <4>1 DEF Held
    <3>3. QED
      BY <3>1, <3>2
  <2>3. ~(\E x \in task'[d].writing : task'[d].written /\ x.path = q)
    BY <1>5
  <2>4. QED
    BY <2>1, <2>2, <2>3 DEF Owned, Held, Overwritten
<1>7. Replaced(d)
  BY <1>1 DEF Replaced
<1>8. OnlyFolder(d)
  BY <1>1, <1>3 DEF OnlyFolder
<1>9. QED
  BY <1>1, <1>5, <1>6, <1>7, <1>8 DEF Kept

OneDevice(d) == Scan(d) \/ SettingsChanged(d) \/ Take(d) \/ Work(d) \/ Fault(d)

LEMMA OneDeviceKeeps ==
    ASSUME Shape, NEW d \in Device, OneDevice(d)
    PROVE  Kept(d)
<1>1. CASE Scan(d) \/ SettingsChanged(d)
  BY <1>1, ScanIsFine, HarmlessKeeps
<1>2. CASE Take(d)
  <2>1. PICK e \in Device : \/ TakeScanning(d, e) \/ HandleRequest(d, e)
                            \/ HandleFile(d, e) \/ HandleDelete(d, e)
    BY <1>2 DEF Take
  <2>2. Moves(d) /\ Harmless(d)
    BY <2>1, TakeScanningIsFine, HandleRequestIsFine, HandleFileIsFine, HandleDeleteIsFine
  <2>3. QED
    BY <2>2, HarmlessKeeps
<1>3. CASE \E p \in Path : \/ NothingNew(d, p) \/ NoticeGone(d, p)
                           \/ NoticeLarge(d, p) \/ NoticeChanged(d, p)
  BY <1>3, RefreshKeeps
<1>4. CASE \/ SendStat(d) \/ SendRead(d) \/ SendManifest(d) \/ CompareManifest(d)
           \/ FinishTask(d) \/ DeleteRefreshed(d) \/ AnswerOlder(d) \/ Fault(d)
  <2>1. Moves(d) /\ Harmless(d)
    BY <1>4, SendStatIsFine, SendReadIsFine, SendManifestIsFine, CompareManifestIsFine,
       FinishTaskIsFine, DeleteRefreshedIsFine, AnswerOlderIsFine, FaultIsFine
  <2>2. QED
    BY <2>1, HarmlessKeeps
<1>5. CASE ReadChanged(d) \/ SameContent(d)
  BY <1>5, ReadKeeps, SameContentKeeps
<1>6. CASE ApplyDelete(d) \/ AcceptNewer(d)
  BY <1>6, DecisionKeeps
<1>7. CASE Trash(d) \/ WriteFile(d) \/ RecordFile(d)
  BY <1>7, TrashKeeps, WriteKeeps, RecordKeeps
<1>8. QED
  BY <1>1, <1>2, <1>3, <1>4, <1>5, <1>6, <1>7 DEF OneDevice, Work

-----------------------------------------------------------------------------
(* Every step.                                                             *)

LEMMA StepCases ==
    ASSUME Shape, Next
    PROVE  \/ \E d \in Device : OneDevice(d)
           \/ \E d \in Device, p \in Path, t \in 1 .. MaxTime :
                 RemoveFile(d, p, t) \/ \E h \in Hash : Save(d, p, h, t)
           \/ Shape' /\ Settled
<1>1. CASE \E d, e \in Device : Connect(d, e) \/ Cut(d, e)
  BY <1>1, ConnectIsFine, CutIsFine
<1>2. CASE \E d \in Device : Restart(d) \/ \E s \in Scopes : ChangeScope(d, s)
  BY <1>2, RestartIsFine, ChangeScopeIsFine
<1>3. CASE \E d \in Device, p \in Path, t \in 1 .. MaxTime :
              RemoveFile(d, p, t) \/ \E h \in Hash : Save(d, p, h, t)
  BY <1>3
<1>4. CASE \E d \in Device : OneDevice(d)
  BY <1>4
<1>5. QED
  BY <1>1, <1>2, <1>3, <1>4 DEF Next, OneDevice

LEMMA MovesShape ==
    ASSUME Shape, NEW d \in Device, Moves(d)
    PROVE  Shape'
<1>1. task' \in [Device -> TaskSet] /\ Phase(task'[d]) /\ \A e \in Device : e # d => task'[e] = task[e]
  BY DEF Moves, TaskStep, OnlyTask
<1>2. \A e \in Device : Phase(task[e])
  BY DEF Shape, InPhase
<1>3. \A e \in Device : Phase(task'[e])
  <2>1. ASSUME NEW e \in Device PROVE Phase(task'[e])
    <3>1. CASE e = d
      BY <1>1, <3>1
    <3>2. CASE e # d
      <4>1. task'[e] = task[e] /\ Phase(task[e])
        BY <1>1, <1>2, <3>2
      <4>2. QED
        BY <4>1
    <3>3. QED
      BY <3>1, <3>2
  <2>2. QED
    BY <2>1
<1>4. InPhase'
  BY <1>3 DEF InPhase
<1>5. QED
  BY <1>1, <1>4 DEF Shape, Moves, TaskTyped

LEMMA NextShape == Shape /\ [Next]_vars => Shape'
<1> SUFFICES ASSUME Shape, [Next]_vars PROVE Shape'
  OBVIOUS
<1>1. CASE UNCHANGED vars
  BY <1>1 DEF vars, Shape, NetTyped, TaskTyped, InPhase, Folders, Rest
<1>2. CASE Next
  <2>1. CASE \E d \in Device : OneDevice(d)
    BY <2>1, OneDeviceKeeps, MovesShape DEF Kept
  <2>2. CASE \E d \in Device, p \in Path, t \in 1 .. MaxTime :
                 RemoveFile(d, p, t) \/ \E h \in Hash : Save(d, p, h, t)
    BY <2>2, UserIsFine
  <2>3. QED
    BY <1>2, <2>1, <2>2, StepCases
<1>3. QED
  BY <1>1, <1>2

LEMMA OthersKeep ==
    ASSUME NEW d, NEW e \in Device, e # d, OnlyTask(d), OnlyFolder(d)
    PROVE  /\ (\A p \in Path : Owned(e, p)) => (\A p \in Path : Owned(e, p)')
           /\ Fresh(e) => Fresh(e)'
<1>1. task'[e] = task[e] /\ disk'[e] = disk[e] /\ baseline'[e] = baseline[e]
  BY DEF OnlyTask, OnlyFolder
<1>2. QED
  BY <1>1 DEF Owned, Held, Overwritten, Fresh, Outdated

LEMMA UserOwns ==
    ASSUME Shape, AllOwned, NEW d \in Device, NEW p \in Path, NEW t \in 1 .. MaxTime,
           RemoveFile(d, p, t) \/ \E h \in Hash : Save(d, p, h, t)
    PROVE  AllOwned'
<1>1. PICK f \in File \cup {NoFile} :
        /\ Here(f) => d \in Writers[f.hash]
        /\ disk' = [disk EXCEPT ![d][p] = f] /\ task' = task /\ baseline' = baseline
  BY UserIsFine
<1>2. /\ disk'[d][p] = f /\ \A q \in Path : q # p => disk'[d][q] = disk[d][q]
      /\ \A e \in Device : e # d => disk'[e] = disk[e]
  BY <1>1, DiskChangeFits DEF Shape
<1>3. ASSUME NEW e \in Device, NEW q \in Path PROVE Owned(e, q)'
  <2>1. CASE e = d /\ q = p
    BY <1>1, <1>2, <2>1 DEF Owned
  <2>2. CASE ~(e = d /\ q = p)
    <3>1. disk'[e][q] = disk[e][q]
      BY <1>2, <2>2
    <3>2. Owned(e, q)
      BY DEF AllOwned
    <3>3. QED
      BY <1>1, <3>1, <3>2 DEF Owned, Held, Overwritten
  <2>3. QED
    BY <2>1, <2>2
<1>4. QED
  BY <1>3 DEF AllOwned

LEMMA NextOwned == Shape /\ AllOwned /\ [Next]_vars => AllOwned'
<1> SUFFICES ASSUME Shape, AllOwned, [Next]_vars PROVE AllOwned'
  OBVIOUS
<1>1. ASSUME task' = task, disk' = disk, baseline' = baseline PROVE AllOwned'
  BY <1>1 DEF AllOwned, Owned, Held, Overwritten
<1>2. CASE UNCHANGED vars
  BY <1>1, <1>2 DEF vars, folder
<1>3. CASE Next
  <2>1. CASE \E d \in Device : OneDevice(d)
    <3>1. PICK d \in Device : OneDevice(d)
      BY <2>1
    <3>2. Kept(d)
      BY <3>1, OneDeviceKeeps
    <3>3. ASSUME NEW e \in Device PROVE \A p \in Path : Owned(e, p)'
      <4>1. CASE e = d
        BY <3>2, <4>1 DEF Kept
      <4>2. CASE e # d
        <5>1. OnlyTask(d) /\ OnlyFolder(d) /\ \A p \in Path : Owned(e, p)
          BY <3>2 DEF Kept, Moves, TaskStep, AllOwned
        <5>2. QED
          BY <4>2, <5>1, OthersKeep
      <4>3. QED
        BY <4>1, <4>2
    <3>4. QED
      BY <3>3 DEF AllOwned
  <2>2. CASE \E d \in Device, p \in Path, t \in 1 .. MaxTime :
                 RemoveFile(d, p, t) \/ \E h \in Hash : Save(d, p, h, t)
    BY <2>2, UserOwns
  <2>3. CASE Settled
    BY <1>1, <2>3 DEF Settled
  <2>4. QED
    BY <1>3, <2>1, <2>2, <2>3, StepCases
<1>4. QED
  BY <1>2, <1>3

(* Where no save falls between a check and the write after it.             *)
LEMMA UserKeepsFresh ==
    ASSUME Shape, SavesRace = FALSE, AllFresh,
           NEW d \in Device, NEW p \in Path, NEW t \in 1 .. MaxTime,
           RemoveFile(d, p, t) \/ \E h \in Hash : Save(d, p, h, t)
    PROVE  AllFresh'
<1>1. PICK f \in File \cup {NoFile} :
        disk' = [disk EXCEPT ![d][p] = f] /\ task' = task /\ baseline' = baseline
  BY UserIsFine
<1>2. \A x \in task[d].writing \cup task[d].trashing : x.path # p
  <2>1. MaySave(d, p, t)
    BY UserIsFine
  <2>2. QED
    BY <2>1 DEF MaySave
<1>3. /\ \A q \in Path : q # p => disk'[d][q] = disk[d][q]
      /\ \A e \in Device : e # d => disk'[e] = disk[e]
  BY <1>1, DiskChangeFits DEF Shape
<1>4. \A e \in Device : task[e] \in TaskSet
  BY TaskIs DEF Shape
<1>5. \A e \in Device : \A x \in task[e].writing \cup task[e].trashing :
        x.path \in Path /\ disk'[e][x.path] = disk[e][x.path]
  <2>1. ASSUME NEW e \in Device, NEW x \in task[e].writing \cup task[e].trashing
        PROVE  x.path \in Path /\ disk'[e][x.path] = disk[e][x.path]
    <3>1. x \in WritingOf \cup DropOf
      BY <1>4 DEF TaskSet
    <3>2. x.path \in Path
      BY <3>1 DEF WritingOf, DropOf
    <3>3. CASE e = d
      BY <1>2, <1>3, <2>1, <3>2, <3>3
    <3>4. CASE e # d
      BY <1>3, <3>2, <3>4
    <3>5. QED
      BY <3>2, <3>3, <3>4
  <2>2. QED
    BY <2>1
<1>6. ASSUME NEW e \in Device PROVE Fresh(e)'
  <2>1. Fresh(e)
    BY DEF AllFresh
  <2>2. QED
    BY <1>1, <1>5, <2>1 DEF Fresh, Outdated
<1>7. QED
  BY <1>6 DEF AllFresh

LEMMA NextFresh == Shape /\ SavesRace = FALSE /\ AllFresh /\ [Next]_vars => AllFresh'
<1> SUFFICES ASSUME Shape, SavesRace = FALSE, AllFresh, [Next]_vars PROVE AllFresh'
  OBVIOUS
<1>1. ASSUME task' = task, disk' = disk, baseline' = baseline PROVE AllFresh'
  BY <1>1 DEF AllFresh, Fresh, Outdated
<1>2. CASE UNCHANGED vars
  BY <1>1, <1>2 DEF vars, folder
<1>3. CASE Next
  <2>1. CASE \E d \in Device : OneDevice(d)
    <3>1. PICK d \in Device : OneDevice(d)
      BY <2>1
    <3>2. Kept(d)
      BY <3>1, OneDeviceKeeps
    <3>3. ASSUME NEW e \in Device PROVE Fresh(e)'
      <4>1. Fresh(e)
        BY DEF AllFresh
      <4>2. CASE e = d
        BY <3>2, <4>1, <4>2 DEF Kept
      <4>3. CASE e # d
        <5>1. OnlyTask(d) /\ OnlyFolder(d)
          BY <3>2 DEF Kept, Moves, TaskStep
        <5>2. QED
          BY <4>1, <4>3, <5>1, OthersKeep
      <4>4. QED
        BY <4>2, <4>3
    <3>4. QED
      BY <3>3 DEF AllFresh
  <2>2. CASE \E d \in Device, p \in Path, t \in 1 .. MaxTime :
                 RemoveFile(d, p, t) \/ \E h \in Hash : Save(d, p, h, t)
    BY <2>2, UserKeepsFresh
  <2>3. CASE Settled
    BY <1>1, <2>3 DEF Settled
  <2>4. QED
    BY <1>3, <2>1, <2>2, <2>3, StepCases
<1>4. QED
  BY <1>2, <1>3

LEMMA InitShape == Init => Shape
<1> SUFFICES ASSUME Init PROVE Shape
  OBVIOUS
<1>1. 1 \in 1 .. MaxTime /\ 0 \in 0 .. MaxTime /\ 0 \in 0 .. MaxEvents
  BY ConfigAssumption
<1>2. Folders
  <2>1. {NoFile} \cup [hash : Hash, mtime : {1}] \subseteq File \cup {NoFile}
    BY <1>1 DEF File
  <2>2. QED
    BY <1>1, <2>1 DEF Init, Folders
<1>3. Rest
  <2>1. ASSUME NEW link \in linked PROVE link \subseteq Device /\ Cardinality(link) = 2
    <3>1. link \in {{d, e} : d, e \in Device} /\ \A d \in Device : link # {d}
      BY DEF Init
    <3>2. PICK a \in Device, b \in Device : link = {a, b}
      BY <3>1
    <3>3. a # b
      BY <3>1, <3>2
    <3>4. QED
      BY <3>2, <3>3, TwoDevices
  <2>2. QED
    BY <1>1, <2>1 DEF Init, Rest
<1>4. NetTyped
  <2>1. <<>> \in Seq(Message) /\ <<Opened>> \in Seq(Message)
    BY MessagesAre
  <2>2. QED
    BY <2>1 DEF Init, NetTyped
<1>5. TaskTyped /\ InPhase
  BY NoTaskFits DEF Init, TaskTyped, InPhase
<1>6. QED
  BY <1>2, <1>3, <1>4, <1>5 DEF Shape

LEMMA InitFresh == Init => AllFresh
<1>1. NoTask.writing = {} /\ NoTask.trashing = {}
  BY DEF NoTask, Task
<1>2. ASSUME Init PROVE task = [d \in Device |-> NoTask]
  BY <1>2, Zenon DEF Init
<1>3. Init => \A d \in Device : task[d] = NoTask
  BY <1>2
<1>4. QED
  BY <1>1, <1>3 DEF AllFresh, Fresh

(* Each device starts with contents its user may have saved.               *)
OwnAtStart == \A d \in Device : \A h \in AtStart[d] : h # 0 => d \in Writers[h]

LEMMA InitOwned == OwnAtStart /\ Init => AllOwned
<1> SUFFICES ASSUME OwnAtStart, Init PROVE AllOwned
  OBVIOUS
<1>1. ASSUME NEW d \in Device, NEW p \in Path, Here(disk[d][p])
      PROVE  d \in Writers[disk[d][p].hash]
  BY <1>1 DEF Init, Here, OwnAtStart
<1>2. QED
  BY <1>1 DEF AllOwned, Owned

-----------------------------------------------------------------------------
(* What holds.                                                             *)

LEMMA ShapeIsTyped == Shape => TypeOK
<1> SUFFICES ASSUME Shape PROVE TypeOK
  OBVIOUS
<1>1. \A d, e \in Device : \A i \in DOMAIN net[d][e] : net[d][e][i] \in Message
  BY DEF Shape, NetTyped
<1>2. ASSUME NEW S, AtMostOne(S) PROVE Cardinality(S) <= 1
  <2>1. CASE S = {}
    BY <2>1, FS_EmptySet
  <2>2. CASE S # {}
    <3>1. PICK x \in S : TRUE
      BY <2>2
    <3>2. S = {x}
      BY <1>2, <3>1 DEF AtMostOne
    <3>3. QED
      BY <3>2, FS_Singleton
  <2>3. QED
    BY <2>1, <2>2
<1>3. ASSUME NEW d \in Device
      PROVE  /\ task[d].todo \subseteq Path
             /\ task[d].sends \subseteq [to : Device, path : Path]
             /\ \A x \in {"reading", "sending", "writing", "trashing"} : Cardinality(task[d][x]) <= 1
             /\ Idle(d) \/ task[d].kind # "none"
  <2>1. task[d] \in TaskSet /\ Phase(task[d])
    BY TaskIs DEF Shape, InPhase
  <2>2. task[d].todo \subseteq Path /\ task[d].sends \subseteq [to : Device, path : Path]
    BY <2>1 DEF TaskSet, SendTo
  <2>3. /\ AtMostOne(task[d].reading) /\ AtMostOne(task[d].sending)
        /\ AtMostOne(task[d].writing) /\ AtMostOne(task[d].trashing)
    BY <2>1 DEF Phase
  <2>4. /\ Cardinality(task[d].reading) <= 1 /\ Cardinality(task[d].sending) <= 1
        /\ Cardinality(task[d].writing) <= 1 /\ Cardinality(task[d].trashing) <= 1
    BY <1>2, <2>3
  <2>5. \A x \in {"reading", "sending", "writing", "trashing"} : Cardinality(task[d][x]) <= 1
    BY <2>4
  <2>6. Idle(d) \/ task[d].kind # "none"
    BY <2>1 DEF Phase, Idle
  <2>7. QED
    BY <2>2, <2>5, <2>6
<1>4. QED
  BY <1>1, <1>3 DEF TypeOK, Shape, Folders, Rest, Message

LEMMA ReadAnnouncesOwn ==
    ASSUME Shape, AllOwned, NEW d \in Device, NEW r \in task[d].reading, ReadChanged(d),
           task'[d].sends # {}
    PROVE  d \in Writers[baseline'[d][r.path].hash]
<1>1. PICK s \in task[d].reading :
        /\ s.path \in Path
        /\ baseline' = [baseline EXCEPT ![d][s.path] =
                          [hash |-> disk[d][s.path].hash, mtime |-> s.mtime]]
        /\ Here(disk[d][s.path]) /\ disk[d][s.path].hash # baseline[d][s.path].hash
  BY ReadChangedIsFine
<1>2. s = r /\ Calm(task[d])
  BY ReadingIsCalm DEF Phase, AtMostOne
<1>3. baseline'[d][r.path].hash = disk[d][r.path].hash
  BY <1>1, <1>2 DEF Shape, Folders
<1>4. ~Held(d, r.path)
  BY <1>1, <1>2 DEF Held, Overwritten, Calm
<1>5. QED
  BY <1>1, <1>2, <1>3, <1>4 DEF AllOwned, Owned

(* While a file is read nothing is left to send, so that only the reading  *)
(* itself announces.                                                       *)
LEMMA OnlyReadAnnounces ==
    ASSUME Shape, NEW d \in Device, task[d].reading # {}, OneDevice(d), ~ReadChanged(d)
    PROVE  task'[d].sends = {}
<1>1. /\ ~Idle(d) /\ task[d].sends = {} /\ task[d].sending = {}
      /\ task[d].trashing = {} /\ task[d].writing = {}
  BY IdleIsCalm, ReadingIsCalm DEF Calm
<1>2. CASE Fault(d)
  BY <1>1, <1>2, FaultIsFine
<1>3. CASE Scan(d) \/ SettingsChanged(d) \/ Take(d)
  BY <1>1, <1>3 DEF Scan, SettingsChanged, Take, TakeScanning, HandleRequest, HandleFile,
     HandleDelete, Waits
<1>4. CASE Work(d)
  <2>1. ASSUME NEW p \in Path
        PROVE  ~(NothingNew(d, p) \/ NoticeGone(d, p) \/ NoticeLarge(d, p) \/ NoticeChanged(d, p))
    BY DEF NothingNew, NoticeGone, NoticeLarge, NoticeChanged, Refreshing
  <2>2. ASSUME NEW kind PROVE ~Ready(d, kind)
    BY ReadyFacts
  <2>3. ~(SendManifest(d) \/ CompareManifest(d) \/ FinishTask(d) \/ DeleteRefreshed(d))
    BY <2>2 DEF SendManifest, CompareManifest, FinishTask, DeleteRefreshed
  <2>4. ~(ApplyDelete(d) \/ SameContent(d) \/ AnswerOlder(d) \/ AcceptNewer(d))
    BY <2>2 DEF ApplyDelete, SameContent, AnswerOlder, AcceptNewer
  <2>5. ~(SendStat(d) \/ SendRead(d) \/ Trash(d) \/ WriteFile(d) \/ RecordFile(d))
    BY <1>1 DEF SendStat, SendRead, Trash, WriteFile, RecordFile
  <2>6. QED
    BY <1>4, <2>1, <2>3, <2>4, <2>5 DEF Work
<1>5. QED
  BY <1>2, <1>3, <1>4 DEF OneDevice

LEMMA StepAnnouncesOwn ==
    ASSUME Shape, AllOwned, [Next]_vars, NEW d \in Device, NEW r \in task[d].reading,
           task'[d].sends # {}
    PROVE  d \in Writers[baseline'[d][r.path].hash]
<1>1. task[d].sends = {}
  BY ReadingIsCalm
<1>2. task'[d] # task[d]
  BY <1>1
<1>3. Next
  BY <1>2 DEF vars
<1>4. ~Settled /\ task' # task
  BY <1>2 DEF Settled
<1>5. PICK e \in Device : OneDevice(e)
  BY <1>3, <1>4, StepCases, UserIsFine
<1>6. e = d
  BY <1>2, <1>5, OneDeviceKeeps DEF Kept, Moves, TaskStep, OnlyTask
<1>7. QED
  BY <1>5, <1>6, OnlyReadAnnounces, ReadAnnouncesOwn

LEMMA StepReplacesOlder ==
    ASSUME Shape, AllFresh, [Next]_vars, NEW d \in Device, NEW p \in Path,
           disk'[d][p] # disk[d][p], task' # task, Here(disk[d][p]), Here(baseline[d][p])
    PROVE  disk[d][p].mtime <= (IF Here(disk'[d][p]) THEN disk'[d][p].mtime ELSE tombs'[d][p])
<1>1. Next /\ ~Settled
  BY DEF vars, Settled
<1>2. PICK e \in Device : OneDevice(e)
  BY <1>1, StepCases, UserIsFine
<1>3. Kept(e)
  BY <1>2, OneDeviceKeeps
<1>4. e = d
  BY <1>3 DEF Kept, OnlyFolder
<1>5. Replaced(d)
  BY <1>3, <1>4 DEF Kept, AllFresh
<1>6. QED
  BY <1>5 DEF Replaced

LEMMA ShapeInvariant == Spec => []Shape
<1>1. QED
  BY InitShape, NextShape, PTL DEF Spec

(* At every step of every run the tasks, the messages and the folders are  *)
(* of their types, and at most one file is being read, sent, written or    *)
(* trashed by each device (ConfigSync.exclusive).                          *)
THEOREM SettingsTypeCorrect == Spec => []TypeOK
<1>1. QED
  BY ShapeInvariant, ShapeIsTyped, PTL

(* Where no save falls between a check and what follows it, a version that *)
(* the baseline has, or a later save over it, is only replaced or trashed  *)
(* for one at least as new (applyFile, applyDelete).                       *)
THEOREM NewerSettingsStay ==
    ASSUME SavesRace = FALSE
    PROVE  Spec => NewerStays
<1> DEFINE Stays == \A d \in Device, p \in Path :
                       /\ disk'[d][p] # disk[d][p] /\ task' # task
                       /\ Here(disk[d][p]) /\ Here(baseline[d][p])
                       => disk[d][p].mtime <=
                            (IF Here(disk'[d][p]) THEN disk'[d][p].mtime ELSE tombs'[d][p])
<1>1. Shape /\ AllFresh /\ [Next]_vars => AllFresh'
  BY NextFresh
<1>2. Shape /\ AllFresh /\ [Next]_vars => [Stays]_vars
  BY StepReplacesOlder
<1>3. Spec => []AllFresh
  BY <1>1, InitFresh, ShapeInvariant, PTL DEF Spec
<1>4. Spec => [][Stays]_vars
  BY <1>2, <1>3, ShapeInvariant, PTL DEF Spec
<1>5. QED
  BY <1>4 DEF NewerStays

(* What a scan announces is a content this device's user may have saved,   *)
(* whatever was written here for others and whenever the user saves: files *)
(* written here are never sent back as a local change (refresh, applyFile).*)
THEOREM NothingEchoes ==
    ASSUME OwnAtStart
    PROVE  Spec => NoEcho
<1> DEFINE Silent == \A d \in Device : \A r \in task[d].reading :
                        task'[d].sends # {} => d \in Writers[baseline'[d][r.path].hash]
<1>1. Shape /\ AllOwned /\ [Next]_vars => AllOwned'
  BY NextOwned
<1>2. Shape /\ AllOwned /\ [Next]_vars => [Silent]_vars
  BY StepAnnouncesOwn
<1>3. Init => AllOwned
  BY InitOwned
<1>4. Spec => []AllOwned
  BY <1>1, <1>3, ShapeInvariant, PTL DEF Spec
<1>5. Spec => [][Silent]_vars
  BY <1>2, <1>4, ShapeInvariant, PTL DEF Spec
<1>6. QED
  BY <1>5 DEF NoEcho
=============================================================================
