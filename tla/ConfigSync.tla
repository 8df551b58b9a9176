----------------------------- MODULE ConfigSync -----------------------------
(***************************************************************************)
(* Sync of the settings folder (core/ConfigSync.ts).  Each device compares *)
(* the folder with what it last saw (the baseline), tells linked devices   *)
(* of changes and deletions, and takes the more recent version of a file.  *)
(* On each connection both send a manifest of what they have and deleted.  *)
(*                                                                         *)
(* Scans and messages are worked on one at a time per device (exclusive);  *)
(* the task under way is cut where the code waits for the disk, and there  *)
(* the user may save.  Contents have one size, so that only the time tells *)
(* a scan that a file changed.  All devices read the same clock.           *)
(***************************************************************************)
EXTENDS Versions, Sequences, FiniteSets, SequencesExt

CONSTANTS Path,
          Appearance,  \* the paths that only change how Obsidian looks
          Hash,        \* contents
          Writers,     \* the devices whose users may save each content
          AtStart,     \* the contents each device may start with, 0 for none
          Large,       \* the contents over MAX_CONFIG_FILE_BYTES
          Paired,      \* pairs <<d, e>> such that e is trusted for code on d
          Scopes,      \* what the users may choose
          Retention,   \* tombstoneRetentionMs
          MaxTime,     \* bound: the clock
          MaxEvents,   \* bound: saves, cut connections, faults, scope changes
          SavesRace    \* a save may land where the code does not look for it

ASSUME ConfigAssumption ==
    /\ Appearance \subseteq Path /\ Hash \subseteq Nat \ {0} /\ Large \subseteq Hash
    /\ Writers \in [Hash -> SUBSET Device]
    /\ AtStart \in [Device -> SUBSET (Hash \cup {0})]
    /\ Paired \subseteq Device \X Device /\ IsFiniteSet(Path)
    /\ Scopes \subseteq {"off", "appearance", "full"}
    /\ {Retention, MaxTime, MaxEvents} \subseteq Nat /\ MaxTime > 0
    /\ SavesRace \in BOOLEAN

VARIABLES
    now,       \* the clock
    disk,      \* disk[d][p]: the file in the settings folder
    baseline,  \* baseline[d][p]: what d last saw there
    tombs,     \* tombs[d][p]: when it was deleted, 0 if it was not
    scanned,   \* scannedOnce
    scope,     \* host.scope()
    rescoped,  \* devices with an onSettingsChanged in the chain
    linked,    \* the connections
    net,       \* net[d][e]: messages of d to e, and d's connection as e sees it
    task,      \* what each device works on
    events,    \* how many there were
    troubled   \* history: see Converged

vars == <<now, disk, baseline, tombs, scanned, scope, rescoped, linked, net, task,
          events, troubled>>
state == <<baseline, tombs>>
folder == <<disk, baseline, tombs>>
quiet == <<now, scope, rescoped, linked, events>>
world == <<quiet, troubled>>

(* Hash 0 stands for no file.                                              *)
File == [hash : Hash, mtime : 1 .. MaxTime]
NoFile == [hash |-> 0, mtime |-> 0]
Here(f) == f.hash # 0

Opened == [type |-> "opened"]
Manifest == [type : {"manifest"}, files : [Path -> File \cup {NoFile}], deleted : [Path -> 0 .. MaxTime]]
Request == [type : {"request"}, paths : SUBSET Path]
FileSent == [type : {"file"}, path : Path, mtime : 1 .. MaxTime, hash : Hash]
Delete == [type : {"delete"}, path : Path, at : 1 .. MaxTime]

(* A task: the paths left to refresh, the file being read, the files to    *)
(* send and the one being sent, the version to write and whether it is     *)
(* written, the deletions left to apply and the file to move to the trash. *)
Task(k, e, m, todo, announce) ==
    [kind |-> k, from |-> e, msg |-> m, announce |-> announce, todo |-> todo,
     reading |-> {}, sends |-> {}, sending |-> {}, writing |-> {}, written |-> FALSE,
     drops |-> {}, trashing |-> {}, wants |-> {}]
(* What is left of a task once its paths are refreshed and compared.       *)
Answer(e, announce, sends, drops, wants) ==
    [kind |-> "apply", from |-> e, msg |-> Opened, announce |-> announce, todo |-> {},
     reading |-> {}, sends |-> sends, sending |-> {}, writing |-> {}, written |-> FALSE,
     drops |-> drops, trashing |-> {}, wants |-> wants]
NoTask == Task("none", 0, Opened, {}, FALSE)

Idle(d) == task[d] = NoTask
Sending(d) == task[d].sends # {} \/ task[d].sending # {}

TypeOK ==
    /\ now \in 1 .. MaxTime
    /\ disk \in [Device -> [Path -> File \cup {NoFile}]]
    /\ baseline \in [Device -> [Path -> File \cup {NoFile}]]
    /\ tombs \in [Device -> [Path -> 0 .. MaxTime]]
    /\ scanned \in [Device -> BOOLEAN]
    /\ scope \in [Device -> {"off", "appearance", "full"}]
    /\ rescoped \subseteq Device
    /\ \A link \in linked : link \subseteq Device /\ Cardinality(link) = 2
    /\ \A d, e \in Device : \A i \in DOMAIN net[d][e] :
            net[d][e][i] \in {Opened} \cup Manifest \cup Request \cup FileSent \cup Delete
    /\ \A d \in Device :
            /\ task[d].todo \subseteq Path
            /\ task[d].sends \subseteq [to : Device, path : Path]
            /\ \A x \in {"reading", "sending", "writing", "trashing"} : Cardinality(task[d][x]) <= 1
            /\ Idle(d) \/ task[d].kind # "none"
    /\ events \in 0 .. MaxEvents /\ troubled \in BOOLEAN

Init ==
    /\ now = 1
    /\ disk \in [Device -> [Path -> {NoFile} \cup [hash : Hash, mtime : {1}]]]
    /\ \A d \in Device, p \in Path : disk[d][p].hash \in AtStart[d]
    /\ baseline = [d \in Device |-> [p \in Path |-> NoFile]]
    /\ tombs = [d \in Device |-> [p \in Path |-> 0]]
    /\ scanned = [d \in Device |-> FALSE]
    /\ scope = [d \in Device |-> "full"]
    /\ rescoped = {}
    /\ linked = {{d, e} : d, e \in Device} \ {{d} : d \in Device}
    /\ net = [d \in Device |-> [e \in Device |-> IF d = e THEN <<>> ELSE <<Opened>>]]
    /\ task = [d \in Device |-> NoTask]
    /\ events = 0 /\ troubled = FALSE

-----------------------------------------------------------------------------
(* Decisions.                                                              *)

(* isConfigPathInScope, isAppearanceFile.                                  *)
InScope(d, p) ==
    \/ scope[d] = "full"
    \/ scope[d] = "appearance" /\ p \in Appearance

Trusts(d, e, p) == p \in Appearance \/ <<d, e>> \in Paired

OursWinsTies(d, e, theirs, ours) == theirs.mtime > ours.mtime            \* mutant

(* Does e's version beat what d has?  A deletion has no hash.              *)
RemoteWins(d, e, theirs, ours) ==
    NewerIsFirst([mtime |-> theirs.mtime, vv |-> ZeroVector, hash |-> theirs.hash, device |-> e],
                 [mtime |-> ours.mtime, vv |-> ZeroVector, hash |-> ours.hash, device |-> d])
Deletion(at) == [hash |-> 0, mtime |-> at]

Linked(d) == {e \in Device \ {d} : {d, e} \in linked}

(* d sends the messages ms[e] to each e of to that is linked to it.        *)
Sent(d, to, ms) ==
    [net EXCEPT ![d] = [e \in Device |-> IF e \in to \cap Linked(d) THEN @[e] \o ms[e] ELSE @[e]]]

DeleteMsg(p, at) == [type |-> "delete", path |-> p, at |-> at]

ManifestFor(d, e) ==
    LET shown(p) == InScope(d, p) /\ Trusts(d, e, p) IN
    [type |-> "manifest",
     files |-> [p \in Path |-> IF shown(p) THEN baseline[d][p] ELSE NoFile],
     deleted |-> [p \in Path |-> IF shown(p) THEN tombs[d][p] ELSE 0]]

-----------------------------------------------------------------------------
(* The users and the connections.                                          *)

Count == events < MaxEvents /\ events' = events + 1

(* Unless SavesRace, no save falls where the code does not look for one: a *)
(* scan reads a file after its stat, a received version is written after   *)
(* the last check, the save has the very time of what was known before.    *)
MaySave(d, p, t) ==
    /\ t \in now .. now + 1 /\ t <= MaxTime
    /\ disk[d][p].mtime < t
    /\ \/ SavesRace
       \/ /\ \A x \in task[d].reading \cup task[d].writing \cup task[d].trashing : x.path # p
          /\ t \notin {baseline[d][p].mtime, tombs[d][p]}
          /\ ~(task[d].kind = "file" /\ task[d].msg.path = p /\ task[d].msg.mtime = t)

Changed(d, p, f, t) ==
    /\ MaySave(d, p, t)
    /\ now' = t
    /\ Count
    /\ disk' = [disk EXCEPT ![d][p] = f]
    /\ UNCHANGED <<state, scanned, scope, rescoped, linked, net, task, troubled>>

Save(d, p, h, t) ==
    /\ d \in Writers[h] /\ h # disk[d][p].hash
    /\ Changed(d, p, [hash |-> h, mtime |-> t], t)

RemoveFile(d, p, t) == Here(disk[d][p]) /\ Changed(d, p, NoFile, t)

ConnectsQuietly(d, e) ==                                                 \* mutant
    /\ d < e /\ {d, e} \notin linked
    /\ linked' = linked \cup {{d, e}}
    /\ troubled' = FALSE
    /\ net' = [net EXCEPT ![e][d] = Append(@, Opened)]
    /\ UNCHANGED <<now, folder, scanned, scope, rescoped, task, events>>

(* Each end hears of the connection: onPeerConnected.                      *)
Connect(d, e) ==
    /\ d < e /\ {d, e} \notin linked
    /\ linked' = linked \cup {{d, e}}
    /\ troubled' = FALSE
    /\ net' = [net EXCEPT ![d][e] = Append(@, Opened), ![e][d] = Append(@, Opened)]
    /\ UNCHANGED <<now, folder, scanned, scope, rescoped, task, events>>

(* What reached the other device's chain is still worked on.               *)
Cut(d, e) ==
    /\ {d, e} \in linked /\ d < e
    /\ Count
    /\ linked' = linked \ {{d, e}}
    /\ \E i \in 0 .. Len(net[d][e]), j \in 0 .. Len(net[e][d]) :
            /\ \A k \in i + 1 .. Len(net[d][e]) : net[d][e][k] # Opened
            /\ \A k \in j + 1 .. Len(net[e][d]) : net[e][d][k] # Opened
            /\ net' = [net EXCEPT ![d][e] = SubSeq(@, 1, i), ![e][d] = SubSeq(@, 1, j)]
    /\ UNCHANGED <<now, folder, scanned, scope, rescoped, task, troubled>>

(* The plugin stops and starts: its chain is dropped and its state read    *)
(* back (Persistence says what may be missing).  The rest of a task under  *)
(* way is not followed.                                                    *)
Restart(d) ==
    /\ Idle(d) /\ Linked(d) = {}
    /\ scanned' = [scanned EXCEPT ![d] = \E p \in Path : Here(baseline[d][p])]
    /\ rescoped' = rescoped \ {d}
    /\ net' = [e \in Device |-> [net[e] EXCEPT ![d] = <<>>]]
    /\ UNCHANGED <<now, folder, scope, linked, task, events, troubled>>

(* saveSettings: onSettingsChanged joins the chain unless the scope is off.*)
ChangeScope(d, s) ==
    /\ s # scope[d]
    /\ Count
    /\ scope' = [scope EXCEPT ![d] = s]
    /\ rescoped' = IF s = "off" THEN rescoped ELSE rescoped \cup {d}
    /\ troubled' = TRUE
    /\ UNCHANGED <<now, folder, scanned, linked, net, task>>

-----------------------------------------------------------------------------
(* The chain: what a device turns to when it is idle.                      *)

(* doScan, up to the first file; the folder may fail to be listed.         *)
BeginScan(d, kind, e, m) ==
    \E listed \in BOOLEAN :
        LET on == scope[d] # "off" IN
        /\ IF listed THEN UNCHANGED events ELSE on /\ Count
        /\ troubled' = (troubled \/ ~listed)
        /\ tombs' = IF on THEN [tombs EXCEPT ![d] = [p \in Path |->
                                     IF now - @[p] > Retention THEN 0 ELSE @[p]]]
                    ELSE tombs
        /\ scanned' = [scanned EXCEPT ![d] = @ \/ (on /\ listed)]
        /\ task' = [task EXCEPT ![d] =
                Task(kind, e, m,
                     {p \in Path : /\ listed /\ InScope(d, p)
                                   /\ Here(disk[d][p]) \/ Here(baseline[d][p])},
                     scanned[d])]
        /\ UNCHANGED <<now, disk, baseline, scope, linked>>

(* On a timer, on css-change; a scan with nothing to do is left out.       *)
Scan(d) ==
    /\ Idle(d) /\ scope[d] # "off"
    /\ \/ ~scanned[d]
       \/ \E p \in Path : \/ InScope(d, p) /\ disk[d][p].mtime # baseline[d][p].mtime
                          \/ tombs[d][p] > 0 /\ now - tombs[d][p] > Retention
    /\ BeginScan(d, "scan", 0, Opened)
    /\ UNCHANGED <<rescoped, net>>

SettingsChanged(d) ==
    /\ Idle(d) /\ d \in rescoped
    /\ rescoped' = rescoped \ {d}
    /\ BeginScan(d, "rescope", 0, Opened)
    /\ UNCHANGED net

Waits(d, e, types) == Idle(d) /\ net[e][d] # <<>> /\ Head(net[e][d]).type \in types
Received(d, e) == [net EXCEPT ![e][d] = Tail(@)]

(* onPeerConnected, handleManifest.                                        *)
TakeScanning(d, e) ==
    LET m == Head(net[e][d]) IN
    /\ Waits(d, e, {"opened", "manifest"})
    /\ net' = Received(d, e)
    /\ \/ /\ scope[d] = "off"
          /\ UNCHANGED <<now, folder, scanned, scope, linked, task, events, troubled>>
       \/ scope[d] # "off" /\ BeginScan(d, m.type, e, m)
    /\ UNCHANGED rescoped

HandleRequest(d, e) ==
    LET m == Head(net[e][d]) IN
    /\ Waits(d, e, {"request"})
    /\ net' = Received(d, e)
    /\ task' = [task EXCEPT ![d] =
            Answer(e, FALSE, {[to |-> e, path |-> p] :
                                p \in {q \in m.paths : InScope(d, q) /\ Here(baseline[d][q])}}, {}, {})]
    /\ UNCHANGED <<folder, scanned, world>>

(* A file whose hash does not match is asked for again.                    *)
HandleFile(d, e) ==
    LET m == Head(net[e][d])
        taken == InScope(d, m.path) /\ Trusts(d, e, m.path) /\ m.hash \notin Large
    IN
    /\ Waits(d, e, {"file"})
    /\ \/ /\ net' = Received(d, e)
          /\ task' = IF taken THEN [task EXCEPT ![d] = Task("file", e, m, {m.path}, scanned[d])]
                     ELSE task
          /\ UNCHANGED <<folder, scanned, world>>
       \/ /\ taken
          /\ Count
          /\ net' = [Received(d, e) EXCEPT ![d][e] =
                        IF {d, e} \in linked
                        THEN Append(@, [type |-> "request", paths |-> {m.path}]) ELSE @]
          /\ UNCHANGED <<folder, scanned, now, scope, rescoped, linked, task, troubled>>

HandleDelete(d, e) ==
    LET m == Head(net[e][d]) IN
    /\ Waits(d, e, {"delete"})
    /\ net' = Received(d, e)
    /\ task' = IF InScope(d, m.path) THEN [task EXCEPT ![d] = Task("delete", e, m, {m.path}, scanned[d])]
               ELSE task
    /\ UNCHANGED <<folder, scanned, world>>

-----------------------------------------------------------------------------
(* refresh: bring the baseline of one path up to date with the disk.       *)

Refreshing(d, p) == ~Sending(d) /\ task[d].reading = {} /\ p \in task[d].todo
Refreshed(d, p) == [task EXCEPT ![d].todo = @ \ {p}]

NothingNew(d, p) ==
    /\ Refreshing(d, p)
    /\ disk[d][p].mtime = baseline[d][p].mtime /\ disk[d][p].hash \notin Large
    /\ task' = Refreshed(d, p)
    /\ UNCHANGED <<folder, scanned, net, world>>

(* Deleted here; the time is that of the scan.                             *)
NoticeGone(d, p) ==
    /\ Refreshing(d, p)
    /\ ~Here(disk[d][p]) /\ Here(baseline[d][p])
    /\ baseline' = [baseline EXCEPT ![d][p] = NoFile]
    /\ tombs' = [tombs EXCEPT ![d][p] = now]
    /\ net' = IF task[d].announce
              THEN Sent(d, {e \in Device : Trusts(d, e, p)}, [e \in Device |-> <<DeleteMsg(p, now)>>])
              ELSE net
    /\ task' = Refreshed(d, p)
    /\ UNCHANGED <<disk, scanned, world>>

NoticeLarge(d, p) ==
    /\ Refreshing(d, p)
    /\ disk[d][p].hash \in Large
    /\ baseline' = [baseline EXCEPT ![d][p] = NoFile]
    /\ task' = Refreshed(d, p)
    /\ troubled' = TRUE
    /\ UNCHANGED <<disk, tombs, scanned, net, quiet>>

NoticeChanged(d, p) ==
    /\ Refreshing(d, p)
    /\ Here(disk[d][p]) /\ disk[d][p].hash \notin Large
    /\ disk[d][p].mtime # baseline[d][p].mtime
    /\ task' = [Refreshed(d, p) EXCEPT ![d].reading = {[path |-> p, mtime |-> disk[d][p].mtime]}]
    /\ UNCHANGED <<folder, scanned, net, world>>

(* A file touched without a change of its content is not sent, although    *)
(* its new time may decide who wins.                                       *)
ReadChanged(d) ==
    \E r \in task[d].reading :
        LET f == disk[d][r.path]
            touched == f.hash = baseline[d][r.path].hash
        IN
        /\ IF Here(f)
           THEN /\ baseline' = [baseline EXCEPT ![d][r.path] = [hash |-> f.hash, mtime |-> r.mtime]]
                /\ tombs' = [tombs EXCEPT ![d][r.path] = 0]
           ELSE UNCHANGED state
        /\ task' = [task EXCEPT
                ![d].reading = {},
                ![d].sends = IF Here(f) /\ task[d].announce /\ ~touched
                             THEN {[to |-> e, path |-> r.path] : e \in Linked(d)} ELSE {}]
        /\ troubled' = (troubled \/ touched)
        /\ UNCHANGED <<disk, scanned, net, quiet>>

-----------------------------------------------------------------------------
(* sendFile: the time is read first, the content after it.                 *)

(* What is not there is not sent, and nobody is told.                      *)
SendStat(d) ==
    \E s \in task[d].sends :
        LET f == disk[d][s.path]
            may == InScope(d, s.path) /\ Trusts(d, s.to, s.path) /\ f.hash \notin Large
        IN
        /\ task[d].sending = {}
        /\ task' = [task EXCEPT
                ![d].sends = @ \ {s},
                ![d].sending = IF may /\ Here(f) THEN {[to |-> s.to, path |-> s.path, mtime |-> f.mtime]}
                               ELSE {}]
        /\ troubled' = (troubled \/ ~Here(f))
        /\ UNCHANGED <<folder, scanned, net, quiet>>

SendRead(d) ==
    \E s \in task[d].sending :
        LET f == disk[d][s.path] IN
        /\ net' = IF Here(f)
                  THEN Sent(d, {s.to}, [e \in Device |-> <<[type |-> "file", path |-> s.path,
                                                     mtime |-> s.mtime, hash |-> f.hash]>>])
                  ELSE net
        /\ task' = [task EXCEPT ![d].sending = {}]
        /\ troubled' = (troubled \/ ~Here(f))
        /\ UNCHANGED <<folder, scanned, quiet>>

-----------------------------------------------------------------------------
(* What a task comes to once its paths are refreshed.                      *)

Ready(d, kind) ==
    /\ task[d].kind = kind
    /\ ~Sending(d)
    /\ \A x \in {"todo", "reading", "writing", "trashing"} : task[d][x] = {}

SendManifest(d) ==
    /\ \/ Ready(d, "opened") /\ net' = Sent(d, {task[d].from}, [e \in Device |-> <<ManifestFor(d, e)>>])
       \/ Ready(d, "rescope") /\ net' = Sent(d, Device, [e \in Device |-> <<ManifestFor(d, e)>>])
    /\ task' = [task EXCEPT ![d] = NoTask]
    /\ UNCHANGED <<folder, scanned, world>>

(* applyManifest, up to the deletions.                                     *)
CompareManifest(d) ==
    LET m == task[d].msg
        e == task[d].from
        considered == {p \in Path : Here(m.files[p]) /\ InScope(d, p) /\ Trusts(d, e, p)}
        here == {p \in considered : Here(baseline[d][p])}
        refused == {p \in considered \ here :
                      tombs[d][p] > 0 /\ ~RemoteWins(d, e, m.files[p], Deletion(tombs[d][p]))}
    IN
    /\ Ready(d, "manifest")
    /\ net' = Sent(d, {e}, [x \in Device |-> SetToSeq({DeleteMsg(p, tombs[d][p]) : p \in refused})])
    /\ task' = [task EXCEPT ![d] =
            Answer(e, task[d].announce, {},
                   {[path |-> p, at |-> m.deleted[p]] :
                       p \in {q \in Path : m.deleted[q] > 0 /\ InScope(d, q)}},
                   {p \in here : /\ m.files[p].hash # baseline[d][p].hash
                                 /\ RemoteWins(d, e, m.files[p], baseline[d][p])}
                     \cup (considered \ (here \cup refused)))]
    /\ UNCHANGED <<folder, scanned, world>>

FinishTask(d) ==
    /\ Ready(d, "scan") \/ (Ready(d, "apply") /\ task[d].drops = {})
    /\ net' = IF task[d].wants = {} THEN net
              ELSE Sent(d, {task[d].from}, [e \in Device |-> <<[type |-> "request", paths |-> task[d].wants]>>])
    /\ task' = [task EXCEPT ![d] = NoTask]
    /\ UNCHANGED <<folder, scanned, world>>

-----------------------------------------------------------------------------
(* Deletions of another device.                                            *)

DeleteRefreshed(d) ==
    /\ Ready(d, "delete")
    /\ task' = [task EXCEPT ![d].kind = "apply",
                            ![d].drops = {[path |-> task[d].msg.path, at |-> task[d].msg.at]}]
    /\ UNCHANGED <<folder, scanned, net, world>>

NeverChangedSince(d, p) == FALSE                                         \* mutant

(* The file changed since it was refreshed: the local version stays.       *)
ChangedSince(d, p) == Here(disk[d][p]) /\ Here(baseline[d][p]) /\ disk[d][p].mtime # baseline[d][p].mtime

ApplyDelete(d) ==
    \E x \in task[d].drops :
        LET e == task[d].from
            ours == baseline[d][x.path]
            rest == [task EXCEPT ![d].drops = @ \ {x}]
        IN
        /\ Ready(d, "apply")
        /\ tombs' = IF Trusts(d, e, x.path) /\ ~Here(ours) /\ tombs[d][x.path] < x.at
                    THEN [tombs EXCEPT ![d][x.path] = x.at] ELSE tombs
        /\ task' = IF ~Trusts(d, e, x.path) \/ ~Here(ours) THEN rest
                   ELSE IF ~RemoteWins(d, e, Deletion(x.at), ours)
                   THEN [rest EXCEPT ![d].sends = {[to |-> e, path |-> x.path]}]
                   ELSE IF ChangedSince(d, x.path) THEN rest
                   ELSE [rest EXCEPT ![d].trashing = {x}]
        /\ UNCHANGED <<disk, baseline, scanned, net, world>>

(* There is nothing to trash, and trashLocal fails, when the user was      *)
(* faster.                                                                 *)
Trash(d) ==
    \E x \in task[d].trashing :
        /\ task' = [task EXCEPT ![d].trashing = {}]
        /\ IF Here(disk[d][x.path])
           THEN /\ disk' = [disk EXCEPT ![d][x.path] = NoFile]
                /\ baseline' = [baseline EXCEPT ![d][x.path] = NoFile]
                /\ tombs' = [tombs EXCEPT ![d][x.path] = x.at]
           ELSE UNCHANGED folder
        /\ UNCHANGED <<scanned, net, world>>

-----------------------------------------------------------------------------
(* A file of another device, its path refreshed: applyFile.                *)

SameContent(d) ==
    LET m == task[d].msg IN
    /\ Ready(d, "file")
    /\ baseline[d][m.path].hash = m.hash
    /\ baseline' = IF m.mtime > baseline[d][m.path].mtime
                   THEN [baseline EXCEPT ![d][m.path].mtime = m.mtime] ELSE baseline
    /\ task' = [task EXCEPT ![d] = NoTask]
    /\ UNCHANGED <<disk, tombs, scanned, net, world>>

Beaten(d) ==
    LET m == task[d].msg
        ours == baseline[d][m.path]
    IN  IF Here(ours) THEN ~RemoteWins(d, task[d].from, m, ours)
        ELSE tombs[d][m.path] > 0 /\ ~RemoteWins(d, task[d].from, m, Deletion(tombs[d][m.path]))

(* Ours is newer: they get the file, or the deletion.                      *)
AnswerOlder(d) ==
    LET m == task[d].msg
        e == task[d].from
    IN
    /\ Ready(d, "file")
    /\ baseline[d][m.path].hash # m.hash /\ Beaten(d)
    /\ IF Here(baseline[d][m.path])
       THEN /\ task' = [task EXCEPT ![d].kind = "apply", ![d].sends = {[to |-> e, path |-> m.path]}]
            /\ UNCHANGED net
       ELSE /\ net' = Sent(d, {e}, [x \in Device |-> <<DeleteMsg(m.path, tombs[d][m.path])>>])
            /\ task' = [task EXCEPT ![d] = NoTask]
    /\ UNCHANGED <<folder, scanned, world>>

AcceptNewer(d) ==
    LET m == task[d].msg IN
    /\ Ready(d, "file")
    /\ baseline[d][m.path].hash # m.hash /\ ~Beaten(d)
    /\ task' = IF ChangedSince(d, m.path) THEN [task EXCEPT ![d] = NoTask]
               ELSE [task EXCEPT ![d].writing = {[path |-> m.path, hash |-> m.hash, mtime |-> m.mtime]}]
    /\ UNCHANGED <<folder, scanned, net, world>>

WriteFile(d) ==
    \E w \in task[d].writing :
        /\ ~task[d].written
        /\ disk' = [disk EXCEPT ![d][w.path] = [hash |-> w.hash, mtime |-> w.mtime]]
        /\ task' = [task EXCEPT ![d].written = TRUE]
        /\ UNCHANGED <<state, scanned, net, world>>

RecordsNothing(d) ==                                                     \* mutant
    /\ task[d].written
    /\ task' = [task EXCEPT ![d] = NoTask]
    /\ UNCHANGED <<folder, scanned, net, world>>

(* Recorded with the time it has on the disk by then.                      *)
RecordFile(d) ==
    \E w \in task[d].writing :
        LET f == disk[d][w.path] IN
        /\ task[d].written
        /\ baseline' = [baseline EXCEPT ![d][w.path] =
                            [hash |-> w.hash, mtime |-> IF Here(f) THEN f.mtime ELSE w.mtime]]
        /\ tombs' = [tombs EXCEPT ![d][w.path] = 0]
        /\ task' = [task EXCEPT ![d] = NoTask]
        /\ UNCHANGED <<disk, scanned, net, world>>

(* A file cannot be checked, read, written or trashed: the task goes on    *)
(* without it.                                                             *)
Fault(d) ==
    /\ \/ \E x \in {"reading", "sending", "trashing"} : task[d][x] # {}
       \/ task[d].writing # {} /\ ~task[d].written
    /\ Count /\ troubled' = TRUE
    /\ task' = [task EXCEPT ![d] =
            IF @.writing # {} THEN NoTask
            ELSE [@ EXCEPT !.reading = {}, !.sending = {}, !.trashing = {}]]
    /\ UNCHANGED <<now, folder, scanned, scope, rescoped, linked, net>>

-----------------------------------------------------------------------------

Take(d) ==
    \E e \in Device : TakeScanning(d, e) \/ HandleRequest(d, e) \/ HandleFile(d, e) \/ HandleDelete(d, e)

Work(d) ==
    \/ \E p \in Path : NothingNew(d, p) \/ NoticeGone(d, p) \/ NoticeLarge(d, p) \/ NoticeChanged(d, p)
    \/ ReadChanged(d) \/ SendStat(d) \/ SendRead(d)
    \/ SendManifest(d) \/ CompareManifest(d) \/ FinishTask(d)
    \/ DeleteRefreshed(d) \/ ApplyDelete(d) \/ Trash(d)
    \/ SameContent(d) \/ AnswerOlder(d) \/ AcceptNewer(d) \/ WriteFile(d) \/ RecordFile(d)

Next ==
    \/ \E d, e \in Device : Connect(d, e) \/ Cut(d, e)
    \/ \E d \in Device :
          \/ \E p \in Path, t \in 1 .. MaxTime :
                RemoveFile(d, p, t) \/ \E h \in Hash : Save(d, p, h, t)
          \/ Restart(d) \/ \E s \in Scopes : ChangeScope(d, s)
          \/ Scan(d) \/ SettingsChanged(d) \/ Take(d) \/ Work(d) \/ Fault(d)

Spec == Init /\ [][Next]_vars

(* A task under way goes on, and every message in the chain gets its turn. *)
FairSpec == Spec /\ \A d \in Device : WF_vars(Work(d)) /\ SF_vars(Take(d))

-----------------------------------------------------------------------------
(* Properties.                                                             *)

UpToDate(d) ==
    /\ Idle(d) /\ d \notin rescoped
    /\ \A e \in Device : net[e][d] = <<>>
    /\ \A p \in Path : InScope(d, p) => disk[d][p].mtime = baseline[d][p].mtime

(* Linked devices that have nothing left to notice or to read hold the     *)
(* same settings, unless, since they connected, a file operation failed, a *)
(* file to send was gone, a file was touched (its new time is not told) or *)
(* grew over the cap (nor is that), or a scope changed (onSettingsChanged  *)
(* offers, it does not ask).                                               *)
Converged ==
    \A d, e \in Device, p \in Path :
        /\ {d, e} \in linked /\ d # e /\ ~troubled
        /\ UpToDate(d) /\ UpToDate(e)
        /\ InScope(d, p) /\ InScope(e, p) /\ Trusts(d, e, p) /\ Trusts(e, d, p)
        => disk[d][p].hash = disk[e][p].hash

(* A version the device has in its baseline, or a later save over it, is   *)
(* only replaced or trashed for one at least as new (applyFile's check of  *)
(* the file before the write).  A file that appears where the baseline has *)
(* none is not checked for.                                                *)
NewerStays ==
    [][\A d \in Device, p \in Path :
          /\ disk'[d][p] # disk[d][p] /\ task' # task
          /\ Here(disk[d][p]) /\ Here(baseline[d][p])
          => disk[d][p].mtime <= (IF Here(disk'[d][p]) THEN disk'[d][p].mtime ELSE tombs'[d][p])]_vars

(* "Files written here are never sent back as a local change": what a scan *)
(* announces is a content this device's user may have saved.               *)
NoEcho ==
    [][\A d \in Device : \A r \in task[d].reading :
          task'[d].sends # {} => d \in Writers[baseline'[d][r.path].hash]]_vars

(* Devices that answer each other's older versions stop.                   *)
ExchangeEnds == <>[](\A d, e \in Device : net[d][e] = <<>>)
=============================================================================
