------------------------------ MODULE FileSync ------------------------------
(***************************************************************************)
(* One note, edited on several devices that send each other updates and    *)
(* deletions (the file events, the send side and the apply side of         *)
(* main.ts).  The devices are connected and synchronise in automatic mode, *)
(* with the "newest wins, keep a copy" strategy.                           *)
(*                                                                         *)
(* Content is the set of edits it contains: an edit typed on top of C      *)
(* yields C \cup {e}.  The path lock makes everything a device does to the *)
(* note one step, except that the user's saves do not take it: an update   *)
(* that will be written is decided in one step and written in a later one. *)
(*                                                                         *)
(* Perils are the things that may happen to a device.  Each is real; the   *)
(* runs choose which ones to expose the protocol to:                       *)
(*   "skew"          clocks disagree: a change may look older than what it *)
(*                   was made to                                           *)
(*   "ties"          two changes may bear the same time                    *)
(*   "saveInWrite"   the user saves between a decision and its write       *)
(*   "saveInWindow"  the user saves within two seconds of a plugin write   *)
(*                   whose echo is already consumed                        *)
(*   "applyPending"  a message is applied while a local change waits in    *)
(*                   the debounce                                          *)
(*   "queueWaits"    things go on while a task waits in the send queue     *)
(*   "sendFails"     a send fails, delivered or not, and is retried        *)
(*   "reorder"       messages between two devices overtake each other      *)
(*   "trashFails"    the deleted file cannot be moved to the trash         *)
(***************************************************************************)
EXTENDS Versions, Sequences, FiniteSets, SequencesExt

CONSTANTS Times,       \* the times clocks may show
          MaxEdits,    \* bound: saves by users
          MaxDeletes,  \* bound: deletions by users
          MaxFailures, \* bound: failed sends
          HashOf,      \* the order of content hashes
          Perils

Everyone == 0
Edit == 1 .. MaxEdits
Content == (SUBSET Edit) \ {{}}

ASSUME FileSyncAssumption ==
    /\ Times \subseteq Nat \ {0}
    /\ MaxEdits \in Nat /\ MaxDeletes \in Nat /\ MaxFailures \in Nat
    /\ HashOf \in [Content -> Nat \ {0}]
    /\ Perils \subseteq {"skew", "ties", "saveInWrite", "saveInWindow", "applyPending",
                         "queueWaits", "sendFails", "reorder", "trashFails"}

VARIABLES
    file,     \* the note in each vault, or NoFile
    vv,       \* twoDeviceState.fileVersions
    tomb,     \* tombstones: when the note was deleted, 0 when it was not
    pending,  \* pendingFileChanges: a change waits in the debounce
    echo,     \* remoteEchoHashes: the content the plugin just wrote, if any
    marked,   \* ignoreEvents: a marker for the plugin's own write is alive
    tasks,    \* send tasks in the queue of each device
    waiting,  \* payloads already built that wait in the queue or for a retry
    net,      \* messages under way from one device to another
    busy,     \* the write a device has decided on, if any
    cooling,  \* replyCooldowns: the peers a device may not answer yet
    made, deletes, failures,  \* history: edits, deletions, failed sends so far
    stamps,   \* history: the times of the changes so far
    kept,     \* history: edits in conflict copies and in the trash
    dropped   \* history: edits in a note its user deleted

vars == <<file, vv, tomb, pending, echo, marked, tasks, waiting, net, busy, cooling,
          made, deletes, failures, stamps, kept, dropped>>

NoFile == [content |-> {}, mtime |-> 0]
Exists(d) == file[d] # NoFile

Note == [content : Content, mtime : Times]
Task == [kind : {"update", "delete"}, to : Device \cup {Everyone}, vector : SUBSET Vector]
Update == [kind : {"update"}, from : Device, content : Content, mtime : Times, vv : Vector]
Deletion == [kind : {"delete"}, from : Device, content : {{}}, mtime : Times, vv : Vector]
Message == Update \cup Deletion
Payload == [to : Device \cup {Everyone}, msg : Message, alias : BOOLEAN, isTask : BOOLEAN]
Decision == [msg : Update, merged : Vector, copy : SUBSET Edit]

TypeOK ==
    /\ file \in [Device -> Note \cup {NoFile}]
    /\ vv \in [Device -> Vector]
    /\ tomb \in [Device -> Times \cup {0}]
    /\ pending \in [Device -> BOOLEAN]
    /\ echo \in [Device -> SUBSET Content]
    /\ marked \in [Device -> BOOLEAN]
    /\ DOMAIN tasks = Device /\ \A d \in Device : tasks[d] \subseteq Task
    /\ DOMAIN waiting = Device /\ \A d \in Device : waiting[d] \subseteq Payload
    /\ net \in [Device \X Device -> Seq(Message)]
    /\ DOMAIN busy = Device /\ \A d \in Device : busy[d] \subseteq Decision
    /\ cooling \in [Device -> SUBSET Device]
    /\ made \in 0 .. MaxEdits /\ deletes \in Nat /\ failures \in Nat
    /\ stamps \subseteq Times /\ kept \subseteq Edit /\ dropped \subseteq Edit

Init ==
    /\ file = [d \in Device |-> NoFile]
    /\ vv = [d \in Device |-> ZeroVector]
    /\ tomb = [d \in Device |-> 0]
    /\ pending = [d \in Device |-> FALSE]
    /\ echo = [d \in Device |-> {}]
    /\ marked = [d \in Device |-> FALSE]
    /\ tasks = [d \in Device |-> {}]
    /\ waiting = [d \in Device |-> {}]
    /\ net = [c \in Device \X Device |-> <<>>]
    /\ busy = [d \in Device |-> {}]
    /\ cooling = [d \in Device |-> {}]
    /\ made = 0 /\ deletes = 0 /\ failures = 0
    /\ stamps = {} /\ kept = {} /\ dropped = {}

-----------------------------------------------------------------------------

(* incrementVersion counts one more edit in the vector object itself, and  *)
(* so in every payload that was built with that object.                    *)
Incremented(v, d) == [v EXCEPT ![d] = @ + 1]

RecordLocalEdit(d) ==
    /\ vv' = [vv EXCEPT ![d] = Incremented(@, d)]
    /\ waiting' = [waiting EXCEPT ![d] =
         {IF p.alias THEN [p EXCEPT !.msg.vv = Incremented(@, d)] ELSE p : p \in @}]

(* adoptVector stores a new object: payloads keep the old one.             *)
AdoptVector(d, v) ==
    /\ vv' = [vv EXCEPT ![d] = v]
    /\ waiting' = [waiting EXCEPT ![d] = {[p EXCEPT !.alias = FALSE] : p \in @}]

AdoptMerged(d, m) == AdoptVector(d, MergeVectors(vv[d], m.vv))

(* addToQueueTask: a task whose id is queued is dropped, hence a set.  A   *)
(* reply's vector is part of its id.                                       *)
Queue(d, t) == tasks' = [tasks EXCEPT ![d] = @ \cup {t}]
SendUpdate == [kind |-> "update", to |-> Everyone, vector |-> {}]
SendDelete(to) == [kind |-> "delete", to |-> to, vector |-> {}]

(* clearTombstone: the note exists again.                                  *)
ClearTombstoneNever(d) == UNCHANGED tomb                             \* mutant
ClearTombstone(d) == tomb' = [tomb EXCEPT ![d] = 0]

(* replyWithOurVersion: our file, with the vector it had when the other    *)
(* side's version was judged.  Nobody is answered twice in five seconds.   *)
Reply(d, peer) ==
    IF peer \in cooling[d]
    THEN UNCHANGED <<tasks, cooling>>
    ELSE /\ Queue(d, [kind |-> "update", to |-> peer, vector |-> {vv[d]}])
         /\ cooling' = [cooling EXCEPT ![d] = @ \cup {peer}]

-----------------------------------------------------------------------------
(* The user and the file events.                                           *)

(* The send queue is empty, as it is when no transfer holds it up; a retry *)
(* may be waiting.                                                         *)
Unhurried(d) ==
    \/ "queueWaits" \in Perils
    \/ tasks[d] = {} /\ ("sendFails" \in Perils \/ waiting[d] = {})

(* The times a change of the note may bear: later than the note, or than   *)
(* the deletion it follows.                                                *)
LastChange(d) == IF Exists(d) THEN file[d].mtime ELSE tomb[d]
Timely(d, t) ==
    /\ t > LastChange(d) \/ "skew" \in Perils
    /\ t \notin stamps \/ "ties" \in Perils

(* A modify event while a plugin write may be echoing always reaches the   *)
(* debounce, which compares contents; any other event is ignored while a   *)
(* marker is alive.                                                        *)
EventHeard(d, modify) == (modify /\ echo[d] # {}) \/ ~marked[d]

Save(d, t) ==
    /\ made < MaxEdits
    /\ Unhurried(d)
    /\ Timely(d, t)
    /\ busy[d] = {} \/ "saveInWrite" \in Perils
    /\ EventHeard(d, Exists(d)) \/ "saveInWindow" \in Perils
    /\ made' = made + 1
    /\ stamps' = stamps \cup {t}
    /\ file' = [file EXCEPT ![d] = [content |-> @.content \cup {made + 1}, mtime |-> t]]
    /\ pending' = [pending EXCEPT ![d] = @ \/ EventHeard(d, Exists(d))]
    /\ UNCHANGED <<vv, tomb, echo, marked, tasks, waiting, net, busy, cooling, deletes,
                   failures, kept, dropped>>

(* The debounce expires: the change is the echo of a plugin write, or an   *)
(* edit to count and send; or the note is gone.                            *)
Flush(d) ==
    /\ pending[d]
    /\ busy[d] = {}
    /\ Unhurried(d)
    /\ pending' = [pending EXCEPT ![d] = FALSE]
    /\ IF Exists(d)
       THEN /\ echo' = [echo EXCEPT ![d] = {}]
            /\ marked' = [marked EXCEPT ![d] = @ /\ echo[d] = {}]
       ELSE UNCHANGED <<echo, marked>>
    /\ IF Exists(d) /\ file[d].content \notin echo[d]
       THEN /\ RecordLocalEdit(d)
            /\ ClearTombstone(d)
            /\ Queue(d, SendUpdate)
       ELSE UNCHANGED <<vv, waiting, tomb, tasks>>
    /\ UNCHANGED <<file, net, busy, cooling, made, deletes, failures, stamps, kept, dropped>>

(* The user deletes the note: handleFileDelete.                            *)
Delete(d, t) ==
    /\ Exists(d)
    /\ busy[d] = {}
    /\ Unhurried(d)
    /\ Timely(d, t)
    /\ deletes < MaxDeletes
    /\ deletes' = deletes + 1
    /\ stamps' = stamps \cup {t}
    /\ dropped' = dropped \cup file[d].content
    /\ file' = [file EXCEPT ![d] = NoFile]
    /\ RecordLocalEdit(d)
    /\ tomb' = [tomb EXCEPT ![d] = t]
    /\ Queue(d, SendDelete(Everyone))
    /\ UNCHANGED <<pending, echo, marked, net, busy, cooling, made, failures, kept>>

(* Two seconds, or five, have passed.                                      *)
MarkerExpires(d) ==
    /\ marked[d]
    /\ marked' = [marked EXCEPT ![d] = FALSE]
    /\ UNCHANGED <<file, vv, tomb, pending, echo, tasks, waiting, net, busy, cooling,
                   made, deletes, failures, stamps, kept, dropped>>

CooldownExpires(d, p) ==
    /\ p \in cooling[d]
    /\ cooling' = [cooling EXCEPT ![d] = @ \ {p}]
    /\ UNCHANGED <<file, vv, tomb, pending, echo, marked, tasks, waiting, net, busy,
                   made, deletes, failures, stamps, kept, dropped>>

-----------------------------------------------------------------------------
(* The send side: processQueueItem.                                        *)

(* The message a task becomes, built from the file and the vector of now.  *)
Built(d, t) ==
    IF t.kind = "update"
    THEN [kind |-> "update", from |-> d, content |-> file[d].content,
          mtime |-> file[d].mtime,
          vv |-> IF t.vector = {} THEN vv[d] ELSE CHOOSE v \in t.vector : TRUE]
    ELSE [kind |-> "delete", from |-> d, content |-> {}, mtime |-> tomb[d], vv |-> vv[d]]

Receivers(d, to) == IF to = Everyone THEN Device \ {d} ELSE {to}

(* A task has nothing to send any more when the file is gone, is back, or  *)
(* is what a peer just gave us.                                            *)
IsPlain(t) == t.kind = "update" /\ t.vector = {}
ObsoleteUnlessEcho(d, t) ==           \* mutant: a file that is gone is sent
    IF t.kind = "update" THEN IsPlain(t) /\ file[d].content \in echo[d] ELSE Exists(d)
Obsolete(d, t) ==
    IF t.kind = "update"
    THEN ~Exists(d) \/ (IsPlain(t) /\ file[d].content \in echo[d])
    ELSE Exists(d)

(* Payload p, taken from the queue of d, is sent to peer.  What is for     *)
(* everyone is queued once more for each further peer.  A send that fails  *)
(* is retried as a whole; an update may have arrived all the same, when    *)
(* only its acknowledgement is lost.                                       *)
Arrived(d, peer, m) == [net EXCEPT ![<<d, peer>>] = Append(@, m)]

CopiesForgotten(d, p, peer) == {}     \* mutant: only one peer gets a broadcast
Copies(d, p, peer) ==
    {[p EXCEPT !.to = q, !.isTask = FALSE] : q \in Receivers(d, p.to) \ {peer}}

Transmit(d, p, peer) ==
    LET others == (waiting[d] \ {p}) \cup Copies(d, p, peer)
    IN  \/ /\ net' = Arrived(d, peer, p.msg)
           /\ waiting' = [waiting EXCEPT ![d] = others]
           /\ UNCHANGED failures
        \/ /\ "sendFails" \in Perils
           /\ failures < MaxFailures
           /\ failures' = failures + 1
           /\ net' = net \/ (p.msg.kind = "update" /\ net' = Arrived(d, peer, p.msg))
           /\ waiting' = [waiting EXCEPT ![d] = others \cup {p}]

Process(d, t) ==
    /\ t \in tasks[d]
    /\ tasks' = [tasks EXCEPT ![d] = @ \ {t}]
    /\ echo' = [echo EXCEPT ![d] = IF IsPlain(t) /\ Exists(d) THEN {} ELSE @]
    /\ IF Obsolete(d, t)
       THEN UNCHANGED <<net, waiting, failures>>
       ELSE \E peer \in Receivers(d, t.to) :
              Transmit(d, [to |-> t.to, msg |-> Built(d, t), alias |-> t.vector = {},
                           isTask |-> TRUE], peer)
    /\ UNCHANGED <<file, vv, tomb, pending, marked, busy, cooling, made, deletes, stamps,
                   kept, dropped>>

(* A payload built earlier is sent as it stands, except that the task of   *)
(* an update needs the file to be there still and a deletion's is built    *)
(* anew.                                                                   *)
Resend(d, p) ==
    /\ p \in waiting[d]
    /\ IF p.isTask /\ (p.msg.kind = "delete" \/ ~Exists(d))
       THEN /\ waiting' = [waiting EXCEPT ![d] = @ \ {p}]
            /\ IF p.msg.kind = "delete" THEN Queue(d, SendDelete(p.to)) ELSE UNCHANGED tasks
            /\ UNCHANGED <<net, failures>>
       ELSE /\ \E peer \in Receivers(d, p.to) : Transmit(d, p, peer)
            /\ UNCHANGED tasks
    /\ UNCHANGED <<file, vv, tomb, pending, echo, marked, busy, cooling, made, deletes,
                   stamps, kept, dropped>>

-----------------------------------------------------------------------------
(* The apply side.                                                         *)

Deleted(d) == [mtime |-> tomb[d], vv |-> vv[d], hash |-> 0, device |-> d]
Held(d) == [mtime |-> file[d].mtime, vv |-> vv[d], hash |-> HashOf[file[d].content],
            device |-> d]
Offered(m) == [mtime |-> m.mtime, vv |-> m.vv,
               hash |-> IF m.kind = "update" THEN HashOf[m.content] ELSE 0,
               device |-> m.from]

(* deletionOutranks, then handleNewFileCreation.                           *)
ApplyToNothing(d, m) ==
    /\ AdoptMerged(d, m)
    /\ IF tomb[d] # 0 /\ PickIsFirst(Deleted(d), Offered(m))
       THEN /\ Queue(d, SendDelete(m.from))
            /\ UNCHANGED <<file, tomb, echo, marked>>
       ELSE /\ file' = [file EXCEPT ![d] = [content |-> m.content, mtime |-> m.mtime]]
            /\ ClearTombstone(d)
            /\ echo' = [echo EXCEPT ![d] = {m.content}]
            /\ marked' = [marked EXCEPT ![d] = TRUE]
            /\ UNCHANGED tasks
    /\ UNCHANGED <<busy, cooling, kept>>

(* How handleFileModification orders a message against the held version: a *)
(* change still in the debounce is an edit the vector cannot see yet.      *)
OrderOf(d, m) ==
    IF pending[d] THEN "concurrent" ELSE CompareVectors(m.vv, vv[d])

DecideToWriteTheirs(d, m, copy) ==    \* mutant: the vectors are not merged
    /\ busy' = [busy EXCEPT ![d] = {[msg |-> m, merged |-> m.vv, copy |-> copy]}]
    /\ UNCHANGED <<vv, waiting, tasks, cooling>>
DecideToWrite(d, m, copy) ==
    /\ busy' = [busy EXCEPT ![d] =
         {[msg |-> m, merged |-> MergeVectors(vv[d], m.vv), copy |-> copy]}]
    /\ UNCHANGED <<vv, waiting, tasks, cooling>>

(* resolveConflict: the newer version wins.  If it is theirs, a copy keeps *)
(* an edit made here that it lacks.                                        *)
KeepCopyOfTheirs(d, m) == HasOwnUnseenEdit(m.vv, vv[d], d) \/ pending[d]   \* mutant
KeepCopy(d, m) == HasOwnUnseenEdit(vv[d], m.vv, d) \/ pending[d]

ResolveConflict(d, m) ==
    IF NewerIsFirst(Offered(m), Held(d))
    THEN DecideToWrite(d, m, IF KeepCopy(d, m) THEN file[d].content ELSE {})
    ELSE /\ Reply(d, m.from)
         /\ AdoptMerged(d, m)
         /\ UNCHANGED busy

ApplyToFile(d, m) ==
    /\ IF m.content = file[d].content /\ ~pending[d]
       THEN AdoptMerged(d, m) /\ UNCHANGED <<busy, tasks, cooling>>
       ELSE \/ /\ OrderOf(d, m) = "after"
               /\ DecideToWrite(d, m, {})
            \/ /\ OrderOf(d, m) = "before"
               /\ Reply(d, m.from)
               /\ UNCHANGED <<vv, waiting, busy>>
            \/ /\ OrderOf(d, m) \in {"equal", "concurrent"}
               /\ ResolveConflict(d, m)
    /\ UNCHANGED <<file, tomb, echo, marked, kept>>

(* applyFileDelete.  This version of the code always sends deletedAt.      *)
ApplyDelete(d, m) ==
    IF ~Exists(d)
    THEN /\ AdoptMerged(d, m)
         /\ tomb' = [tomb EXCEPT ![d] = IF @ = 0 THEN m.mtime ELSE @]
         /\ UNCHANGED <<file, echo, marked, tasks, busy, cooling, kept>>
    ELSE IF ~PickIsFirst(Offered(m), Held(d))
    THEN /\ Reply(d, m.from)
         /\ AdoptMerged(d, m)
         /\ UNCHANGED <<file, tomb, echo, marked, busy, kept>>
    ELSE \/ /\ kept' = kept \cup file[d].content
            /\ file' = [file EXCEPT ![d] = NoFile]
            /\ AdoptMerged(d, m)
            /\ tomb' = [tomb EXCEPT ![d] = m.mtime]
            /\ UNCHANGED <<echo, marked, tasks, busy, cooling>>
         \/ /\ "trashFails" \in Perils
            /\ UNCHANGED <<file, vv, waiting, tomb, echo, marked, tasks, busy, cooling, kept>>

Apply(d, m) ==
    IF m.kind = "delete" THEN ApplyDelete(d, m)
    ELSE IF Exists(d) THEN ApplyToFile(d, m) ELSE ApplyToNothing(d, m)

Deliver(d, from, n) ==
    /\ n \in DOMAIN net[<<from, d>>]
    /\ n = 1 \/ "reorder" \in Perils
    /\ busy[d] = {}
    /\ Unhurried(d)
    /\ ~pending[d] \/ "applyPending" \in Perils
    /\ net' = [net EXCEPT ![<<from, d>>] = RemoveAt(@, n)]
    /\ Apply(d, net[<<from, d>>][n])
    /\ UNCHANGED <<pending, made, deletes, failures, stamps, dropped>>

(* The decided write lands: the copy first, then writeRemoteVersion.  The  *)
(* vault's own event may be heard after the echo is armed.                 *)
Write(d) ==
    /\ \E w \in busy[d] :
          /\ kept' = kept \cup w.copy
          /\ file' = [file EXCEPT ![d] = [content |-> w.msg.content, mtime |-> w.msg.mtime]]
          /\ echo' = [echo EXCEPT ![d] = {w.msg.content}]
          /\ AdoptVector(d, w.merged)
    /\ busy' = [busy EXCEPT ![d] = {}]
    /\ marked' = [marked EXCEPT ![d] = TRUE]
    /\ \E heard \in BOOLEAN : pending' = [pending EXCEPT ![d] = @ \/ heard]
    /\ UNCHANGED <<tomb, tasks, net, cooling, made, deletes, failures, stamps, dropped>>

-----------------------------------------------------------------------------

Next ==
    \E d \in Device :
        \/ \E t \in Times : Save(d, t) \/ Delete(d, t)
        \/ Flush(d)
        \/ MarkerExpires(d)
        \/ \E p \in Device : CooldownExpires(d, p)
        \/ \E t \in tasks[d] : Process(d, t)
        \/ \E p \in waiting[d] : Resend(d, p)
        \/ \E from \in Device : \E n \in DOMAIN net[<<from, d>>] : Deliver(d, from, n)
        \/ Write(d)

Spec == Init /\ [][Next]_vars

(* Debounce and retry timers fire, the queue drains, messages arrive and   *)
(* decided writes land; users need not do anything.                        *)
Fairness ==
    \A d \in Device :
        /\ WF_vars(Flush(d))
        /\ WF_vars(\E t \in tasks[d] : Process(d, t))
        /\ WF_vars(\E p \in waiting[d] : Resend(d, p))
        /\ \A from \in Device : WF_vars(\E n \in DOMAIN net[<<from, d>>] : Deliver(d, from, n))
        /\ WF_vars(Write(d))

FairSpec == Spec /\ Fairness

-----------------------------------------------------------------------------

(* Nothing is under way: every change was flushed, sent and applied.       *)
Quiet ==
    \A d \in Device :
        /\ ~pending[d] /\ tasks[d] = {} /\ waiting[d] = {} /\ busy[d] = {}
        /\ \A p \in Device : net[<<d, p>>] = <<>>

(* When everything is sent and applied, all devices hold the same note, or *)
(* none holds one (pickVersion: "the devices on both ends agree").         *)
Converged == Quiet => \A d, p \in Device : file[d].content = file[p].content

(* Every edit is in somebody's note, in a conflict copy or in the trash,   *)
(* unless a user deleted a note that had it (resolveConflict: the losing   *)
(* version is not thrown away).                                            *)
NoEditLost ==
    \A e \in 1 .. made : \/ e \in kept \cup dropped
                         \/ \E d \in Device : e \in file[d].content

(* A device that holds the note advertises no deletion of it, once the     *)
(* debounce has flushed: a stale tombstone makes peers delete their copy.  *)
TombstoneOfTheDead == \A d \in Device : Exists(d) /\ tomb[d] # 0 => pending[d]

(* No device, message, task or payload counts more edits of a device than  *)
(* that device itself: nothing ever runs ahead of its author, whatever is  *)
(* lost, late, retried or reordered.                                       *)
NotAhead(v) == \A e \in Device : v[e] <= vv[e][e]

OwnCountIsHighest ==
    \A d \in Device :
        /\ NotAhead(vv[d])
        /\ \A p \in waiting[d] : NotAhead(p.msg.vv)
        /\ \A w \in busy[d] : NotAhead(w.merged)
        /\ \A t \in tasks[d] : \A v \in t.vector : NotAhead(v)
        /\ \A from \in Device : \A n \in DOMAIN net[<<from, d>>] : NotAhead(net[<<from, d>>][n].vv)

(* What a device knows of the others' edits never shrinks.                 *)
VectorsGrow == [][\A d \in Device : Includes(vv'[d], vv[d])]_vars

(* Once users stop, everything is sent and applied: replies to replies die *)
(* out (replyWithOurVersion: "two devices answering each other must not    *)
(* loop").                                                                 *)
Settles == <>[]Quiet

-----------------------------------------------------------------------------

(* The inductive invariant behind TypeOK, OwnCountIsHighest and            *)
(* VectorsGrow.                                                            *)

\* A deletion is queued only by a device that knows when the note was deleted, so
\* deletedAt is always sent, unless the note is back and the deletion obsolete.
DeletionQueued(d) ==
    \/ \E t \in tasks[d] : t.kind = "delete"
    \/ \E p \in waiting[d] : p.isTask /\ p.msg.kind = "delete"
DeletionsDated == \A d \in Device : DeletionQueued(d) => Exists(d) \/ tomb[d] # 0

\* Nothing is counted between a decision and its write.
DecisionsCover == \A d \in Device : \A w \in busy[d] : Includes(w.merged, vv[d])

IInv == TypeOK /\ OwnCountIsHighest /\ DeletionsDated /\ DecisionsCover
=============================================================================
