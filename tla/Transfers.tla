----------------------------- MODULE Transfers -----------------------------
(***************************************************************************)
(* How main.ts brings a file to a peer that may come and go.  A queued     *)
(* task reads the file and sends it, whole or in chunks, then waits for    *)
(* the acknowledgement.  What fails is retried by the queue, then by       *)
(* retryFailedSyncs with a growing delay; an upload cut off by a closed    *)
(* link leaves a paused record, which the next handshake turns into a new  *)
(* task.  The peer assembles chunks in a buffer and answers when it wrote  *)
(* the file.                                                               *)
(*                                                                         *)
(* A task is a peer and a path.  The queue's own order, slots and limit    *)
(* are QueueManager's subject: here a task waits, is being sent, or waits  *)
(* for a retry.  Messages of a link arrive in order and are lost when the  *)
(* link closes.  The size of chunks adapts to failures, so a chunk carries *)
(* the number of the attempt it was cut for.                               *)
(***************************************************************************)
EXTENDS Naturals, Sequences, FiniteSets

CONSTANTS Peer,
          Task,
          PeerOf,          \* the peer of a task
          Large,           \* the tasks whose file is sent in chunks
          Chunks,          \* the chunks of a large file
          Id,              \* transfer ids
          Concurrency,     \* items in hand at once: the queue's limit
          RetryLimit,      \* retries by the queue: 3 in the code
          ResendLimit,     \* retries by retryFailedSyncs: 5 in the code
          MaxReassemblies, \* buffers a receiver keeps: 16 in the code
          Perils,          \* what may go wrong
          MaxAsks,         \* bound: requests to send a file
          MaxTrouble       \* bound: how often something goes wrong

(* Links close and are replaced, timers fire although an answer is still   *)
(* to come, writes fail, syncs are aborted, the sender restarts, a peer    *)
(* stays away for a week.                                                  *)
AllPerils == {"close", "replace", "early", "write", "abort", "restart", "week"}

ASSUME TransfersAssumption ==
    /\ PeerOf \in [Task -> Peer] /\ Large \subseteq Task
    /\ Chunks \in Nat \ {0} /\ Id \subseteq Nat
    /\ Concurrency \in Nat \ {0} /\ RetryLimit \in Nat /\ ResendLimit \in Nat /\ MaxReassemblies \in Nat \ {0}
    /\ Perils \subseteq AllPerils
    /\ MaxAsks \in Nat /\ MaxTrouble \in Nat

VARIABLES
    asks,      \* requests to send a file, so far: they number the versions
    asked,     \* each file's version when somebody last asked to send it
    queued,    \* tasks in the queue that have read nothing yet
    items,     \* items that have a payload: being sent, or parked for a retry
    uploads,   \* activeTransfers of the sender
    failed,    \* failedSyncs: 0 for no entry, else its retryCount plus 1
    excuse,    \* history: why the newest version may never arrive
    open,      \* the peers a link is open to
    out, back, \* the messages on their way to each peer, and its answers
    partial,   \* pendingFileChunks of the peers
    downloads, \* activeTransfers of the peers
    held,      \* the version each peer has
    trouble    \* how often something went wrong

senderVars == <<asks, asked, queued, items, uploads, failed, excuse>>
peerVars == <<partial, downloads, held>>
vars == <<asks, asked, queued, items, uploads, failed, excuse, open, out, back,
          partial, downloads, held, trouble>>

(* A large file is announced by one message and follows in chunks.         *)
Length(t) == IF t \in Large THEN Chunks + 1 ELSE 1
Version == 0 .. MaxAsks
Excuses == {"none", "gaveUp", "cleared", "struck", "expired"}

Item ==
    [id : Id, task : Task, ver : Version, tries : 0 .. RetryLimit,
     at : {"sending", "parked"},
     sent : 0 .. Chunks + 1,              \* messages handed to the link
     wire : {"open", "closed"},           \* the connection the loop holds on to
     ack : {"pending", "done", "failed"}, \* the promise it waits for
     live : BOOLEAN]                      \* no abort since it was taken from the queue

Upload == [id : Id, task : Task, paused : BOOLEAN]
Cut == 0 .. RetryLimit                     \* the attempt a chunk was cut for
Message == [id : Id, task : Task, ver : Version, cut : Cut, n : 1 .. Chunks + 1]
Reply == [id : Id, ok : BOOLEAN]
Buffer == [2 .. Chunks + 1 -> SUBSET Cut]  \* what was written in each chunk's place
Partial == [id : Id, task : Task, ver : Version, cut : Cut, buffer : Buffer]

TypeOK ==
    /\ asks \in Version
    /\ asked \in [Task -> Version] /\ held \in [Task -> Version]
    /\ queued \subseteq Task /\ open \subseteq Peer
    /\ items \subseteq Item /\ uploads \subseteq Upload
    /\ failed \in [Task -> 0 .. ResendLimit + 1]
    /\ excuse \in [Task -> Excuses]
    /\ out \in [Peer -> Seq(Message)] /\ back \in [Peer -> Seq(Reply)]
    /\ partial \subseteq Partial /\ downloads \subseteq Id \X Peer
    /\ trouble \in 0 .. MaxTrouble

Init ==
    /\ asks = 0
    /\ asked = [t \in Task |-> 0] /\ held = [t \in Task |-> 0]
    /\ queued = {} /\ items = {} /\ uploads = {}
    /\ failed = [t \in Task |-> 0] /\ excuse = [t \in Task |-> "none"]
    /\ open = Peer
    /\ out = [p \in Peer |-> <<>>] /\ back = [p \in Peer |-> <<>>]
    /\ partial = {} /\ downloads = {}
    /\ trouble = 0

Happens(e) == e \in Perils /\ trouble < MaxTrouble /\ trouble' = trouble + 1

OfPeer(p, S) == {x \in S : PeerOf[x.task] = p}
TasksOf(S) == {x.task : x \in S}
IdsOf(S) == {x.id : x \in S}
InTransit(p) == {out[p][k] : k \in DOMAIN out[p]}
Answers(p) == {back[p][k] : k \in DOMAIN back[p]}

-----------------------------------------------------------------------------
(* The sender.                                                             *)

(* sendFileUpdate.                                                         *)
Ask(t) ==
    /\ asks < MaxAsks
    /\ asks' = asks + 1
    /\ asked' = [asked EXCEPT ![t] = asks']
    /\ queued' = queued \cup {t}
    /\ excuse' = [excuse EXCEPT ![t] = "none"]
    /\ UNCHANGED <<items, uploads, failed, open, out, back, peerVars, trouble>>

(* generateTransferId.                                                     *)
InUse ==
    IdsOf(items) \cup IdsOf(uploads) \cup IdsOf(partial)
        \cup {d[1] : d \in downloads}
        \cup UNION {IdsOf(InTransit(p)) \cup IdsOf(Answers(p)) : p \in Peer}
Least(S) == CHOOSE k \in S : \A j \in S : k <= j
FreshId == Least(Id \ InUse)

(* An attempt begins: with no link to the peer it is over at once.         *)
Begun(i) ==
    IF PeerOf[i.task] \in open
    THEN [i EXCEPT !.at = "sending", !.sent = 0, !.wire = "open", !.ack = "pending"]
    ELSE [i EXCEPT !.at = "sending", !.sent = Length(i.task), !.wire = "closed", !.ack = "failed"]

RecordUpload(i) ==
    uploads' = IF i.task \in Large /\ PeerOf[i.task] \in open
               THEN {u \in uploads : u.id # i.id} \cup {[id |-> i.id, task |-> i.task, paused |-> FALSE]}
               ELSE uploads

Sending == {i \in items : i.at = "sending"}
SlotFree == Cardinality(Sending) < Concurrency

(* A task leaves the queue and reads the file.                             *)
Start(t) ==
    /\ t \in queued /\ SlotFree
    /\ queued' = queued \ {t}
    /\ Id \ InUse # {}
    /\ LET i == [id |-> FreshId, task |-> t, ver |-> asked[t], tries |-> 0,
                 at |-> "sending", sent |-> 0, wire |-> "open", ack |-> "pending", live |-> TRUE]
       IN  items' = items \cup {Begun(i)} /\ RecordUpload(i)
    /\ UNCHANGED <<asks, asked, failed, excuse, open, out, back, peerVars, trouble>>

(* The queue's retry timer: the same payload goes out again, unless an     *)
(* abort moved the queue's epoch since.                                    *)
Retry(i) ==
    /\ i \in items /\ i.at = "parked"
    /\ \/ /\ i.live /\ SlotFree
          /\ items' = (items \ {i}) \cup {Begun(i)}
          /\ RecordUpload(i)
       \/ /\ ~i.live
          /\ items' = items \ {i}
          /\ UNCHANGED uploads
    /\ UNCHANGED <<asks, asked, queued, failed, excuse, open, out, back, peerVars, trouble>>

FailUnrecorded(i) ==     \* mutant: the last failure leaves no trace
    /\ uploads' = {u \in uploads : u.id # i.id}
    /\ items' = (items \ {i}) \cup {[i EXCEPT !.at = "parked", !.tries = @ + 1] :
                                      j \in {k \in {i} : k.tries < RetryLimit}}
    /\ UNCHANGED failed
MayRetryOnceMore(i) == i.tries <= RetryLimit      \* mutant
MayRetry(i) == i.tries < RetryLimit

(* processQueueItem throws: the record of the upload goes; the queue       *)
(* retries the item, or a failed sync is recorded.                         *)
Fail(i) ==
    /\ uploads' = {u \in uploads : u.id # i.id}
    /\ \/ /\ MayRetry(i)
          /\ items' = (items \ {i}) \cup {[i EXCEPT !.at = "parked", !.tries = @ + 1]}
          /\ UNCHANGED failed
       \/ /\ ~MayRetry(i)
          /\ items' = items \ {i}
          /\ failed' = [failed EXCEPT ![i.task] = IF @ = 0 THEN 1 ELSE @]

(* The chunk loop finds its connection closed: the item is done with, and  *)
(* the upload's record is what remains.                                    *)
PauseUnrecorded(i) ==    \* mutant: the record is cleaned up with the item
    /\ items' = items \ {i}
    /\ uploads' = {u \in uploads : u.id # i.id}
    /\ UNCHANGED failed
Pause(i) ==
    /\ items' = items \ {i}
    /\ uploads' = {IF u.id = i.id THEN [u EXCEPT !.paused = TRUE] ELSE u : u \in uploads}
    /\ UNCHANGED failed

(* The next message of an item.  The announcement, or the whole of a small *)
(* file, goes to whatever link is open; the chunks that follow insist on   *)
(* the record of the upload and on the connection the loop began with.     *)
SendNext(i) ==
    LET n == i.sent + 1
        p == PeerOf[i.task]
        mayGo == IF n = 1 THEN p \in open ELSE i.id \in IdsOf(uploads) /\ i.wire = "open"
    IN  /\ i \in items /\ i.at = "sending" /\ i.sent < Length(i.task)
        /\ \/ /\ mayGo
              /\ items' = (items \ {i}) \cup {[i EXCEPT !.sent = n]}
              /\ out' = [out EXCEPT ![p] = Append(@,
                           [id |-> i.id, task |-> i.task, ver |-> i.ver, cut |-> i.tries, n |-> n])]
              /\ UNCHANGED <<uploads, failed>>
           \/ /\ ~mayGo
              /\ IF n > 1 /\ i.id \in IdsOf(uploads) THEN Pause(i) ELSE Fail(i)
              /\ UNCHANGED out
        /\ UNCHANGED <<asks, asked, queued, excuse, open, back, peerVars, trouble>>

(* All is sent and the acknowledgement is settled.  Success leaves an      *)
(* entry of failedSyncs where it is: the payload, which would say what to  *)
(* remove, has been dropped by then.                                       *)
Finish(i) ==
    /\ i \in items /\ i.at = "sending" /\ i.sent = Length(i.task)
    /\ \/ /\ i.ack = "done"
          /\ items' = items \ {i}
          /\ uploads' = {u \in uploads : u.id # i.id}
          /\ UNCHANGED failed
       \/ i.ack = "failed" /\ Fail(i)
    /\ UNCHANGED <<asks, asked, queued, excuse, open, out, back, peerVars, trouble>>

Answered(i, ok) ==
    IF i.at = "sending" /\ i.ack = "pending"
    THEN [i EXCEPT !.ack = IF ok THEN "done" ELSE "failed"] ELSE i

(* ack and nack.                                                           *)
ReceiveAnswer(p) ==
    /\ back[p] # <<>>
    /\ LET a == Head(back[p])
       IN  items' = {IF i.id = a.id THEN Answered(i, a.ok) ELSE i : i \in items}
    /\ back' = [back EXCEPT ![p] = Tail(@)]
    /\ UNCHANGED <<asks, asked, queued, uploads, failed, excuse, open, out, peerVars, trouble>>

(* Whether an answer to i is still on its way.                             *)
UnderwayForever(i) == TRUE      \* mutant: the wait for an answer has no timer
Underway(i) ==
    LET p == PeerOf[i.task]
    IN  \/ i.sent < Length(i.task)
        \/ i.id \in IdsOf(InTransit(p)) \cup IdsOf(Answers(p))

(* Time passes without progress: the timer of the acknowledgement, or the  *)
(* sweep of transfers that were silent for a minute, which also removes    *)
(* the record of the upload.                                               *)
TimeOut(i) ==
    /\ i \in items /\ i.at = "sending" /\ i.ack = "pending"
    /\ IF Underway(i) THEN Happens("early") ELSE UNCHANGED trouble
    /\ items' = (items \ {i}) \cup {[i EXCEPT !.ack = "failed"]}
    /\ \/ UNCHANGED uploads
       \/ \E u \in uploads : u.id = i.id /\ ~u.paused /\ uploads' = uploads \ {u}
    /\ UNCHANGED <<asks, asked, queued, failed, excuse, open, out, back, peerVars>>

(* retryFailedSyncs, for one entry whose delay has passed.                 *)
RetryFailed(t) ==
    /\ failed[t] > 0 /\ PeerOf[t] \in open
    /\ \/ /\ failed[t] <= ResendLimit
          /\ failed' = [failed EXCEPT ![t] = @ + 1]
          /\ queued' = queued \cup {t}
          /\ UNCHANGED excuse
       \/ /\ failed[t] > ResendLimit
          /\ failed' = [failed EXCEPT ![t] = 0]
          /\ excuse' = [excuse EXCEPT ![t] = "gaveUp"]
          /\ UNCHANGED queued
    /\ UNCHANGED <<asks, asked, items, uploads, open, out, back, peerVars, trouble>>

(* A paused upload is dropped after a week.                                *)
Expire(u) ==
    /\ "week" \in Perils
    /\ u \in uploads /\ u.paused
    /\ uploads' = uploads \ {u}
    /\ excuse' = [excuse EXCEPT ![u.task] = "expired"]
    /\ UNCHANGED <<asks, asked, queued, items, failed, open, out, back, peerVars, trouble>>

-----------------------------------------------------------------------------
(* The peers.                                                              *)

(* A chunk whose place is taken changes nothing.                  *)
Filled(x, m) == [x EXCEPT !.buffer[m.n] = IF @ = {} THEN {m.cut} ELSE @]
Complete(x) == \A n \in DOMAIN x.buffer : x.buffer[n] # {}
Intact(x) == \A n \in DOMAIN x.buffer : x.buffer[n] = {x.cut}

(* The file is written and acknowledged: the peer keeps the newer of what  *)
(* it has and what came.  A buffer whose hash is wrong and a failed write  *)
(* are answered with a nack.                                               *)
Answer(m, ok) == back' = [back EXCEPT ![PeerOf[m.task]] = Append(@, [id |-> m.id, ok |-> ok])]

ApplyRefused(m, intact) ==      \* mutant: a failed write is acknowledged
    /\ \/ held' = [held EXCEPT ![m.task] = IF m.ver > @ THEN m.ver ELSE @] /\ UNCHANGED trouble
       \/ Happens("write") /\ UNCHANGED held
    /\ Answer(m, TRUE)
Apply(m, intact) ==
    \/ /\ intact
       /\ held' = [held EXCEPT ![m.task] = IF m.ver > @ THEN m.ver ELSE @]
       /\ Answer(m, TRUE)
       /\ UNCHANGED trouble
    \/ /\ IF intact THEN Happens("write") ELSE UNCHANGED trouble
       /\ Answer(m, FALSE)
       /\ UNCHANGED held

(* file-update: the whole of a small file.                                 *)
ReceiveWhole(m) == Apply(m, TRUE) /\ UNCHANGED <<partial, downloads>>

(* handleFileChunkStart: a new buffer, also for an id that has one; a nack *)
(* if there are too many.                                                  *)
Mine(p) == OfPeer(p, partial)
Empty(m) == [id |-> m.id, task |-> m.task, ver |-> m.ver, cut |-> m.cut,
             buffer |-> [n \in 2 .. Chunks + 1 |-> {}]]
Room(m) ==
    LET mine == Mine(PeerOf[m.task])
    IN  m.id \in IdsOf(mine) \/ Cardinality(mine) < MaxReassemblies

ResetOnce(m) == IF m.id \in IdsOf(partial) THEN partial ELSE partial \cup {Empty(m)}   \* mutant
Reset(m) == {x \in partial : x.id # m.id} \cup {Empty(m)}

ReceiveStart(m) ==
    /\ \/ /\ Room(m)
          /\ partial' = Reset(m)
          /\ downloads' = downloads \cup {<<m.id, PeerOf[m.task]>>}
          /\ UNCHANGED back
       \/ ~Room(m) /\ Answer(m, FALSE) /\ UNCHANGED <<partial, downloads>>
    /\ UNCHANGED <<held, trouble>>

(* handleFileChunkData.  A chunk of an unknown transfer is dropped; the    *)
(* last one that was missing completes the file.                           *)
ReceiveChunk(m) ==
    LET mine == {Filled(x, m) : x \in {y \in Mine(PeerOf[m.task]) : y.id = m.id}}
        rest == {x \in partial : x.id # m.id}
        done == {x \in mine : Complete(x)}
    IN  \/ /\ done = {}
           /\ partial' = rest \cup mine
           /\ UNCHANGED <<back, downloads, held, trouble>>
        \/ /\ partial' = rest
           /\ downloads' = downloads \ {<<m.id, PeerOf[m.task]>>}
           /\ \E x \in done : Apply(x, Intact(x))

Arrive(p) ==
    /\ out[p] # <<>>
    /\ out' = [out EXCEPT ![p] = Tail(@)]
    /\ LET m == Head(out[p])
       IN  \/ m.task \notin Large /\ ReceiveWhole(m)
           \/ m.task \in Large /\ m.n = 1 /\ ReceiveStart(m)
           \/ m.task \in Large /\ m.n > 1 /\ ReceiveChunk(m)
    /\ UNCHANGED <<senderVars, open>>

(* Sweeps of what was silent: the record of a download after a minute, the *)
(* buffer after five.                                                      *)
MoreToCome(id, p) ==
    id \in IdsOf(InTransit(p)) \/ \E i \in Sending : i.id = id /\ i.sent < Length(i.task)

SweepDownload(d) ==
    /\ d \in downloads
    /\ IF MoreToCome(d[1], d[2]) THEN Happens("early") ELSE UNCHANGED trouble
    /\ downloads' = downloads \ {d}
    /\ UNCHANGED <<senderVars, open, out, back, partial, held>>

SweepBuffer(x) ==
    /\ x \in partial /\ <<x.id, PeerOf[x.task]>> \notin downloads
    /\ IF MoreToCome(x.id, PeerOf[x.task]) THEN Happens("early") ELSE UNCHANGED trouble
    /\ partial' = partial \ {x}
    /\ UNCHANGED <<senderVars, open, out, back, downloads, held>>

-----------------------------------------------------------------------------
(* Links.                                                                  *)

(* The peers' end of a closed link: downloads are dropped, with the        *)
(* buffers their records lead to.                                          *)
PeersLose(P) ==
    /\ out' = [p \in Peer |-> IF p \in P THEN <<>> ELSE out[p]]
    /\ back' = [p \in Peer |-> IF p \in P THEN <<>> ELSE back[p]]
    /\ partial' = {x \in partial : PeerOf[x.task] \notin P \/ <<x.id, PeerOf[x.task]>> \notin downloads}
    /\ downloads' = {d \in downloads : d[2] \notin P}
    /\ UNCHANGED held

CutOff(i) == [Answered(i, FALSE) EXCEPT !.wire = "closed"]

(* The close handler of the current link.                                  *)
UploadsPaused(p) ==
    {IF PeerOf[u.task] = p THEN [u EXCEPT !.paused = TRUE] ELSE u : u \in uploads}

Disconnect(p) ==
    /\ Happens("close")
    /\ p \in open
    /\ open' = open \ {p}
    /\ items' = {IF PeerOf[i.task] = p THEN CutOff(i) ELSE i : i \in items}
    /\ uploads' = UploadsPaused(p)
    /\ PeersLose({p})
    /\ UNCHANGED <<asks, asked, queued, failed, excuse>>

(* resumeTransfers, on every handshake.                                    *)
Resume(p) ==
    LET paused == {u \in OfPeer(p, uploads) : u.paused}
    IN  /\ uploads' = uploads \ paused
        /\ queued' = queued \cup TasksOf(paused)

Connect(p) ==
    /\ p \notin open
    /\ open' = open \cup {p}
    /\ Resume(p)
    /\ UNCHANGED <<asks, asked, items, failed, excuse, out, back, peerVars, trouble>>

(* A second link to the same peer takes over.  The old one is closed, but  *)
(* is no longer the current one: its close handler leaves everything as it *)
(* is.                                                                     *)
Replace(p) ==
    /\ Happens("replace")
    /\ p \in open
    /\ items' = {IF PeerOf[i.task] = p THEN [i EXCEPT !.wire = "closed"] ELSE i : i \in items}
    /\ out' = [out EXCEPT ![p] = <<>>] /\ back' = [back EXCEPT ![p] = <<>>]
    /\ Resume(p)
    /\ UNCHANGED <<asks, asked, failed, excuse, open, partial, downloads, held>>

(* abortSync of a sync with p.  The peer's work is dropped; the            *)
(* acknowledgements of everybody are rejected, and no item in hand is ever *)
(* queued again.                                                           *)
Abort(p) ==
    LET mine == queued \cap {t \in Task : PeerOf[t] = p}
        gone == TasksOf(OfPeer(p, items) \cup OfPeer(p, uploads)) \cup mine
    IN  /\ Happens("abort")
        /\ queued' = queued \ mine
        /\ items' = {[Answered(i, FALSE) EXCEPT !.live = FALSE] :
                        i \in {j \in items : j.at = "sending" \/ PeerOf[j.task] # p}}
        /\ uploads' = uploads \ OfPeer(p, uploads)
        /\ excuse' = [t \in Task |-> IF t \in gone THEN "cleared"
                                     ELSE IF t \in TasksOf(items) THEN "struck" ELSE excuse[t]]
        /\ UNCHANGED <<asks, asked, failed, open, out, back, peerVars>>

(* onunload and the next start: the queue is saved without payloads, the   *)
(* uploads as paused.                                                      *)
Restart ==
    /\ Happens("restart")
    /\ queued' = queued \cup TasksOf(items)
    /\ items' = {}
    /\ uploads' = {[u EXCEPT !.paused = TRUE] : u \in uploads}
    /\ open' = {}
    /\ PeersLose(Peer)
    /\ UNCHANGED <<asks, asked, failed, excuse>>

-----------------------------------------------------------------------------

Next ==
    \/ \E t \in Task : Ask(t) \/ Start(t) \/ RetryFailed(t)
    \/ \E i \in items : Retry(i) \/ SendNext(i) \/ Finish(i) \/ TimeOut(i)
    \/ \E u \in uploads : Expire(u)
    \/ \E p \in Peer : \/ ReceiveAnswer(p) \/ Arrive(p)
                       \/ Disconnect(p) \/ Connect(p) \/ Replace(p) \/ Abort(p)
    \/ \E d \in downloads : SweepDownload(d)
    \/ \E x \in partial : SweepBuffer(x)
    \/ Restart

Spec == Init /\ [][Next]_vars

(* The queue works, links deliver and are opened again, writes end and     *)
(* every timer fires.                                                      *)
Fairness ==
    /\ \A t \in Task : WF_vars(Start(t)) /\ WF_vars(RetryFailed(t))
    /\ WF_vars(\E i \in items : Retry(i))
    /\ WF_vars(\E i \in items : SendNext(i))
    /\ WF_vars(\E i \in items : Finish(i))
    /\ WF_vars(\E i \in items : TimeOut(i))
    /\ \A p \in Peer : WF_vars(ReceiveAnswer(p)) /\ WF_vars(Arrive(p)) /\ WF_vars(Connect(p))
    /\ WF_vars(\E d \in downloads : SweepDownload(d))
    /\ WF_vars(\E x \in partial : SweepBuffer(x))

FairSpec == Spec /\ Fairness

-----------------------------------------------------------------------------

(* Somebody still works on t: it waits in the queue, is being sent or will *)
(* be retried in its newest version, or a record says that it has to be    *)
(* sent again.                                                             *)
Carried(t) ==
    \/ t \in queued \cup TasksOf(uploads)
    \/ failed[t] > 0
    \/ \E i \in items : i.task = t /\ i.live /\ i.ver = asked[t]

(* Through failures, closed and replaced links, time-outs, sweeps, aborts  *)
(* and restarts no file that was asked for is forgotten: unless the peer   *)
(* has it, something will send it again, or an abort dropped it, the       *)
(* retries ran out, or the peer stayed away for a week.                    *)
NotForgotten ==
    \A t \in Task : asked[t] > held[t] => Carried(t) \/ excuse[t] # "none"

(* An item that was acknowledged was written: no late or repeated answer,  *)
(* of an earlier attempt under the same id or of another file, settles it  *)
(* before the peer has that version.                                       *)
AckedIsHeld == \A i \in items : i.ack = "done" => held[i.task] >= i.ver

(* No buffer ever mixes chunks of two attempts, which may have cut the     *)
(* file differently, whatever starts, restarts and chunks arrive in it.    *)
BuffersUnmixed ==
    \A x \in partial : \A n \in DOMAIN x.buffer : x.buffer[n] \subseteq {x.cut}

(* A paused upload of a peer the link is open to: it was paused after the  *)
(* handshake that should have resumed it, and waits for the next one.      *)
Overlooked(t) == \E u \in uploads : u.task = t /\ u.paused /\ PeerOf[t] \in open

(* Under fairness every file asked for reaches its peer, or its loss has a *)
(* cause, or its upload was overlooked when the link was replaced.         *)
FilesArrive ==
    \A t \in Task :
        asked[t] > held[t] ~> (asked[t] = held[t] \/ excuse[t] # "none" \/ Overlooked(t))

(* What Delivery promises.                                                 *)
Promise == INSTANCE Delivery WITH
    owed <- {t \in Task : Carried(t)},
    lost <- {t \in Task : excuse[t] # "none"}
Delivers == Promise!Spec
=============================================================================
