---------------------------- MODULE QueueManager ----------------------------
(***************************************************************************)
(* The send queue of one device (core/QueueManager.ts) with the processor  *)
(* main.ts hands it.  Work waits in a priority heap; up to `limit` items   *)
(* are in flight; a failed item is parked for five seconds and queued      *)
(* again, at most RetryLimit times.                                        *)
(*                                                                         *)
(* A task is what taskQueueId names: one peer (or everybody) and one path. *)
(* Its content is abstracted to a version number: edited[t] counts the     *)
(* edits that asked for t to be sent, and an item that has read the file   *)
(* remembers the version it read (ver; 0 while nothing is read).  The      *)
(* binary heap is abstracted to the set it stores: heapPop returns the     *)
(* item no other precedes.  JavaScript runs one callback at a time, so     *)
(* every method, and every settled promise or expired timer, is one step.  *)
(***************************************************************************)
EXTENDS Naturals, FiniteSets

CONSTANTS Peer,        \* the devices items are addressed to
          Everyone,    \* peerId null: the item is for every connected peer
          Task,        \* what can be queued
          PeerOf,      \* [Task -> Peer \cup {Everyone}]
          PriorityOf,  \* [Task -> Nat]
          Rebuilt,     \* tasks whose payload is built anew on every attempt
          Limits,      \* the concurrency limits the adaptive control sets
          RetryLimit,  \* attempts after the first: 3 in the code
          MaxEdits,    \* bound: edits of each task, [Task -> Nat]
          MaxEpoch     \* bound: aborts between two starts of the plugin

ASSUME QueueAssumption ==
    /\ PeerOf \in [Task -> Peer \cup {Everyone}]
    /\ PriorityOf \in [Task -> Nat]
    /\ Rebuilt \subseteq Task
    /\ Limits \subseteq Nat \ {0}
    /\ RetryLimit \in Nat
    /\ MaxEdits \in [Task -> Nat]
    /\ MaxEpoch \in Nat

VARIABLES
    heap,       \* syncQueue: items waiting
    slots,      \* inQueueOrProcessing: the ids addToQueue refuses
    inFlight,   \* items the processor works on, with the epoch of their pop
    timers,     \* armed retry timers: the parked item and the epoch it captured
    retrying,   \* retryingItems: what of it is reported as pending
    epoch,      \* incremented by clear and clearForPeer
    seqCounter, \* next insertion number
    limit,      \* maxConcurrency
    paused,     \* queueIsPaused
    disposed,   \* set by dispose
    saved,      \* queue.json: the items written when the plugin was unloaded
    edited,     \* history: the edits that asked for a send, per task
    sent,       \* history: the newest version delivered, per task
    excuse      \* history: why the newest edit of a task may be dropped

vars == <<heap, slots, inFlight, timers, retrying, epoch, seqCounter, limit,
          paused, disposed, saved, edited, sent, excuse>>

Excuses == {"none", "cleared", "struck", "stale", "gaveUp"}

Item == [task : Task, retries : 0 .. RetryLimit, seq : Nat, ver : Nat]
Running == [item : Item, epoch : Nat]

TasksOf(items) == {i.task : i \in items}
ItemsOf(running) == {r.item : r \in running}

TypeOK ==
    /\ heap \subseteq Item
    /\ slots \subseteq Task
    /\ inFlight \subseteq Running
    /\ timers \subseteq Running
    /\ retrying \subseteq Running
    /\ epoch \in Nat
    /\ seqCounter \in Nat
    /\ limit \in Limits
    /\ paused \in BOOLEAN
    /\ disposed \in BOOLEAN
    /\ saved \subseteq Item
    /\ edited \in [Task -> Nat]
    /\ sent \in [Task -> Nat]
    /\ excuse \in [Task -> Excuses]

Init ==
    /\ heap = {} /\ slots = {} /\ inFlight = {} /\ timers = {} /\ retrying = {}
    /\ epoch = 0 /\ seqCounter = 0
    /\ limit \in Limits
    /\ paused = FALSE /\ disposed = FALSE
    /\ saved = {}
    /\ edited = [t \in Task |-> 0]
    /\ sent = [t \in Task |-> 0]
    /\ excuse = [t \in Task |-> "none"]

-----------------------------------------------------------------------------

(* precedes: higher priority first, then first come, first served.         *)
Precedes(a, b) ==
    \/ PriorityOf[a.task] > PriorityOf[b.task]
    \/ PriorityOf[a.task] = PriorityOf[b.task] /\ a.seq < b.seq

(* The items of h the loop of processQueue pops while `room` slots are     *)
(* free: those preceded by fewer than `room` others.                       *)
Popped(h, room) ==
    {i \in h : Cardinality({j \in h : Precedes(j, i)}) < room}

RoomOffByOne(running) ==                 \* mutant: <= for <
    IF Cardinality(running) + 1 < limit' THEN limit' - Cardinality(running) - 1 ELSE 0

Room(running) ==
    IF Cardinality(running) < limit' THEN limit' - Cardinality(running) ELSE 0

(* What the processor reads as it starts on an item: the current file,     *)
(* unless a payload built by an earlier attempt stands.                    *)
Read(i) == [i EXCEPT !.ver = IF i.ver = 0 \/ i.task \in Rebuilt
                             THEN edited'[i.task] ELSE i.ver]

(* processQueue on heap h, dedup slots s and running items r.  Each popped *)
(* item frees its slot and captures the epoch.                             *)
FreedSlotsAtSettlement(s, popped) == s   \* mutant: held while in flight
FreedSlots(s, popped) == s \ TasksOf(popped)

ProcessQueue(h, s, r) ==
    LET popped == IF paused' \/ disposed' THEN {} ELSE Popped(h, Room(r))
    IN  /\ heap' = h \ popped
        /\ slots' = FreedSlots(s, popped)
        /\ inFlight' = r \cup {[item |-> Read(i), epoch |-> epoch'] : i \in popped}

(* addToQueue once the item has its id: an item whose id is taken is       *)
(* dropped, and nothing else happens.                                      *)
Enqueue(i, s, r) ==
    IF i.task \in s
    THEN heap' = heap /\ slots' = s /\ inFlight' = r
    ELSE ProcessQueue(heap \cup {i}, s \cup {i.task}, r)

-----------------------------------------------------------------------------

(* The item a local edit of t queues (addToQueueTask).  It is dropped, and *)
(* its edit with it, when the item that holds the slot already carries a   *)
(* payload built before the edit: history variable excuse notes it.        *)
Fresh(t) == [task |-> t, retries |-> 0, seq |-> seqCounter, ver |-> 0]

HoldsOldPayload(t) ==
    /\ t \in slots \ Rebuilt
    /\ \E i \in heap : i.task = t
    /\ \A i \in heap : i.task = t => i.ver # 0

Add(t) ==
    /\ ~disposed
    /\ edited[t] < MaxEdits[t]
    /\ edited' = [edited EXCEPT ![t] = @ + 1]
    /\ excuse' = [excuse EXCEPT ![t] = IF HoldsOldPayload(t) THEN "stale" ELSE "none"]
    /\ seqCounter' = IF t \in slots THEN seqCounter ELSE seqCounter + 1
    /\ UNCHANGED <<timers, retrying, epoch, limit, paused, disposed, saved, sent>>
    /\ Enqueue(Fresh(t), slots, inFlight)

(* release: the slot is freed again by whoever popped the id in this       *)
(* epoch.                                                                  *)
Release(r) == IF r.epoch = epoch THEN slots \ {r.item.task} ELSE slots

Deliver(r) == sent' = [sent EXCEPT ![r.item.task] =
                         IF r.item.ver > @ THEN r.item.ver ELSE @]

(* The processor delivered the item.                                       *)
Succeed(r) ==
    /\ r \in inFlight
    /\ Deliver(r)
    /\ UNCHANGED <<timers, retrying, epoch, seqCounter, limit, paused, disposed,
                   saved, edited, excuse>>
    /\ ProcessQueue(heap, Release(r), inFlight \ {r})

MayRetryOnceMore(r) == r.item.retries <= RetryLimit /\ ~disposed   \* mutant
MayRetry(r) == r.item.retries < RetryLimit /\ ~disposed

(* The processor failed and the item is parked: scheduleRetry.             *)
Park(r) ==
    LET parked == [r EXCEPT !.item.retries = @ + 1]
    IN  /\ r \in inFlight
        /\ MayRetry(r)
        /\ timers' = timers \cup {parked}
        /\ retrying' = retrying \cup {parked}
        /\ UNCHANGED <<epoch, seqCounter, limit, paused, disposed, saved, edited,
                       sent, excuse>>
        /\ ProcessQueue(heap, slots, inFlight \ {r})

(* The processor failed for good: the retries are used up, or the queue is *)
(* disposed.  main.ts keeps a record in failedSyncs.                       *)
GiveUp(r) ==
    /\ r \in inFlight
    /\ ~MayRetry(r)
    /\ excuse' = [excuse EXCEPT ![r.item.task] =
                    IF r.item.ver = edited[r.item.task] /\ ~disposed THEN "gaveUp" ELSE @]
    /\ UNCHANGED <<timers, retrying, epoch, seqCounter, limit, paused, disposed,
                   saved, edited, sent>>
    /\ ProcessQueue(heap, Release(r), inFlight \ {r})

(* Five seconds later: the item goes back into the queue, unless an abort  *)
(* moved the epoch since it was popped.                                    *)
RetryFires(m) ==
    /\ m \in timers
    /\ timers' = timers \ {m}
    /\ retrying' = retrying \ {m}
    /\ UNCHANGED <<epoch, seqCounter, limit, paused, disposed, saved, edited, sent,
                   excuse>>
    /\ IF m.epoch = epoch
       THEN Enqueue(m.item, Release(m), inFlight)
       ELSE UNCHANGED <<heap, slots, inFlight>>

(* setConcurrencyLimit: takes effect at the next processQueue.             *)
SetConcurrencyLimit(n) ==
    /\ n # limit
    /\ limit' = n
    /\ UNCHANGED <<heap, slots, inFlight, timers, retrying, epoch, seqCounter, paused,
                   disposed, saved, edited, sent, excuse>>

Pause ==
    /\ ~paused
    /\ paused' = TRUE
    /\ UNCHANGED <<heap, slots, inFlight, timers, retrying, epoch, seqCounter, limit,
                   disposed, saved, edited, sent, excuse>>

(* Worth a step only when it changes something: while paused, or when a    *)
(* raised limit leaves room for what waits.                                *)
Resume ==
    /\ ~disposed
    /\ paused \/ (heap # {} /\ Cardinality(inFlight) < limit)
    /\ paused' = FALSE
    /\ UNCHANGED <<timers, retrying, epoch, seqCounter, limit, disposed, saved,
                   edited, sent, excuse>>
    /\ ProcessQueue(heap, slots, inFlight)

(* An abort moves the epoch, which also disarms the retries of the items   *)
(* that stay: `struck` below.                                              *)
Struck == TasksOf(ItemsOf(inFlight \cup timers))

Clear ==
    /\ ~disposed
    /\ epoch < MaxEpoch
    /\ epoch' = epoch + 1
    /\ heap' = {} /\ slots' = {} /\ retrying' = {}
    /\ excuse' = [t \in Task |-> "cleared"]
    /\ UNCHANGED <<inFlight, timers, seqCounter, limit, paused, disposed, saved,
                   edited, sent>>

ClearForPeer(p) ==
    LET stay(items) == {i \in items : PeerOf[i.task] # p}
        parked == {m \in retrying : PeerOf[m.item.task] # p}
    IN  /\ ~disposed
        /\ epoch < MaxEpoch
        /\ epoch' = epoch + 1
        /\ heap' = stay(heap)
        /\ slots' = TasksOf(stay(heap))
        /\ retrying' = parked
        /\ excuse' = [t \in Task |-> IF PeerOf[t] = p THEN "cleared"
                                     ELSE IF t \in Struck THEN "struck" ELSE excuse[t]]
        /\ UNCHANGED <<inFlight, timers, seqCounter, limit, paused, disposed, saved,
                       edited, sent>>

(* getQueue: everything not yet finished.                                  *)
GetQueueWithoutParked == heap \cup ItemsOf(inFlight)   \* mutant
GetQueue == heap \cup ItemsOf(inFlight \cup retrying)

(* onunload: what waits, runs or is parked is written to queue.json, then  *)
(* the queue is disposed and the timers are cancelled.  The payload is not *)
(* written.                                                                *)
Unload ==
    /\ ~disposed
    /\ saved' = {[i EXCEPT !.ver = 0] : i \in GetQueue}
    /\ disposed' = TRUE
    /\ epoch' = epoch + 1
    /\ heap' = {} /\ slots' = {} /\ retrying' = {} /\ timers' = {}
    /\ UNCHANGED <<inFlight, seqCounter, limit, paused, edited, sent, excuse>>

(* The next start of the plugin: a new queue, loadQueue of the saved       *)
(* items, one per id, numbered in the order they were written (any order:  *)
(* queue.json lists the heap in array order).  Only the order of numbers   *)
(* matters, so the old ones are dealt out anew and the counter goes on.    *)
OnePerTask(items) ==
    {keep \in SUBSET items :
        /\ TasksOf(keep) = TasksOf(items)
        /\ \A i, j \in keep : i.task = j.task => i = j}

Reload ==
    /\ disposed
    /\ \E keep \in OnePerTask(saved) : \E seqOf \in [keep -> {i.seq : i \in saved}] :
         /\ \A i, j \in keep : seqOf[i] = seqOf[j] => i = j
         /\ disposed' = FALSE /\ paused' = FALSE /\ epoch' = 0
         /\ limit' \in Limits
         /\ timers' = {} /\ retrying' = {} /\ saved' = {}
         /\ UNCHANGED <<seqCounter, edited, sent, excuse>>
         /\ ProcessQueue({[i EXCEPT !.seq = seqOf[i]] : i \in keep}, TasksOf(keep), {})

-----------------------------------------------------------------------------

Settle(r) == Succeed(r) \/ Park(r) \/ GiveUp(r)

Next ==
    \/ \E t \in Task : Add(t)
    \/ \E r \in inFlight : Settle(r)
    \/ \E m \in timers : RetryFires(m)
    \/ \E n \in Limits : SetConcurrencyLimit(n)
    \/ Pause
    \/ Resume
    \/ Clear
    \/ \E p \in Peer : ClearForPeer(p)
    \/ Unload
    \/ Reload

(* Every send is answered or times out, timers fire, and main.ts resumes   *)
(* the queue at the end of each sync.                                      *)
Fairness ==
    /\ WF_vars(\E r \in inFlight : Settle(r))
    /\ WF_vars(\E m \in timers : RetryFires(m))
    /\ WF_vars(Resume)

Spec == Init /\ [][Next]_vars
FairSpec == Spec /\ Fairness

-----------------------------------------------------------------------------

(* A dedup slot never outlives the queued item that claimed it.  A slot    *)
(* left behind is a wall: every later edit of that path is refused without *)
(* a word.                                                                 *)
NoWall == slots \subseteq TasksOf(heap)

(* The item will send the newest edit of t: it has not read the file yet,  *)
(* will read it again, or read it after the edit.                          *)
Current(i, t) == i.task = t /\ (i.ver = 0 \/ i.ver = edited[t] \/ t \in Rebuilt)

(* Somebody will still send the newest edit of t.                          *)
Carried(t) ==
    \/ \E i \in heap : Current(i, t)
    \/ \E r \in inFlight : ~disposed /\ r.item.task = t /\ r.item.ver = edited[t]
    \/ \E m \in timers : Current(m.item, t) /\ m.epoch = epoch
    \/ disposed /\ \E i \in saved : i.task = t

(* As long as the newest edit of a path is not delivered, something        *)
(* pending carries it, or the edit was lost to one of `causes`.            *)
StrandedOnlyBy(causes) ==
    \A t \in Task : edited[t] > sent[t] => Carried(t) \/ excuse[t] \in causes

(* No edit is stranded, through retries, unloads and restarts, unless an   *)
(* abort dropped it or struck it, the retries ran out, or a payload built  *)
(* before the edit held its slot.                                          *)
NoEditStranded == StrandedOnlyBy({"cleared", "struck", "gaveUp", "stale"})

(* Under fairness every edit is delivered, or its loss has a cause.        *)
EditsSettle ==
    \A t \in Task : edited[t] > sent[t]
        ~> (edited[t] = sent[t] \/ excuse[t] # "none" \/ disposed)

-----------------------------------------------------------------------------

(* The inductive invariant behind NoWall and NoEditStranded.               *)
Active == inFlight \cup timers

\* No item read a version that does not exist yet.
ReadsExist ==
    /\ \A i \in heap : i.ver <= edited[i.task]
    /\ \A r \in Active : r.item.ver <= edited[r.item.task]

\* No item was popped in a later epoch.
EpochsPast == \A r \in Active : r.epoch <= epoch

\* A retry that will be queued again is reported as pending, so an unload saves it.
ParkedReported == \A m \in timers : m.epoch = epoch => m \in retrying

\* queue.json holds no payload.
SavedUnread == \A i \in saved : i.ver = 0

\* A disposed queue holds nothing.
DisposedIdle == disposed => heap = {} /\ timers = {}

\* An item in flight since before an abort carries a newest edit only if the abort is
\* that edit's excuse: an edit made after the abort queued an item of its own.
AbortsExcuse ==
    \A r \in inFlight :
        r.epoch # epoch /\ r.item.ver = edited[r.item.task] /\ ~disposed
            => excuse[r.item.task] # "none"

IInv ==
    /\ TypeOK
    /\ NoWall
    /\ ReadsExist
    /\ EpochsPast
    /\ ParkedReported
    /\ SavedUnread
    /\ DisposedIdle
    /\ AbortsExcuse
    /\ NoEditStranded
=============================================================================
