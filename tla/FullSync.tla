------------------------------ MODULE FullSync ------------------------------
(***************************************************************************)
(* A full sync between two devices (the pull-based sync of main.ts).  The  *)
(* initiator sends its manifest; the responder compares it with its own    *)
(* and answers with a plan: what each side pulls and deletes.  Each side   *)
(* then requests its files in batches, says full-sync-complete when it     *)
(* will request nothing more, and ends the sync once both have said so.    *)
(*                                                                         *)
(* What the comparison decides is Versions.tla's subject: here a plan is   *)
(* any of Plans.  The link delivers in order, and a control message is     *)
(* acknowledged on arrival, before it is handled (sendSyncMessage).  A     *)
(* handler runs to its next await in one step.  What an await leaves       *)
(* behind is a continuation, which nothing cancels; only the ones that     *)
(* await an acknowledgement are rejected by an abort.                      *)
(***************************************************************************)
EXTENDS Naturals, Sequences, FiniteSets, SequencesExt

CONSTANTS Device,      \* the two devices
          Path,
          Plans,       \* the plans a comparison may yield
          RetryLimit,  \* how often a failed pull is requested again: 3 in the code
          MaxWidth,    \* the most batches requested at once: 5 in the code
          MaxRuns,     \* bound: syncs started
          MaxAborts    \* bound: timeouts, lost links and users pressing stop

Plan == [initiatorPulls : SUBSET Path, responderPulls : SUBSET Path,
         initiatorDeletes : SUBSET Path, responderDeletes : SUBSET Path]

ASSUME FullSyncAssumption ==
    /\ \E a, b \in Device : a # b /\ Device = {a, b}
    /\ IsFiniteSet(Path)
    /\ Plans \subseteq Plan
    /\ RetryLimit \in Nat /\ MaxWidth \in Nat \ {0}
    /\ MaxRuns \in Nat /\ MaxAborts \in Nat

VARIABLES
    sync,    \* syncState and the maps beside it, on each device
    net,     \* the messages on their way to each device
    runs,    \* syncs started so far; their numbers are the epochs
    aborts   \* aborts so far

vars == <<sync, net, runs, aborts>>

Peer(d) == CHOOSE p \in Device : p # d

Run == 1 .. MaxRuns
Phases == {"IDLE", "REQUESTING", "PLANNING", "TRANSFERRING"}

(* A pull batch is named by its run, its puller and, for each of its       *)
(* paths, how often that was requested before: no two batches agree.       *)
BatchId == [run : Run, by : Device, tries : UNION {[S -> 0 .. RetryLimit] : S \in SUBSET Path}]
PathsOf(id) == DOMAIN id.tries

Batch == [id : BatchId, left : SUBSET Path, ok : SUBSET Path, bad : SUBSET Path]
Job == [id : BatchId, paths : SUBSET Path]

(* A handler waiting: to send the plan, for its acknowledgement, or for    *)
(* deletions before it adopts its share of the plan.                       *)
Continuation == [at : {"plan", "ack", "apply"}, run : Run \cup {0}, pull : SUBSET Path,
                 serve : SUBSET Path, delete : SUBSET Path]

Session ==
    [phase : Phases, run : Run \cup {0},
     pending : SUBSET Path,          \* pendingPulls
     ahead : SUBSET Path,            \* pullOrder from pullCursor on
     pulls : SUBSET BatchId,         \* activePullBatches
     retries : [Path -> 0 .. RetryLimit],
     width : 1 .. MaxWidth,          \* adaptiveConfig.maxActiveBatches
     allowed : SUBSET Path,          \* allowedPulls
     serving : SUBSET Batch,         \* activeBatches
     jobs : SUBSET Job,              \* the queue's tasks that belong to a batch
     localDone : BOOLEAN, peerDone : BOOLEAN,
     delivered : BOOLEAN,            \* fullSyncCompleteDelivered
     unacked : SUBSET Run,           \* runs whose full-sync-complete awaits its ack
     waiting : SUBSET Continuation,
     want : SUBSET Path,             \* history: what the plan has this device pull
     settled : SUBSET Path,          \* history: pulls received or given up
     last : Run \cup {0}]            \* history: the last sync that ended as complete

Message ==
         [type : {"request-full-sync", "full-sync-complete"}, run : Run]
    \cup [type : {"sync-busy"}]
    \cup [type : {"sync-plan"}, run : Run \cup {0}, plan : Plan]
    \cup [type : {"request-batch"}, id : BatchId]
    \cup [type : {"batch-complete"}, id : BatchId, ok : SUBSET Path, bad : SUBSET Path]
    \cup [type : {"sync-ack"}, of : {"sync-plan", "full-sync-complete"}, run : Run \cup {0}]

TypeOK ==
    /\ sync \in [Device -> Session]
    /\ net \in [Device -> Seq(Message)]
    /\ runs \in 0 .. MaxRuns /\ aborts \in 0 .. MaxAborts

Init ==
    /\ sync = [d \in Device |->
         [phase |-> "IDLE", run |-> 0, pending |-> {}, ahead |-> {}, pulls |-> {},
          retries |-> [p \in Path |-> 0], width |-> 1, allowed |-> {}, serving |-> {},
          jobs |-> {}, localDone |-> FALSE, peerDone |-> FALSE, delivered |-> FALSE,
          unacked |-> {}, waiting |-> {}, want |-> {}, settled |-> {}, last |-> 0]]
    /\ net = [d \in Device |-> <<>>]
    /\ runs = 0 /\ aborts = 0

-----------------------------------------------------------------------------
(* What a handler does so far: the session it leaves and what it sent.     *)

Effect(s) == [s |-> s, out |-> <<>>]
Sending(e, s, m) == [s |-> s, out |-> Append(e.out, m)]

IsSyncing(s) == s.phase # "IDLE"
InFlight(s) == UNION {PathsOf(id) : id \in s.pulls}

Begun(s, phase, run) ==
    [s EXCEPT !.phase = phase, !.run = run, !.pulls = {}, !.width = 1,
              !.localDone = FALSE, !.peerDone = FALSE, !.want = {}, !.settled = {}]

(* What the end of a sync and its abort both clear.                        *)
Cleared(s) ==
    [s EXCEPT !.phase = "IDLE", !.run = 0, !.pending = {}, !.ahead = {}, !.pulls = {},
              !.retries = [p \in Path |-> 0], !.allowed = {}, !.serving = {},
              !.localDone = FALSE, !.peerDone = FALSE, !.want = {}, !.settled = {}]

(* handleFullSyncComplete.                                                 *)
Completed(s) == [Cleared(s) EXCEPT !.last = s.run]

(* abortSync: the queue drops the peer's items, and whatever waits for an  *)
(* acknowledgement is rejected.                                            *)
Aborted(s) ==
    IF IsSyncing(s)
    THEN [Cleared(s) EXCEPT !.delivered = FALSE, !.unacked = {}, !.jobs = {},
                            !.waiting = {c \in @ : c.at # "ack"}]
    ELSE s

(* checkFullSyncCompletion.                                                *)
NothingToPullAhead(s) == s.ahead = {}        \* mutant: what is in flight counts as pulled
NothingToPull(s) == s.pending = {}

SayComplete(e) ==
    IF NothingToPull(e.s) /\ ~e.s.localDone
    THEN Sending(e, [e.s EXCEPT !.localDone = TRUE, !.unacked = @ \cup {e.s.run}],
                 [type |-> "full-sync-complete", run |-> e.s.run])
    ELSE e

BothDoneForMe(s) == s.localDone /\ s.delivered /\ s.serving = {}    \* mutant: not waiting for the peer
BothDone(s) == s.localDone /\ s.delivered /\ s.peerDone /\ s.serving = {}

CheckCompletion(e) ==
    LET said == SayComplete(e)
    IN  IF ~IsSyncing(e.s) THEN e
        ELSE IF BothDone(said.s) THEN [said EXCEPT !.s = Completed(@)] ELSE said

(* The ways to divide paths into at most `room` batches, by size: all of   *)
(* them, or as many batches as fit.                                        *)
Batchings(paths, room) ==
    {B \in SUBSET ((SUBSET paths) \ {{}}) :
        /\ \A S, T \in B : S # T => S \cap T = {}
        /\ Cardinality(B) <= room
        /\ UNION B = paths \/ Cardinality(B) = room}

(* requestNextBatch.                                                       *)
Issue(d, e, B) ==
    LET s == e.s
        ids == {[run |-> s.run, by |-> d, tries |-> [p \in S |-> s.retries[p]]] : S \in B}
    IN  [s |-> [s EXCEPT !.phase = "TRANSFERRING", !.pulls = @ \cup ids,
                         !.ahead = @ \ UNION B],
         out |-> e.out \o SetToSeq({[type |-> "request-batch", id |-> id] : id \in ids})]

RequestNextBatch(d, e) ==
    LET s == e.s
        room == s.width - Cardinality(s.pulls)
        eligible == (s.ahead \cap s.pending) \ InFlight(s)
    IN  IF s.phase \notin {"PLANNING", "TRANSFERRING"} THEN {e}
        ELSE IF s.pending = {} THEN {CheckCompletion(e)}
        ELSE IF Cardinality(s.pulls) >= s.width THEN {e}
        ELSE IF eligible = {} THEN {IF s.pulls = {} THEN CheckCompletion(e) ELSE e}
        ELSE {Issue(d, e, B) : B \in Batchings(eligible, room)}

(* Once the plan is known and its deletions are done.  Nothing checks that *)
(* the sync it belongs to still runs.                                      *)
Adopt(d, e, c) ==
    RequestNextBatch(d, [e EXCEPT !.s.allowed = c.serve, !.s.pending = c.pull,
                                  !.s.ahead = c.pull])

AfterDeletions(d, e, c) ==
    IF c.delete = {} THEN Adopt(d, e, c)
    ELSE {[e EXCEPT !.s.waiting = @ \cup {[c EXCEPT !.at = "apply"]}]}

(* recordBatchTaskCompletion: `paths` of batch id are done, well or badly. *)
(* A task completes for every path it covers at once.                      *)
FinishedOnePath(b, paths, ok) ==                  \* mutant: a task counts once
    LET one == {CHOOSE p \in paths : TRUE}
    IN  [b EXCEPT !.left = @ \ one, !.ok = IF ok THEN @ \cup one ELSE @,
                  !.bad = IF ok THEN @ ELSE @ \cup one]
Finished(b, paths, ok) ==
    [b EXCEPT !.left = @ \ paths, !.ok = IF ok THEN @ \cup paths ELSE @,
              !.bad = IF ok THEN @ ELSE @ \cup paths]

RecordCompletion(e, id, paths, ok, reauthorize) ==
    LET s == e.s
        found == {b \in s.serving : b.id = id}
        b == Finished(CHOOSE f \in found : TRUE, paths, ok)
        allowed == IF ~ok /\ reauthorize THEN s.allowed \cup paths ELSE s.allowed
    IN  IF found = {} \/ paths = {} THEN e
        ELSE IF b.left # {}
        THEN [e EXCEPT !.s.serving = (@ \ found) \cup {b}, !.s.allowed = allowed]
        ELSE CheckCompletion(Sending(e, [s EXCEPT !.serving = @ \ found, !.allowed = allowed],
               [type |-> "batch-complete", id |-> id, ok |-> b.ok, bad |-> b.bad]))

-----------------------------------------------------------------------------

(* A step of d ends with effect e; it took a message off the link, or not. *)
Commit(d, e, took) ==
    /\ sync' = [sync EXCEPT ![d] = e.s]
    /\ net' = [net EXCEPT ![d] = IF took THEN Tail(@) ELSE @, ![Peer(d)] = @ \o e.out]

Arrives(d, type) == net[d] # <<>> /\ Head(net[d]).type = type

(* requestFullSyncFromPeer, the user's command.  Nothing left over from an *)
(* earlier sync is cleared here but what Begun resets.                     *)
RequestFullSync(d) ==
    /\ ~IsSyncing(sync[d])
    /\ runs < MaxRuns
    /\ runs' = runs + 1
    /\ Commit(d, Sending(Effect(sync[d]), Begun(sync[d], "REQUESTING", runs'),
                         [type |-> "request-full-sync", run |-> runs']), FALSE)
    /\ UNCHANGED aborts

(* handleFullSyncRequest, up to the building of the manifest.              *)
ReceiveRequest(d) ==
    LET s == sync[d]
        plan == [at |-> "plan", run |-> 0, pull |-> {}, serve |-> {}, delete |-> {}]
    IN  /\ Arrives(d, "request-full-sync")
        /\ Commit(d, IF IsSyncing(s) THEN Sending(Effect(s), s, [type |-> "sync-busy"])
                     ELSE Effect([Begun(s, "PLANNING", Head(net[d]).run)
                                    EXCEPT !.waiting = @ \cup {plan}]), TRUE)
        /\ UNCHANGED <<runs, aborts>>

(* ... the plan is ready and sent, with the epoch of now.                  *)
SendPlan(d) ==
    LET s == sync[d]
    IN  /\ \E c \in s.waiting, plan \in Plans :
              /\ c.at = "plan"
              /\ Commit(d, Sending(Effect(s),
                   [s EXCEPT !.waiting = (@ \ {c}) \cup
                               {[at |-> "ack", run |-> s.run, pull |-> plan.responderPulls,
                                 serve |-> plan.initiatorPulls, delete |-> plan.responderDeletes]},
                             !.want = IF IsSyncing(s) THEN plan.responderPulls ELSE @],
                   [type |-> "sync-plan", run |-> s.run, plan |-> plan]), FALSE)
        /\ UNCHANGED <<runs, aborts>>

(* ... its acknowledgement arrives.                                        *)
PlanAcknowledged(d) ==
    LET s == sync[d]
        found == {c \in s.waiting : c.at = "ack" /\ c.run = Head(net[d]).run}
    IN  /\ Arrives(d, "sync-ack") /\ Head(net[d]).of = "sync-plan"
        /\ IF found = {} THEN Commit(d, Effect(s), TRUE)
           ELSE \E c \in found :
                \E e \in AfterDeletions(d, Effect([s EXCEPT !.waiting = @ \ {c}]), c) :
                   Commit(d, e, TRUE)
        /\ UNCHANGED <<runs, aborts>>

(* ... the deletions are done, on either side.                             *)
DeletionsDone(d) ==
    /\ \E c \in sync[d].waiting :
          /\ c.at = "apply"
          /\ \E e \in Adopt(d, Effect([sync[d] EXCEPT !.waiting = @ \ {c}]), c) : Commit(d, e, FALSE)
    /\ UNCHANGED <<runs, aborts>>

ReceiveBusy(d) ==
    /\ Arrives(d, "sync-busy")
    /\ Commit(d, Effect(Aborted(sync[d])), TRUE)
    /\ UNCHANGED <<runs, aborts>>

(* handleSyncPlan.                                                         *)
AnswersMe(s, m) == s.phase \in {"REQUESTING", "PLANNING"} /\ m.run = s.run

ReceivePlan(d) ==
    LET s == sync[d]
        m == Head(net[d])
        acked == Sending(Effect(s), s, [type |-> "sync-ack", of |-> "sync-plan", run |-> m.run])
        mine == [at |-> "apply", run |-> m.run, pull |-> m.plan.initiatorPulls,
                 serve |-> m.plan.responderPulls, delete |-> m.plan.initiatorDeletes]
    IN  /\ Arrives(d, "sync-plan")
        /\ IF AnswersMe(s, m)
           THEN \E e \in AfterDeletions(d, [acked EXCEPT !.s.phase = "PLANNING",
                                              !.s.want = mine.pull], mine) : Commit(d, e, TRUE)
           ELSE Commit(d, acked, TRUE)
        /\ UNCHANGED <<runs, aborts>>

(* handleRequestBatch: small files travel together, large ones alone.      *)
Tasks(id, paths) ==
    {{[id |-> id, paths |-> S] : S \in split} : split \in {{paths}, {{p} : p \in paths}}}

ReceiveBatchRequest(d) ==
    LET s == sync[d]
        id == Head(net[d]).id
        granted == PathsOf(id) \cap s.allowed
        batch == [id |-> id, left |-> PathsOf(id), ok |-> {}, bad |-> {}]
    IN  /\ Arrives(d, "request-batch")
        /\ IF s.phase \notin {"PLANNING", "TRANSFERRING"} THEN Commit(d, Effect(s), TRUE)
           ELSE \E tasks \in Tasks(id, granted) :
                Commit(d, RecordCompletion(
                  Effect([s EXCEPT !.phase = "TRANSFERRING", !.serving = @ \cup {batch},
                                   !.allowed = @ \ granted,
                                   !.jobs = @ \cup {t \in tasks : t.paths # {}}]),
                  id, PathsOf(id) \ granted, FALSE, FALSE), TRUE)
        /\ UNCHANGED <<runs, aborts>>

(* A task of a batch is sent, or has failed for good (processQueueItem).   *)
TaskDone(d) ==
    /\ \E j \in sync[d].jobs, ok \in BOOLEAN :
          Commit(d, RecordCompletion(Effect([sync[d] EXCEPT !.jobs = @ \ {j}]),
                                     j.id, j.paths, ok, TRUE), FALSE)
    /\ UNCHANGED <<runs, aborts>>

MayRetryOnceMore(s, p) == s.retries[p] <= RetryLimit                    \* mutant
MayRetry(s, p) == s.retries[p] < RetryLimit

(* handleBatchComplete: a pull that failed too often is given up and       *)
(* parked; the others are appended to the order again.                     *)
ForgetToAppend(s, again, given) ==                                      \* mutant
    [s EXCEPT !.retries = [p \in Path |-> IF p \in again THEN @[p] + 1
                                          ELSE IF p \in given THEN 0 ELSE @[p]],
              !.pending = @ \ given, !.settled = @ \cup given]
Failed(s, again, given) ==
    [s EXCEPT !.retries = [p \in Path |-> IF p \in again THEN @[p] + 1
                                          ELSE IF p \in given THEN 0 ELSE @[p]],
              !.ahead = @ \cup again,
              !.pending = @ \ given, !.settled = @ \cup given]

Received(s, paths) ==
    [s EXCEPT !.pending = @ \ paths, !.settled = @ \cup paths,
              !.retries = [p \in Path |-> IF p \in paths THEN 0 ELSE @[p]]]

Widths(s, m) ==
    IF m.bad # {} /\ m.ok = {} THEN {IF s.width > 1 THEN s.width \div 2 ELSE 1}
    ELSE IF m.ok # {} THEN {s.width, IF s.width < MaxWidth THEN s.width + 1 ELSE MaxWidth}
    ELSE {s.width}

ReceiveBatchComplete(d) ==
    LET s == sync[d]
        m == Head(net[d])
        again == {p \in m.bad : MayRetry(s, p)}
        after == Failed(Received([s EXCEPT !.pulls = @ \ {m.id}], m.ok), again, m.bad \ again)
    IN  /\ Arrives(d, "batch-complete")
        /\ IF s.phase # "TRANSFERRING" \/ m.id \notin s.pulls THEN Commit(d, Effect(s), TRUE)
           ELSE \E w \in Widths(s, m) :
                \E e \in RequestNextBatch(d, Effect([after EXCEPT !.width = w])) : Commit(d, e, TRUE)
        /\ UNCHANGED <<runs, aborts>>

(* full-sync-complete names no run: it counts for whichever one is on.     *)
ReceiveComplete(d) ==
    LET s == sync[d]
        acked == Sending(Effect(s), s, [type |-> "sync-ack", of |-> "full-sync-complete",
                                        run |-> Head(net[d]).run])
    IN  /\ Arrives(d, "full-sync-complete")
        /\ Commit(d, IF ~IsSyncing(s) THEN acked
                     ELSE CheckCompletion([acked EXCEPT !.s.peerDone = TRUE, !.s.allowed = {}]), TRUE)
        /\ UNCHANGED <<runs, aborts>>

CompleteAcknowledged(d) ==
    LET s == sync[d]
        run == Head(net[d]).run
    IN  /\ Arrives(d, "sync-ack") /\ Head(net[d]).of = "full-sync-complete"
        /\ Commit(d, IF run \notin s.unacked THEN Effect(s)
                     ELSE CheckCompletion(Effect([s EXCEPT !.unacked = @ \ {run}, !.delivered = TRUE])),
                  TRUE)
        /\ UNCHANGED <<runs, aborts>>

(* A timeout, a lost link or the user stops the sync.  The peer is not     *)
(* told.                                                                   *)
Abort(d) ==
    /\ IsSyncing(sync[d])
    /\ aborts < MaxAborts
    /\ aborts' = aborts + 1
    /\ Commit(d, Effect(Aborted(sync[d])), FALSE)
    /\ UNCHANGED runs

-----------------------------------------------------------------------------

Receive(d) ==
    \/ ReceiveRequest(d)
    \/ PlanAcknowledged(d)
    \/ ReceiveBusy(d)
    \/ ReceivePlan(d)
    \/ ReceiveBatchRequest(d)
    \/ ReceiveBatchComplete(d)
    \/ ReceiveComplete(d)
    \/ CompleteAcknowledged(d)

Next ==
    \E d \in Device :
        \/ RequestFullSync(d)
        \/ SendPlan(d)
        \/ DeletionsDone(d)
        \/ Receive(d)
        \/ TaskDone(d)
        \/ Abort(d)

Spec == Init /\ [][Next]_vars

(* Manifests get built, deletions end, messages arrive and the queue works *)
(* its tasks off.  Nobody need start a sync, and no timeout need fire.     *)
Fairness ==
    \A d \in Device : /\ WF_vars(SendPlan(d))
                      /\ WF_vars(DeletionsDone(d))
                      /\ WF_vars(Receive(d))
                      /\ WF_vars(TaskDone(d))

FairSpec == Spec /\ Fairness

-----------------------------------------------------------------------------

(* A device that said full-sync-complete will request nothing more: each   *)
(* of the pulls the plan gave it was received or given up.                 *)
CompleteMeansSettled ==
    \A d \in Device : sync[d].localDone => sync[d].want \subseteq sync[d].settled

(* A pull still pending is ahead of the cursor or in flight: otherwise it  *)
(* is never requested, and the sync waits for it until it times out.       *)
NoPullForgotten ==
    \A d \in Device :
        IsSyncing(sync[d]) => sync[d].pending \subseteq sync[d].ahead \cup InFlight(sync[d])

(* A device that ended a sync as complete leaves nobody behind who still   *)
(* pulls from it in that sync.                                             *)
NobodyLeftPulling ==
    \A d \in Device :
        IsSyncing(sync[d]) /\ sync[Peer(d)].last = sync[d].run
            => sync[d].pending = {} /\ sync[d].pulls = {}

(* A batch being served has a task in the queue for each path left.        *)
BatchesAreWorkedOn ==
    \A d \in Device : \A b \in sync[d].serving :
        b.left = UNION {j.paths : j \in {k \in sync[d].jobs : k.id = b.id}}

(* Every sync ends, on both devices, without the help of a timeout: batch  *)
(* accounting and completion never wait for what will not come.            *)
SyncsEnd == \A d \in Device : IsSyncing(sync[d]) ~> ~IsSyncing(sync[d]) \/ aborts > 0
=============================================================================
