--------------------------- MODULE FullSyncProofs ---------------------------
(* No pull of a full sync is forgotten, and no batch served waits for a    *)
(* task that is not there: proved of any paths, plans, limits and numbers  *)
(* of syncs and aborts.  A pull leaves the order when a batch takes it,    *)
(* and a batch ends only with word of every one of its paths.              *)
EXTENDS FullSync, FiniteSetTheorems, SequenceTheorems, TLAPS

-----------------------------------------------------------------------------
(* The inductive invariant, by session and by message.                     *)

(* A pull still pending is ahead of the cursor or, in a sync, in flight.   *)
(* What the next sync finds pending has to be ahead: Begun forgets the     *)
(* batches.                                                                *)
Carried(s) == s.pending \subseteq s.ahead \cup (IF IsSyncing(s) THEN InFlight(s) ELSE {})

(* A batch being served accounts for all of its paths, and so does the     *)
(* word of its end.                                                        *)
Whole(id, left, ok, bad) == PathsOf(id) \subseteq left \cup ok \cup bad
ServesWhole(s) == \A b \in s.serving : Whole(b.id, b.left, b.ok, b.bad)

Sessions == {s \in Session : /\ Carried(s)
                             /\ ServesWhole(s)
                             /\ IsSyncing(s) => s.run \in Run}
Messages == {m \in Message : m.type = "batch-complete" => Whole(m.id, {}, m.ok, m.bad)}
Effects == [s : Sessions, out : Seq(Messages)]

IInv ==
    /\ sync \in [Device -> Sessions]
    /\ net \in [Device -> Seq(Messages)]
    /\ runs \in 0 .. MaxRuns /\ aborts \in 0 .. MaxAborts

LEMMA PeerIs == \A d \in Device : Peer(d) \in Device /\ Peer(d) # d
BY FullSyncAssumption DEF Peer

LEMMA InvGivesTypes == IInv => TypeOK
<1>1. Seq(Messages) \subseteq Seq(Message)
  BY DEF Messages
<1>2. QED
  BY <1>1 DEF IInv, TypeOK, Sessions

LEMMA InvGivesCarried == IInv => NoPullForgotten
BY DEF IInv, NoPullForgotten, Sessions, Carried

LEMMA InitHolds == Init => IInv
<1> SUFFICES ASSUME Init PROVE IInv
  OBVIOUS
<1>1. ASSUME NEW d \in Device PROVE sync[d] \in Sessions
  <2>1. sync[d] \in Session
    BY FullSyncAssumption DEF Init, Session, Phases
  <2>2. QED
    BY <2>1 DEF Init, Sessions, Carried, ServesWhole, IsSyncing
<1>2. QED
  BY <1>1, FullSyncAssumption DEF Init, IInv

-----------------------------------------------------------------------------
(* Sessions.                                                               *)

LEMMA OneIsAWidth == 1 \in 1 .. MaxWidth
BY FullSyncAssumption

LEMMA NoRetries == [p \in Path |-> 0] \in [Path -> 0 .. RetryLimit]
BY FullSyncAssumption

LEMMA BegunGood ==
    ASSUME NEW s \in Sessions, ~IsSyncing(s), NEW r \in Run, NEW phase \in Phases
    PROVE  Begun(s, phase, r) \in Sessions
<1>1. s \in Session /\ s.pending \subseteq s.ahead
  BY DEF Sessions, Carried
<1>2. Begun(s, phase, r) \in Session
  BY <1>1, OneIsAWidth DEF Session, Begun
<1>3. Carried(Begun(s, phase, r))
  BY <1>1 DEF Session, Begun, Carried
<1>4. ServesWhole(Begun(s, phase, r)) /\ Begun(s, phase, r).run = r
  BY <1>1 DEF Sessions, Session, Begun, ServesWhole
<1>5. QED
  BY <1>2, <1>3, <1>4 DEF Sessions

LEMMA ClearedGood ==
    ASSUME NEW s \in Session
    PROVE  Cleared(s) \in Sessions /\ ~IsSyncing(Cleared(s))
<1>1. Cleared(s) \in Session
  BY NoRetries DEF Session, Cleared, Phases
<1>2. ~IsSyncing(Cleared(s)) /\ Cleared(s).pending = {} /\ Cleared(s).serving = {}
  BY DEF Session, Cleared, IsSyncing
<1>3. QED
  BY <1>1, <1>2 DEF Sessions, Carried, ServesWhole

LEMMA CompletedGood ==
    ASSUME NEW s \in Session
    PROVE  Completed(s) \in Sessions
<1>1. Cleared(s) \in Sessions /\ ~IsSyncing(Cleared(s)) /\ s.run \in Run \cup {0}
  BY ClearedGood DEF Session
<1>2. Completed(s) \in Session
  BY <1>1 DEF Session, Sessions, Completed
<1>3. QED
  BY <1>1, <1>2 DEF Sessions, Completed, Carried, ServesWhole, IsSyncing, Session

LEMMA AbortedGood ==
    ASSUME NEW s \in Sessions
    PROVE  Aborted(s) \in Sessions
<1>1. CASE ~IsSyncing(s)
  BY <1>1 DEF Aborted
<1>2. CASE IsSyncing(s)
  <2>1. s \in Session /\ Cleared(s) \in Sessions /\ ~IsSyncing(Cleared(s))
    BY ClearedGood DEF Sessions
  <2>2. Aborted(s) \in Session
    BY <1>2, <2>1 DEF Session, Sessions, Aborted
  <2>3. QED
    BY <1>2, <2>1, <2>2 DEF Sessions, Aborted, Carried, ServesWhole, IsSyncing, Session
<1>3. QED
  BY <1>1, <1>2

LEMMA EffectGood == \A s \in Sessions : Effect(s) \in Effects
BY DEF Effect, Effects

LEMMA SendingGood ==
    ASSUME NEW e \in Effects, NEW s \in Sessions, NEW m \in Messages
    PROVE  Sending(e, s, m) \in Effects
<1>1. Append(e.out, m) \in Seq(Messages)
  BY DEF Effects
<1>2. QED
  BY <1>1 DEF Effects, Sending

(* A change that touches neither the pulls nor the batches served.         *)
LEMMA SameWork ==
    ASSUME NEW s \in Sessions, NEW t \in Session,
           t.phase = s.phase, t.run = s.run, t.pending = s.pending, t.ahead = s.ahead,
           t.pulls = s.pulls, t.serving = s.serving
    PROVE  t \in Sessions
BY DEF Sessions, Carried, ServesWhole, IsSyncing, InFlight

LEMMA SayCompleteGood ==
    ASSUME NEW e \in Effects, IsSyncing(e.s)
    PROVE  SayComplete(e) \in Effects
<1> DEFINE t == [e.s EXCEPT !.localDone = TRUE, !.unacked = @ \cup {e.s.run}]
           m == [type |-> "full-sync-complete", run |-> e.s.run]
<1>1. e.s \in Sessions /\ e.s \in Session /\ e.s.run \in Run
  BY DEF Effects, Sessions
<1>2. t \in Session
  BY <1>1 DEF Session
<1>3. t \in Sessions
  <2>1. /\ t.phase = e.s.phase /\ t.run = e.s.run /\ t.pending = e.s.pending
        /\ t.ahead = e.s.ahead /\ t.pulls = e.s.pulls /\ t.serving = e.s.serving
    BY <1>1 DEF Session
  <2> HIDE DEF t
  <2>2. QED
    BY <1>1, <1>2, <2>1, SameWork
<1>4. m \in Messages
  BY <1>1 DEF Messages, Message
<1>5. SayComplete(e) \in {e, Sending(e, t, m)}
  BY DEF SayComplete
<1> HIDE DEF t, m
<1>6. QED
  BY <1>3, <1>4, <1>5, SendingGood

LEMMA CheckCompletionGood == \A e \in Effects : CheckCompletion(e) \in Effects
<1> SUFFICES ASSUME NEW e \in Effects, IsSyncing(e.s)
             PROVE  CheckCompletion(e) \in Effects
  BY DEF CheckCompletion
<1>1. SayComplete(e) \in Effects
  BY SayCompleteGood
<1> DEFINE f == [SayComplete(e) EXCEPT !.s = Completed(@)]
<1>2. f \in Effects
  <2>1. Completed(SayComplete(e).s) \in Sessions
    BY <1>1, CompletedGood DEF Effects, Sessions
  <2>2. QED
    BY <1>1, <2>1 DEF Effects
<1>3. CheckCompletion(e) \in {SayComplete(e), f}
  BY DEF CheckCompletion
<1> HIDE DEF f
<1>4. QED
  BY <1>1, <1>2, <1>3

-----------------------------------------------------------------------------
(* Requests: what leaves the order is in the batches that ask for it.      *)

LEMMA SeqOfASet ==
    ASSUME NEW S, IsFiniteSet(S)
    PROVE  SetToSeq(S) \in Seq(S)
<1>1. PICK f \in [1 .. Cardinality(S) -> S] : IsInjective(f)
  BY FS_CardinalityType DEF ExistsBijection, Bijection, Injection
<1>2. SetToSeq(S) \in [1 .. Cardinality(S) -> S]
  BY <1>1 DEF SetToSeq
<1>3. QED
  BY <1>2, FS_CardinalityType

BatchOf(d, s, S) == [run |-> s.run, by |-> d, tries |-> [p \in S |-> s.retries[p]]]
BatchesOf(d, s, B) == {BatchOf(d, s, S) : S \in B}
Asking(ids) == {[type |-> "request-batch", id |-> id] : id \in ids}

LEMMA FewBatches ==
    ASSUME NEW d, NEW s, NEW B, IsFiniteSet(B)
    PROVE  IsFiniteSet(Asking(BatchesOf(d, s, B)))
<1> DEFINE f == [S \in B |-> [type |-> "request-batch", id |-> BatchOf(d, s, S)]]
<1>1. f \in Surjection(B, Asking(BatchesOf(d, s, B)))
  BY DEF Surjection, Asking, BatchesOf
<1> HIDE DEF f
<1>2. QED
  BY <1>1, FS_Surjection

LEMMA BatchFits ==
    ASSUME NEW d \in Device, NEW s \in Session, s.run \in Run, NEW S \in SUBSET Path
    PROVE  BatchOf(d, s, S) \in BatchId /\ PathsOf(BatchOf(d, s, S)) = S
<1>1. [p \in S |-> s.retries[p]] \in [S -> 0 .. RetryLimit]
  BY DEF Session
<1>2. QED
  BY <1>1 DEF BatchOf, BatchId, PathsOf

LEMMA IssueGood ==
    ASSUME NEW d \in Device, NEW e \in Effects, IsSyncing(e.s), NEW B \in SUBSET (SUBSET Path)
    PROVE  Issue(d, e, B) \in Effects
<1> DEFINE s == e.s
           ids == BatchesOf(d, e.s, B)
           t == [e.s EXCEPT !.phase = "TRANSFERRING", !.pulls = @ \cup ids,
                            !.ahead = @ \ UNION B]
<1>1. s \in Session /\ s \in Sessions /\ s.run \in Run
  BY DEF Effects, Sessions
<1>2. ids \subseteq BatchId /\ \A S \in B : \E id \in ids : PathsOf(id) = S
  BY <1>1, BatchFits DEF BatchesOf
<1>3. Issue(d, e, B) = [s |-> t, out |-> e.out \o SetToSeq(Asking(ids))]
  BY DEF Issue, BatchesOf, BatchOf, Asking
<1>4. Asking(ids) \subseteq Messages
  BY <1>2 DEF Asking, Messages, Message
<1>5. SetToSeq(Asking(ids)) \in Seq(Messages)
  <2>1. IsFiniteSet(B)
    BY FullSyncAssumption, FS_SUBSET, FS_Subset
  <2>2. IsFiniteSet(Asking(ids))
    BY <2>1, FewBatches
  <2> HIDE DEF ids
  <2>3. SetToSeq(Asking(ids)) \in Seq(Asking(ids))
    BY <2>2, SeqOfASet
  <2>4. QED
    BY <2>3, <1>4
<1>6. t \in Sessions
  <2> HIDE DEF ids
  <2>1. t \in Session
    BY <1>1, <1>2 DEF Session, Phases
  <2>2. /\ t.pending = s.pending /\ t.ahead = s.ahead \ UNION B /\ t.pulls = s.pulls \cup ids
        /\ t.serving = s.serving /\ t.run = s.run /\ IsSyncing(t)
    BY <1>1 DEF Session, IsSyncing
  <2>3. InFlight(s) \cup UNION B \subseteq InFlight(t)
    BY <1>2, <2>2 DEF InFlight
  <2>4. Carried(t)
    BY <1>1, <2>2, <2>3 DEF Sessions, Carried
  <2>5. ServesWhole(t)
    BY <1>1, <2>2 DEF Sessions, ServesWhole
  <2>6. QED
    BY <1>1, <2>1, <2>2, <2>4, <2>5 DEF Sessions
<1>7. QED
  <2> HIDE DEF t, ids
  <2>1. e.out \o SetToSeq(Asking(ids)) \in Seq(Messages)
    BY <1>5 DEF Effects
  <2>2. QED
    BY <1>3, <1>6, <2>1 DEF Effects

LEMMA RequestNextBatchGood ==
    \A d \in Device, e \in Effects : RequestNextBatch(d, e) \subseteq Effects
<1> SUFFICES ASSUME NEW d \in Device, NEW e \in Effects
             PROVE  RequestNextBatch(d, e) \subseteq Effects
  OBVIOUS
<1> DEFINE s == e.s
           eligible == (s.ahead \cap s.pending) \ InFlight(s)
           room == s.width - Cardinality(s.pulls)
<1>1. s \in Session
  BY DEF Effects, Sessions
<1>2. CASE s.phase \notin {"PLANNING", "TRANSFERRING"}
  BY <1>2 DEF RequestNextBatch
<1>3. CASE s.phase \in {"PLANNING", "TRANSFERRING"}
  <2>1. IsSyncing(s)
    BY <1>3 DEF IsSyncing
  <2>2. eligible \subseteq Path
    BY <1>1 DEF Session
  <2>3. \A B \in Batchings(eligible, room) : Issue(d, e, B) \in Effects
    <3> HIDE DEF eligible, room
    <3>1. ASSUME NEW B \in Batchings(eligible, room) PROVE B \in SUBSET (SUBSET Path)
      BY <2>2 DEF Batchings
    <3>2. QED
      BY <2>1, <3>1, IssueGood
  <2>4. RequestNextBatch(d, e) \subseteq
          {e, CheckCompletion(e)} \cup {Issue(d, e, B) : B \in Batchings(eligible, room)}
    BY DEF RequestNextBatch
  <2>5. QED
    BY <2>3, <2>4, CheckCompletionGood
<1>4. QED
  BY <1>2, <1>3

(* What a device adopts of a plan touches no batch.                        *)
LEMMA Adopting ==
    ASSUME NEW e \in Effects, NEW c \in Continuation
    PROVE  LET f == [e EXCEPT !.s.allowed = c.serve, !.s.pending = c.pull, !.s.ahead = c.pull]
           IN  /\ f \in Effects /\ f.out = e.out
               /\ f.s.phase = e.s.phase /\ f.s.run = e.s.run /\ f.s.pulls = e.s.pulls
               /\ f.s.serving = e.s.serving /\ f.s.jobs = e.s.jobs
<1> DEFINE t == [e.s EXCEPT !.allowed = c.serve, !.pending = c.pull, !.ahead = c.pull]
           f == [e EXCEPT !.s.allowed = c.serve, !.s.pending = c.pull, !.s.ahead = c.pull]
<1>1. e.s \in Session /\ e.s \in Sessions
  BY DEF Effects, Sessions
<1>2. c.serve \subseteq Path /\ c.pull \subseteq Path
  BY DEF Continuation
<1>3. t \in Session
  BY <1>1, <1>2 DEF Session
<1>4. /\ t.pending = t.ahead /\ t.serving = e.s.serving /\ t.run = e.s.run
      /\ t.phase = e.s.phase /\ t.pulls = e.s.pulls /\ t.jobs = e.s.jobs
  BY <1>1 DEF Session
<1>5. t \in Sessions
  <2> HIDE DEF t
  <2>1. Carried(t)
    BY <1>4 DEF Carried
  <2>2. ServesWhole(t) /\ (IsSyncing(t) => t.run \in Run)
    BY <1>1, <1>4 DEF Sessions, ServesWhole, IsSyncing
  <2>3. QED
    BY <1>3, <2>1, <2>2 DEF Sessions
<1>6. f = [s |-> t, out |-> e.out]
  <2>1. f = [e EXCEPT !.s = [@ EXCEPT !.allowed = c.serve, !.pending = c.pull, !.ahead = c.pull]]
    BY DEF Effects
  <2>2. QED
    BY <2>1 DEF Effects
<1>7. f \in Effects
  <2> HIDE DEF t
  <2>1. QED
    BY <1>5, <1>6 DEF Effects
<1>8. f.s = t /\ f.out = e.out
  BY <1>6
<1> HIDE DEF f, t
<1>9. /\ f \in Effects /\ f.out = e.out
      /\ f.s.phase = e.s.phase /\ f.s.run = e.s.run /\ f.s.pulls = e.s.pulls
      /\ f.s.serving = e.s.serving /\ f.s.jobs = e.s.jobs
  BY <1>4, <1>7, <1>8
<1>10. QED
  BY <1>9 DEF f

LEMMA AdoptGood ==
    ASSUME NEW d \in Device, NEW e \in Effects, NEW c \in Continuation
    PROVE  Adopt(d, e, c) \subseteq Effects
<1> DEFINE f == [e EXCEPT !.s.allowed = c.serve, !.s.pending = c.pull, !.s.ahead = c.pull]
<1>1. f \in Effects
  BY Adopting
<1>2. Adopt(d, e, c) = RequestNextBatch(d, f)
  BY DEF Adopt
<1> HIDE DEF f
<1>3. QED
  BY <1>1, <1>2, RequestNextBatchGood

LEMMA NextWaiting ==
    ASSUME NEW e \in Effects, NEW W
    PROVE  [e EXCEPT !.s.waiting = W] = [s |-> [e.s EXCEPT !.waiting = W], out |-> e.out]
<1>1. [e EXCEPT !.s.waiting = W] = [e EXCEPT !.s = [@ EXCEPT !.waiting = W]]
  OBVIOUS
<1>2. QED
  BY <1>1 DEF Effects

(* A continuation put off until its deletions are done.                    *)
LEMMA PuttingOff ==
    ASSUME NEW e \in Effects, NEW c \in Continuation
    PROVE  LET f == [e EXCEPT !.s.waiting = @ \cup {[c EXCEPT !.at = "apply"]}]
           IN  /\ f \in Effects /\ f.out = e.out
               /\ f.s.phase = e.s.phase /\ f.s.run = e.s.run /\ f.s.pulls = e.s.pulls
               /\ f.s.serving = e.s.serving /\ f.s.jobs = e.s.jobs
<1> DEFINE later == [c EXCEPT !.at = "apply"]
           t == [e.s EXCEPT !.waiting = @ \cup {later}]
           f == [e EXCEPT !.s.waiting = @ \cup {later}]
<1>1. e.s \in Session /\ e.s \in Sessions
  BY DEF Effects, Sessions
<1>2. later \in Continuation
  BY DEF Continuation
<1> HIDE DEF later
<1>3. t \in Session
  BY <1>1, <1>2 DEF Session
<1>4. /\ t.phase = e.s.phase /\ t.run = e.s.run /\ t.pending = e.s.pending
      /\ t.ahead = e.s.ahead /\ t.pulls = e.s.pulls /\ t.serving = e.s.serving
      /\ t.jobs = e.s.jobs
  BY <1>1 DEF Session
<1>5. f = [s |-> t, out |-> e.out]
  BY NextWaiting
<1>6. f \in Effects
  <2> HIDE DEF t
  <2>1. t \in Sessions
    BY <1>1, <1>3, <1>4, SameWork
  <2>2. QED
    BY <2>1, <1>5 DEF Effects
<1>7. f.s = t /\ f.out = e.out
  BY <1>5
<1> HIDE DEF f, t
<1>8. /\ f \in Effects /\ f.out = e.out
      /\ f.s.phase = e.s.phase /\ f.s.run = e.s.run /\ f.s.pulls = e.s.pulls
      /\ f.s.serving = e.s.serving /\ f.s.jobs = e.s.jobs
  BY <1>4, <1>6, <1>7
<1>9. QED
  BY <1>8 DEF f, later

LEMMA AfterDeletionsGood ==
    ASSUME NEW d \in Device, NEW e \in Effects, NEW c \in Continuation
    PROVE  AfterDeletions(d, e, c) \subseteq Effects
<1> DEFINE f == [e EXCEPT !.s.waiting = @ \cup {[c EXCEPT !.at = "apply"]}]
<1>1. f \in Effects
  BY PuttingOff
<1>2. AfterDeletions(d, e, c) \in {Adopt(d, e, c), {f}}
  BY DEF AfterDeletions
<1> HIDE DEF f
<1>3. QED
  BY <1>1, <1>2, AdoptGood

-----------------------------------------------------------------------------
(* Serving: every path of a batch goes from left to ok or bad.             *)

LEMMA FinishedWhole ==
    ASSUME NEW b \in Batch, Whole(b.id, b.left, b.ok, b.bad), NEW paths \in SUBSET Path,
           NEW ok \in BOOLEAN
    PROVE  LET f == Finished(b, paths, ok)
           IN  f \in Batch /\ f.id = b.id /\ Whole(f.id, f.left, f.ok, f.bad)
<1> DEFINE f == Finished(b, paths, ok)
<1>1. f \in Batch
  BY DEF Finished, Batch
<1>2. /\ f.id = b.id /\ f.left = b.left \ paths
      /\ f.ok = (IF ok THEN b.ok \cup paths ELSE b.ok)
      /\ f.bad = (IF ok THEN b.bad ELSE b.bad \cup paths)
  BY DEF Finished, Batch
<1> HIDE DEF f
<1>3. Whole(f.id, f.left, f.ok, f.bad)
  BY <1>2 DEF Whole
<1>4. QED
  BY <1>1, <1>2, <1>3 DEF f

LEMMA NextServing ==
    ASSUME NEW e \in Effects, NEW B, NEW A
    PROVE  [e EXCEPT !.s.serving = B, !.s.allowed = A]
             = [s |-> [e.s EXCEPT !.serving = B, !.allowed = A], out |-> e.out]
<1>1. [e EXCEPT !.s.serving = B, !.s.allowed = A]
        = [e EXCEPT !.s = [@ EXCEPT !.serving = B, !.allowed = A]]
  BY DEF Effects
<1>2. QED
  BY <1>1 DEF Effects

(* Another set of batches served, and other paths allowed.                 *)
LEMMA ServingGood ==
    ASSUME NEW s \in Sessions, NEW B \in SUBSET Batch, NEW A \in SUBSET Path,
           \A b \in B : Whole(b.id, b.left, b.ok, b.bad)
    PROVE  [s EXCEPT !.serving = B, !.allowed = A] \in Sessions
<1> DEFINE t == [s EXCEPT !.serving = B, !.allowed = A]
<1>1. s \in Session
  BY DEF Sessions
<1>2. t \in Session
  BY <1>1 DEF Session
<1>3. /\ t.phase = s.phase /\ t.run = s.run /\ t.pending = s.pending /\ t.ahead = s.ahead
      /\ t.pulls = s.pulls /\ t.serving = B
  BY <1>1 DEF Session
<1> HIDE DEF t
<1>4. Carried(t) /\ (IsSyncing(t) => t.run \in Run)
  BY <1>3 DEF Sessions, Carried, IsSyncing, InFlight
<1>5. ServesWhole(t)
  BY <1>3 DEF ServesWhole
<1>6. QED
  BY <1>2, <1>4, <1>5 DEF Sessions, t

LEMMA RecordCompletionGood ==
    ASSUME NEW e \in Effects, NEW id \in BatchId, NEW paths \in SUBSET Path,
           NEW ok \in BOOLEAN, NEW again \in BOOLEAN
    PROVE  RecordCompletion(e, id, paths, ok, again) \in Effects
<1> DEFINE s == e.s
           found == {b \in e.s.serving : b.id = id}
           one == CHOOSE f \in found : TRUE
           b == Finished(one, paths, ok)
           allowed == IF ~ok /\ again THEN s.allowed \cup paths ELSE s.allowed
           rest == [s EXCEPT !.serving = @ \ found, !.allowed = allowed]
           more == [s EXCEPT !.serving = (@ \ found) \cup {b}, !.allowed = allowed]
           done == [type |-> "batch-complete", id |-> id, ok |-> b.ok, bad |-> b.bad]
           go == [e EXCEPT !.s.serving = (@ \ found) \cup {b}, !.s.allowed = allowed]
<1>1. CASE found = {} \/ paths = {}
  BY <1>1 DEF RecordCompletion
<1>2. CASE found # {} /\ paths # {}
  <2>1. s \in Sessions /\ s \in Session
    BY DEF Effects, Sessions
  <2>2. one \in s.serving /\ one.id = id
    BY <1>2
  <2>3. one \in Batch /\ Whole(one.id, one.left, one.ok, one.bad)
    BY <2>1, <2>2 DEF Session, Sessions, ServesWhole
  <2>4. b \in Batch /\ b.id = id /\ Whole(b.id, b.left, b.ok, b.bad)
    <3> HIDE DEF one
    <3>1. QED
      BY <2>2, <2>3, FinishedWhole
  <2>5. allowed \subseteq Path
    BY <2>1 DEF Session
  <2>6. RecordCompletion(e, id, paths, ok, again) =
          IF b.left # {} THEN go ELSE CheckCompletion(Sending(e, rest, done))
    BY <1>2 DEF RecordCompletion
  <2>7. s.serving \subseteq Batch /\ \A x \in s.serving : Whole(x.id, x.left, x.ok, x.bad)
    BY <2>1 DEF Session, Sessions, ServesWhole
  <2> HIDE DEF found, one, b, allowed
  <2>8. CASE b.left # {}
    <3>1. more = [s EXCEPT !.serving = (s.serving \ found) \cup {b}, !.allowed = allowed]
      OBVIOUS
    <3>2. more \in Sessions
      BY <2>1, <2>4, <2>5, <2>7, <3>1, ServingGood
    <3>3. go = [s |-> more, out |-> e.out]
      BY NextServing
    <3> HIDE DEF more, go
    <3>4. QED
      BY <2>6, <2>8, <3>2, <3>3 DEF Effects
  <2>9. CASE b.left = {}
    <3>1. rest \in Sessions
      <4>1. rest = [s EXCEPT !.serving = s.serving \ found, !.allowed = allowed]
        OBVIOUS
      <4> HIDE DEF rest
      <4>2. QED
        BY <2>1, <2>5, <2>7, <4>1, ServingGood
    <3>2. done \in Message
      BY <2>4 DEF Message, Batch
    <3>3. done \in Messages
      BY <2>4, <2>9, <3>2 DEF Messages
    <3> HIDE DEF rest, done
    <3>4. QED
      BY <2>6, <2>9, <3>1, <3>3, SendingGood, CheckCompletionGood
  <2>10. QED
    BY <2>8, <2>9
<1>3. QED
  BY <1>1, <1>2

-----------------------------------------------------------------------------
(* The actions.                                                            *)

Good == sync \in [Device -> Sessions] /\ net \in [Device -> Seq(Messages)]

LEMMA CommitGood ==
    ASSUME Good, NEW d \in Device, NEW e \in Effects, NEW took \in BOOLEAN,
           took => net[d] # <<>>, Commit(d, e, took)
    PROVE  Good'
<1>1. e.s \in Sessions /\ e.out \in Seq(Messages)
  BY DEF Effects
<1>2. net[d] \in Seq(Messages) /\ (took => Tail(net[d]) \in Seq(Messages))
  BY DEF Good
<1>3. (IF took THEN Tail(net[d]) ELSE net[d]) \in Seq(Messages)
  BY <1>2
<1>4. net[Peer(d)] \o e.out \in Seq(Messages)
  BY <1>1, PeerIs DEF Good
<1>5. sync' \in [Device -> Sessions]
  BY <1>1 DEF Good, Commit
<1>6. net' = [net EXCEPT ![d] = IF took THEN Tail(net[d]) ELSE net[d],
                         ![Peer(d)] = net[Peer(d)] \o e.out]
  BY PeerIs DEF Commit, Good
<1>7. net' \in [Device -> Seq(Messages)]
  BY <1>3, <1>4, <1>6, PeerIs DEF Good
<1>8. QED
  BY <1>5, <1>7 DEF Good

LEMMA HeadGood ==
    ASSUME Good, NEW d \in Device, NEW type, Arrives(d, type)
    PROVE  /\ net[d] # <<>>
           /\ Head(net[d]) \in Messages /\ Head(net[d]) \in Message
           /\ Head(net[d]).type = type
<1>1. net[d] \in Seq(Messages) /\ net[d] # <<>> /\ Head(net[d]).type = type
  BY DEF Good, Arrives
<1>2. Head(net[d]) \in Messages
  BY <1>1
<1>3. QED
  BY <1>1, <1>2 DEF Messages

LEMMA SessionGood ==
    ASSUME Good, NEW d \in Device
    PROVE  sync[d] \in Sessions /\ sync[d] \in Session /\ Effect(sync[d]) \in Effects
  BY EffectGood DEF Good, Sessions

LEMMA RequestFullSyncKeeps ==
    ASSUME IInv, NEW d \in Device, RequestFullSync(d)
    PROVE  Good'
<1> DEFINE m == [type |-> "request-full-sync", run |-> runs']
           t == Begun(sync[d], "REQUESTING", runs')
<1>1. Good
  BY DEF IInv, Good
<1>2. runs' \in Run
  BY FullSyncAssumption DEF RequestFullSync, IInv, Run
<1>3. m \in Messages
  BY <1>2 DEF Messages, Message
<1>4. t \in Sessions
  BY <1>1, <1>2, SessionGood, BegunGood DEF RequestFullSync, Phases
<1>5. Sending(Effect(sync[d]), t, m) \in Effects
  <2> HIDE DEF t, m
  <2>1. QED
    BY <1>1, <1>3, <1>4, SessionGood, SendingGood
<1>6. Commit(d, Sending(Effect(sync[d]), t, m), FALSE)
  BY DEF RequestFullSync
<1> HIDE DEF t, m
<1>7. QED
  BY <1>1, <1>5, <1>6, CommitGood

(* The waiting handlers change, or what else carries no work.              *)
LEMMA WaitingGood ==
    ASSUME NEW s \in Sessions, NEW W \in SUBSET Continuation, NEW w \in SUBSET Path
    PROVE  [s EXCEPT !.waiting = W, !.want = w] \in Sessions
<1> DEFINE t == [s EXCEPT !.waiting = W, !.want = w]
<1>1. s \in Session
  BY DEF Sessions
<1>2. t \in Session
  BY <1>1 DEF Session
<1>3. /\ t.phase = s.phase /\ t.run = s.run /\ t.pending = s.pending
      /\ t.ahead = s.ahead /\ t.pulls = s.pulls /\ t.serving = s.serving
  BY <1>1 DEF Session
<1> HIDE DEF t
<1>4. QED
  BY <1>2, <1>3, SameWork DEF t

LEMMA WaitGood ==
    ASSUME NEW s \in Sessions, NEW W \in SUBSET Continuation
    PROVE  [s EXCEPT !.waiting = W] \in Sessions
<1>1. [s EXCEPT !.waiting = W] = [s EXCEPT !.waiting = W, !.want = s.want]
  BY DEF Sessions, Session
<1>2. s.want \in SUBSET Path
  BY DEF Sessions, Session
<1>3. QED
  BY <1>1, <1>2, WaitingGood

LEMMA ReceiveRequestKeeps ==
    ASSUME Good, NEW d \in Device, ReceiveRequest(d)
    PROVE  Good'
<1> DEFINE s == sync[d]
           plan == [at |-> "plan", run |-> 0, pull |-> {}, serve |-> {}, delete |-> {}]
           begun == Begun(s, "PLANNING", Head(net[d]).run)
           t == [begun EXCEPT !.waiting = @ \cup {plan}]
           busy == Sending(Effect(s), s, [type |-> "sync-busy"])
<1>1. Arrives(d, "request-full-sync")
      /\ Commit(d, IF IsSyncing(s) THEN busy ELSE Effect(t), TRUE)
  BY DEF ReceiveRequest
<1>2. net[d] # <<>> /\ (~IsSyncing(s) => Head(net[d]).run \in Run)
  BY <1>1, HeadGood DEF Message
<1>3. [type |-> "sync-busy"] \in Messages
  BY DEF Messages, Message
<1>4. busy \in Effects
  BY <1>3, SessionGood, SendingGood
<1>5. ~IsSyncing(s) => begun \in Sessions
  BY <1>2, SessionGood, BegunGood DEF Phases
<1>6. ~IsSyncing(s) => t \in Sessions
  <2>1. plan \in Continuation
    BY DEF Continuation
  <2> HIDE DEF plan, begun
  <2>2. ~IsSyncing(s) => begun.waiting \cup {plan} \subseteq Continuation
    BY <1>5, <2>1 DEF Sessions, Session
  <2>3. QED
    BY <1>5, <2>2, WaitGood
<1> HIDE DEF t, busy
<1>7. (IF IsSyncing(s) THEN busy ELSE Effect(t)) \in Effects
  BY <1>4, <1>6, EffectGood
<1>8. QED
  BY <1>1, <1>2, <1>7, CommitGood

LEMMA SendPlanKeeps ==
    ASSUME Good, NEW d \in Device, SendPlan(d)
    PROVE  Good'
<1> DEFINE s == sync[d]
           Next1(c, plan) == [s EXCEPT !.waiting = (@ \ {c}) \cup
                               {[at |-> "ack", run |-> s.run, pull |-> plan.responderPulls,
                                 serve |-> plan.initiatorPulls, delete |-> plan.responderDeletes]},
                             !.want = IF IsSyncing(s) THEN plan.responderPulls ELSE @]
           Told(plan) == [type |-> "sync-plan", run |-> s.run, plan |-> plan]
<1>1. PICK c \in s.waiting, plan \in Plans :
         Commit(d, Sending(Effect(s), Next1(c, plan), Told(plan)), FALSE)
  BY DEF SendPlan
<1>2. plan \in Plan /\ s \in Sessions /\ s \in Session
  BY FullSyncAssumption, SessionGood
<1> DEFINE W == (s.waiting \ {c}) \cup
                  {[at |-> "ack", run |-> s.run, pull |-> plan.responderPulls,
                    serve |-> plan.initiatorPulls, delete |-> plan.responderDeletes]}
           w == IF IsSyncing(s) THEN plan.responderPulls ELSE s.want
<1>3. W \in SUBSET Continuation /\ w \in SUBSET Path
  BY <1>2 DEF Session, Continuation, Plan
<1>4. Next1(c, plan) = [s EXCEPT !.waiting = W, !.want = w]
  OBVIOUS
<1>5. Told(plan) \in Messages
  BY <1>2 DEF Session, Messages, Message
<1> HIDE DEF Next1, Told, W, w
<1>6. Next1(c, plan) \in Sessions
  <2>1. [s EXCEPT !.waiting = W, !.want = w] \in Sessions
    BY <1>2, <1>3, WaitingGood
  <2>2. QED
    BY <1>4, <2>1
<1>7. Sending(Effect(s), Next1(c, plan), Told(plan)) \in Effects
  BY <1>5, <1>6, SessionGood, SendingGood
<1>8. QED
  BY <1>1, <1>7, CommitGood

LEMMA PlanAcknowledgedKeeps ==
    ASSUME Good, NEW d \in Device, PlanAcknowledged(d)
    PROVE  Good'
<1> DEFINE s == sync[d]
           found == {c \in s.waiting : c.at = "ack" /\ c.run = Head(net[d]).run}
           Left(c) == [s EXCEPT !.waiting = @ \ {c}]
<1>1. /\ Arrives(d, "sync-ack")
      /\ IF found = {} THEN Commit(d, Effect(s), TRUE)
         ELSE \E c \in found : \E e \in AfterDeletions(d, Effect(Left(c)), c) : Commit(d, e, TRUE)
  BY DEF PlanAcknowledged
<1>2. net[d] # <<>>
  BY <1>1 DEF Arrives
<1>3. CASE found = {}
  BY <1>1, <1>2, <1>3, SessionGood, CommitGood
<1>4. CASE found # {}
  <2>1. PICK c \in found : \E e \in AfterDeletions(d, Effect(Left(c)), c) : Commit(d, e, TRUE)
    BY <1>1, <1>4
  <2>2. c \in Continuation /\ s.waiting \ {c} \subseteq Continuation /\ s \in Sessions
    BY SessionGood DEF Session
  <2>3. Left(c) \in Sessions
    BY <2>2, WaitGood
  <2> HIDE DEF Left, found
  <2>4. AfterDeletions(d, Effect(Left(c)), c) \subseteq Effects
    BY <2>2, <2>3, EffectGood, AfterDeletionsGood
  <2>5. QED
    BY <1>2, <2>1, <2>4, CommitGood
<1>5. QED
  BY <1>3, <1>4

LEMMA DeletionsDoneKeeps ==
    ASSUME Good, NEW d \in Device, DeletionsDone(d)
    PROVE  Good'
<1> DEFINE s == sync[d]
           Left(c) == [s EXCEPT !.waiting = @ \ {c}]
<1>1. PICK c \in s.waiting : \E e \in Adopt(d, Effect(Left(c)), c) : Commit(d, e, FALSE)
  BY DEF DeletionsDone
<1>2. c \in Continuation /\ s.waiting \ {c} \subseteq Continuation /\ s \in Sessions
  BY SessionGood DEF Session
<1>3. Left(c) \in Sessions
  BY <1>2, WaitGood
<1> HIDE DEF Left
<1>4. Adopt(d, Effect(Left(c)), c) \subseteq Effects
  BY <1>2, <1>3, EffectGood, AdoptGood
<1>5. QED
  BY <1>1, <1>4, CommitGood

LEMMA AbortKeeps ==
    ASSUME Good, NEW d \in Device, ReceiveBusy(d) \/ Abort(d)
    PROVE  Good'
<1>1. Effect(Aborted(sync[d])) \in Effects
  BY SessionGood, AbortedGood, EffectGood
<1>2. PICK took \in BOOLEAN :
         /\ Commit(d, Effect(Aborted(sync[d])), took)
         /\ took => net[d] # <<>>
  BY DEF ReceiveBusy, Abort, Arrives
<1>3. QED
  BY <1>1, <1>2, CommitGood

LEMMA NextPhase ==
    ASSUME NEW e \in Effects, NEW phase, NEW w
    PROVE  [e EXCEPT !.s.phase = phase, !.s.want = w]
             = [s |-> [e.s EXCEPT !.phase = phase, !.want = w], out |-> e.out]
<1>1. [e EXCEPT !.s.phase = phase, !.s.want = w]
        = [e EXCEPT !.s = [@ EXCEPT !.phase = phase, !.want = w]]
  BY DEF Effects
<1>2. QED
  BY <1>1 DEF Effects

LEMMA PlanningGood ==
    ASSUME NEW s \in Sessions, IsSyncing(s), NEW w \in SUBSET Path
    PROVE  [s EXCEPT !.phase = "PLANNING", !.want = w] \in Sessions
<1> DEFINE t == [s EXCEPT !.phase = "PLANNING", !.want = w]
<1>1. s \in Session
  BY DEF Sessions
<1>2. t \in Session
  BY <1>1 DEF Session, Phases
<1>3. /\ t.run = s.run /\ t.pending = s.pending /\ IsSyncing(t)
      /\ t.ahead = s.ahead /\ t.pulls = s.pulls /\ t.serving = s.serving
  BY <1>1 DEF Session, IsSyncing
<1> HIDE DEF t
<1>4. Carried(t) /\ ServesWhole(t) /\ t.run \in Run
  BY <1>3 DEF Sessions, Carried, ServesWhole, InFlight
<1>5. QED
  BY <1>2, <1>4 DEF Sessions, t

(* The initiator takes the plan up.                                        *)
LEMMA TakingUp ==
    ASSUME NEW e \in Effects, IsSyncing(e.s), NEW w \in SUBSET Path
    PROVE  LET f == [e EXCEPT !.s.phase = "PLANNING", !.s.want = w]
           IN  /\ f \in Effects /\ f.out = e.out /\ IsSyncing(f.s)
               /\ f.s.run = e.s.run /\ f.s.pulls = e.s.pulls
               /\ f.s.serving = e.s.serving /\ f.s.jobs = e.s.jobs
<1> DEFINE t == [e.s EXCEPT !.phase = "PLANNING", !.want = w]
           f == [e EXCEPT !.s.phase = "PLANNING", !.s.want = w]
<1>1. e.s \in Sessions /\ e.s \in Session
  BY DEF Effects, Sessions
<1>2. f = [s |-> t, out |-> e.out]
  BY NextPhase
<1>3. t \in Sessions
  BY <1>1, PlanningGood
<1>4. /\ IsSyncing(t) /\ t.run = e.s.run /\ t.pulls = e.s.pulls
      /\ t.serving = e.s.serving /\ t.jobs = e.s.jobs
  BY <1>1 DEF Session, IsSyncing
<1> HIDE DEF t, f
<1>5. f \in Effects /\ f.s = t /\ f.out = e.out
  BY <1>2, <1>3 DEF Effects
<1>6. QED
  BY <1>4, <1>5 DEF f

LEMMA ReceivePlanKeeps ==
    ASSUME Good, NEW d \in Device, ReceivePlan(d)
    PROVE  Good'
<1> DEFINE s == sync[d]
           m == Head(net[d])
           ack == [type |-> "sync-ack", of |-> "sync-plan", run |-> m.run]
           acked == Sending(Effect(s), s, ack)
           mine == [at |-> "apply", run |-> m.run, pull |-> m.plan.initiatorPulls,
                    serve |-> m.plan.responderPulls, delete |-> m.plan.initiatorDeletes]
           taken == [acked EXCEPT !.s.phase = "PLANNING", !.s.want = mine.pull]
<1>1. /\ Arrives(d, "sync-plan")
      /\ IF AnswersMe(s, m) THEN \E e \in AfterDeletions(d, taken, mine) : Commit(d, e, TRUE)
         ELSE Commit(d, acked, TRUE)
  BY DEF ReceivePlan
<1>2. net[d] # <<>> /\ m \in Message /\ m.type = "sync-plan"
  BY <1>1, HeadGood
<1>3. m.run \in Run \cup {0} /\ m.plan \in Plan
  BY <1>2 DEF Message
<1>4. ack \in Messages
  BY <1>3 DEF Messages, Message
<1>5. acked \in Effects /\ acked.s = s
  <2> HIDE DEF ack
  <2>1. QED
    BY <1>4, SessionGood, SendingGood DEF Sending
<1>6. mine \in Continuation /\ mine.pull \in SUBSET Path
  BY <1>3 DEF Continuation, Plan
<1> HIDE DEF acked, mine
<1>7. AnswersMe(s, m) => taken \in Effects
  <2>1. AnswersMe(s, m) => IsSyncing(s)
    BY DEF AnswersMe, IsSyncing
  <2>2. QED
    BY <1>5, <1>6, <2>1, TakingUp
<1> HIDE DEF taken
<1>8. AnswersMe(s, m) => AfterDeletions(d, taken, mine) \subseteq Effects
  BY <1>6, <1>7, AfterDeletionsGood
<1>9. QED
  BY <1>1, <1>2, <1>5, <1>8, CommitGood

(* A batch taken up, with its tasks.                                       *)
NewBatch(id) == [id |-> id, left |-> PathsOf(id), ok |-> {}, bad |-> {}]
Granted(s, id) == PathsOf(id) \cap s.allowed
Granting(s, id, tasks) ==
    [s EXCEPT !.phase = "TRANSFERRING", !.serving = @ \cup {NewBatch(id)},
              !.allowed = @ \ Granted(s, id),
              !.jobs = @ \cup {t \in tasks : t.paths # {}}]

LEMMA GrantingGood ==
    ASSUME NEW s \in Sessions, IsSyncing(s), NEW id \in BatchId,
           NEW tasks \in Tasks(id, Granted(s, id))
    PROVE  LET t == Granting(s, id, tasks)
           IN  /\ t \in Sessions /\ IsSyncing(t) /\ t.run = s.run /\ t.pulls = s.pulls
               /\ t.serving = s.serving \cup {NewBatch(id)}
               /\ t.jobs = s.jobs \cup {j \in tasks : j.paths # {}}
<1> DEFINE t == Granting(s, id, tasks)
           batch == NewBatch(id)
           new == {j \in tasks : j.paths # {}}
<1>1. s \in Session /\ s.run \in Run
  BY DEF Sessions
<1>2. PathsOf(id) \subseteq Path
  BY DEF BatchId, PathsOf
<1>3. batch \in Batch /\ Whole(batch.id, batch.left, batch.ok, batch.bad)
  BY <1>2 DEF NewBatch, Batch, Whole
<1>4. new \subseteq Job
  BY <1>2 DEF Tasks, Job, Granted
<1>5. t = [s EXCEPT !.phase = "TRANSFERRING", !.serving = @ \cup {batch},
                    !.allowed = @ \ Granted(s, id), !.jobs = @ \cup new]
  BY DEF Granting
<1> HIDE DEF t, batch, new
<1>6. t \in Session
  BY <1>1, <1>3, <1>4, <1>5 DEF Session, Phases
<1>7. /\ t.run = s.run /\ t.pending = s.pending /\ IsSyncing(t)
      /\ t.ahead = s.ahead /\ t.pulls = s.pulls
      /\ t.serving = s.serving \cup {batch} /\ t.jobs = s.jobs \cup new
  BY <1>1, <1>5 DEF Session, IsSyncing
<1>8. Carried(t)
  BY <1>7 DEF Sessions, Carried, InFlight
<1>9. ServesWhole(t)
  BY <1>3, <1>7 DEF Sessions, ServesWhole
<1>10. t \in Sessions
  BY <1>1, <1>6, <1>7, <1>8, <1>9 DEF Sessions
<1>11. QED
  BY <1>7, <1>10 DEF t, batch, new

LEMMA ReceiveBatchRequestIs ==
    ASSUME Good, NEW d \in Device, ReceiveBatchRequest(d)
    PROVE  LET s == sync[d]
               id == Head(net[d]).id
           IN  /\ net[d] # <<>> /\ id \in BatchId /\ Head(net[d]).type = "request-batch"
               /\ IF ~IsSyncing(s) \/ s.phase = "REQUESTING" THEN Commit(d, Effect(s), TRUE)
                  ELSE \E tasks \in Tasks(id, Granted(s, id)) :
                          Commit(d, RecordCompletion(Effect(Granting(s, id, tasks)), id,
                                                     PathsOf(id) \ Granted(s, id), FALSE, FALSE), TRUE)
<1>1. Arrives(d, "request-batch") /\ sync[d].phase \in Phases
  BY SessionGood DEF ReceiveBatchRequest, Session
<1>2. net[d] # <<>> /\ Head(net[d]) \in Message /\ Head(net[d]).type = "request-batch"
  BY <1>1, HeadGood
<1>3. Head(net[d]).id \in BatchId
  BY <1>2 DEF Message
<1>4. QED
  BY <1>1, <1>2, <1>3 DEF ReceiveBatchRequest, Phases, IsSyncing, Granting, Granted, NewBatch

LEMMA ReceiveBatchRequestKeeps ==
    ASSUME Good, NEW d \in Device, ReceiveBatchRequest(d)
    PROVE  Good'
<1> DEFINE s == sync[d]
           id == Head(net[d]).id
           done(tasks) == RecordCompletion(Effect(Granting(s, id, tasks)), id,
                                           PathsOf(id) \ Granted(s, id), FALSE, FALSE)
<1>1. /\ net[d] # <<>> /\ id \in BatchId
      /\ IF ~IsSyncing(s) \/ s.phase = "REQUESTING" THEN Commit(d, Effect(s), TRUE)
         ELSE \E tasks \in Tasks(id, Granted(s, id)) : Commit(d, done(tasks), TRUE)
  BY ReceiveBatchRequestIs
<1>2. CASE ~IsSyncing(s) \/ s.phase = "REQUESTING"
  BY <1>1, <1>2, SessionGood, CommitGood
<1>3. CASE ~(~IsSyncing(s) \/ s.phase = "REQUESTING")
  <2>1. PICK tasks \in Tasks(id, Granted(s, id)) : Commit(d, done(tasks), TRUE)
    BY <1>1, <1>3
  <2>2. PathsOf(id) \ Granted(s, id) \in SUBSET Path
    BY <1>1 DEF BatchId, PathsOf
  <2>3. s \in Sessions
    BY SessionGood
  <2> HIDE DEF id, s
  <2>4. Granting(s, id, tasks) \in Sessions
    BY <1>1, <1>3, <2>3, GrantingGood
  <2>5. done(tasks) \in Effects
    BY <1>1, <2>2, <2>4, EffectGood, RecordCompletionGood
  <2> HIDE DEF done
  <2>6. QED
    BY <1>1, <2>1, <2>5, CommitGood
<1>4. QED
  BY <1>2, <1>3

LEMMA TaskDoneKeeps ==
    ASSUME Good, NEW d \in Device, TaskDone(d)
    PROVE  Good'
<1> DEFINE s == sync[d]
           t(j) == [s EXCEPT !.jobs = @ \ {j}]
<1>1. PICK j \in s.jobs, ok \in BOOLEAN :
         Commit(d, RecordCompletion(Effect(t(j)), j.id, j.paths, ok, TRUE), FALSE)
  BY DEF TaskDone
<1>2. s \in Session /\ s \in Sessions /\ j \in Job
  BY SessionGood DEF Session
<1>3. j.id \in BatchId /\ j.paths \in SUBSET Path
  BY <1>2 DEF Job
<1>4. t(j) \in Session
  BY <1>2 DEF Session
<1>5. /\ t(j).phase = s.phase /\ t(j).run = s.run /\ t(j).pending = s.pending
      /\ t(j).ahead = s.ahead /\ t(j).pulls = s.pulls /\ t(j).serving = s.serving
  BY <1>2 DEF Session
<1> HIDE DEF t
<1>6. Effect(t(j)) \in Effects
  BY <1>2, <1>4, <1>5, SameWork, EffectGood
<1>7. QED
  BY <1>1, <1>3, <1>6, RecordCompletionGood, CommitGood

LEMMA WidthsFit ==
    ASSUME NEW s \in Session, NEW m
    PROVE  Widths(s, m) \subseteq 1 .. MaxWidth
<1>1. s.width \in 1 .. MaxWidth /\ MaxWidth \in Nat
  BY FullSyncAssumption DEF Session
<1>2. (s.width > 1 => s.width \div 2 \in 1 .. MaxWidth)
  BY <1>1
<1>3. QED
  BY <1>1, <1>2, OneIsAWidth DEF Widths

(* Word of a batch: each of its paths is received, given up or ahead again.*)
LEMMA SettlingGood ==
    ASSUME NEW s \in Sessions, IsSyncing(s), NEW id \in BatchId, NEW ok \in SUBSET Path,
           NEW bad \in SUBSET Path, Whole(id, {}, ok, bad), NEW w \in 1 .. MaxWidth
    PROVE  LET again == {p \in bad : MayRetry(s, p)}
               after == Failed(Received([s EXCEPT !.pulls = @ \ {id}], ok), again, bad \ again)
               t == [after EXCEPT !.width = w]
           IN  /\ t \in Sessions
               /\ t.phase = s.phase /\ t.run = s.run /\ t.pulls = s.pulls \ {id}
               /\ t.serving = s.serving /\ t.jobs = s.jobs
<1> DEFINE again == {p \in bad : MayRetry(s, p)}
           gone == [s EXCEPT !.pulls = @ \ {id}]
           r == Received(gone, ok)
           after == Failed(r, again, bad \ again)
           t == [after EXCEPT !.width = w]
<1>1. s \in Session /\ s.run \in Run
  BY DEF Sessions
<1>2. gone \in Session
  BY <1>1 DEF Session
<1>3. r \in Session
  <2>1. [p \in Path |-> IF p \in ok THEN 0 ELSE gone.retries[p]] \in [Path -> 0 .. RetryLimit]
    BY <1>2, FullSyncAssumption DEF Session
  <2> HIDE DEF gone
  <2>2. QED
    BY <1>2, <2>1 DEF Session, Received
<1>4. /\ r.phase = s.phase /\ r.run = s.run /\ r.pending = s.pending \ ok /\ r.ahead = s.ahead
      /\ r.pulls = s.pulls \ {id} /\ r.serving = s.serving /\ r.jobs = s.jobs
      /\ \A p \in Path : r.retries[p] = IF p \in ok THEN 0 ELSE s.retries[p]
  BY <1>1 DEF Session, Received
<1>5. again \subseteq Path /\ \A p \in again : r.retries[p] + 1 \in 0 .. RetryLimit
  <2>1. ASSUME NEW p \in again
        PROVE  p \in Path /\ s.retries[p] \in 0 .. RetryLimit /\ s.retries[p] < RetryLimit
    BY <1>1 DEF Session, MayRetry
  <2> HIDE DEF again, r
  <2>2. QED
    BY <1>4, <2>1, FullSyncAssumption
<1> HIDE DEF r, again
<1>6. after \in Session
  <2>1. [p \in Path |-> IF p \in again THEN r.retries[p] + 1
                        ELSE IF p \in bad \ again THEN 0 ELSE r.retries[p]]
          \in [Path -> 0 .. RetryLimit]
    BY <1>3, <1>5, FullSyncAssumption DEF Session
  <2>2. QED
    BY <1>3, <1>5, <2>1 DEF Session, Failed
<1>7. /\ after.phase = s.phase /\ after.run = s.run
      /\ after.pending = (s.pending \ ok) \ (bad \ again)
      /\ after.ahead = s.ahead \cup again
      /\ after.pulls = s.pulls \ {id} /\ after.serving = s.serving /\ after.jobs = s.jobs
  BY <1>3, <1>4 DEF Session, Failed
<1> HIDE DEF after
<1>8. t \in Session
  BY <1>6 DEF Session
<1>9. /\ t.phase = s.phase /\ t.run = s.run
      /\ t.pending = (s.pending \ ok) \ (bad \ again)
      /\ t.ahead = s.ahead \cup again
      /\ t.pulls = s.pulls \ {id} /\ t.serving = s.serving /\ t.jobs = s.jobs
  BY <1>6, <1>7 DEF Session
<1> HIDE DEF t
<1>10. Carried(t)
  <2>1. SUFFICES ASSUME NEW p \in t.pending PROVE p \in t.ahead \cup InFlight(t)
    BY <1>9 DEF Carried, IsSyncing
  <2>2. p \in s.pending /\ p \in s.ahead \cup InFlight(s)
    BY <1>9, <2>1 DEF Sessions, Carried
  <2>3. CASE p \in PathsOf(id)
    BY <1>9, <2>1, <2>3 DEF Whole
  <2>4. CASE p \notin PathsOf(id)
    BY <1>9, <2>2, <2>4 DEF InFlight
  <2>5. QED
    BY <2>3, <2>4
<1>11. ServesWhole(t) /\ (IsSyncing(t) => t.run \in Run)
  BY <1>1, <1>9 DEF Sessions, ServesWhole
<1>12. t \in Sessions
  BY <1>8, <1>10, <1>11 DEF Sessions
<1>13. QED
  BY <1>9, <1>12 DEF t, after, r, gone, again

LEMMA ReceiveBatchCompleteKeeps ==
    ASSUME Good, NEW d \in Device, ReceiveBatchComplete(d)
    PROVE  Good'
<1> DEFINE s == sync[d]
           m == Head(net[d])
           again == {p \in m.bad : MayRetry(s, p)}
           after == Failed(Received([s EXCEPT !.pulls = @ \ {m.id}], m.ok), again, m.bad \ again)
           t(w) == [after EXCEPT !.width = w]
<1>1. /\ Arrives(d, "batch-complete")
      /\ IF s.phase # "TRANSFERRING" \/ m.id \notin s.pulls THEN Commit(d, Effect(s), TRUE)
         ELSE \E w \in Widths(s, m) : \E e \in RequestNextBatch(d, Effect(t(w))) : Commit(d, e, TRUE)
  BY DEF ReceiveBatchComplete
<1>2. net[d] # <<>> /\ m \in Messages /\ m \in Message /\ m.type = "batch-complete"
  BY <1>1, HeadGood
<1>3. m.id \in BatchId /\ m.ok \in SUBSET Path /\ m.bad \in SUBSET Path
  BY <1>2 DEF Message
<1>4. Whole(m.id, {}, m.ok, m.bad)
  BY <1>2 DEF Messages
<1>5. CASE s.phase # "TRANSFERRING" \/ m.id \notin s.pulls
  BY <1>1, <1>2, <1>5, SessionGood, CommitGood
<1>6. CASE ~(s.phase # "TRANSFERRING" \/ m.id \notin s.pulls)
  <2>1. PICK w \in Widths(s, m) : \E e \in RequestNextBatch(d, Effect(t(w))) : Commit(d, e, TRUE)
    BY <1>1, <1>6
  <2>2. s \in Sessions /\ s \in Session /\ IsSyncing(s)
    BY <1>6, SessionGood DEF IsSyncing
  <2>3. w \in 1 .. MaxWidth
    BY <2>2, WidthsFit
  <2>4. t(w) \in Sessions
    <3> HIDE DEF m
    <3>1. QED
      BY <1>3, <1>4, <2>2, <2>3, SettlingGood
  <2> HIDE DEF t
  <2>5. RequestNextBatch(d, Effect(t(w))) \subseteq Effects
    BY <2>4, EffectGood, RequestNextBatchGood
  <2>6. QED
    BY <1>2, <2>1, <2>5, CommitGood
<1>7. QED
  BY <1>5, <1>6

LEMMA NextHeard ==
    ASSUME NEW e \in Effects, NEW done, NEW A
    PROVE  [e EXCEPT !.s.peerDone = done, !.s.allowed = A]
             = [s |-> [e.s EXCEPT !.peerDone = done, !.allowed = A], out |-> e.out]
<1>1. [e EXCEPT !.s.peerDone = done, !.s.allowed = A]
        = [e EXCEPT !.s = [@ EXCEPT !.peerDone = done, !.allowed = A]]
  BY DEF Effects
<1>2. QED
  BY <1>1 DEF Effects

(* The peer will request nothing more.                                     *)
LEMMA Hearing ==
    ASSUME NEW e \in Effects
    PROVE  LET f == [e EXCEPT !.s.peerDone = TRUE, !.s.allowed = {}]
           IN  /\ f \in Effects /\ f.out = e.out
               /\ f.s.phase = e.s.phase /\ f.s.run = e.s.run /\ f.s.pulls = e.s.pulls
               /\ f.s.serving = e.s.serving /\ f.s.jobs = e.s.jobs
<1> DEFINE t == [e.s EXCEPT !.peerDone = TRUE, !.allowed = {}]
           f == [e EXCEPT !.s.peerDone = TRUE, !.s.allowed = {}]
<1>1. e.s \in Sessions /\ e.s \in Session
  BY DEF Effects, Sessions
<1>2. t \in Session
  BY <1>1 DEF Session
<1>3. /\ t.phase = e.s.phase /\ t.run = e.s.run /\ t.pending = e.s.pending
      /\ t.ahead = e.s.ahead /\ t.pulls = e.s.pulls /\ t.serving = e.s.serving
      /\ t.jobs = e.s.jobs
  BY <1>1 DEF Session
<1>4. f = [s |-> t, out |-> e.out]
  BY NextHeard
<1> HIDE DEF t, f
<1>5. t \in Sessions
  BY <1>1, <1>2, <1>3, SameWork
<1>6. f \in Effects /\ f.s = t /\ f.out = e.out
  BY <1>4, <1>5 DEF Effects
<1>7. QED
  BY <1>3, <1>6 DEF f

LEMMA ReceiveCompleteKeeps ==
    ASSUME Good, NEW d \in Device, ReceiveComplete(d)
    PROVE  Good'
<1> DEFINE s == sync[d]
           m == Head(net[d])
           ack == [type |-> "sync-ack", of |-> "full-sync-complete", run |-> m.run]
           acked == Sending(Effect(s), s, ack)
           heard == [acked EXCEPT !.s.peerDone = TRUE, !.s.allowed = {}]
<1>1. /\ Arrives(d, "full-sync-complete")
      /\ Commit(d, IF ~IsSyncing(s) THEN acked ELSE CheckCompletion(heard), TRUE)
  BY DEF ReceiveComplete
<1>2. net[d] # <<>> /\ m \in Message /\ m.type = "full-sync-complete"
  BY <1>1, HeadGood
<1>3. m.run \in Run \cup {0}
  BY <1>2 DEF Message
<1>4. ack \in Messages
  BY <1>3 DEF Messages, Message
<1>5. acked \in Effects /\ acked.s = s
  <2> HIDE DEF ack
  <2>1. QED
    BY <1>4, SessionGood, SendingGood DEF Sending
<1> HIDE DEF acked
<1>6. heard \in Effects
  BY <1>5, Hearing
<1> HIDE DEF heard
<1>7. CheckCompletion(heard) \in Effects
  BY <1>6, CheckCompletionGood
<1>8. QED
  BY <1>1, <1>2, <1>5, <1>7, CommitGood

LEMMA CompleteAcknowledgedKeeps ==
    ASSUME Good, NEW d \in Device, CompleteAcknowledged(d)
    PROVE  Good'
<1> DEFINE s == sync[d]
           run == Head(net[d]).run
           t == [s EXCEPT !.unacked = @ \ {run}, !.delivered = TRUE]
<1>1. /\ Arrives(d, "sync-ack")
      /\ Commit(d, IF run \notin s.unacked THEN Effect(s) ELSE CheckCompletion(Effect(t)), TRUE)
  BY DEF CompleteAcknowledged
<1>2. net[d] # <<>> /\ s \in Session /\ s \in Sessions /\ Effect(s) \in Effects
  BY <1>1, SessionGood DEF Arrives
<1>3. t \in Sessions
  <2>1. t \in Session
    BY <1>2 DEF Session
  <2>2. /\ t.phase = s.phase /\ t.run = s.run /\ t.pending = s.pending
        /\ t.ahead = s.ahead /\ t.pulls = s.pulls /\ t.serving = s.serving
    BY <1>2 DEF Session
  <2> HIDE DEF t
  <2>3. QED
    BY <1>2, <2>1, <2>2, SameWork
<1> HIDE DEF t
<1>4. CheckCompletion(Effect(t)) \in Effects
  BY <1>3, EffectGood, CheckCompletionGood
<1>5. QED
  BY <1>1, <1>2, <1>4, CommitGood

LEMMA ReceiveKeeps ==
    ASSUME Good, NEW d \in Device, Receive(d)
    PROVE  Good'
BY ReceiveRequestKeeps, PlanAcknowledgedKeeps, AbortKeeps, ReceivePlanKeeps,
   ReceiveBatchRequestKeeps, ReceiveBatchCompleteKeeps, ReceiveCompleteKeeps,
   CompleteAcknowledgedKeeps DEF Receive

LEMMA NextKeeps ==
    ASSUME IInv, [Next]_vars
    PROVE  IInv'
<1>1. Good
  BY DEF IInv, Good
<1>2. Good'
  <2>1. CASE UNCHANGED vars
    BY <1>1, <2>1 DEF vars, Good
  <2>2. CASE Next
    BY <1>1, <2>2, RequestFullSyncKeeps, SendPlanKeeps, DeletionsDoneKeeps, ReceiveKeeps,
       TaskDoneKeeps, AbortKeeps DEF Next
  <2>3. QED
    BY <2>1, <2>2
<1>3. runs' \in 0 .. MaxRuns /\ aborts' \in 0 .. MaxAborts
  <2>1. \/ UNCHANGED <<runs, aborts>>
        \/ runs < MaxRuns /\ runs' = runs + 1 /\ UNCHANGED aborts
        \/ aborts < MaxAborts /\ aborts' = aborts + 1 /\ UNCHANGED runs
    <3>1. ASSUME NEW d \in Device, Receive(d) PROVE UNCHANGED <<runs, aborts>>
      BY <3>1 DEF Receive, ReceiveRequest, PlanAcknowledged, ReceiveBusy, ReceivePlan,
         ReceiveBatchRequest, ReceiveBatchComplete, ReceiveComplete, CompleteAcknowledged
    <3>2. ASSUME NEW d \in Device, SendPlan(d) \/ DeletionsDone(d) \/ TaskDone(d)
          PROVE  UNCHANGED <<runs, aborts>>
      BY <3>2 DEF SendPlan, DeletionsDone, TaskDone
    <3>3. ASSUME NEW d \in Device, RequestFullSync(d)
          PROVE  runs < MaxRuns /\ runs' = runs + 1 /\ UNCHANGED aborts
      BY <3>3 DEF RequestFullSync
    <3>4. ASSUME NEW d \in Device, Abort(d)
          PROVE  aborts < MaxAborts /\ aborts' = aborts + 1 /\ UNCHANGED runs
      BY <3>4 DEF Abort
    <3>5. CASE UNCHANGED vars
      BY <3>5 DEF vars
    <3>6. QED
      BY <3>1, <3>2, <3>3, <3>4, <3>5 DEF Next
  <2>2. QED
    BY <2>1, FullSyncAssumption DEF IInv
<1>4. QED
  BY <1>2, <1>3 DEF IInv, Good

LEMMA InvHolds == Spec => []IInv
<1>1. IInv /\ [Next]_vars => IInv'
  BY NextKeeps
<1>2. QED
  BY InitHolds, <1>1, PTL DEF Spec

(* Every session and message is well typed; in particular a pull is asked  *)
(* for again at most RetryLimit times and the width stays in its limits.   *)
THEOREM TypeCorrect == Spec => []TypeOK
BY InvHolds, InvGivesTypes, PTL

(* No pull of a running sync is forgotten: while it is pending it is ahead *)
(* of the cursor or in a batch that was asked for and not yet answered.    *)
THEOREM NoPullIsForgotten == Spec => []NoPullForgotten
BY InvHolds, InvGivesCarried, PTL
-----------------------------------------------------------------------------
(* Every batch served has its tasks.  A batch is named once, by whichever  *)
(* asks for it, serves it or tells of its end; so a batch that comes in is *)
(* never one already served, and its tasks are all its own.                *)

(* The messages that name a batch, or a sync to be started, and what they  *)
(* name.                                                                   *)
Marked(m) == m.type \in {"request-batch", "batch-complete", "request-full-sync"}
Asked(id) == <<"request-batch", id>>
Told(id) == <<"batch-complete", id>>
Start(r) == <<"request-full-sync", r>>
Mark(m) == <<m.type, IF m.type = "request-full-sync" THEN m.run ELSE m.id>>

(* The sequence q of messages has one of this mark; none has two.          *)
Has(q, mark) == \E k \in DOMAIN q : Marked(q[k]) /\ Mark(q[k]) = mark
Once(q) == \A k, l \in DOMAIN q : Marked(q[k]) /\ Marked(q[l]) /\ Mark(q[k]) = Mark(q[l]) => k = l

LEMMA MarksDiffer ==
    /\ \A x, y : Asked(x) = Asked(y) => x = y
    /\ \A x, y : Told(x) = Told(y) => x = y
    /\ \A x, y : Start(x) = Start(y) => x = y
    /\ \A x, y : Asked(x) # Told(y) /\ Asked(x) # Start(y) /\ Told(x) # Start(y)
BY DEF Asked, Told, Start

LEMMA TailMarks ==
    ASSUME NEW S, NEW q \in Seq(S), q # <<>>
    PROVE  /\ \A mark : Has(Tail(q), mark) => Has(q, mark)
           /\ Marked(Head(q)) => Has(q, Mark(Head(q)))
           /\ Once(q) => Once(Tail(q))
           /\ Once(q) /\ Marked(Head(q)) => ~Has(Tail(q), Mark(Head(q)))
<1>1. Len(q) \in Nat \ {0} /\ DOMAIN q = 1 .. Len(q) /\ Head(q) = q[1]
  BY EmptySeq, LenProperties
<1>2. Tail(q) \in Seq(S) /\ Len(Tail(q)) = Len(q) - 1 /\ \A i \in 1 .. Len(Tail(q)) : Tail(q)[i] = q[i + 1]
  BY HeadTailProperties
<1>3. DOMAIN Tail(q) = 1 .. Len(q) - 1
  BY <1>2, LenProperties
<1>4. \A k \in DOMAIN Tail(q) : k + 1 \in DOMAIN q /\ k + 1 # 1 /\ Tail(q)[k] = q[k + 1] /\ k \in Nat
  BY <1>1, <1>2, <1>3
<1>5. 1 \in DOMAIN q
  BY <1>1
<1>6. \A mark : Has(Tail(q), mark) => Has(q, mark)
  BY <1>4 DEF Has
<1>7. Marked(Head(q)) => Has(q, Mark(Head(q)))
  BY <1>1, <1>5 DEF Has
<1>8. ASSUME Once(q) PROVE Once(Tail(q))
  <2>1. SUFFICES ASSUME NEW k \in DOMAIN Tail(q), NEW l \in DOMAIN Tail(q),
                        Marked(Tail(q)[k]), Marked(Tail(q)[l]), Mark(Tail(q)[k]) = Mark(Tail(q)[l])
                 PROVE  k = l
    BY DEF Once
  <2>2. k + 1 = l + 1
    BY <1>4, <1>8, <2>1 DEF Once
  <2>3. QED
    BY <1>4, <2>2
<1>9. ASSUME Once(q), Marked(Head(q)), Has(Tail(q), Mark(Head(q))) PROVE FALSE
  <2>1. PICK k \in DOMAIN Tail(q) : Marked(Tail(q)[k]) /\ Mark(Tail(q)[k]) = Mark(Head(q))
    BY <1>9 DEF Has
  <2>2. k + 1 = 1
    BY <1>1, <1>4, <1>5, <1>9, <2>1 DEF Once
  <2>3. QED
    BY <1>4, <2>2
<1>10. QED
  BY <1>6, <1>7, <1>8, <1>9

LEMMA JoinedMarks ==
    ASSUME NEW S, NEW q \in Seq(S), NEW r \in Seq(S)
    PROVE  /\ \A mark : Has(q \o r, mark) <=> Has(q, mark) \/ Has(r, mark)
           /\ Once(q) /\ Once(r) /\ (\A mark : ~(Has(q, mark) /\ Has(r, mark))) => Once(q \o r)
<1>1. /\ Len(q) \in Nat /\ DOMAIN q = 1 .. Len(q) /\ Len(r) \in Nat /\ DOMAIN r = 1 .. Len(r)
      /\ q \o r \in Seq(S) /\ Len(q \o r) = Len(q) + Len(r)
      /\ \A i \in 1 .. Len(q) + Len(r) : (q \o r)[i] = IF i <= Len(q) THEN q[i] ELSE r[i - Len(q)]
  BY LenProperties, ConcatProperties
<1>2. DOMAIN (q \o r) = 1 .. Len(q) + Len(r)
  BY <1>1, LenProperties
<1>3. \A k \in DOMAIN q : k \in DOMAIN (q \o r) /\ (q \o r)[k] = q[k]
  BY <1>1, <1>2
<1>4. \A k \in DOMAIN r : k + Len(q) \in DOMAIN (q \o r) /\ (q \o r)[k + Len(q)] = r[k]
  BY <1>1, <1>2
<1>5. \A k \in DOMAIN (q \o r) : \/ k \in DOMAIN q /\ (q \o r)[k] = q[k]
                                 \/ k - Len(q) \in DOMAIN r /\ (q \o r)[k] = r[k - Len(q)]
  BY <1>1, <1>2
<1>6. \A k \in DOMAIN (q \o r) : k \in Nat
  BY <1>1, <1>2
<1> DEFINE qr == q \o r
<1> HIDE DEF qr
<1>7. ASSUME NEW mark PROVE Has(qr, mark) <=> Has(q, mark) \/ Has(r, mark)
  <2>1. Has(qr, mark) => Has(q, mark) \/ Has(r, mark)
    <3>1. ASSUME NEW k \in DOMAIN qr, Marked(qr[k]), Mark(qr[k]) = mark PROVE Has(q, mark) \/ Has(r, mark)
      BY <1>5, <3>1 DEF Has, qr
    <3>2. QED
      BY <3>1 DEF Has
  <2>2. Has(q, mark) => Has(qr, mark)
    BY <1>3 DEF Has, qr
  <2>3. Has(r, mark) => Has(qr, mark)
    <3>1. ASSUME NEW k \in DOMAIN r, Marked(r[k]), Mark(r[k]) = mark PROVE Has(qr, mark)
      <4>1. k + Len(q) \in DOMAIN qr /\ qr[k + Len(q)] = r[k]
        BY <1>4 DEF qr
      <4>2. QED
        BY <3>1, <4>1 DEF Has
    <3>2. QED
      BY <3>1 DEF Has
  <2>4. QED
    BY <2>1, <2>2, <2>3
<1>8. ASSUME Once(q), Once(r), \A mark : ~(Has(q, mark) /\ Has(r, mark)) PROVE Once(qr)
  <2>1. SUFFICES ASSUME NEW k \in DOMAIN qr, NEW l \in DOMAIN qr,
                        Marked(qr[k]), Marked(qr[l]), Mark(qr[k]) = Mark(qr[l])
                 PROVE  k = l
    BY DEF Once
  <2>2. \/ k \in DOMAIN q /\ qr[k] = q[k]
        \/ k - Len(q) \in DOMAIN r /\ qr[k] = r[k - Len(q)]
    BY <1>5 DEF qr
  <2>3. \/ l \in DOMAIN q /\ qr[l] = q[l]
        \/ l - Len(q) \in DOMAIN r /\ qr[l] = r[l - Len(q)]
    BY <1>5 DEF qr
  <2>4. CASE k \in DOMAIN q /\ qr[k] = q[k] /\ l \in DOMAIN q /\ qr[l] = q[l]
    BY <1>8, <2>1, <2>4 DEF Once
  <2>5. CASE k - Len(q) \in DOMAIN r /\ qr[k] = r[k - Len(q)] /\ l - Len(q) \in DOMAIN r /\ qr[l] = r[l - Len(q)]
    <3>1. k - Len(q) = l - Len(q)
      BY <1>8, <2>1, <2>5 DEF Once
    <3>2. k \in Nat /\ l \in Nat
      BY <1>6 DEF qr
    <3>3. QED
      BY <1>1, <3>1, <3>2
  <2>6. CASE k \in DOMAIN q /\ qr[k] = q[k] /\ l - Len(q) \in DOMAIN r /\ qr[l] = r[l - Len(q)]
    BY <1>8, <2>1, <2>6 DEF Has
  <2>7. CASE k - Len(q) \in DOMAIN r /\ qr[k] = r[k - Len(q)] /\ l \in DOMAIN q /\ qr[l] = q[l]
    BY <1>8, <2>1, <2>7 DEF Has
  <2>8. QED
    BY <2>2, <2>3, <2>4, <2>5, <2>6, <2>7
<1>9. QED
  BY <1>7, <1>8 DEF qr

LEMMA AppendedMarks ==
    ASSUME NEW S, NEW q \in Seq(S), NEW m \in S
    PROVE  /\ \A mark : Has(Append(q, m), mark) <=> Has(q, mark) \/ (Marked(m) /\ mark = Mark(m))
           /\ Once(q) /\ (Marked(m) => ~Has(q, Mark(m))) => Once(Append(q, m))
<1>1. Append(q, m) = q \o <<m>> /\ <<m>> \in Seq(S)
  OBVIOUS
<1>2. DOMAIN <<m>> = {1} /\ <<m>>[1] = m
  OBVIOUS
<1> DEFINE r == <<m>>
<1>3. DOMAIN r = {1} /\ r[1] = m
  BY <1>2
<1> HIDE DEF r
<1>4. Once(r)
  BY <1>3 DEF Once
<1>5. \A mark : Has(r, mark) <=> Marked(m) /\ mark = Mark(m)
  BY <1>3 DEF Has
<1>6. Append(q, m) = q \o r /\ r \in Seq(S)
  BY <1>1 DEF r
<1>7. /\ \A mark : Has(q \o r, mark) <=> Has(q, mark) \/ Has(r, mark)
      /\ Once(q) /\ Once(r) /\ (\A mark : ~(Has(q, mark) /\ Has(r, mark))) => Once(q \o r)
  BY <1>6, JoinedMarks
<1>8. \A mark : Has(q \o r, mark) <=> Has(q, mark) \/ (Marked(m) /\ mark = Mark(m))
  BY <1>5, <1>7
<1>9. Once(q) /\ (Marked(m) => ~Has(q, Mark(m))) => Once(q \o r)
  BY <1>4, <1>5, <1>7
<1>10. QED
  BY <1>6, <1>8, <1>9

Served(s) == {b.id : b \in s.serving}

(* The puller of a batch that is still asked for, served or told of knows  *)
(* it, if it is of the puller's sync, and no such sync is yet to begin.    *)
Known(id) ==
    /\ id.run <= runs
    /\ id.run = sync[id.by].run => id \in sync[id.by].pulls
    /\ ~Has(net[id.by], Start(id.run))

(* A batch is asked for, served or told of, never two of these at once.    *)
Tokens ==
    \A d \in Device :
        /\ Once(net[d])
        /\ sync[d].run <= runs
        /\ \A r \in Run : Has(net[d], Start(r)) => r <= runs /\ sync[d].run # r
        /\ \A id \in BatchId :
              /\ Has(net[d], Asked(id)) =>
                    /\ id.by = Peer(d) /\ Known(id)
                    /\ id \notin Served(sync[d]) /\ ~Has(net[Peer(d)], Told(id))
              /\ id \in Served(sync[d]) =>
                    id.by = Peer(d) /\ Known(id) /\ ~Has(net[Peer(d)], Told(id))
              /\ Has(net[d], Told(id)) => id.by = d /\ Known(id)

LEMMA MarksOf ==
    ASSUME NEW q \in Seq(Messages), NEW mark, Has(q, mark)
    PROVE  \/ \E id \in BatchId : mark = Asked(id) \/ mark = Told(id)
           \/ \E r \in Run : mark = Start(r)
<1>1. PICK k \in DOMAIN q : Marked(q[k]) /\ Mark(q[k]) = mark
  BY DEF Has
<1>2. q[k] \in Message
  BY ElementOfSeq, LenProperties DEF Messages
<1>3. CASE q[k].type = "request-full-sync"
  <2>1. q[k].run \in Run
    BY <1>2, <1>3 DEF Message
  <2>2. QED
    BY <1>1, <1>3, <2>1 DEF Mark, Start
<1>4. CASE q[k].type \in {"request-batch", "batch-complete"}
  <2>1. q[k].id \in BatchId
    BY <1>2, <1>4 DEF Message
  <2>2. QED
    BY <1>1, <1>4, <2>1 DEF Mark, Asked, Told
<1>5. QED
  BY <1>1, <1>3, <1>4 DEF Marked

(* What a step of d may do to the batches, given the mark it took off the  *)
(* link: it asks for batches of its sync it does not know yet, serves what *)
(* it was asked, tells of what it served, and forgets none but the one it  *)
(* was told of.                                                            *)
Tidy(s, d, e, in) ==
    /\ Once(e.out)
    /\ \A id \in BatchId :
          /\ Has(e.out, Asked(id)) =>
                /\ id.by = d /\ id.run = s.run
                /\ e.s.run = s.run => id \in e.s.pulls
                /\ id \in s.pulls => in = Told(id)
          /\ Has(e.out, Told(id)) =>
                id \notin Served(e.s) /\ (id \in Served(s) \/ in = Asked(id))
          /\ id \in Served(e.s) => id \in Served(s) \/ in = Asked(id)
          /\ e.s.run = s.run /\ id \in s.pulls => id \in e.s.pulls \/ in = Told(id)

Incoming(d, took) == IF took /\ Marked(Head(net[d])) THEN Mark(Head(net[d])) ELSE <<>>

LEMMA TwoDevices ==
    \A d \in Device : Peer(Peer(d)) = d /\ \A x \in Device : x = d \/ x = Peer(d)
<1>1. SUFFICES ASSUME NEW d \in Device PROVE Peer(Peer(d)) = d /\ \A x \in Device : x = d \/ x = Peer(d)
  OBVIOUS
<1>2. PICK a, b \in Device : a # b /\ Device = {a, b}
  BY FullSyncAssumption
<1>3. Peer(d) \in Device /\ Peer(d) # d /\ Peer(Peer(d)) \in Device /\ Peer(Peer(d)) # Peer(d)
  BY PeerIs
<1>4. QED
  BY <1>2, <1>3

LEMMA NoMarkIsEmpty == \A q, mark : Has(q, mark) => mark # <<>>
<1>1. \A m : Mark(m) # <<>>
  BY DEF Mark
<1>2. QED
  BY <1>1 DEF Has

LEMMA TokensKept ==
    ASSUME IInv, Tokens, NEW d \in Device, NEW e \in Effects, NEW took \in BOOLEAN,
           took => net[d] # <<>>, Commit(d, e, took),
           runs' \in Nat, runs <= runs',
           NEW in, in = Incoming(d, took),
           Tidy(sync[d], d, e, in),
           \/ e.s.run \in {0, sync[d].run}
           \/ in = Start(e.s.run) /\ e.s.run \in Run
           \/ e.s.run > runs /\ e.s.run <= runs',
           \A r \in Run : Has(e.out, Start(r)) => r > runs /\ r <= runs'
    PROVE  Tokens'
<1> DEFINE p == Peer(d)
           s == sync[d]
           q == IF took THEN Tail(net[d]) ELSE net[d]
<1>1. /\ p \in Device /\ p # d /\ Peer(p) = d /\ \A x \in Device : x = d \/ x = p
  BY PeerIs, TwoDevices
<1>2. net[d] \in Seq(Messages) /\ net[p] \in Seq(Messages) /\ e.out \in Seq(Messages)
  BY <1>1 DEF IInv, Effects
<1>3. runs \in Nat /\ s \in Session /\ sync[p] \in Session /\ s.run \in Run \cup {0} /\ sync[p].run \in Run \cup {0}
      /\ e.s.run \in Run \cup {0} /\ \A r \in Run : r \in Nat /\ r # 0
  <2>1. s \in Session /\ sync[p] \in Session /\ e.s \in Session
    BY <1>1 DEF IInv, Sessions, Effects
  <2>2. runs \in Nat /\ \A r \in Run : r \in Nat /\ r # 0
    BY FullSyncAssumption DEF IInv, Run
  <2>3. QED
    BY <2>1, <2>2 DEF Session
<1>4. /\ sync'[d] = e.s /\ sync'[p] = sync[p]
      /\ net'[d] = q /\ net'[p] = net[p] \o e.out
  BY <1>1 DEF Commit, IInv
<1>5. \A id \in BatchId : id.by \in Device /\ id.run \in Run
  BY DEF BatchId
<1>6. \A x \in Device :
        /\ Once(net[x])
        /\ sync[x].run <= runs
        /\ \A r \in Run : Has(net[x], Start(r)) => r <= runs /\ sync[x].run # r
        /\ \A id \in BatchId :
              /\ Has(net[x], Asked(id)) =>
                    /\ id.by = Peer(x) /\ Known(id)
                    /\ id \notin Served(sync[x]) /\ ~Has(net[Peer(x)], Told(id))
              /\ id \in Served(sync[x]) =>
                    id.by = Peer(x) /\ Known(id) /\ ~Has(net[Peer(x)], Told(id))
              /\ Has(net[x], Told(id)) => id.by = x /\ Known(id)
  BY DEF Tokens
<1>7. /\ Once(e.out)
      /\ \A id \in BatchId :
            /\ Has(e.out, Asked(id)) =>
                  /\ id.by = d /\ id.run = s.run
                  /\ e.s.run = s.run => id \in e.s.pulls
                  /\ id \in s.pulls => in = Told(id)
            /\ Has(e.out, Told(id)) =>
                  id \notin Served(e.s) /\ (id \in Served(s) \/ in = Asked(id))
            /\ id \in Served(e.s) => id \in Served(s) \/ in = Asked(id)
            /\ e.s.run = s.run /\ id \in s.pulls => id \in e.s.pulls \/ in = Told(id)
  BY DEF Tidy
<1>8. /\ Once(q) /\ q \in Seq(Messages)
      /\ \A mark : Has(q, mark) => Has(net[d], mark)
      /\ \A mark : Has(q, mark) /\ in = mark => FALSE
      /\ \/ in = <<>> \/ Has(net[d], in)
  <2>1. Once(net[d])
    BY <1>6
  <2>2. CASE took
    <3>1. net[d] # <<>>
      BY <2>2
    <3>2. /\ \A mark : Has(Tail(net[d]), mark) => Has(net[d], mark)
          /\ Marked(Head(net[d])) => Has(net[d], Mark(Head(net[d])))
          /\ Once(Tail(net[d]))
          /\ Marked(Head(net[d])) => ~Has(Tail(net[d]), Mark(Head(net[d])))
      BY <1>2, <2>1, <3>1, TailMarks
    <3>3. Tail(net[d]) \in Seq(Messages) /\ q = Tail(net[d])
      BY <1>2, <2>2, <3>1
    <3>4. in = IF Marked(Head(net[d])) THEN Mark(Head(net[d])) ELSE <<>>
      BY <2>2 DEF Incoming
    <3> HIDE DEF q
    <3>5. QED
      BY <3>2, <3>3, <3>4, NoMarkIsEmpty
  <2>3. CASE ~took
    <3>1. in = <<>> /\ q = net[d]
      BY <2>3 DEF Incoming
    <3>2. QED
      BY <1>2, <2>1, <3>1, NoMarkIsEmpty
  <2>4. QED
    BY <2>2, <2>3
<1>9. \A mark : Has(net'[p], mark) <=> Has(net[p], mark) \/ Has(e.out, mark)
  BY <1>2, <1>4, JoinedMarks
<1>10. \A id : Asked(id) # <<>> /\ Told(id) # <<>> /\ Start(id) # <<>>
  BY DEF Asked, Told, Start
<1> HIDE DEF q, p, s
<1>11. \A id \in BatchId : /\ in = Asked(id) => Has(net[d], Asked(id))
                           /\ in = Told(id) => Has(net[d], Told(id))
                           /\ in = Start(id.run) => Has(net[d], Start(id.run))
  BY <1>8, <1>10
<1>12. ASSUME NEW id \in BatchId, Known(id), id.by = d => in # Told(id)
       PROVE  Known(id)'
  <2>1. id.by \in Device /\ id.run \in Run /\ id.run \in Nat
        /\ id.run <= runs /\ ~Has(net[id.by], Start(id.run))
        /\ (id.run = sync[id.by].run => id \in sync[id.by].pulls)
    BY <1>3, <1>5, <1>12 DEF Known
  <2>2. id.run <= runs'
    BY <1>3, <2>1
  <2>3. CASE id.by = d
    <3>1. ~Has(net'[d], Start(id.run))
      BY <1>4, <1>8, <2>1, <2>3
    <3>2. ASSUME id.run = e.s.run PROVE id \in e.s.pulls
      <4>1. ~(in = Start(e.s.run))
        BY <1>11, <2>1, <2>3, <3>2
      <4>2. ~(e.s.run > runs)
        BY <1>3, <2>1, <3>2
      <4>3. e.s.run = s.run
        BY <1>3, <2>1, <3>2, <4>1, <4>2 DEF s
      <4>4. id \in s.pulls
        BY <2>1, <2>3, <3>2, <4>3 DEF s
      <4>5. QED
        BY <1>7, <1>12, <2>3, <4>3, <4>4
    <3>3. QED
      BY <1>4, <2>2, <2>3, <3>1, <3>2 DEF Known
  <2>4. CASE id.by = p
    <3>1. ~Has(e.out, Start(id.run))
      BY <1>3, <2>1
    <3>2. ~Has(net'[p], Start(id.run))
      BY <1>9, <2>1, <2>4, <3>1
    <3>3. QED
      BY <1>4, <2>1, <2>2, <2>4, <3>2 DEF Known
  <2>5. QED
    BY <1>1, <2>1, <2>3, <2>4
<1>13. ASSUME NEW id \in BatchId, Has(e.out, Asked(id))
       PROVE  /\ id.by = d /\ Known(id)' /\ id \notin Served(sync[p])
              /\ ~Has(net[p], Asked(id)) /\ ~Has(q, Told(id))
  <2>1. id.by = d /\ id.run = s.run /\ (e.s.run = s.run => id \in e.s.pulls) /\ (id \in s.pulls => in = Told(id))
    BY <1>7, <1>13
  <2>2. Known(id) => in = Told(id)
    BY <2>1 DEF Known, s
  <2>3. id \notin Served(sync[p])
    BY <1>1, <1>6, <1>11, <2>2
  <2>4. ~Has(net[p], Asked(id))
    BY <1>1, <1>6, <1>11, <2>2
  <2>5. ~Has(q, Told(id))
    BY <1>6, <1>8, <2>2
  <2>6. Known(id)'
    <3>1. id.run \in Run /\ id.run <= runs'
      BY <1>3, <1>5, <1>6, <2>1 DEF s
    <3>2. ~Has(net'[d], Start(id.run))
      BY <1>4, <1>6, <1>8, <2>1, <3>1 DEF s
    <3>3. QED
      BY <1>4, <2>1, <3>1, <3>2 DEF Known
  <2>7. QED
    BY <2>1, <2>3, <2>4, <2>5, <2>6
<1>14. ASSUME NEW id \in BatchId, Has(e.out, Told(id))
       PROVE  id.by = p /\ Known(id)' /\ ~Has(net[p], Told(id)) /\ ~Has(q, Asked(id)) /\ id \notin Served(e.s)
  <2>1. id \notin Served(e.s) /\ (id \in Served(s) \/ in = Asked(id))
    BY <1>7, <1>14
  <2>2. id \in Served(s) \/ Has(net[d], Asked(id))
    BY <1>11, <2>1
  <2>3. id.by = p /\ Known(id) /\ ~Has(net[p], Told(id))
    BY <1>6, <2>2 DEF s, p
  <2>4. ~Has(q, Asked(id))
    BY <1>6, <1>8, <2>1 DEF s
  <2>5. QED
    BY <1>1, <1>12, <2>1, <2>3, <2>4
<1>15. Once(net'[p])
  <2>1. ASSUME NEW mark, Has(net[p], mark), Has(e.out, mark) PROVE FALSE
    <3>1. CASE \E id \in BatchId : mark = Asked(id) \/ mark = Told(id)
      BY <1>13, <1>14, <2>1, <3>1
    <3>2. CASE \E r \in Run : mark = Start(r)
      <4>1. PICK r \in Run : mark = Start(r)
        BY <3>2
      <4>2. r <= runs /\ r > runs
        BY <1>1, <1>6, <2>1, <4>1
      <4>3. QED
        BY <1>3, <4>2
    <3>3. QED
      BY <1>2, <2>1, <3>1, <3>2, MarksOf
  <2>2. Once(net[p])
    BY <1>1, <1>6
  <2>3. QED
    BY <1>2, <1>4, <1>7, <2>1, <2>2, JoinedMarks
<1>16. /\ Once(net'[d]) /\ sync'[d].run <= runs'
       /\ \A r \in Run : Has(net'[d], Start(r)) => r <= runs' /\ sync'[d].run # r
  <2>1. sync'[d].run <= runs'
    <3>1. s.run <= runs
      BY <1>6 DEF s
    <3>2. CASE in = Start(e.s.run) /\ e.s.run \in Run
      <4>1. Has(net[d], Start(e.s.run))
        BY <1>8, <1>10, <3>2
      <4>2. QED
        BY <1>3, <1>4, <1>6, <3>2, <4>1
    <3>3. QED
      BY <1>3, <1>4, <3>1, <3>2 DEF s
  <2>2. ASSUME NEW r \in Run, Has(q, Start(r)) PROVE r <= runs' /\ e.s.run # r
    <3>1. Has(net[d], Start(r)) /\ in # Start(r)
      BY <1>8, <2>2
    <3>2. r <= runs /\ s.run # r
      BY <1>6, <3>1 DEF s
    <3>3. QED
      BY <1>3, <3>1, <3>2 DEF s
  <2>3. QED
    BY <1>4, <1>8, <2>1, <2>2
<1>17. /\ sync'[p].run <= runs'
       /\ \A r \in Run : Has(net'[p], Start(r)) => r <= runs' /\ sync'[p].run # r
  <2>1. sync[p].run <= runs
    BY <1>1, <1>6
  <2>2. ASSUME NEW r \in Run, Has(net'[p], Start(r)) PROVE r <= runs' /\ sync[p].run # r
    <3>1. CASE Has(net[p], Start(r))
      <4>1. r <= runs /\ sync[p].run # r
        BY <1>1, <1>6, <3>1
      <4>2. QED
        BY <1>3, <4>1
    <3>2. CASE Has(e.out, Start(r))
      BY <1>3, <2>1, <3>2
    <3>3. QED
      BY <1>9, <2>2, <3>1, <3>2
  <2>3. QED
    BY <1>3, <1>4, <2>1, <2>2
<1>18. ASSUME NEW id \in BatchId
       PROVE  /\ Has(net'[d], Asked(id)) =>
                    /\ id.by = p /\ Known(id)'
                    /\ id \notin Served(sync'[d]) /\ ~Has(net'[p], Told(id))
              /\ id \in Served(sync'[d]) =>
                    id.by = p /\ Known(id)' /\ ~Has(net'[p], Told(id))
              /\ Has(net'[d], Told(id)) => id.by = d /\ Known(id)'
  <2>1. ASSUME Has(q, Asked(id))
        PROVE  id.by = p /\ Known(id)' /\ id \notin Served(e.s) /\ ~Has(net'[p], Told(id))
    <3>1. Has(net[d], Asked(id)) /\ in # Asked(id)
      BY <1>8, <2>1
    <3>2. id.by = p /\ Known(id) /\ id \notin Served(s) /\ ~Has(net[p], Told(id))
      BY <1>6, <3>1 DEF s, p
    <3>3. id \notin Served(e.s) /\ ~Has(e.out, Told(id))
      BY <1>7, <3>1, <3>2
    <3>4. QED
      BY <1>1, <1>9, <1>12, <3>2, <3>3
  <2>2. ASSUME id \in Served(e.s)
        PROVE  id.by = p /\ Known(id)' /\ ~Has(net'[p], Told(id))
    <3>1. id \in Served(s) \/ Has(net[d], Asked(id))
      BY <1>7, <1>11, <2>2
    <3>2. id.by = p /\ Known(id) /\ ~Has(net[p], Told(id))
      BY <1>6, <3>1 DEF s, p
    <3>3. ~Has(e.out, Told(id))
      BY <1>7, <2>2
    <3>4. QED
      BY <1>1, <1>9, <1>12, <3>2, <3>3
  <2>3. ASSUME Has(q, Told(id))
        PROVE  id.by = d /\ Known(id)'
    <3>1. Has(net[d], Told(id)) /\ in # Told(id)
      BY <1>8, <2>3
    <3>2. id.by = d /\ Known(id)
      BY <1>6, <3>1
    <3>3. QED
      BY <1>12, <3>1, <3>2
  <2>4. QED
    BY <1>4, <2>1, <2>2, <2>3
<1>19. ASSUME NEW id \in BatchId
       PROVE  /\ Has(net'[p], Asked(id)) =>
                    /\ id.by = d /\ Known(id)'
                    /\ id \notin Served(sync'[p]) /\ ~Has(net'[d], Told(id))
              /\ id \in Served(sync'[p]) =>
                    id.by = d /\ Known(id)' /\ ~Has(net'[d], Told(id))
              /\ Has(net'[p], Told(id)) => id.by = p /\ Known(id)'
  <2>1. ASSUME Has(net[p], Asked(id))
        PROVE  id.by = d /\ Known(id)' /\ id \notin Served(sync[p]) /\ ~Has(q, Told(id))
    <3>1. id.by = d /\ Known(id) /\ id \notin Served(sync[p]) /\ ~Has(net[d], Told(id))
      BY <1>1, <1>6, <2>1
    <3>2. in # Told(id) /\ ~Has(q, Told(id))
      BY <1>8, <1>11, <3>1
    <3>3. QED
      BY <1>12, <3>1, <3>2
  <2>2. ASSUME id \in Served(sync[p])
        PROVE  id.by = d /\ Known(id)' /\ ~Has(q, Told(id))
    <3>1. id.by = d /\ Known(id) /\ ~Has(net[d], Told(id))
      BY <1>1, <1>6, <2>2
    <3>2. in # Told(id) /\ ~Has(q, Told(id))
      BY <1>8, <1>11, <3>1
    <3>3. QED
      BY <1>12, <3>1, <3>2
  <2>3. ASSUME Has(net[p], Told(id))
        PROVE  id.by = p /\ Known(id)'
    <3>1. id.by = p /\ Known(id)
      BY <1>1, <1>6, <2>3
    <3>2. QED
      BY <1>1, <1>12, <3>1
  <2>4. QED
    BY <1>4, <1>9, <1>13, <1>14, <2>1, <2>2, <2>3
<1>20. QED
  <2>1. SUFFICES ASSUME NEW x \in Device
                 PROVE  /\ Once(net'[x])
                        /\ sync'[x].run <= runs'
                        /\ \A r \in Run : Has(net'[x], Start(r)) => r <= runs' /\ sync'[x].run # r
                        /\ \A id \in BatchId :
                              /\ Has(net'[x], Asked(id)) =>
                                    /\ id.by = Peer(x) /\ Known(id)'
                                    /\ id \notin Served(sync'[x]) /\ ~Has(net'[Peer(x)], Told(id))
                              /\ id \in Served(sync'[x]) =>
                                    id.by = Peer(x) /\ Known(id)' /\ ~Has(net'[Peer(x)], Told(id))
                              /\ Has(net'[x], Told(id)) => id.by = x /\ Known(id)'
    BY DEF Tokens
  <2>2. CASE x = d
    BY <1>16, <1>18, <2>2 DEF p
  <2>3. CASE x = p
    BY <1>1, <1>15, <1>17, <1>19, <2>3
  <2>4. QED
    BY <1>1, <2>2, <2>3

(* The tasks in the queue are of batches served, and no two of a batch     *)
(* have a path in common; no batch is served outside a sync.               *)
TasksFor(s, id) == UNION {j.paths : j \in {k \in s.jobs : k.id = id}}

Sound(s) ==
    /\ \A b, c \in s.serving : b.id = c.id => b = c
    /\ \A j \in s.jobs : j.paths # {} /\ j.id \in Served(s)
    /\ \A j, k \in s.jobs : j.id = k.id /\ j # k => j.paths \cap k.paths = {}
    /\ ~IsSyncing(s) => s.serving = {}

Works(s) == Sound(s) /\ \A b \in s.serving : b.left = TasksFor(s, b.id)

(* Of batch id, only `paths` have no task any more.                        *)
Owes(s, id, paths) ==
    /\ Sound(s)
    /\ \A b \in s.serving : (IF b.id = id THEN b.left \ paths ELSE b.left) = TasksFor(s, b.id)

LEMMA WorksSame ==
    ASSUME NEW s, NEW t, t.serving = s.serving, t.jobs = s.jobs, IsSyncing(s) => IsSyncing(t),
           Works(s)
    PROVE  Works(t) /\ Served(t) = Served(s)
<1>1. Served(t) = Served(s) /\ \A id : TasksFor(t, id) = TasksFor(s, id)
  BY DEF Served, TasksFor
<1>2. Sound(t)
  BY <1>1 DEF Works, Sound
<1>3. QED
  BY <1>1, <1>2 DEF Works

(* A session with no batch to serve has no task left of any.               *)
LEMMA Workless ==
    ASSUME NEW t, t.serving = {}, t.jobs = {}
    PROVE  Works(t) /\ Served(t) = {}
BY DEF Works, Sound, Served

LEMMA NoTaskWithoutBatch ==
    ASSUME NEW s, Sound(s), s.serving = {}
    PROVE  s.jobs = {}
BY DEF Sound, Served

(* What a step of d that starts no sync makes of session s.                *)
Proper(d, s, e, in) ==
    /\ e \in Effects
    /\ Works(e.s)
    /\ Tidy(s, d, e, in)
    /\ e.s.run \in {0, s.run}
    /\ \A r \in Run : ~Has(e.out, Start(r))

LEMMA NothingSaid == Once(<<>>) /\ \A mark : ~Has(<<>>, mark)
<1>1. DOMAIN <<>> = {}
  OBVIOUS
<1>2. QED
  BY <1>1 DEF Once, Has

LEMMA ProperBase ==
    ASSUME NEW d \in Device, NEW s \in Sessions, NEW t \in Sessions, NEW in,
           Works(t), t.run \in {0, s.run},
           \A id \in BatchId : id \in Served(t) => id \in Served(s) \/ in = Asked(id),
           \A id \in BatchId : t.run = s.run /\ id \in s.pulls => id \in t.pulls \/ in = Told(id)
    PROVE  Proper(d, s, Effect(t), in)
<1>1. Effect(t) \in Effects
  BY EffectGood
<1>2. Effect(t).s = t /\ Effect(t).out = <<>>
  BY DEF Effect
<1> DEFINE e == Effect(t)
<1>3. e \in Effects /\ e.s = t /\ e.out = <<>>
  BY <1>1, <1>2
<1> HIDE DEF e
<1>4. Tidy(s, d, e, in)
  BY <1>3, NothingSaid DEF Tidy
<1>5. Proper(d, s, e, in)
  BY <1>3, <1>4, NothingSaid DEF Proper
<1>6. QED
  BY <1>5 DEF e

(* A step may go on: with word of no batch, and the same batches.          *)
LEMMA ProperSame ==
    ASSUME NEW d \in Device, NEW s \in Sessions, NEW in, NEW e, Proper(d, s, e, in),
           NEW f \in Effects,
           f.out = e.out \/ \E m \in Messages : ~Marked(m) /\ f.out = Append(e.out, m),
           Works(f.s), Served(f.s) \subseteq Served(e.s),
           \/ f.s.run = e.s.run /\ f.s.pulls = e.s.pulls
           \/ f.s.run = 0 /\ s.run # 0
    PROVE  Proper(d, s, f, in)
<1>1. e.out \in Seq(Messages)
  BY DEF Proper, Effects
<1>2. Once(e.out) /\ \A r \in Run : ~Has(e.out, Start(r))
  BY DEF Proper, Tidy
<1>3. Once(f.out) /\ \A mark : Has(f.out, mark) <=> Has(e.out, mark)
  <2>1. CASE f.out = e.out
    BY <1>2, <2>1
  <2>2. CASE \E m \in Messages : ~Marked(m) /\ f.out = Append(e.out, m)
    <3>1. PICK m \in Messages : ~Marked(m) /\ f.out = Append(e.out, m)
      BY <2>2
    <3>2. /\ \A mark : Has(Append(e.out, m), mark) <=> Has(e.out, mark) \/ (Marked(m) /\ mark = Mark(m))
          /\ Once(e.out) /\ (Marked(m) => ~Has(e.out, Mark(m))) => Once(Append(e.out, m))
      BY <1>1, AppendedMarks
    <3>3. QED
      BY <1>2, <3>1, <3>2
  <2>3. QED
    BY <2>1, <2>2
<1>4. \A id \in BatchId :
          /\ Has(e.out, Asked(id)) =>
                /\ id.by = d /\ id.run = s.run
                /\ e.s.run = s.run => id \in e.s.pulls
                /\ id \in s.pulls => in = Told(id)
          /\ Has(e.out, Told(id)) =>
                id \notin Served(e.s) /\ (id \in Served(s) \/ in = Asked(id))
          /\ id \in Served(e.s) => id \in Served(s) \/ in = Asked(id)
          /\ e.s.run = s.run /\ id \in s.pulls => id \in e.s.pulls \/ in = Told(id)
  BY DEF Proper, Tidy
<1>5. e.s.run \in {0, s.run}
  BY DEF Proper
<1>6. \A id \in BatchId :
          /\ Has(f.out, Asked(id)) =>
                /\ id.by = d /\ id.run = s.run
                /\ f.s.run = s.run => id \in f.s.pulls
                /\ id \in s.pulls => in = Told(id)
          /\ Has(f.out, Told(id)) =>
                id \notin Served(f.s) /\ (id \in Served(s) \/ in = Asked(id))
          /\ id \in Served(f.s) => id \in Served(s) \/ in = Asked(id)
          /\ f.s.run = s.run /\ id \in s.pulls => id \in f.s.pulls \/ in = Told(id)
  BY <1>3, <1>4
<1>7. Tidy(s, d, f, in)
  BY <1>3, <1>6 DEF Tidy
<1>8. QED
  BY <1>2, <1>3, <1>5, <1>7 DEF Proper

LEMMA ProperSay ==
    ASSUME NEW d \in Device, NEW s \in Sessions, NEW in, NEW e, Proper(d, s, e, in),
           NEW t \in Sessions, NEW m \in Messages, ~Marked(m),
           t.serving = e.s.serving, t.jobs = e.s.jobs, t.run = e.s.run, t.pulls = e.s.pulls,
           IsSyncing(e.s) => IsSyncing(t)
    PROVE  Proper(d, s, Sending(e, t, m), in)
<1>1. e \in Effects /\ Works(e.s)
  BY DEF Proper
<1>2. Works(t) /\ Served(t) = Served(e.s)
  BY <1>1, WorksSame
<1> DEFINE f == Sending(e, t, m)
<1>3. f \in Effects
  BY <1>1, SendingGood
<1>4. f.s = t /\ f.out = Append(e.out, m)
  BY DEF Sending
<1> HIDE DEF f
<1>5. Proper(d, s, f, in)
  BY <1>2, <1>3, <1>4, ProperSame
<1>6. QED
  BY <1>5 DEF f

LEMMA ProperCheck ==
    ASSUME NEW d \in Device, NEW s \in Sessions, NEW in, NEW e, Proper(d, s, e, in)
    PROVE  Proper(d, s, CheckCompletion(e), in)
<1>1. SUFFICES ASSUME IsSyncing(e.s) PROVE Proper(d, s, CheckCompletion(e), in)
  BY DEF CheckCompletion
<1>2. e \in Effects /\ Works(e.s) /\ e.s \in Sessions /\ e.s \in Session /\ e.s.run \in Run
      /\ e.s.run \in {0, s.run}
  BY <1>1 DEF Proper, Effects, Sessions
<1>3. s.run # 0
  BY <1>2 DEF Run
<1> DEFINE said == SayComplete(e)
<1>4. said \in Effects
  BY <1>1, <1>2, SayCompleteGood
<1>5. Proper(d, s, said, in) /\ said.s.jobs = e.s.jobs
  <2> DEFINE t == [e.s EXCEPT !.localDone = TRUE, !.unacked = @ \cup {e.s.run}]
             m == [type |-> "full-sync-complete", run |-> e.s.run]
  <2>1. said \in {e, Sending(e, t, m)}
    BY DEF SayComplete
  <2>2. CASE said = e
    BY <2>2
  <2>3. CASE said = Sending(e, t, m)
    <3>1. said.s = t /\ said.out = Append(e.out, m)
      BY <2>3 DEF Sending
    <3>2. /\ t.serving = e.s.serving /\ t.jobs = e.s.jobs /\ t.run = e.s.run
          /\ t.pulls = e.s.pulls /\ t.phase = e.s.phase
      BY <1>2 DEF Session
    <3>3. m \in Messages /\ ~Marked(m)
      BY <1>2 DEF Messages, Message, Marked
    <3> HIDE DEF t, m, said
    <3>4. Works(said.s) /\ Served(said.s) = Served(e.s)
      BY <1>2, <3>1, <3>2, WorksSame DEF IsSyncing
    <3>5. said.s.run = e.s.run /\ said.s.pulls = e.s.pulls
      BY <3>1, <3>2
    <3>6. Proper(d, s, said, in)
      BY <1>4, <3>1, <3>3, <3>4, <3>5, ProperSame
    <3>7. QED
      BY <3>1, <3>2, <3>6
  <2> HIDE DEF said
  <2>4. QED
    BY <2>1, <2>2, <2>3
<1> DEFINE f == [said EXCEPT !.s = Completed(@)]
<1>6. CheckCompletion(e) = IF BothDone(said.s) THEN f ELSE said
  BY <1>1 DEF CheckCompletion
<1>7. BothDone(said.s) => Proper(d, s, f, in)
  <2>1. f \in Effects /\ f.s = Completed(said.s) /\ f.out = said.out
    <3>1. Completed(said.s) \in Sessions
      BY <1>4, CompletedGood DEF Effects, Sessions
    <3> HIDE DEF said
    <3>2. QED
      BY <1>4, <3>1 DEF Effects
  <2> HIDE DEF said, f
  <2>2. said.s \in Session
    BY <1>4 DEF Effects, Sessions
  <2>3. f.s.serving = {} /\ f.s.jobs = said.s.jobs /\ f.s.run = 0
    BY <2>1, <2>2 DEF Completed, Cleared, Session
  <2>4. SUFFICES ASSUME BothDone(said.s) PROVE Proper(d, s, f, in)
    OBVIOUS
  <2>5. said.s.serving = {} /\ Sound(said.s)
    BY <1>5, <2>4 DEF BothDone, Proper, Works
  <2>6. said.s.jobs = {}
    BY <2>5, NoTaskWithoutBatch
  <2>7. Works(f.s) /\ Served(f.s) = {}
    BY <2>3, <2>6, Workless
  <2>8. QED
    BY <1>3, <1>5, <2>1, <2>3, <2>7, ProperSame
<1> HIDE DEF f, said
<1>8. QED
  BY <1>5, <1>6, <1>7

LEMMA EachOfASetOnce ==
    ASSUME NEW S, IsFiniteSet(S)
    PROVE  IsInjective(SetToSeq(S))
<1>1. PICK f \in [1 .. Cardinality(S) -> S] : IsInjective(f)
  BY FS_CardinalityType DEF ExistsBijection, Bijection, Injection
<1>2. QED
  BY <1>1 DEF SetToSeq

LEMMA AskingMarks ==
    ASSUME NEW ids \in SUBSET BatchId, IsFiniteSet(Asking(ids))
    PROVE  /\ Once(SetToSeq(Asking(ids)))
           /\ \A mark : Has(SetToSeq(Asking(ids)), mark) => \E id \in ids : mark = Asked(id)
<1> DEFINE q == SetToSeq(Asking(ids))
<1>1. q \in Seq(Asking(ids)) /\ IsInjective(q)
  BY SeqOfASet, EachOfASetOnce
<1> HIDE DEF q
<1>2. \A k \in DOMAIN q : q[k] \in Asking(ids)
  BY <1>1, ElementOfSeq, LenProperties
<1>3. \A k \in DOMAIN q : \E id \in ids : q[k] = [type |-> "request-batch", id |-> id]
  BY <1>2 DEF Asking
<1>4. \A k \in DOMAIN q : /\ q[k] = [type |-> "request-batch", id |-> q[k].id] /\ q[k].id \in ids
                          /\ Mark(q[k]) = Asked(q[k].id)
  BY <1>3 DEF Mark, Asked
<1>5. Once(q)
  <2>1. SUFFICES ASSUME NEW k \in DOMAIN q, NEW l \in DOMAIN q, Mark(q[k]) = Mark(q[l])
                 PROVE  k = l
    BY DEF Once
  <2>2. q[k].id = q[l].id
    BY <1>4, <2>1, MarksDiffer
  <2>3. q[k] = q[l]
    BY <1>4, <2>2
  <2>4. QED
    BY <1>1, <2>3 DEF IsInjective
<1>6. \A mark : Has(q, mark) => \E id \in ids : mark = Asked(id)
  BY <1>4 DEF Has
<1>7. QED
  BY <1>5, <1>6 DEF q

LEMMA ProperIssue ==
    ASSUME NEW d \in Device, NEW s \in Sessions, NEW in, NEW e, Proper(d, s, e, in),
           IsSyncing(e.s), NEW B \in SUBSET (SUBSET Path),
           \A S \in B : S # {} /\ S \cap InFlight(e.s) = {}
    PROVE  Proper(d, s, Issue(d, e, B), in)
<1> DEFINE ids == BatchesOf(d, e.s, B)
           q == SetToSeq(Asking(ids))
           t == [e.s EXCEPT !.phase = "TRANSFERRING", !.pulls = @ \cup ids,
                            !.ahead = @ \ UNION B]
           f == Issue(d, e, B)
<1>1. e \in Effects /\ Works(e.s) /\ Tidy(s, d, e, in) /\ e.s.run \in {0, s.run}
      /\ e.s \in Session /\ e.s.run \in Run /\ e.out \in Seq(Messages)
      /\ \A r \in Run : ~Has(e.out, Start(r))
  BY DEF Proper, Effects, Sessions
<1>2. e.s.run = s.run
  BY <1>1 DEF Run
<1>3. \A id \in ids : id \in BatchId /\ id.by = d /\ id.run = s.run /\ id \notin e.s.pulls
  <2>1. SUFFICES ASSUME NEW S \in B
                 PROVE  LET id == BatchOf(d, e.s, S)
                        IN  id \in BatchId /\ id.by = d /\ id.run = s.run /\ id \notin e.s.pulls
    BY DEF BatchesOf
  <2> DEFINE id == BatchOf(d, e.s, S)
  <2>2. id \in BatchId /\ PathsOf(id) = S
    BY <1>1, BatchFits
  <2>3. id.by = d /\ id.run = s.run
    BY <1>2 DEF BatchOf
  <2> HIDE DEF id
  <2>4. id \notin e.s.pulls
    BY <2>2 DEF InFlight
  <2>5. QED
    BY <2>2, <2>3, <2>4 DEF id
<1>4. IsFiniteSet(Asking(ids))
  <2>1. IsFiniteSet(B)
    BY FullSyncAssumption, FS_SUBSET, FS_Subset
  <2>2. QED
    BY <2>1, FewBatches
<1>5. f \in Effects
  BY <1>1, IssueGood
<1>6. f = [s |-> t, out |-> e.out \o q]
  BY DEF Issue, BatchesOf, BatchOf, Asking
<1>7. /\ f.s.serving = e.s.serving /\ f.s.jobs = e.s.jobs /\ IsSyncing(f.s)
      /\ f.s.run = s.run /\ f.s.pulls = e.s.pulls \cup ids /\ f.out = e.out \o q
  <2> HIDE DEF ids, q, f
  <2>1. f.s = t /\ f.out = e.out \o q
    BY <1>6
  <2>2. QED
    BY <1>1, <1>2, <2>1 DEF Session, IsSyncing
<1>8. q \in Seq(Messages) /\ Once(q) /\ \A mark : Has(q, mark) => \E id \in ids : mark = Asked(id)
  <2>1. ids \in SUBSET BatchId
    BY <1>3
  <2>2. Asking(ids) \subseteq Messages
    BY <2>1 DEF Asking, Messages, Message
  <2> HIDE DEF ids
  <2>3. q \in Seq(Asking(ids))
    BY <1>4, SeqOfASet
  <2>4. QED
    BY <1>4, <2>1, <2>2, <2>3, AskingMarks
<1> HIDE DEF ids, q, t, f
<1>9. Works(f.s) /\ Served(f.s) = Served(e.s)
  BY <1>1, <1>7, WorksSame
<1>10. Once(e.out)
       /\ \A id \in BatchId :
            /\ Has(e.out, Asked(id)) =>
                  /\ id.by = d /\ id.run = s.run
                  /\ e.s.run = s.run => id \in e.s.pulls
                  /\ id \in s.pulls => in = Told(id)
            /\ Has(e.out, Told(id)) =>
                  id \notin Served(e.s) /\ (id \in Served(s) \/ in = Asked(id))
            /\ id \in Served(e.s) => id \in Served(s) \/ in = Asked(id)
            /\ e.s.run = s.run /\ id \in s.pulls => id \in e.s.pulls \/ in = Told(id)
  BY <1>1 DEF Tidy
<1>11. ASSUME NEW mark, Has(e.out, mark), Has(q, mark) PROVE FALSE
  <2>1. PICK id \in ids : mark = Asked(id)
    BY <1>8, <1>11
  <2>2. QED
    BY <1>2, <1>3, <1>10, <1>11, <2>1
<1>12. \A mark : Has(f.out, mark) <=> Has(e.out, mark) \/ Has(q, mark)
  BY <1>1, <1>7, <1>8, JoinedMarks
<1>13. Once(f.out)
  BY <1>1, <1>7, <1>8, <1>10, <1>11, JoinedMarks
<1>14. \A r \in Run : ~Has(f.out, Start(r))
  <2>1. \A r : ~Has(q, Start(r))
    BY <1>8, MarksDiffer
  <2>2. QED
    BY <1>1, <1>12, <2>1
<1>15. ASSUME NEW id \in BatchId
       PROVE  /\ Has(f.out, Asked(id)) =>
                    /\ id.by = d /\ id.run = s.run
                    /\ f.s.run = s.run => id \in f.s.pulls
                    /\ id \in s.pulls => in = Told(id)
              /\ Has(f.out, Told(id)) =>
                    id \notin Served(f.s) /\ (id \in Served(s) \/ in = Asked(id))
              /\ id \in Served(f.s) => id \in Served(s) \/ in = Asked(id)
              /\ f.s.run = s.run /\ id \in s.pulls => id \in f.s.pulls \/ in = Told(id)
  <2>1. Has(q, Asked(id)) => id \in ids
    BY <1>8, MarksDiffer
  <2>2. ~Has(q, Told(id))
    BY <1>8, MarksDiffer
  <2>3. Has(f.out, Asked(id)) =>
                    /\ id.by = d /\ id.run = s.run
                    /\ f.s.run = s.run => id \in f.s.pulls
                    /\ id \in s.pulls => in = Told(id)
    BY <1>2, <1>3, <1>7, <1>10, <1>12, <2>1
  <2>4. QED
    BY <1>2, <1>7, <1>9, <1>10, <1>12, <2>2, <2>3
<1>16. Tidy(s, d, f, in)
  BY <1>13, <1>15 DEF Tidy
<1>17. Proper(d, s, f, in)
  BY <1>5, <1>7, <1>9, <1>14, <1>16 DEF Proper
<1>18. QED
  BY <1>17 DEF f

LEMMA ProperNext ==
    ASSUME NEW d \in Device, NEW s \in Sessions, NEW in, NEW e, Proper(d, s, e, in)
    PROVE  \A f \in RequestNextBatch(d, e) : Proper(d, s, f, in)
<1> DEFINE eligible == (e.s.ahead \cap e.s.pending) \ InFlight(e.s)
           room == e.s.width - Cardinality(e.s.pulls)
<1>1. e.s \in Session
  BY DEF Proper, Effects, Sessions
<1>2. CASE e.s.phase \notin {"PLANNING", "TRANSFERRING"}
  BY <1>2 DEF RequestNextBatch
<1>3. CASE e.s.phase \in {"PLANNING", "TRANSFERRING"}
  <2>1. IsSyncing(e.s)
    BY <1>3 DEF IsSyncing
  <2>2. eligible \subseteq Path /\ eligible \cap InFlight(e.s) = {}
    BY <1>1 DEF Session
  <2>3. RequestNextBatch(d, e) \subseteq
          {e, CheckCompletion(e)} \cup {Issue(d, e, B) : B \in Batchings(eligible, room)}
    BY DEF RequestNextBatch
  <2>4. \A B \in Batchings(eligible, room) : Proper(d, s, Issue(d, e, B), in)
    <3> HIDE DEF eligible, room
    <3>1. ASSUME NEW B \in Batchings(eligible, room)
          PROVE  B \in SUBSET (SUBSET Path) /\ \A S \in B : S # {} /\ S \cap InFlight(e.s) = {}
      <4>1. B \in SUBSET ((SUBSET eligible) \ {{}})
        BY <3>1 DEF Batchings
      <4>2. ASSUME NEW S \in B PROVE S \subseteq eligible /\ S # {}
        <5>1. S \in (SUBSET eligible) \ {{}}
          BY <4>1
        <5>2. QED
          BY <5>1
      <4>3. QED
        BY <2>2, <4>2
    <3>2. QED
      BY <2>1, <3>1, ProperIssue
  <2> HIDE DEF eligible, room
  <2>5. QED
    BY <2>3, <2>4, ProperCheck
<1>4. QED
  BY <1>2, <1>3

LEMMA ProperAdopt ==
    ASSUME NEW d \in Device, NEW s \in Sessions, NEW in, NEW e, Proper(d, s, e, in),
           NEW c \in Continuation
    PROVE  \A f \in Adopt(d, e, c) : Proper(d, s, f, in)
<1> DEFINE g == [e EXCEPT !.s.allowed = c.serve, !.s.pending = c.pull, !.s.ahead = c.pull]
<1>1. e \in Effects /\ Works(e.s)
  BY DEF Proper
<1>2. /\ g \in Effects /\ g.out = e.out
      /\ g.s.phase = e.s.phase /\ g.s.run = e.s.run /\ g.s.pulls = e.s.pulls
      /\ g.s.serving = e.s.serving /\ g.s.jobs = e.s.jobs
  BY <1>1, Adopting
<1>3. Adopt(d, e, c) = RequestNextBatch(d, g)
  BY DEF Adopt
<1> HIDE DEF g
<1>4. Works(g.s) /\ Served(g.s) = Served(e.s)
  BY <1>1, <1>2, WorksSame DEF IsSyncing
<1>5. Proper(d, s, g, in)
  BY <1>2, <1>4, ProperSame
<1>6. QED
  BY <1>3, <1>5, ProperNext

LEMMA ProperAfterDeletions ==
    ASSUME NEW d \in Device, NEW s \in Sessions, NEW in, NEW e, Proper(d, s, e, in),
           NEW c \in Continuation
    PROVE  \A f \in AfterDeletions(d, e, c) : Proper(d, s, f, in)
<1> DEFINE g == [e EXCEPT !.s.waiting = @ \cup {[c EXCEPT !.at = "apply"]}]
<1>1. e \in Effects /\ Works(e.s)
  BY DEF Proper
<1>2. /\ g \in Effects /\ g.out = e.out
      /\ g.s.phase = e.s.phase /\ g.s.run = e.s.run /\ g.s.pulls = e.s.pulls
      /\ g.s.serving = e.s.serving /\ g.s.jobs = e.s.jobs
  BY <1>1, PuttingOff
<1>3. AfterDeletions(d, e, c) \in {Adopt(d, e, c), {g}}
  BY DEF AfterDeletions
<1> HIDE DEF g
<1>4. Works(g.s) /\ Served(g.s) = Served(e.s)
  BY <1>1, <1>2, WorksSame DEF IsSyncing
<1>5. Proper(d, s, g, in)
  BY <1>2, <1>4, ProperSame
<1>6. QED
  BY <1>3, <1>5, ProperAdopt

(* A batch with another of its paths accounted for.                        *)
LEMMA StillServing ==
    ASSUME NEW t, NEW u, NEW id, NEW paths, Owes(t, id, paths),
           NEW one \in t.serving, one.id = id, NEW b, b.id = id, b.left = one.left \ paths,
           u.jobs = t.jobs, u.phase = t.phase,
           u.serving = (t.serving \ {one}) \cup {b}
    PROVE  Works(u) /\ Served(u) = Served(t)
<1>1. Sound(t) /\ \A x : TasksFor(u, x) = TasksFor(t, x)
  BY DEF Owes, TasksFor
<1>2. Served(u) = Served(t)
  BY DEF Served
<1>3. \A x \in t.serving : x.id = id => x = one
  BY <1>1 DEF Sound
<1>4. \A x, y \in u.serving : x.id = y.id => x = y
  BY <1>1, <1>3 DEF Sound
<1>5. ~IsSyncing(u) => u.serving = {}
  BY <1>1 DEF Sound, IsSyncing
<1>6. Sound(u)
  BY <1>1, <1>2, <1>4, <1>5 DEF Sound
<1>7. \A x \in u.serving : x.left = TasksFor(u, x.id)
  BY <1>1, <1>3 DEF Owes
<1>8. QED
  BY <1>2, <1>6, <1>7 DEF Works

(* A batch all of whose paths are accounted for, and which is forgotten.   *)
LEMMA ServedNoMore ==
    ASSUME NEW t, NEW u, NEW id, NEW paths, Owes(t, id, paths),
           NEW one \in t.serving, one.id = id, one.left \ paths = {},
           u.jobs = t.jobs, u.phase = t.phase, u.serving = t.serving \ {one}
    PROVE  Works(u) /\ Served(u) = Served(t) \ {id}
<1>1. Sound(t) /\ \A x : TasksFor(u, x) = TasksFor(t, x)
  BY DEF Owes, TasksFor
<1>2. \A x \in t.serving : x.id = id => x = one
  BY <1>1 DEF Sound
<1>3. Served(u) = Served(t) \ {id}
  BY <1>2 DEF Served
<1>4. TasksFor(t, id) = {}
  BY DEF Owes
<1>5. \A j \in t.jobs : j.id # id
  BY <1>1, <1>4 DEF TasksFor, Sound
<1>6. Sound(u)
  BY <1>1, <1>3, <1>5 DEF Sound, IsSyncing
<1>7. \A x \in u.serving : x.left = TasksFor(u, x.id)
  BY <1>1, <1>2 DEF Owes
<1>8. QED
  BY <1>3, <1>6, <1>7 DEF Works

LEMMA ProperRecord ==
    ASSUME NEW d \in Device, NEW s \in Sessions, NEW in, NEW t \in Sessions,
           NEW id \in BatchId, NEW paths \in SUBSET Path,
           NEW ok \in BOOLEAN, NEW again \in BOOLEAN,
           Owes(t, id, paths), t.run = s.run, t.pulls = s.pulls,
           \A x \in BatchId : x \in Served(t) => x \in Served(s) \/ in = Asked(x)
    PROVE  Proper(d, s, RecordCompletion(Effect(t), id, paths, ok, again), in)
<1> DEFINE found == {b \in t.serving : b.id = id}
           one == CHOOSE f \in found : TRUE
           b == Finished(one, paths, ok)
           allowed == IF ~ok /\ again THEN t.allowed \cup paths ELSE t.allowed
           rest == [t EXCEPT !.serving = @ \ found, !.allowed = allowed]
           more == [t EXCEPT !.serving = (@ \ found) \cup {b}, !.allowed = allowed]
           done == [type |-> "batch-complete", id |-> id, ok |-> b.ok, bad |-> b.bad]
           e == Effect(t)
           go == [e EXCEPT !.s.serving = (@ \ found) \cup {b}, !.s.allowed = allowed]
<1>1. Effect(t) \in Effects /\ Effect(t).s = t /\ Effect(t).out = <<>>
  BY EffectGood DEF Effect
<1>2. CASE found = {} \/ paths = {}
  <2>1. \A x \in t.serving : x.left = TasksFor(t, x.id)
    BY <1>2 DEF Owes
  <2>2. Works(t)
    BY <2>1 DEF Owes, Works
  <2>3. RecordCompletion(Effect(t), id, paths, ok, again) = Effect(t)
    BY <1>1, <1>2 DEF RecordCompletion
  <2>4. Proper(d, s, Effect(t), in)
    BY <2>2, ProperBase
  <2>5. QED
    BY <2>3, <2>4
<1>3. CASE found # {} /\ paths # {}
  <2>1. t \in Session
    BY DEF Sessions
  <2>2. one \in t.serving /\ one.id = id
    BY <1>3
  <2>3. found = {one}
    BY <2>2 DEF Owes, Sound
  <2>4. one \in Batch /\ Whole(one.id, one.left, one.ok, one.bad)
    BY <2>1, <2>2 DEF Session, Sessions, ServesWhole
  <2>5. b \in Batch /\ b.id = id /\ Whole(b.id, b.left, b.ok, b.bad) /\ b.left = one.left \ paths
    <3>1. b.left = one.left \ paths
      BY <2>4 DEF Finished, Batch
    <3> HIDE DEF one
    <3>2. b \in Batch /\ b.id = id /\ Whole(b.id, b.left, b.ok, b.bad)
      BY <2>2, <2>4, FinishedWhole
    <3> HIDE DEF b
    <3>3. QED
      BY <3>1, <3>2
  <2>6. allowed \subseteq Path
    BY <2>1 DEF Session
  <2>7. RecordCompletion(e, id, paths, ok, again) =
          IF b.left # {} THEN go ELSE CheckCompletion(Sending(e, rest, done))
    BY <1>1, <1>3 DEF RecordCompletion
  <2>8. t.serving \subseteq Batch /\ \A x \in t.serving : Whole(x.id, x.left, x.ok, x.bad)
    BY <2>1 DEF Session, Sessions, ServesWhole
  <2>9. e \in Effects /\ e.s = t /\ e.out = <<>>
    BY <1>1
  <2> HIDE DEF one, b, allowed
  <2>10. CASE b.left # {}
    <3>1. more = [t EXCEPT !.serving = (t.serving \ found) \cup {b}, !.allowed = allowed]
      OBVIOUS
    <3>2. more \in Sessions
      <4> HIDE DEF found, more
      <4>1. QED
        BY <2>5, <2>6, <2>8, <3>1, ServingGood
    <3>3. go = [s |-> [e.s EXCEPT !.serving = (e.s.serving \ found) \cup {b}, !.allowed = allowed],
                out |-> e.out]
      <4> HIDE DEF found, e
      <4>1. go = [e EXCEPT !.s.serving = (e.s.serving \ found) \cup {b}, !.s.allowed = allowed]
        OBVIOUS
      <4> HIDE DEF go
      <4>2. \A B, A : [e EXCEPT !.s.serving = B, !.s.allowed = A]
                        = [s |-> [e.s EXCEPT !.serving = B, !.allowed = A], out |-> e.out]
        BY <2>9, NextServing
      <4>3. QED
        BY <4>1, <4>2
    <3>4. go = Effect(more)
      <4> HIDE DEF found, e, go
      <4>1. QED
        BY <2>9, <3>3 DEF Effect
    <3>5. /\ more.jobs = t.jobs /\ more.phase = t.phase /\ more.run = t.run /\ more.pulls = t.pulls
          /\ more.serving = (t.serving \ {one}) \cup {b}
      BY <2>1, <2>3 DEF Session
    <3> HIDE DEF more, go, found, e
    <3>6. Works(more) /\ Served(more) = Served(t)
      BY <2>2, <2>5, <3>5, StillServing
    <3>7. Proper(d, s, Effect(more), in)
      BY <3>2, <3>5, <3>6, ProperBase
    <3>8. QED
      BY <2>7, <2>10, <3>4, <3>7 DEF e
  <2>11. CASE b.left = {}
    <3>1. rest \in Sessions
      <4>1. rest = [t EXCEPT !.serving = t.serving \ found, !.allowed = allowed]
        OBVIOUS
      <4> HIDE DEF rest, found
      <4>2. QED
        BY <2>6, <2>8, <4>1, ServingGood
    <3>2. done \in Messages
      <4>1. done \in Message
        BY <2>5 DEF Message, Batch
      <4>2. QED
        BY <2>5, <2>11, <4>1 DEF Messages
    <3>3. Marked(done) /\ Mark(done) = Told(id)
      BY DEF Marked, Mark, Told
    <3>4. /\ rest.jobs = t.jobs /\ rest.phase = t.phase /\ rest.run = t.run /\ rest.pulls = t.pulls
          /\ rest.serving = t.serving \ {one}
      BY <2>1, <2>3 DEF Session
    <3> DEFINE f == Sending(e, rest, done)
    <3>5. f \in Effects /\ f.s = rest /\ f.out = Append(<<>>, done)
      <4> HIDE DEF e, rest, done
      <4>1. QED
        BY <2>9, <3>1, <3>2, SendingGood DEF Sending
    <3> HIDE DEF rest, done, f, found, e
    <3>6. Works(rest) /\ Served(rest) = Served(t) \ {id}
      BY <2>2, <2>5, <2>11, <3>4, ServedNoMore
    <3>7. Once(f.out) /\ \A mark : Has(f.out, mark) <=> mark = Told(id)
      <4>1. <<>> \in Seq(Messages)
        OBVIOUS
      <4>2. /\ \A mark : Has(Append(<<>>, done), mark)
                           <=> Has(<<>>, mark) \/ (Marked(done) /\ mark = Mark(done))
            /\ Once(<<>>) /\ (Marked(done) => ~Has(<<>>, Mark(done))) => Once(Append(<<>>, done))
        BY <3>2, <4>1, AppendedMarks
      <4>3. QED
        BY <3>3, <3>5, <4>2, NothingSaid
    <3>8. id \in Served(t)
      BY <2>2 DEF Served
    <3>9. Tidy(s, d, f, in)
      <4>1. /\ f.s.run = s.run /\ f.s.pulls = s.pulls /\ Served(f.s) = Served(t) \ {id}
        BY <3>4, <3>5, <3>6
      <4>2. \A x : ~Has(f.out, Asked(x)) /\ (Has(f.out, Told(x)) => x = id)
        BY <3>7, MarksDiffer
      <4>3. id \in Served(s) \/ in = Asked(id)
        BY <3>8
      <4>4. QED
        BY <3>7, <4>1, <4>2, <4>3 DEF Tidy
    <3>10. \A r \in Run : ~Has(f.out, Start(r))
      BY <3>7, MarksDiffer
    <3>11. Proper(d, s, f, in)
      BY <3>4, <3>5, <3>6, <3>9, <3>10 DEF Proper
    <3>12. Proper(d, s, CheckCompletion(f), in)
      BY <3>11, ProperCheck
    <3>13. QED
      BY <2>7, <2>11, <3>12 DEF f, e
  <2>12. QED
    BY <2>10, <2>11
<1>4. QED
  BY <1>2, <1>3

-----------------------------------------------------------------------------
(* The actions keep the batches' names apart and their tasks complete.     *)

AllWork == \A d \in Device : Works(sync[d])
Orderly == IInv /\ Tokens /\ AllWork

LEMMA WorkCommits ==
    ASSUME IInv, AllWork, NEW d \in Device, NEW e, NEW took, Commit(d, e, took), Works(e.s)
    PROVE  AllWork'
<1>1. \A x \in Device : sync'[x] = IF x = d THEN e.s ELSE sync[x]
  BY DEF Commit, IInv
<1>2. \A x \in Device : Works(sync'[x])
  BY <1>1 DEF AllWork
<1>3. QED
  BY <1>2 DEF AllWork

LEMMA ProperCommits ==
    ASSUME Orderly, UNCHANGED runs, NEW d \in Device, NEW e, NEW took \in BOOLEAN,
           took => net[d] # <<>>, Commit(d, e, took),
           Proper(d, sync[d], e, Incoming(d, took))
    PROVE  Tokens' /\ AllWork'
<1>1. e \in Effects /\ Works(e.s) /\ Tidy(sync[d], d, e, Incoming(d, took))
      /\ e.s.run \in {0, sync[d].run} /\ \A r \in Run : ~Has(e.out, Start(r))
  BY DEF Proper
<1>2. IInv /\ Tokens /\ AllWork
  BY DEF Orderly
<1>3. runs' \in Nat /\ runs <= runs'
  BY <1>2, FullSyncAssumption DEF IInv
<1>4. Tokens'
  BY <1>1, <1>2, <1>3, TokensKept
<1>5. QED
  BY <1>1, <1>2, <1>4, WorkCommits

LEMMA OrderlySession ==
    ASSUME Orderly, NEW d \in Device
    PROVE  /\ Good /\ sync[d] \in Sessions /\ sync[d] \in Session /\ Works(sync[d])
           /\ \A in : Proper(d, sync[d], Effect(sync[d]), in)
<1>1. Good
  BY DEF Orderly, IInv, Good
<1>2. sync[d] \in Sessions /\ sync[d] \in Session /\ Works(sync[d])
  BY <1>1, SessionGood DEF Orderly, AllWork
<1>3. \A in : Proper(d, sync[d], Effect(sync[d]), in)
  BY <1>2, ProperBase
<1>4. QED
  BY <1>1, <1>2, <1>3

(* A change of the session that leaves its batches alone.                  *)
LEMMA ProperStart ==
    ASSUME NEW d \in Device, NEW s \in Sessions, Works(s), NEW t \in Sessions,
           t.serving = s.serving, t.jobs = s.jobs, t.run = s.run, t.pulls = s.pulls,
           IsSyncing(s) => IsSyncing(t)
    PROVE  \A in : Proper(d, s, Effect(t), in)
<1>1. Works(t) /\ Served(t) = Served(s)
  BY WorksSame
<1>2. QED
  BY <1>1, ProperBase

LEMMA ProperWaiting ==
    ASSUME NEW d \in Device, NEW s \in Sessions, Works(s), NEW W \in SUBSET Continuation
    PROVE  \A in : Proper(d, s, Effect([s EXCEPT !.waiting = W]), in)
<1> DEFINE t == [s EXCEPT !.waiting = W]
<1>1. t \in Sessions
  BY WaitGood
<1>2. /\ t.serving = s.serving /\ t.jobs = s.jobs /\ t.run = s.run /\ t.pulls = s.pulls
      /\ t.phase = s.phase
  BY DEF Sessions, Session
<1> HIDE DEF t
<1>3. \A in : Proper(d, s, Effect(t), in)
  BY <1>1, <1>2, ProperStart DEF IsSyncing
<1>4. QED
  BY <1>3 DEF t

LEMMA SendPlanOrderly ==
    ASSUME Orderly, NEW d \in Device, SendPlan(d)
    PROVE  Tokens' /\ AllWork'
<1> DEFINE s == sync[d]
           W(c, plan) == (s.waiting \ {c}) \cup
                           {[at |-> "ack", run |-> s.run, pull |-> plan.responderPulls,
                             serve |-> plan.initiatorPulls, delete |-> plan.responderDeletes]}
           w(plan) == IF IsSyncing(s) THEN plan.responderPulls ELSE s.want
           m(plan) == [type |-> "sync-plan", run |-> s.run, plan |-> plan]
           t(c, plan) == [s EXCEPT !.waiting = W(c, plan), !.want = w(plan)]
<1>1. PICK c \in s.waiting, plan \in Plans :
         Commit(d, Sending(Effect(s), t(c, plan), m(plan)), FALSE)
  BY DEF SendPlan
<1>2. plan \in Plan /\ s \in Sessions /\ s \in Session /\ Works(s)
  BY FullSyncAssumption, OrderlySession
<1>3. W(c, plan) \in SUBSET Continuation /\ w(plan) \in SUBSET Path
  BY <1>2 DEF Session, Continuation, Plan
<1>4. m(plan) \in Messages /\ ~Marked(m(plan))
  BY <1>2 DEF Session, Messages, Message, Marked
<1>5. /\ t(c, plan).serving = s.serving /\ t(c, plan).jobs = s.jobs /\ t(c, plan).run = s.run
      /\ t(c, plan).pulls = s.pulls /\ t(c, plan).phase = s.phase
  BY <1>2 DEF Session
<1> HIDE DEF W, w, m
<1>6. t(c, plan) \in Sessions
  BY <1>2, <1>3, WaitingGood
<1> HIDE DEF t
<1>7. Effect(s).s = s
  BY DEF Effect
<1>8. Proper(d, s, Effect(s), Incoming(d, FALSE))
  BY OrderlySession
<1> HIDE DEF s
<1>9. Proper(d, s, Sending(Effect(s), t(c, plan), m(plan)), Incoming(d, FALSE))
  BY <1>2, <1>4, <1>5, <1>6, <1>7, <1>8, ProperSay DEF IsSyncing
<1>10. UNCHANGED runs
  BY DEF SendPlan
<1>11. QED
  BY <1>1, <1>9, <1>10, ProperCommits DEF s

LEMMA PlanAcknowledgedOrderly ==
    ASSUME Orderly, NEW d \in Device, PlanAcknowledged(d)
    PROVE  Tokens' /\ AllWork'
<1> DEFINE s == sync[d]
           found == {c \in s.waiting : c.at = "ack" /\ c.run = Head(net[d]).run}
           Left(c) == [s EXCEPT !.waiting = @ \ {c}]
<1>1. /\ Arrives(d, "sync-ack") /\ UNCHANGED runs
      /\ IF found = {} THEN Commit(d, Effect(s), TRUE)
         ELSE \E c \in found : \E e \in AfterDeletions(d, Effect(Left(c)), c) : Commit(d, e, TRUE)
  BY DEF PlanAcknowledged
<1>2. net[d] # <<>>
  BY <1>1 DEF Arrives
<1>3. CASE found = {}
  BY <1>1, <1>2, <1>3, OrderlySession, ProperCommits
<1>4. CASE found # {}
  <2>1. PICK c \in found : \E e \in AfterDeletions(d, Effect(Left(c)), c) : Commit(d, e, TRUE)
    BY <1>1, <1>4
  <2>2. s \in Sessions /\ s \in Session /\ Works(s)
    BY OrderlySession
  <2>3. c \in Continuation /\ s.waiting \ {c} \in SUBSET Continuation
    BY <2>2 DEF Session
  <2>4. Proper(d, s, Effect(Left(c)), Incoming(d, TRUE))
    BY <2>2, <2>3, ProperWaiting
  <2> HIDE DEF Left, found
  <2>5. PICK e \in AfterDeletions(d, Effect(Left(c)), c) : Commit(d, e, TRUE)
    BY <2>1
  <2>6. Proper(d, s, e, Incoming(d, TRUE))
    BY <2>2, <2>3, <2>4, ProperAfterDeletions
  <2>7. QED
    BY <1>1, <1>2, <2>5, <2>6, ProperCommits
<1>5. QED
  BY <1>3, <1>4

LEMMA DeletionsDoneOrderly ==
    ASSUME Orderly, NEW d \in Device, DeletionsDone(d)
    PROVE  Tokens' /\ AllWork'
<1> DEFINE s == sync[d]
           Left(c) == [s EXCEPT !.waiting = @ \ {c}]
<1>1. PICK c \in s.waiting : \E e \in Adopt(d, Effect(Left(c)), c) : Commit(d, e, FALSE)
  BY DEF DeletionsDone
<1>2. s \in Sessions /\ s \in Session /\ Works(s) /\ UNCHANGED runs
  BY OrderlySession DEF DeletionsDone
<1>3. c \in Continuation /\ s.waiting \ {c} \in SUBSET Continuation
  BY <1>2 DEF Session
<1>4. Proper(d, s, Effect(Left(c)), Incoming(d, FALSE))
  BY <1>2, <1>3, ProperWaiting
<1> HIDE DEF Left
<1>5. PICK e \in Adopt(d, Effect(Left(c)), c) : Commit(d, e, FALSE)
  BY <1>1
<1>6. Proper(d, s, e, Incoming(d, FALSE))
  BY <1>2, <1>3, <1>4, ProperAdopt
<1>7. QED
  BY <1>2, <1>5, <1>6, ProperCommits

LEMMA AbortOrderly ==
    ASSUME Orderly, NEW d \in Device, ReceiveBusy(d) \/ Abort(d)
    PROVE  Tokens' /\ AllWork'
<1> DEFINE s == sync[d]
           t == Aborted(s)
<1>1. s \in Sessions /\ s \in Session /\ Works(s)
  BY OrderlySession
<1>2. PICK took \in BOOLEAN : Commit(d, Effect(t), took) /\ (took => net[d] # <<>>)
  BY DEF ReceiveBusy, Abort, Arrives
<1>3. UNCHANGED runs
  BY DEF ReceiveBusy, Abort
<1>4. \A in : Proper(d, s, Effect(t), in)
  <2>1. CASE ~IsSyncing(s)
    BY <2>1, OrderlySession DEF Aborted
  <2>2. CASE IsSyncing(s)
    <3>1. t \in Sessions /\ s.run \in Run
      BY <1>1, <2>2, AbortedGood DEF Sessions
    <3>2. t.serving = {} /\ t.jobs = {} /\ t.run = 0
      BY <1>1, <2>2 DEF Session, Aborted, Cleared
    <3>3. s.run # 0
      BY <3>1 DEF Run
    <3> HIDE DEF t
    <3>4. Works(t) /\ Served(t) = {}
      BY <3>2, Workless
    <3>5. QED
      BY <1>1, <3>1, <3>2, <3>3, <3>4, ProperBase
  <2>3. QED
    BY <2>1, <2>2
<1> HIDE DEF t
<1>5. QED
  BY <1>2, <1>3, <1>4, ProperCommits

LEMMA ReceivePlanOrderly ==
    ASSUME Orderly, NEW d \in Device, ReceivePlan(d)
    PROVE  Tokens' /\ AllWork'
<1> DEFINE s == sync[d]
           in == Incoming(d, TRUE)
           m == Head(net[d])
           ack == [type |-> "sync-ack", of |-> "sync-plan", run |-> m.run]
           acked == Sending(Effect(s), s, ack)
           mine == [at |-> "apply", run |-> m.run, pull |-> m.plan.initiatorPulls,
                    serve |-> m.plan.responderPulls, delete |-> m.plan.initiatorDeletes]
           taken == [acked EXCEPT !.s.phase = "PLANNING", !.s.want = mine.pull]
<1>1. /\ Arrives(d, "sync-plan") /\ UNCHANGED runs
      /\ IF AnswersMe(s, m) THEN \E e \in AfterDeletions(d, taken, mine) : Commit(d, e, TRUE)
         ELSE Commit(d, acked, TRUE)
  BY DEF ReceivePlan
<1>2. s \in Sessions /\ Works(s) /\ Good /\ Proper(d, s, Effect(s), in)
  BY OrderlySession
<1>3. net[d] # <<>> /\ m \in Message /\ m.type = "sync-plan"
  BY <1>1, <1>2, HeadGood
<1>4. m.run \in Run \cup {0} /\ m.plan \in Plan
  BY <1>3 DEF Message
<1>5. ack \in Messages /\ ~Marked(ack)
  BY <1>4 DEF Messages, Message, Marked
<1>6. Proper(d, s, acked, in) /\ acked.s = s
  <2>1. Effect(s).s = s /\ acked.s = s
    BY DEF Effect, Sending
  <2> HIDE DEF ack, s, in
  <2>2. Proper(d, s, acked, in)
    BY <1>2, <1>5, <2>1, ProperSay
  <2>3. QED
    BY <2>1, <2>2
<1>7. mine \in Continuation /\ mine.pull \in SUBSET Path
  BY <1>4 DEF Continuation, Plan
<1> HIDE DEF acked, mine
<1>8. AnswersMe(s, m) => Proper(d, s, taken, in)
  <2> SUFFICES ASSUME AnswersMe(s, m) PROVE Proper(d, s, taken, in)
    OBVIOUS
  <2>1. acked \in Effects /\ Works(acked.s) /\ IsSyncing(acked.s)
    BY <1>6 DEF AnswersMe, IsSyncing, Proper
  <2>2. /\ taken \in Effects /\ taken.out = acked.out /\ IsSyncing(taken.s)
        /\ taken.s.run = acked.s.run /\ taken.s.pulls = acked.s.pulls
        /\ taken.s.serving = acked.s.serving /\ taken.s.jobs = acked.s.jobs
    BY <1>7, <2>1, TakingUp
  <2> HIDE DEF taken, s, in
  <2>3. Works(taken.s) /\ Served(taken.s) = Served(acked.s)
    BY <2>1, <2>2, WorksSame
  <2>4. QED
    BY <1>2, <1>6, <2>2, <2>3, ProperSame
<1> HIDE DEF taken
<1>9. ASSUME AnswersMe(s, m) PROVE \A e \in AfterDeletions(d, taken, mine) : Proper(d, s, e, in)
  BY <1>2, <1>7, <1>8, <1>9, ProperAfterDeletions
<1>10. PICK e : Commit(d, e, TRUE) /\ Proper(d, s, e, in)
  BY <1>1, <1>6, <1>9
<1>11. QED
  BY <1>1, <1>3, <1>10, ProperCommits

LEMMA TaskDoneOrderly ==
    ASSUME Orderly, NEW d \in Device, TaskDone(d)
    PROVE  Tokens' /\ AllWork'
<1> DEFINE s == sync[d]
           in == Incoming(d, FALSE)
           t(j) == [s EXCEPT !.jobs = @ \ {j}]
<1>1. PICK j \in s.jobs, ok \in BOOLEAN :
         Commit(d, RecordCompletion(Effect(t(j)), j.id, j.paths, ok, TRUE), FALSE)
  BY DEF TaskDone
<1>2. s \in Session /\ s \in Sessions /\ Works(s) /\ UNCHANGED runs
  BY OrderlySession DEF TaskDone
<1>3. j \in Job /\ j.id \in BatchId /\ j.paths \in SUBSET Path
  BY <1>2 DEF Session, Job
<1>4. t(j) \in Session
  BY <1>2 DEF Session
<1>5. /\ t(j).phase = s.phase /\ t(j).run = s.run /\ t(j).pending = s.pending
      /\ t(j).ahead = s.ahead /\ t(j).pulls = s.pulls /\ t(j).serving = s.serving
      /\ t(j).jobs = s.jobs \ {j}
  BY <1>2 DEF Session
<1> DEFINE u == t(j)
<1>6. /\ u \in Session /\ u.phase = s.phase /\ u.run = s.run /\ u.pending = s.pending
      /\ u.ahead = s.ahead /\ u.pulls = s.pulls /\ u.serving = s.serving
      /\ u.jobs = s.jobs \ {j}
  BY <1>4, <1>5
<1> HIDE DEF u, t, s, in
<1>7. u \in Sessions /\ Served(u) = Served(s)
  BY <1>2, <1>6, SameWork DEF Served
<1>8. Owes(u, j.id, j.paths)
  <2>1. Sound(u)
    BY <1>2, <1>6, <1>7 DEF Works, Sound, IsSyncing
  <2>2. \A x : x # j.id => TasksFor(u, x) = TasksFor(s, x)
    BY <1>6 DEF TasksFor
  <2>3. TasksFor(u, j.id) = TasksFor(s, j.id) \ j.paths
    <3>1. \A k \in u.jobs : k.id = j.id => k.paths \cap j.paths = {}
      BY <1>2, <1>6 DEF Works, Sound
    <3>2. \A k \in s.jobs : k = j \/ k \in u.jobs
      BY <1>6
    <3>3. \A p : p \in TasksFor(u, j.id) => p \in TasksFor(s, j.id) /\ p \notin j.paths
      BY <1>6, <3>1 DEF TasksFor
    <3>4. \A p : p \in TasksFor(s, j.id) /\ p \notin j.paths => p \in TasksFor(u, j.id)
      BY <3>2 DEF TasksFor
    <3>5. QED
      BY <3>3, <3>4
  <2>4. \A b \in u.serving : (IF b.id = j.id THEN b.left \ j.paths ELSE b.left) = TasksFor(u, b.id)
    BY <1>2, <1>6, <2>2, <2>3 DEF Works
  <2>5. QED
    BY <2>1, <2>4 DEF Owes
<1>9. Proper(d, s, RecordCompletion(Effect(u), j.id, j.paths, ok, TRUE), in)
  BY <1>2, <1>3, <1>6, <1>7, <1>8, ProperRecord
<1>10. QED
  BY <1>1, <1>2, <1>9, ProperCommits DEF u, s, in

(* A batch comes in that is not served: its tasks are all its own.         *)
LEMMA GrantingOwes ==
    ASSUME NEW s \in Sessions, IsSyncing(s), Works(s), NEW id \in BatchId, id \notin Served(s),
           NEW tasks \in Tasks(id, Granted(s, id))
    PROVE  Owes(Granting(s, id, tasks), id, PathsOf(id) \ Granted(s, id))
<1> DEFINE t == Granting(s, id, tasks)
           new == {j \in tasks : j.paths # {}}
           granted == Granted(s, id)
           b == NewBatch(id)
<1>1. /\ IsSyncing(t) /\ t.serving = s.serving \cup {b} /\ t.jobs = s.jobs \cup new
  BY GrantingGood
<1>2. b.id = id /\ b.left = PathsOf(id) /\ granted \subseteq PathsOf(id)
  BY DEF NewBatch, Granted
<1>3. /\ \A j \in new : j.id = id /\ j.paths # {}
      /\ \A j, k \in new : j # k => j.paths \cap k.paths = {}
      /\ UNION {j.paths : j \in new} = granted
  <2>1. tasks \in {{[id |-> id, paths |-> S] : S \in split} : split \in {{granted}, {{p} : p \in granted}}}
    BY DEF Tasks
  <2> HIDE DEF granted
  <2>2. PICK split \in {{granted}, {{p} : p \in granted}} : tasks = {[id |-> id, paths |-> S] : S \in split}
    BY <2>1
  <2>3. /\ \A S, T \in split : S # T => S \cap T = {}
        /\ UNION split = granted
    BY <2>2
  <2>4. \A j \in tasks : j = [id |-> id, paths |-> j.paths] /\ j.id = id /\ j.paths \in split
    BY <2>2
  <2>5. ASSUME NEW S \in split, S # {} PROVE \E j \in new : j.paths = S
    <3>1. [id |-> id, paths |-> S] \in tasks /\ [id |-> id, paths |-> S].paths = S
      BY <2>2
    <3>2. [id |-> id, paths |-> S] \in new
      BY <2>5, <3>1
    <3>3. QED
      BY <3>1, <3>2
  <2>6. \A j, k \in new : j # k => j.paths \cap k.paths = {}
    BY <2>3, <2>4
  <2>7. \A p : p \in UNION {j.paths : j \in new} => p \in granted
    BY <2>3, <2>4
  <2>8. \A p : p \in granted => p \in UNION {j.paths : j \in new}
    BY <2>3, <2>5
  <2>9. QED
    BY <2>4, <2>6, <2>7, <2>8
<1> HIDE DEF t, new, granted, b
<1>4. \A x \in s.serving : x.id # id
  BY DEF Served
<1>5. \A j \in s.jobs : j.id \in Served(s) /\ j.id # id
  BY DEF Works, Sound
<1>6. Served(t) = Served(s) \cup {id}
  BY <1>1, <1>2 DEF Served
<1>7. \A x, y \in t.serving : x.id = y.id => x = y
  BY <1>1, <1>2, <1>4 DEF Works, Sound
<1>8. \A j \in t.jobs : j.paths # {} /\ j.id \in Served(t)
  BY <1>1, <1>3, <1>6 DEF Works, Sound
<1>9. \A j, k \in t.jobs : j.id = k.id /\ j # k => j.paths \cap k.paths = {}
  BY <1>1, <1>3, <1>5 DEF Works, Sound
<1>10. Sound(t)
  BY <1>1, <1>7, <1>8, <1>9 DEF Sound
<1>11. TasksFor(t, id) = granted
  <2>1. {k \in t.jobs : k.id = id} = new
    BY <1>1, <1>3, <1>5
  <2>2. QED
    BY <1>3, <2>1 DEF TasksFor
<1>12. ASSUME NEW x, x # id PROVE TasksFor(t, x) = TasksFor(s, x)
  <2>1. {k \in t.jobs : k.id = x} = {k \in s.jobs : k.id = x}
    BY <1>1, <1>3, <1>12
  <2>2. QED
    BY <2>1 DEF TasksFor
<1>13. \A x \in t.serving :
          (IF x.id = id THEN x.left \ (PathsOf(id) \ granted) ELSE x.left) = TasksFor(t, x.id)
  <2>1. PathsOf(id) \ (PathsOf(id) \ granted) = granted
    BY <1>2
  <2>2. SUFFICES ASSUME NEW x \in t.serving
        PROVE (IF x.id = id THEN x.left \ (PathsOf(id) \ granted) ELSE x.left) = TasksFor(t, x.id)
    OBVIOUS
  <2>3. CASE x = b
    BY <1>2, <1>11, <2>1, <2>3
  <2>4. CASE x \in s.serving
    BY <1>4, <1>12, <2>4 DEF Works
  <2>5. QED
    BY <1>1, <2>3, <2>4
<1>14. QED
  BY <1>10, <1>13 DEF Owes, t, granted

(* The mark of a message that comes in with a batch's name.                *)
LEMMA TakenMark ==
    ASSUME Orderly, NEW d \in Device, net[d] # <<>>
    PROVE  /\ Head(net[d]).type = "request-batch" => Incoming(d, TRUE) = Asked(Head(net[d]).id)
           /\ Head(net[d]).type = "batch-complete" => Incoming(d, TRUE) = Told(Head(net[d]).id)
           /\ Marked(Head(net[d])) => Has(net[d], Incoming(d, TRUE))
<1>1. net[d] \in Seq(Messages)
  BY DEF Orderly, IInv
<1>2. Marked(Head(net[d])) => Has(net[d], Mark(Head(net[d])))
  BY <1>1, TailMarks
<1>3. QED
  BY <1>2 DEF Incoming, Marked, Mark, Asked, Told

LEMMA ReceiveBatchRequestOrderly ==
    ASSUME Orderly, NEW d \in Device, ReceiveBatchRequest(d)
    PROVE  Tokens' /\ AllWork'
<1> DEFINE s == sync[d]
           in == Incoming(d, TRUE)
           id == Head(net[d]).id
           t(tasks) == Granting(s, id, tasks)
           done(tasks) == RecordCompletion(Effect(t(tasks)), id,
                                           PathsOf(id) \ Granted(s, id), FALSE, FALSE)
<1>1. s \in Sessions /\ Works(s) /\ Good /\ Proper(d, s, Effect(s), in)
  BY OrderlySession
<1>2. /\ net[d] # <<>> /\ id \in BatchId /\ Head(net[d]).type = "request-batch"
      /\ IF ~IsSyncing(s) \/ s.phase = "REQUESTING" THEN Commit(d, Effect(s), TRUE)
         ELSE \E tasks \in Tasks(id, Granted(s, id)) : Commit(d, done(tasks), TRUE)
  BY <1>1, ReceiveBatchRequestIs
<1>3. UNCHANGED runs
  BY DEF ReceiveBatchRequest
<1>4. in = Asked(id) /\ Has(net[d], in)
  BY <1>2, TakenMark DEF Marked
<1>5. id \notin Served(s)
  <2>1. Tokens /\ Has(net[d], Asked(id)) /\ id \in BatchId
    BY <1>2, <1>4 DEF Orderly
  <2> HIDE DEF id
  <2>2. QED
    BY <2>1 DEF Tokens
<1>6. CASE ~IsSyncing(s) \/ s.phase = "REQUESTING"
  BY <1>1, <1>2, <1>3, <1>6, ProperCommits
<1>7. CASE ~(~IsSyncing(s) \/ s.phase = "REQUESTING")
  <2>1. PICK tasks \in Tasks(id, Granted(s, id)) : Commit(d, done(tasks), TRUE)
    BY <1>2, <1>7
  <2>2. PathsOf(id) \ Granted(s, id) \in SUBSET Path
    BY <1>2 DEF BatchId, PathsOf
  <2> HIDE DEF id, s, in
  <2>3. /\ t(tasks) \in Sessions /\ t(tasks).run = s.run /\ t(tasks).pulls = s.pulls
        /\ t(tasks).serving = s.serving \cup {NewBatch(id)}
    BY <1>1, <1>2, <1>7, GrantingGood
  <2>4. Owes(t(tasks), id, PathsOf(id) \ Granted(s, id))
    BY <1>1, <1>2, <1>5, <1>7, GrantingOwes
  <2> HIDE DEF t
  <2>5. \A x \in BatchId : x \in Served(t(tasks)) => x \in Served(s) \/ in = Asked(x)
    BY <1>4, <2>3 DEF Served, NewBatch
  <2>6. Proper(d, s, done(tasks), in)
    BY <1>1, <1>2, <2>2, <2>3, <2>4, <2>5, ProperRecord
  <2> HIDE DEF done
  <2>7. QED
    BY <1>2, <1>3, <2>1, <2>6, ProperCommits DEF s, in
<1>8. QED
  BY <1>6, <1>7

LEMMA ReceiveBatchCompleteOrderly ==
    ASSUME Orderly, NEW d \in Device, ReceiveBatchComplete(d)
    PROVE  Tokens' /\ AllWork'
<1> DEFINE s == sync[d]
           in == Incoming(d, TRUE)
           m == Head(net[d])
           again == {p \in m.bad : MayRetry(s, p)}
           after == Failed(Received([s EXCEPT !.pulls = @ \ {m.id}], m.ok), again, m.bad \ again)
           t(w) == [after EXCEPT !.width = w]
<1>1. /\ Arrives(d, "batch-complete") /\ UNCHANGED runs
      /\ IF s.phase # "TRANSFERRING" \/ m.id \notin s.pulls THEN Commit(d, Effect(s), TRUE)
         ELSE \E w \in Widths(s, m) : \E e \in RequestNextBatch(d, Effect(t(w))) : Commit(d, e, TRUE)
  BY DEF ReceiveBatchComplete
<1>2. s \in Sessions /\ s \in Session /\ Works(s) /\ Good /\ Proper(d, s, Effect(s), in)
  BY OrderlySession
<1>3. net[d] # <<>> /\ m \in Messages /\ m \in Message /\ m.type = "batch-complete"
  BY <1>1, <1>2, HeadGood
<1>4. m.id \in BatchId /\ m.ok \in SUBSET Path /\ m.bad \in SUBSET Path /\ Whole(m.id, {}, m.ok, m.bad)
  BY <1>3 DEF Message, Messages
<1>5. in = Told(m.id)
  BY <1>3, TakenMark
<1>6. CASE s.phase # "TRANSFERRING" \/ m.id \notin s.pulls
  BY <1>1, <1>2, <1>3, <1>6, ProperCommits
<1>7. CASE ~(s.phase # "TRANSFERRING" \/ m.id \notin s.pulls)
  <2>1. PICK w \in Widths(s, m) : \E e \in RequestNextBatch(d, Effect(t(w))) : Commit(d, e, TRUE)
    BY <1>1, <1>7
  <2>2. IsSyncing(s) /\ w \in 1 .. MaxWidth
    BY <1>2, <1>7, WidthsFit DEF IsSyncing
  <2> DEFINE u == t(w)
  <2>3. /\ u \in Sessions
        /\ u.phase = s.phase /\ u.run = s.run /\ u.pulls = s.pulls \ {m.id}
        /\ u.serving = s.serving /\ u.jobs = s.jobs
    <3>1. s \in Sessions /\ IsSyncing(s) /\ w \in 1 .. MaxWidth
      BY <1>2, <2>2
    <3> HIDE DEF m, s
    <3>2. QED
      BY <1>4, <3>1, SettlingGood
  <2> HIDE DEF t, u, in
  <2>4. Works(u) /\ Served(u) = Served(s)
    BY <1>2, <2>3, WorksSame DEF IsSyncing
  <2>5. Proper(d, s, Effect(u), in)
    <3>1. \A x \in BatchId : x \in s.pulls => x \in u.pulls \/ in = Told(x)
      BY <1>5, <2>3
    <3> HIDE DEF s
    <3>2. QED
      BY <1>2, <2>3, <2>4, <3>1, ProperBase
  <2>6. PICK e \in RequestNextBatch(d, Effect(u)) : Commit(d, e, TRUE)
    BY <2>1 DEF u
  <2>7. Proper(d, s, e, in)
    BY <1>2, <2>5, ProperNext
  <2>8. QED
    BY <1>1, <1>3, <2>6, <2>7, ProperCommits DEF in
<1>8. QED
  BY <1>6, <1>7

LEMMA ReceiveCompleteOrderly ==
    ASSUME Orderly, NEW d \in Device, ReceiveComplete(d)
    PROVE  Tokens' /\ AllWork'
<1> DEFINE s == sync[d]
           in == Incoming(d, TRUE)
           ack == [type |-> "sync-ack", of |-> "full-sync-complete", run |-> Head(net[d]).run]
           acked == Sending(Effect(s), s, ack)
           heard == [acked EXCEPT !.s.peerDone = TRUE, !.s.allowed = {}]
<1>1. /\ Arrives(d, "full-sync-complete") /\ UNCHANGED runs
      /\ Commit(d, IF ~IsSyncing(s) THEN acked ELSE CheckCompletion(heard), TRUE)
  BY DEF ReceiveComplete
<1>2. s \in Sessions /\ Works(s) /\ Good /\ Proper(d, s, Effect(s), in)
  BY OrderlySession
<1>3. net[d] # <<>> /\ Head(net[d]) \in Message /\ Head(net[d]).type = "full-sync-complete"
  BY <1>1, <1>2, HeadGood
<1>4. ack \in Messages /\ ~Marked(ack)
  BY <1>3 DEF Message, Messages, Marked
<1>5. Proper(d, s, acked, in)
  <2>1. Effect(s).s = s
    BY DEF Effect
  <2> HIDE DEF ack, s, in
  <2>2. QED
    BY <1>2, <1>4, <2>1, ProperSay
<1> HIDE DEF acked, s, in
<1>6. Proper(d, s, heard, in)
  <2>1. acked \in Effects /\ Works(acked.s)
    BY <1>5 DEF Proper
  <2>2. /\ heard \in Effects /\ heard.out = acked.out
        /\ heard.s.phase = acked.s.phase /\ heard.s.run = acked.s.run
        /\ heard.s.pulls = acked.s.pulls
        /\ heard.s.serving = acked.s.serving /\ heard.s.jobs = acked.s.jobs
    BY <2>1, Hearing
  <2> HIDE DEF heard
  <2>3. Works(heard.s) /\ Served(heard.s) = Served(acked.s)
    BY <2>1, <2>2, WorksSame DEF IsSyncing
  <2>4. QED
    BY <1>2, <1>5, <2>2, <2>3, ProperSame
<1> HIDE DEF heard
<1>7. Proper(d, s, CheckCompletion(heard), in)
  BY <1>2, <1>6, ProperCheck
<1>8. PICK e : Commit(d, e, TRUE) /\ Proper(d, s, e, in)
  BY <1>1, <1>5, <1>7
<1>9. QED
  BY <1>1, <1>3, <1>8, ProperCommits DEF s, in

LEMMA CompleteAcknowledgedOrderly ==
    ASSUME Orderly, NEW d \in Device, CompleteAcknowledged(d)
    PROVE  Tokens' /\ AllWork'
<1> DEFINE s == sync[d]
           in == Incoming(d, TRUE)
           run == Head(net[d]).run
           t == [s EXCEPT !.unacked = @ \ {run}, !.delivered = TRUE]
<1>1. /\ Arrives(d, "sync-ack") /\ UNCHANGED runs
      /\ Commit(d, IF run \notin s.unacked THEN Effect(s) ELSE CheckCompletion(Effect(t)), TRUE)
  BY DEF CompleteAcknowledged
<1>2. net[d] # <<>> /\ s \in Session /\ s \in Sessions /\ Works(s) /\ Proper(d, s, Effect(s), in)
  BY <1>1, OrderlySession DEF Arrives
<1>3. t \in Session
  BY <1>2 DEF Session
<1>4. /\ t.phase = s.phase /\ t.run = s.run /\ t.pending = s.pending
      /\ t.ahead = s.ahead /\ t.pulls = s.pulls /\ t.serving = s.serving /\ t.jobs = s.jobs
  BY <1>2 DEF Session
<1> HIDE DEF t, s, in
<1>5. t \in Sessions
  BY <1>2, <1>3, <1>4, SameWork
<1>6. Proper(d, s, Effect(t), in)
  BY <1>2, <1>4, <1>5, ProperStart DEF IsSyncing
<1>7. Proper(d, s, CheckCompletion(Effect(t)), in)
  BY <1>2, <1>6, ProperCheck
<1>8. PICK e : Commit(d, e, TRUE) /\ Proper(d, s, e, in)
  BY <1>1, <1>2, <1>7
<1>9. QED
  BY <1>1, <1>2, <1>8, ProperCommits DEF s, in

(* A sync begun has no batch yet, and its number is new.                   *)
LEMMA BegunWorks ==
    ASSUME NEW s \in Sessions, ~IsSyncing(s), Works(s), NEW phase, NEW r
    PROVE  LET t == Begun(s, phase, r)
           IN  /\ t.serving = {} /\ t.jobs = {} /\ t.run = r /\ t.pulls = {}
               /\ Works(t) /\ Served(t) = {}
<1> DEFINE t == Begun(s, phase, r)
<1>1. s.serving = {} /\ s.jobs = {}
  BY NoTaskWithoutBatch DEF Works, Sound
<1>2. t.serving = {} /\ t.jobs = {} /\ t.run = r /\ t.pulls = {}
  BY <1>1 DEF Sessions, Session, Begun
<1> HIDE DEF t
<1>3. Works(t) /\ Served(t) = {}
  BY <1>2, Workless
<1>4. QED
  BY <1>2, <1>3 DEF t

LEMMA RequestFullSyncOrderly ==
    ASSUME Orderly, NEW d \in Device, RequestFullSync(d)
    PROVE  Tokens' /\ AllWork'
<1> DEFINE s == sync[d]
           m == [type |-> "request-full-sync", run |-> runs']
           t == Begun(s, "REQUESTING", runs')
           e == Sending(Effect(s), t, m)
           in == Incoming(d, FALSE)
<1>1. IInv /\ Tokens /\ AllWork /\ s \in Sessions /\ s \in Session /\ Works(s)
  BY OrderlySession DEF Orderly
<1>2. ~IsSyncing(s) /\ runs \in Nat /\ runs' = runs + 1 /\ runs' \in Run /\ Commit(d, e, FALSE)
  <2>1. ~IsSyncing(s) /\ runs < MaxRuns /\ runs' = runs + 1 /\ Commit(d, e, FALSE)
    BY DEF RequestFullSync
  <2>2. runs \in 0 .. MaxRuns /\ MaxRuns \in Nat
    BY <1>1, FullSyncAssumption DEF IInv
  <2> HIDE DEF s, t, m, e
  <2>3. runs \in Nat /\ runs' \in Run
    BY <2>1, <2>2 DEF Run
  <2>4. QED
    BY <2>1, <2>3
<1>3. m \in Messages /\ Marked(m) /\ Mark(m) = Start(runs')
  BY <1>2 DEF Messages, Message, Marked, Mark, Start
<1>4. t \in Sessions
  BY <1>1, <1>2, BegunGood DEF Phases
<1>5. t.run = runs' /\ Works(t) /\ Served(t) = {}
  BY <1>1, <1>2, BegunWorks
<1>6. s.run <= runs
  BY <1>1 DEF Tokens
<1>7. e \in Effects /\ e.s = t /\ e.out = Append(<<>>, m)
  <2> HIDE DEF t, m, s
  <2>1. Effect(s) \in Effects /\ Effect(s).out = <<>>
    BY <1>1, EffectGood DEF Effect
  <2>2. QED
    BY <1>3, <1>4, <2>1, SendingGood DEF Sending
<1> HIDE DEF t, m, e
<1>8. Once(e.out) /\ \A mark : Has(e.out, mark) <=> mark = Start(runs')
  <2>1. <<>> \in Seq(Messages)
    OBVIOUS
  <2>2. /\ \A mark : Has(Append(<<>>, m), mark) <=> Has(<<>>, mark) \/ (Marked(m) /\ mark = Mark(m))
        /\ Once(<<>>) /\ (Marked(m) => ~Has(<<>>, Mark(m))) => Once(Append(<<>>, m))
    BY <1>3, <2>1, AppendedMarks
  <2>3. QED
    BY <1>3, <1>7, <2>2, NothingSaid
<1>9. e.s.run # s.run
  BY <1>1, <1>2, <1>5, <1>6, <1>7 DEF Session, Run
<1>10. Tidy(s, d, e, in)
  <2>1. \A x : ~Has(e.out, Asked(x)) /\ ~Has(e.out, Told(x))
    BY <1>8, MarksDiffer
  <2>2. QED
    BY <1>5, <1>7, <1>8, <1>9, <2>1 DEF Tidy
<1>11. \A r \in Run : Has(e.out, Start(r)) => r > runs /\ r <= runs'
  <2>1. \A r \in Run : Has(e.out, Start(r)) => r = runs'
    BY <1>8, MarksDiffer
  <2>2. QED
    BY <1>2, <2>1
<1>12. e.s.run > runs /\ e.s.run <= runs' /\ runs' \in Nat /\ runs <= runs'
  BY <1>2, <1>5, <1>7
<1>13. Tokens'
  BY <1>1, <1>2, <1>7, <1>10, <1>11, <1>12, TokensKept
<1>14. QED
  BY <1>1, <1>2, <1>5, <1>7, <1>13, WorkCommits

LEMMA ReceiveRequestOrderly ==
    ASSUME Orderly, NEW d \in Device, ReceiveRequest(d)
    PROVE  Tokens' /\ AllWork'
<1> DEFINE s == sync[d]
           in == Incoming(d, TRUE)
           r == Head(net[d]).run
           plan == [at |-> "plan", run |-> 0, pull |-> {}, serve |-> {}, delete |-> {}]
           begun == Begun(s, "PLANNING", r)
           t == [begun EXCEPT !.waiting = @ \cup {plan}]
           m == [type |-> "sync-busy"]
           busy == Sending(Effect(s), s, m)
<1>1. /\ Arrives(d, "request-full-sync") /\ UNCHANGED runs
      /\ Commit(d, IF IsSyncing(s) THEN busy ELSE Effect(t), TRUE)
  BY DEF ReceiveRequest
<1>2. IInv /\ Tokens /\ AllWork /\ Good /\ s \in Sessions /\ s \in Session /\ Works(s)
      /\ Proper(d, s, Effect(s), in)
  BY OrderlySession DEF Orderly
<1>3. net[d] # <<>> /\ Head(net[d]) \in Message /\ Head(net[d]).type = "request-full-sync"
  BY <1>1, <1>2, HeadGood
<1>4. r \in Run
  BY <1>3 DEF Message
<1>5. CASE IsSyncing(s)
  <2>1. m \in Messages /\ ~Marked(m) /\ Effect(s).s = s
    BY DEF Messages, Message, Marked, Effect
  <2> HIDE DEF m, s, in
  <2>2. Proper(d, s, busy, in)
    BY <1>2, <2>1, ProperSay
  <2>3. Commit(d, busy, TRUE)
    BY <1>1, <1>5
  <2>4. QED
    BY <1>1, <1>3, <2>2, <2>3, ProperCommits DEF s, in
<1>6. CASE ~IsSyncing(s)
  <2>1. begun \in Sessions /\ begun.serving = {} /\ begun.jobs = {} /\ begun.run = r
    BY <1>2, <1>4, <1>6, BegunGood, BegunWorks DEF Phases
  <2>2. plan \in Continuation
    BY DEF Continuation
  <2> HIDE DEF begun, plan
  <2>3. begun \in Session /\ begun.waiting \cup {plan} \in SUBSET Continuation
    BY <2>1, <2>2 DEF Sessions, Session
  <2>4. t \in Sessions
    BY <2>1, <2>3, WaitGood
  <2>5. t.serving = {} /\ t.jobs = {} /\ t.run = r
    BY <2>1, <2>3 DEF Session
  <2> DEFINE e == Effect(t)
  <2>6. e \in Effects /\ e.s = t /\ e.out = <<>>
    BY <2>4, EffectGood DEF Effect
  <2>7. Commit(d, e, TRUE)
    BY <1>1, <1>6
  <2> HIDE DEF t, e
  <2>8. Works(t) /\ Served(t) = {}
    BY <2>5, Workless
  <2>9. in = Start(r) /\ Has(net[d], Start(r))
    BY <1>3, TakenMark DEF Incoming, Marked, Mark, Start
  <2>10. e.s.run # s.run
    BY <1>2, <1>4, <2>5, <2>6, <2>9 DEF Tokens
  <2>11. Tidy(s, d, e, in)
    BY <2>6, <2>8, <2>10, NothingSaid DEF Tidy
  <2>12. runs' \in Nat /\ runs <= runs' /\ \A x \in Run : ~Has(e.out, Start(x))
    BY <1>1, <1>2, <2>6, NothingSaid, FullSyncAssumption DEF IInv
  <2>13. Tokens'
    <3>1. in = Start(e.s.run) /\ e.s.run \in Run
      BY <1>4, <2>5, <2>6, <2>9
    <3>2. QED
      BY <1>2, <1>3, <2>6, <2>7, <2>11, <2>12, <3>1, TokensKept
  <2>14. QED
    BY <1>2, <2>6, <2>7, <2>8, <2>13, WorkCommits
<1>7. QED
  BY <1>5, <1>6

LEMMA NextOrderly ==
    ASSUME Orderly, [Next]_vars
    PROVE  Orderly'
<1>1. IInv'
  BY NextKeeps DEF Orderly
<1>2. Tokens' /\ AllWork'
  <2>1. CASE UNCHANGED vars
    <3>1. Tokens /\ AllWork
      BY DEF Orderly
    <3>2. QED
      BY <2>1, <3>1 DEF vars, Tokens, AllWork, Known
  <2>2. CASE Next
    <3>1. PICK d \in Device : \/ RequestFullSync(d)
                              \/ SendPlan(d)
                              \/ DeletionsDone(d)
                              \/ Receive(d)
                              \/ TaskDone(d)
                              \/ Abort(d)
      BY <2>2 DEF Next
    <3>2. CASE Receive(d)
      BY <3>2, ReceiveRequestOrderly, PlanAcknowledgedOrderly, AbortOrderly, ReceivePlanOrderly,
         ReceiveBatchRequestOrderly, ReceiveBatchCompleteOrderly, ReceiveCompleteOrderly,
         CompleteAcknowledgedOrderly DEF Receive
    <3>3. QED
      BY <3>1, <3>2, RequestFullSyncOrderly, SendPlanOrderly, DeletionsDoneOrderly,
         TaskDoneOrderly, AbortOrderly
  <2>3. QED
    BY <2>1, <2>2
<1>3. QED
  BY <1>1, <1>2 DEF Orderly

LEMMA InitOrderly == Init => Orderly
<1> SUFFICES ASSUME Init PROVE Orderly
  OBVIOUS
<1>1. IInv
  BY InitHolds
<1>2. ASSUME NEW d \in Device
      PROVE  net[d] = <<>> /\ sync[d].run = 0 /\ sync[d].serving = {} /\ sync[d].jobs = {} /\ runs = 0
  BY DEF Init
<1>3. \A d \in Device : Works(sync[d]) /\ Served(sync[d]) = {}
  BY <1>2, Workless
<1>4. Tokens
  BY <1>2, <1>3, NothingSaid DEF Tokens
<1>5. QED
  BY <1>1, <1>3, <1>4 DEF Orderly, AllWork

(* A batch being served has a task in the queue for each path it still has *)
(* to account for, and for no other: it never waits for word that nothing  *)
(* will give.                                                              *)
THEOREM BatchesHaveTasks == Spec => []BatchesAreWorkedOn
<1>1. Orderly /\ [Next]_vars => Orderly'
  BY NextOrderly
<1>2. Orderly => BatchesAreWorkedOn
  BY DEF Orderly, AllWork, Works, TasksFor, BatchesAreWorkedOn
<1>3. QED
  BY <1>1, <1>2, InitOrderly, PTL DEF Spec
=============================================================================
