------------------------ MODULE QueueManagerProofs -------------------------
(* Proofs about the send queue: its type invariant, that no dedup slot     *)
(* outlives its item, and that no edit is stranded, for every set of peers *)
(* and tasks, every retry limit and every concurrency limit.               *)
EXTENDS QueueManager, TLAPS

USE QueueAssumption

(* What processQueue does, whatever it pops: popped items leave the heap,  *)
(* free their slots and run in the current epoch.                          *)
LEMMA ProcessQueuePops ==
    ASSUME NEW h, NEW s, NEW r, ProcessQueue(h, s, r)
    PROVE  \E popped \in SUBSET h :
             /\ heap' = h \ popped
             /\ slots' = s \ TasksOf(popped)
             /\ inFlight' = r \cup {[item |-> Read(i), epoch |-> epoch'] : i \in popped}
             /\ disposed' => popped = {}
<1> DEFINE popped == IF paused' \/ disposed' THEN {} ELSE Popped(h, Room(r))
<1>1. popped \in SUBSET h
  BY DEF Popped
<1>2. /\ heap' = h \ popped
      /\ slots' = s \ TasksOf(popped)
      /\ inFlight' = r \cup {[item |-> Read(i), epoch |-> epoch'] : i \in popped}
  BY DEF ProcessQueue, FreedSlots
<1>3. disposed' => popped = {}
  OBVIOUS
<1> HIDE DEF popped
<1>4. QED
  BY <1>1, <1>2, <1>3

(* An item that starts reads a version that exists, and the newest one if  *)
(* it was current.                                                         *)
LEMMA ReadReads ==
    ASSUME NEW i \in Item, edited' \in [Task -> Nat], i.ver <= edited'[i.task]
    PROVE  /\ Read(i) \in Item
           /\ Read(i).task = i.task
           /\ Read(i).ver <= edited'[i.task]
           /\ \A t : Current(i, t)' => Read(i).ver = edited'[t]
<1>1. /\ Read(i).task = i.task
      /\ Read(i).ver = IF i.ver = 0 \/ i.task \in Rebuilt THEN edited'[i.task] ELSE i.ver
      /\ Read(i) \in Item
  BY DEF Read, Item
<1>2. edited'[i.task] \in Nat
  BY DEF Item
<1>3. QED
  BY <1>1, <1>2 DEF Current

(* Whatever the heap, the slots and the running items were, processQueue   *)
(* keeps them well formed, and what carried a newest edit still does.      *)
LEMMA ProcessQueueKeeps ==
    ASSUME NEW h \in SUBSET Item, NEW s \in SUBSET TasksOf(h), NEW r \in SUBSET Running,
           edited' \in [Task -> Nat], epoch' \in Nat,
           \A i \in h : i.ver <= edited'[i.task],
           ProcessQueue(h, s, r)
    PROVE  /\ heap' \subseteq h
           /\ slots' \subseteq TasksOf(heap')
           /\ r \subseteq inFlight'
           /\ inFlight' \subseteq Running
           /\ \A x \in inFlight' : x \in r \/ (/\ x.epoch = epoch'
                                               /\ x.item.ver <= edited'[x.item.task])
           /\ \A t : (\E i \in h : Current(i, t)') =>
                \/ \E i \in heap' : Current(i, t)'
                \/ /\ ~disposed'
                   /\ \E x \in inFlight' : x.item.task = t /\ x.item.ver = edited'[t]
<1>1. PICK popped \in SUBSET h :
             /\ heap' = h \ popped
             /\ slots' = s \ TasksOf(popped)
             /\ inFlight' = r \cup {[item |-> Read(i), epoch |-> epoch'] : i \in popped}
             /\ disposed' => popped = {}
  BY ProcessQueuePops
<1>2. heap' \subseteq h /\ r \subseteq inFlight'
  BY <1>1
<1>3. slots' \subseteq TasksOf(heap')
  BY <1>1 DEF TasksOf
<1>4. ASSUME NEW i \in popped
      PROVE  LET x == [item |-> Read(i), epoch |-> epoch']
             IN  /\ x \in Running
                 /\ x.epoch = epoch'
                 /\ x.item.ver <= edited'[x.item.task]
                 /\ \A t : Current(i, t)' => x.item.task = t /\ x.item.ver = edited'[t]
  <2>1. i \in Item /\ i.ver <= edited'[i.task]
    BY <1>1
  <2>2. /\ Read(i) \in Item
        /\ Read(i).task = i.task
        /\ Read(i).ver <= edited'[i.task]
        /\ \A t : Current(i, t)' => Read(i).ver = edited'[t]
    BY <2>1, ReadReads
  <2>3. QED
    BY <2>2 DEF Running, Current
<1>5. inFlight' \subseteq Running
  BY <1>1, <1>4
<1>6. \A x \in inFlight' : x \in r \/ (/\ x.epoch = epoch'
                                       /\ x.item.ver <= edited'[x.item.task])
  BY <1>1, <1>4
<1>7. ASSUME NEW t, NEW i \in h, Current(i, t)'
      PROVE  \/ \E j \in heap' : Current(j, t)'
             \/ /\ ~disposed'
                /\ \E x \in inFlight' : x.item.task = t /\ x.item.ver = edited'[t]
  <2>1. CASE i \in popped
    <3>1. [item |-> Read(i), epoch |-> epoch'] \in inFlight'
      BY <1>1, <2>1
    <3>2. ~disposed'
      BY <1>1, <2>1
    <3>3. QED
      BY <1>4, <1>7, <2>1, <3>1, <3>2
  <2>2. CASE i \notin popped
    BY <1>1, <1>7, <2>2
  <2>3. QED
    BY <2>1, <2>2
<1>8. QED
  BY <1>2, <1>3, <1>5, <1>6, <1>7

-----------------------------------------------------------------------------

(* Where a step stands before it calls processQueue, or returns without    *)
(* calling it: heap h, slots s and running items r satisfy, with the other *)
(* variables' new values, what the invariant asks of them.                 *)
ReadyTypes(h, s, r) ==
    /\ h \subseteq Item /\ s \subseteq TasksOf(h) /\ r \subseteq Running
    /\ timers' \subseteq Running /\ retrying' \subseteq Running /\ saved' \subseteq Item
    /\ epoch' \in Nat /\ seqCounter' \in Nat /\ limit' \in Limits
    /\ paused' \in BOOLEAN /\ disposed' \in BOOLEAN
    /\ edited' \in [Task -> Nat] /\ sent' \in [Task -> Nat]
    /\ excuse' \in [Task -> Excuses]

ReadyItems(h, r) ==
    /\ \A i \in h : i.ver <= edited'[i.task]
    /\ \A x \in r \cup timers' : x.item.ver <= edited'[x.item.task] /\ x.epoch <= epoch'
    /\ \A m \in timers' : m.epoch = epoch' => m \in retrying'
    /\ \A i \in saved' : i.ver = 0
    /\ disposed' => h = {} /\ timers' = {}

ReadyAborts(r) ==
    \A x \in r : x.epoch # epoch' /\ x.item.ver = edited'[x.item.task] /\ ~disposed'
        => excuse'[x.item.task] # "none"

ReadyCarried(h, r) ==
    \A t \in Task : edited'[t] > sent'[t] =>
        \/ excuse'[t] # "none"
        \/ \E i \in h : Current(i, t)'
        \/ \E x \in r : ~disposed' /\ x.item.task = t /\ x.item.ver = edited'[t]
        \/ \E m \in timers' : Current(m.item, t)' /\ m.epoch = epoch'
        \/ disposed' /\ \E i \in saved' : i.task = t

Moves(h, s, r) == ProcessQueue(h, s, r) \/ (heap' = h /\ slots' = s /\ inFlight' = r)

(* A step that is ready, with or without processQueue, keeps the invariant.*)
LEMMA ReadyMoves ==
    ASSUME NEW h, NEW s, NEW r,
           ReadyTypes(h, s, r), ReadyItems(h, r), ReadyAborts(r), ReadyCarried(h, r),
           Moves(h, s, r)
    PROVE  IInv'
<1>1. /\ heap' \subseteq h
      /\ slots' \subseteq TasksOf(heap')
      /\ r \subseteq inFlight'
      /\ inFlight' \subseteq Running
      /\ \A x \in inFlight' : x \in r \/ (/\ x.epoch = epoch'
                                          /\ x.item.ver <= edited'[x.item.task])
      /\ \A t : (\E i \in h : Current(i, t)') =>
           \/ \E i \in heap' : Current(i, t)'
           \/ /\ ~disposed'
              /\ \E x \in inFlight' : x.item.task = t /\ x.item.ver = edited'[t]
  <2>1. CASE ProcessQueue(h, s, r)
    <3>1. /\ h \in SUBSET Item /\ s \in SUBSET TasksOf(h) /\ r \in SUBSET Running
          /\ edited' \in [Task -> Nat] /\ epoch' \in Nat
          /\ \A i \in h : i.ver <= edited'[i.task]
      BY DEF ReadyTypes, ReadyItems
    <3>2. QED
      BY <2>1, <3>1, ProcessQueueKeeps
  <2>2. CASE heap' = h /\ slots' = s /\ inFlight' = r
    BY <2>2 DEF ReadyTypes
  <2>3. QED
    BY <2>1, <2>2 DEF Moves
<1>2. TypeOK'
  <2>1. slots' \subseteq Task
    BY <1>1 DEF ReadyTypes, TasksOf, Item
  <2>2. QED
    BY <1>1, <2>1 DEF TypeOK, ReadyTypes
<1>3. NoWall'
  BY <1>1 DEF NoWall, TasksOf
<1>4. ReadsExist' /\ EpochsPast'
  <2>1. \A x \in inFlight' : x.item.ver <= edited'[x.item.task] /\ x.epoch <= epoch'
    BY <1>1 DEF ReadyItems, ReadyTypes
  <2>2. QED
    BY <1>1, <2>1 DEF ReadyItems, ReadsExist, EpochsPast, Active
<1>5. ParkedReported' /\ SavedUnread' /\ DisposedIdle'
  BY <1>1 DEF ReadyItems, ParkedReported, SavedUnread, DisposedIdle
<1>6. AbortsExcuse'
  BY <1>1 DEF ReadyAborts, AbortsExcuse
<1>7. NoEditStranded'
  <2>1. SUFFICES ASSUME NEW t \in Task, edited'[t] > sent'[t], excuse'[t] = "none"
                 PROVE  Carried(t)'
    BY DEF ReadyTypes, Excuses, NoEditStranded, StrandedOnlyBy
  <2>2. \/ \E i \in h : Current(i, t)'
        \/ \E x \in r : ~disposed' /\ x.item.task = t /\ x.item.ver = edited'[t]
        \/ \E m \in timers' : Current(m.item, t)' /\ m.epoch = epoch'
        \/ disposed' /\ \E i \in saved' : i.task = t
    BY <2>1 DEF ReadyCarried
  <2>3. CASE \E i \in h : Current(i, t)'
    BY <1>1, <2>3 DEF Carried
  <2>4. QED
    BY <1>1, <2>2, <2>3 DEF Carried
<1>8. QED
  BY <1>2, <1>3, <1>4, <1>5, <1>6, <1>7 DEF IInv

-----------------------------------------------------------------------------

(* Facts every step uses.                                                  *)
LEMMA NoWallReleased ==
    ASSUME TypeOK, NoWall, NEW r \in Running
    PROVE  Release(r) \subseteq TasksOf(heap) /\ slots \subseteq TasksOf(heap)
BY DEF Release, NoWall

LEMMA AddKeeps ==
    ASSUME IInv, NEW t \in Task, Add(t)
    PROVE  IInv'
<1> DEFINE taken == t \in slots
           h == IF taken THEN heap ELSE heap \cup {Fresh(t)}
           s == IF taken THEN slots ELSE slots \cup {t}
<1>1. Fresh(t) \in Item /\ Fresh(t).task = t /\ Fresh(t).ver = 0
  BY DEF Fresh, Item, IInv, TypeOK
<1>2. /\ \A u \in Task : edited'[u] >= edited[u] /\ (u # t => edited'[u] = edited[u])
      /\ edited'[t] > edited[t]
      /\ edited' \in [Task -> Nat]
  BY DEF Add, IInv, TypeOK
<1>3. ReadyTypes(h, s, inFlight)
  <2>1. h \subseteq Item /\ s \subseteq TasksOf(h)
    BY <1>1 DEF IInv, TypeOK, NoWall, TasksOf
  <2>2. excuse' \in [Task -> Excuses]
    BY DEF Add, IInv, TypeOK, Excuses
  <2>3. seqCounter' \in Nat
    BY DEF Add, IInv, TypeOK
  <2>4. UNCHANGED <<timers, retrying, epoch, limit, paused, disposed, saved, sent>>
    BY DEF Add
  <2>5. QED
    BY <1>2, <2>1, <2>2, <2>3, <2>4 DEF IInv, TypeOK, ReadyTypes
<1>4. ReadyItems(h, inFlight)
  <2>1. \A i \in h : i.ver <= edited'[i.task]
    BY <1>1, <1>2 DEF IInv, TypeOK, ReadsExist, Item
  <2>2. \A x \in inFlight \cup timers :
           x.item.ver <= edited'[x.item.task] /\ x.epoch <= epoch'
    BY <1>2 DEF Add, IInv, TypeOK, ReadsExist, EpochsPast, Active, Running, Item
  <2>3. QED
    BY <2>1, <2>2 DEF Add, IInv, ParkedReported, SavedUnread, ReadyItems
<1>5. ReadyAborts(inFlight)
  <2>1. SUFFICES ASSUME NEW x \in inFlight, x.epoch # epoch,
                        x.item.ver = edited'[x.item.task], ~disposed
                 PROVE  excuse'[x.item.task] # "none"
    BY DEF Add, ReadyAborts
  <2>2. x.item.task \in Task /\ x.item.ver \in Nat /\ x.item.ver <= edited[x.item.task]
    BY DEF IInv, TypeOK, ReadsExist, Active, Running, Item
  <2>3. x.item.task # t
    BY <1>2, <2>1, <2>2 DEF IInv, TypeOK
  <2>4. QED
    BY <1>2, <2>1, <2>2, <2>3 DEF Add, IInv, TypeOK, AbortsExcuse
<1>6. ReadyCarried(h, inFlight)
  <2>1. SUFFICES ASSUME NEW u \in Task, edited'[u] > sent'[u], excuse'[u] = "none"
                 PROVE  \/ \E i \in h : Current(i, u)'
                        \/ \E x \in inFlight : /\ ~disposed' /\ x.item.task = u
                                               /\ x.item.ver = edited'[u]
                        \/ \E m \in timers' : Current(m.item, u)' /\ m.epoch = epoch'
                        \/ disposed' /\ \E i \in saved' : i.task = u
    BY DEF ReadyCarried
  <2>2. CASE u = t /\ ~taken
    BY <1>1, <2>2 DEF Current
  <2>3. CASE u = t /\ taken
    <3>1. \E i \in heap : i.task = t
      BY <2>3 DEF IInv, NoWall, TasksOf
    <3>2. ~HoldsOldPayload(t)
      BY <2>1, <2>3 DEF Add, IInv, TypeOK
    <3>3. \E i \in heap : i.task = t /\ (t \in Rebuilt \/ i.ver = 0)
      BY <2>3, <3>1, <3>2 DEF HoldsOldPayload
    <3>4. QED
      BY <2>3, <3>3 DEF Current
  <2>4. CASE u # t
    <3>1. edited[u] > sent[u] /\ excuse[u] = "none"
      BY <1>2, <2>1, <2>4 DEF Add, IInv, TypeOK
    <3>2. Carried(u) /\ ~disposed
      BY <3>1 DEF Add, IInv, NoEditStranded, StrandedOnlyBy
    <3>3. edited'[u] = edited[u]
      BY <1>2, <2>4
    <3>4. QED
      BY <3>2, <3>3 DEF Add, Carried, Current
  <2>5. QED
    BY <2>2, <2>3, <2>4
<1>7. Moves(h, s, inFlight)
  <2>1. CASE taken
    BY <1>1, <2>1 DEF Add, Enqueue, Moves
  <2>2. CASE ~taken
    BY <1>1, <2>2 DEF Add, Enqueue, Moves
  <2>3. QED
    BY <2>1, <2>2
<1> HIDE DEF h, s, taken
<1>8. QED
  BY <1>3, <1>4, <1>5, <1>6, <1>7, ReadyMoves

(* The processor finished with r, whatever the outcome: what the invariant *)
(* asks of the other running items still holds.                            *)
LEMMA SettledReady ==
    ASSUME IInv, NEW r \in inFlight,
           UNCHANGED <<epoch, seqCounter, limit, paused, disposed, saved, edited>>,
           excuse' \in [Task -> Excuses], sent' \in [Task -> Nat],
           timers' \subseteq Running, retrying' \subseteq Running,
           \A m \in timers' : m \notin timers =>
               m.epoch <= epoch /\ m.item.ver <= edited[m.item.task],
           \A m \in timers' : m.epoch = epoch => m \in retrying',
           disposed => timers' = {},
           \A u \in Task : excuse[u] # "none" => excuse'[u] # "none",
           NEW s \in SUBSET TasksOf(heap)
    PROVE  /\ ReadyTypes(heap, s, inFlight \ {r})
           /\ ReadyItems(heap, inFlight \ {r})
           /\ ReadyAborts(inFlight \ {r})
<1>1. ReadyTypes(heap, s, inFlight \ {r})
  BY DEF IInv, TypeOK, ReadyTypes
<1>2. ReadyItems(heap, inFlight \ {r})
  BY DEF IInv, ReadsExist, EpochsPast, SavedUnread, DisposedIdle, Active, ReadyItems
<1>3. ReadyAborts(inFlight \ {r})
  BY DEF IInv, TypeOK, AbortsExcuse, ReadyAborts, Running, Item
<1>4. QED
  BY <1>1, <1>2, <1>3

LEMMA SucceedKeeps ==
    ASSUME IInv, NEW r \in inFlight, Succeed(r)
    PROVE  IInv'
<1>1. /\ r \in Running /\ r.item.task \in Task /\ r.item.ver \in Nat
      /\ Release(r) \in SUBSET TasksOf(heap)
  BY NoWallReleased DEF IInv, TypeOK, Running, Item
<1>2. sent' \in [Task -> Nat]
  BY <1>1 DEF Succeed, Deliver, IInv, TypeOK
<1>3. /\ ReadyTypes(heap, Release(r), inFlight \ {r})
      /\ ReadyItems(heap, inFlight \ {r})
      /\ ReadyAborts(inFlight \ {r})
  <2>1. UNCHANGED <<timers, retrying, epoch, seqCounter, limit, paused, disposed,
                    saved, edited, excuse>>
    BY DEF Succeed
  <2>2. QED
    BY <1>1, <1>2, <2>1, SettledReady DEF IInv, TypeOK, ParkedReported, DisposedIdle
<1>4. ReadyCarried(heap, inFlight \ {r})
  <2>1. SUFFICES ASSUME NEW u \in Task, edited'[u] > sent'[u], excuse'[u] = "none"
                 PROVE  \/ \E i \in heap : Current(i, u)'
                        \/ \E x \in inFlight \ {r} : /\ ~disposed' /\ x.item.task = u
                                                     /\ x.item.ver = edited'[u]
                        \/ \E m \in timers' : Current(m.item, u)' /\ m.epoch = epoch'
                        \/ disposed' /\ \E i \in saved' : i.task = u
    BY DEF ReadyCarried
  <2>2. /\ sent'[u] >= sent[u]
        /\ u = r.item.task => sent'[u] >= r.item.ver
    BY <1>1 DEF Succeed, Deliver, IInv, TypeOK
  <2>3. edited[u] > sent[u] /\ excuse[u] = "none"
    BY <1>2, <2>1, <2>2 DEF Succeed, IInv, TypeOK
  <2>4. Carried(u)
    BY <2>3 DEF IInv, NoEditStranded, StrandedOnlyBy
  <2>5. ~(r.item.task = u /\ r.item.ver = edited[u])
    BY <1>1, <1>2, <2>1, <2>2 DEF Succeed, IInv, TypeOK
  <2>6. QED
    BY <2>4, <2>5 DEF Succeed, Carried, Current
<1>5. Moves(heap, Release(r), inFlight \ {r})
  BY DEF Succeed, Moves
<1>6. QED
  BY <1>3, <1>4, <1>5, ReadyMoves

LEMMA ParkKeeps ==
    ASSUME IInv, NEW r \in inFlight, Park(r)
    PROVE  IInv'
<1> DEFINE parked == [r EXCEPT !.item.retries = @ + 1]
<1>1. /\ r \in Running /\ r.item \in Item /\ r.item.task \in Task
      /\ r.epoch \in Nat /\ r.epoch <= epoch
      /\ r.item.ver \in Nat /\ r.item.ver <= edited[r.item.task]
      /\ r.item.retries \in 0 .. RetryLimit /\ r.item.retries < RetryLimit
  BY DEF Park, MayRetry, IInv, TypeOK, ReadsExist, EpochsPast, Active, Running, Item
<1>2. parked = [item |-> [task |-> r.item.task, retries |-> r.item.retries + 1,
                          seq |-> r.item.seq, ver |-> r.item.ver],
                epoch |-> r.epoch]
  BY <1>1 DEF Running, Item
<1>3. /\ parked \in Running
      /\ parked.epoch = r.epoch
      /\ parked.item.task = r.item.task
      /\ parked.item.ver = r.item.ver
  <2>1. r.item.retries + 1 \in 0 .. RetryLimit /\ r.item.seq \in Nat
    BY <1>1 DEF Item
  <2>2. QED
    BY <1>1, <1>2, <2>1 DEF Running, Item
<1>4. /\ timers' = timers \cup {parked}
      /\ retrying' = retrying \cup {parked}
      /\ UNCHANGED <<epoch, seqCounter, limit, paused, disposed, saved, edited, sent,
                     excuse>>
      /\ ProcessQueue(heap, slots, inFlight \ {r})
      /\ ~disposed
  BY DEF Park, MayRetry
<1> HIDE DEF parked
<1>5. slots \in SUBSET TasksOf(heap)
  BY DEF IInv, NoWall
<1>6. /\ ReadyTypes(heap, slots, inFlight \ {r})
      /\ ReadyItems(heap, inFlight \ {r})
      /\ ReadyAborts(inFlight \ {r})
  BY <1>1, <1>3, <1>4, <1>5, SettledReady DEF IInv, TypeOK, ParkedReported, DisposedIdle
<1>7. ReadyCarried(heap, inFlight \ {r})
  <2>1. SUFFICES ASSUME NEW u \in Task, edited[u] > sent[u], excuse[u] = "none"
                 PROVE  \/ \E i \in heap : Current(i, u)
                        \/ \E x \in inFlight \ {r} : /\ ~disposed /\ x.item.task = u
                                                     /\ x.item.ver = edited[u]
                        \/ \E m \in timers' : Current(m.item, u) /\ m.epoch = epoch
    BY <1>4 DEF ReadyCarried, Current
  <2>2. Carried(u)
    BY <2>1 DEF IInv, NoEditStranded, StrandedOnlyBy
  <2>3. CASE r.item.task = u /\ r.item.ver = edited[u]
    <3>1. r.epoch = epoch
      BY <1>4, <2>1, <2>3 DEF IInv, AbortsExcuse
    <3>2. QED
      BY <1>3, <1>4, <2>3, <3>1 DEF Current
  <2>4. CASE ~(r.item.task = u /\ r.item.ver = edited[u])
    BY <1>4, <2>2, <2>4 DEF Carried
  <2>5. QED
    BY <2>3, <2>4
<1>8. Moves(heap, slots, inFlight \ {r})
  BY <1>4 DEF Moves
<1>9. QED
  BY <1>6, <1>7, <1>8, ReadyMoves

LEMMA GiveUpKeeps ==
    ASSUME IInv, NEW r \in inFlight, GiveUp(r)
    PROVE  IInv'
<1>1. /\ r \in Running /\ r.item.task \in Task
      /\ Release(r) \in SUBSET TasksOf(heap)
  BY NoWallReleased DEF IInv, TypeOK, Running, Item
<1>2. /\ excuse' \in [Task -> Excuses]
      /\ \A u \in Task : excuse[u] # "none" => excuse'[u] # "none"
      /\ r.item.ver = edited[r.item.task] /\ ~disposed => excuse'[r.item.task] # "none"
  BY <1>1 DEF GiveUp, IInv, TypeOK, Excuses
<1>3. UNCHANGED <<timers, retrying, epoch, seqCounter, limit, paused, disposed, saved,
                  edited, sent>>
  BY DEF GiveUp
<1>4. /\ ReadyTypes(heap, Release(r), inFlight \ {r})
      /\ ReadyItems(heap, inFlight \ {r})
      /\ ReadyAborts(inFlight \ {r})
  BY <1>1, <1>2, <1>3, SettledReady DEF IInv, TypeOK, ParkedReported, DisposedIdle
<1>5. ReadyCarried(heap, inFlight \ {r})
  <2>1. SUFFICES ASSUME NEW u \in Task, edited[u] > sent[u], excuse'[u] = "none"
                 PROVE  \/ \E i \in heap : Current(i, u)
                        \/ \E x \in inFlight \ {r} : /\ ~disposed /\ x.item.task = u
                                                     /\ x.item.ver = edited[u]
                        \/ \E m \in timers : Current(m.item, u) /\ m.epoch = epoch
                        \/ disposed /\ \E i \in saved : i.task = u
    BY <1>3 DEF ReadyCarried, Current
  <2>2. Carried(u)
    BY <1>2, <2>1 DEF IInv, TypeOK, NoEditStranded, StrandedOnlyBy, Excuses
  <2>3. QED
    BY <1>2, <2>1, <2>2 DEF Carried
<1>6. Moves(heap, Release(r), inFlight \ {r})
  BY DEF GiveUp, Moves
<1>7. QED
  BY <1>4, <1>5, <1>6, ReadyMoves

LEMMA RetryFiresKeeps ==
    ASSUME IInv, NEW m \in timers, RetryFires(m)
    PROVE  IInv'
<1>1. /\ m \in Running /\ m.item \in Item /\ m.item.task \in Task
      /\ m.item.ver <= edited[m.item.task]
  BY DEF IInv, TypeOK, ReadsExist, Active, Running, Item
<1>2. /\ timers' = timers \ {m}
      /\ retrying' = retrying \ {m}
      /\ UNCHANGED <<epoch, seqCounter, limit, paused, disposed, saved, edited, sent,
                     excuse>>
  BY DEF RetryFires
<1>3. ASSUME NEW h, NEW s, heap \subseteq h, h \subseteq heap \cup {m.item},
             s \subseteq TasksOf(h), m.epoch = epoch => m.item \in h
      PROVE  /\ ReadyTypes(h, s, inFlight)
             /\ ReadyItems(h, inFlight)
             /\ ReadyAborts(inFlight)
             /\ ReadyCarried(h, inFlight)
  <2>1. ReadyTypes(h, s, inFlight)
    BY <1>1, <1>2, <1>3 DEF IInv, TypeOK, ReadyTypes
  <2>2. ReadyItems(h, inFlight)
    BY <1>1, <1>2, <1>3
       DEF IInv, ReadsExist, EpochsPast, ParkedReported, SavedUnread, DisposedIdle, Active, ReadyItems
  <2>3. ReadyAborts(inFlight)
    BY <1>2 DEF IInv, AbortsExcuse, ReadyAborts
  <2>4. ReadyCarried(h, inFlight)
    <3>1. SUFFICES ASSUME NEW u \in Task, edited[u] > sent[u], excuse[u] = "none"
                   PROVE  \/ \E i \in h : Current(i, u)
                          \/ \E x \in inFlight : /\ ~disposed /\ x.item.task = u
                                                 /\ x.item.ver = edited[u]
                          \/ \E n \in timers' : Current(n.item, u) /\ n.epoch = epoch
                          \/ disposed /\ \E i \in saved : i.task = u
      BY <1>2 DEF ReadyCarried, Current
    <3>2. Carried(u)
      BY <3>1 DEF IInv, NoEditStranded, StrandedOnlyBy
    <3>3. QED
      BY <1>2, <1>3, <3>2 DEF Carried
  <2>5. QED
    BY <2>1, <2>2, <2>3, <2>4
<1>4. CASE m.epoch # epoch
  <2>1. Moves(heap, slots, inFlight)
    BY <1>4 DEF RetryFires, Moves
  <2>2. slots \subseteq TasksOf(heap)
    BY DEF IInv, NoWall
  <2>3. QED
    BY <1>3, <1>4, <2>1, <2>2, ReadyMoves
<1>5. CASE m.epoch = epoch
  <2> DEFINE h == heap \cup {m.item}
             s == Release(m) \cup {m.item.task}
  <2>1. Release(m) = slots \ {m.item.task}
    BY <1>5 DEF Release
  <2>2. Moves(h, s, inFlight)
    BY <1>5, <2>1 DEF RetryFires, Enqueue, Moves
  <2>3. s \subseteq TasksOf(h)
    BY <2>1 DEF IInv, NoWall, TasksOf
  <2>4. /\ ReadyTypes(h, s, inFlight)
        /\ ReadyItems(h, inFlight)
        /\ ReadyAborts(inFlight)
        /\ ReadyCarried(h, inFlight)
    <3>1. heap \subseteq h /\ h \subseteq heap \cup {m.item} /\ m.item \in h
      OBVIOUS
    <3> HIDE DEF h, s
    <3>2. QED
      BY <1>3, <2>3, <3>1
  <2> HIDE DEF h, s
  <2>5. QED
    BY <2>2, <2>4, ReadyMoves
<1>6. QED
  BY <1>4, <1>5

(* A step that changes only the limit, or whether the queue is paused.     *)
LEMMA AdjustKeeps ==
    ASSUME IInv, limit' \in Limits, paused' \in BOOLEAN,
           UNCHANGED <<timers, retrying, epoch, seqCounter, disposed, saved, edited,
                       sent, excuse>>,
           Moves(heap, slots, inFlight)
    PROVE  IInv'
<1>1. ReadyTypes(heap, slots, inFlight)
  BY DEF IInv, TypeOK, NoWall, ReadyTypes
<1>2. ReadyItems(heap, inFlight)
  BY DEF IInv, ReadsExist, EpochsPast, ParkedReported, SavedUnread, DisposedIdle, Active, ReadyItems
<1>3. ReadyAborts(inFlight)
  BY DEF IInv, AbortsExcuse, ReadyAborts
<1>4. ReadyCarried(heap, inFlight)
  BY DEF IInv, TypeOK, NoEditStranded, StrandedOnlyBy, Carried, Current, ReadyCarried,
         Excuses
<1>5. QED
  BY <1>1, <1>2, <1>3, <1>4, ReadyMoves

LEMMA ClearKeeps ==
    ASSUME IInv, Clear
    PROVE  IInv'
<1>1. ReadyTypes({}, {}, inFlight)
  BY DEF Clear, IInv, TypeOK, TasksOf, Excuses, ReadyTypes
<1>2. ReadyItems({}, inFlight)
  <2>1. \A x \in inFlight \cup timers : x.epoch <= epoch /\ x.epoch \in Nat
    BY DEF IInv, TypeOK, EpochsPast, Active, Running
  <2>2. epoch \in Nat /\ epoch' = epoch + 1
    BY DEF Clear, IInv, TypeOK
  <2>3. QED
    BY <2>1, <2>2 DEF Clear, IInv, ReadsExist, SavedUnread, DisposedIdle, Active, ReadyItems
<1>3. ReadyAborts(inFlight)
  BY DEF Clear, IInv, TypeOK, ReadyAborts, Running, Item
<1>4. ReadyCarried({}, inFlight)
  BY DEF Clear, ReadyCarried
<1>5. Moves({}, {}, inFlight)
  BY DEF Clear, Moves
<1>6. QED
  BY <1>1, <1>2, <1>3, <1>4, <1>5, ReadyMoves

LEMMA ClearForPeerKeeps ==
    ASSUME IInv, NEW p \in Peer, ClearForPeer(p)
    PROVE  IInv'
<1> DEFINE h == {i \in heap : PeerOf[i.task] # p}
<1>1. /\ heap' = h /\ slots' = TasksOf(h) /\ inFlight' = inFlight
      /\ retrying' \subseteq retrying
      /\ epoch' = epoch + 1 /\ epoch \in Nat
      /\ UNCHANGED <<timers, seqCounter, limit, paused, disposed, saved, edited, sent>>
      /\ ~disposed
  BY DEF ClearForPeer, IInv, TypeOK
<1>2. /\ excuse' \in [Task -> Excuses]
      /\ \A u \in Task : excuse'[u] = IF PeerOf[u] = p THEN "cleared"
                                      ELSE IF u \in Struck THEN "struck" ELSE excuse[u]
  BY DEF ClearForPeer, IInv, TypeOK, Excuses
<1>3. ReadyTypes(h, TasksOf(h), inFlight)
  BY <1>1, <1>2 DEF IInv, TypeOK, ReadyTypes
<1>4. ReadyItems(h, inFlight)
  <2>1. \A x \in inFlight \cup timers : x.epoch <= epoch /\ x.epoch \in Nat
    BY DEF IInv, TypeOK, EpochsPast, Active, Running
  <2>2. QED
    BY <1>1, <2>1 DEF IInv, ReadsExist, SavedUnread, DisposedIdle, Active, ReadyItems
<1>5. \A x \in inFlight \cup timers : excuse'[x.item.task] # "none"
  <2>1. \A x \in inFlight \cup timers : x.item.task \in Task /\ x.item.task \in Struck
    BY DEF IInv, TypeOK, Running, Item, Struck, TasksOf, ItemsOf
  <2>2. QED
    BY <1>2, <2>1
<1>6. ReadyAborts(inFlight)
  BY <1>5 DEF ReadyAborts
<1>7. ReadyCarried(h, inFlight)
  <2>1. SUFFICES ASSUME NEW u \in Task, edited[u] > sent[u], excuse'[u] = "none"
                 PROVE  \E i \in h : Current(i, u)
    BY <1>1 DEF ReadyCarried, Current
  <2>2. PeerOf[u] # p /\ u \notin Struck /\ excuse[u] = "none"
    BY <1>2, <2>1
  <2>3. Carried(u)
    BY <2>1, <2>2 DEF IInv, NoEditStranded, StrandedOnlyBy
  <2>4. ~ \E x \in inFlight \cup timers : x.item.task = u
    BY <1>5, <2>1
  <2>5. QED
    BY <1>1, <2>2, <2>3, <2>4 DEF Carried, Current
<1>8. Moves(h, TasksOf(h), inFlight)
  BY <1>1 DEF Moves
<1> HIDE DEF h
<1>9. QED
  BY <1>3, <1>4, <1>6, <1>7, <1>8, ReadyMoves

(* What is written to queue.json, and read back, names the same tasks.     *)
LEMMA Rewritten ==
    ASSUME NEW items \in SUBSET Item, NEW seqOf \in [items -> Nat]
    PROVE  /\ LET unread == {[i EXCEPT !.ver = 0] : i \in items}
              IN  /\ unread \subseteq Item
                  /\ \A i \in unread : i.ver = 0
                  /\ TasksOf(unread) = TasksOf(items)
           /\ LET dealt == {[i EXCEPT !.seq = seqOf[i]] : i \in items}
              IN  /\ dealt \subseteq Item
                  /\ TasksOf(dealt) = TasksOf(items)
                  /\ (\A i \in items : i.ver = 0) => \A i \in dealt : i.ver = 0
<1>1. ASSUME NEW i \in items, NEW n \in Nat
      PROVE  /\ [i EXCEPT !.ver = 0] \in Item
             /\ [i EXCEPT !.ver = 0].ver = 0
             /\ [i EXCEPT !.ver = 0].task = i.task
             /\ [i EXCEPT !.seq = n] \in Item
             /\ [i EXCEPT !.seq = n].task = i.task
             /\ [i EXCEPT !.seq = n].ver = i.ver
  BY DEF Item
<1> DEFINE unread(i) == [i EXCEPT !.ver = 0]
           dealt(i) == [i EXCEPT !.seq = seqOf[i]]
<1>2. \A i \in items : /\ unread(i) \in Item
                      /\ unread(i).ver = 0
                      /\ unread(i).task = i.task
                      /\ dealt(i) \in Item
                      /\ dealt(i).task = i.task
                      /\ dealt(i).ver = i.ver
  BY <1>1
<1> HIDE DEF unread, dealt
<1>3. /\ {unread(i) : i \in items} \subseteq Item
      /\ \A i \in {unread(j) : j \in items} : i.ver = 0
      /\ TasksOf({unread(i) : i \in items}) = TasksOf(items)
  BY <1>2 DEF TasksOf
<1>4. /\ {dealt(i) : i \in items} \subseteq Item
      /\ TasksOf({dealt(i) : i \in items}) = TasksOf(items)
      /\ (\A i \in items : i.ver = 0) => \A i \in {dealt(j) : j \in items} : i.ver = 0
  BY <1>2 DEF TasksOf
<1>5. QED
  BY <1>3, <1>4 DEF unread, dealt

LEMMA UnloadKeeps ==
    ASSUME IInv, Unload
    PROVE  IInv'
<1>1. /\ heap' = {} /\ slots' = {} /\ inFlight' = inFlight
      /\ timers' = {} /\ retrying' = {}
      /\ epoch' = epoch + 1 /\ epoch \in Nat
      /\ disposed' = TRUE
      /\ UNCHANGED <<seqCounter, limit, paused, edited, sent, excuse>>
      /\ saved' = {[i EXCEPT !.ver = 0] : i \in GetQueue}
  BY DEF Unload, IInv, TypeOK
<1>2. GetQueue \subseteq Item
  BY DEF GetQueue, ItemsOf, IInv, TypeOK, Running
<1>3. /\ saved' \subseteq Item
      /\ \A i \in saved' : i.ver = 0
      /\ TasksOf(saved') = TasksOf(GetQueue)
  <2>1. [i \in GetQueue |-> 0] \in [GetQueue -> Nat]
    OBVIOUS
  <2>2. QED
    BY <1>1, <1>2, <2>1, Rewritten
<1>4. ReadyTypes({}, {}, inFlight)
  BY <1>1, <1>3 DEF IInv, TypeOK, TasksOf, ReadyTypes
<1>5. ReadyItems({}, inFlight)
  <2>1. \A x \in inFlight : x.epoch <= epoch /\ x.epoch \in Nat
    BY DEF IInv, TypeOK, EpochsPast, Active, Running
  <2>2. QED
    BY <1>1, <1>3, <2>1 DEF IInv, ReadsExist, Active, ReadyItems
<1>6. ReadyAborts(inFlight)
  BY <1>1 DEF ReadyAborts
<1>7. ReadyCarried({}, inFlight)
  <2>1. SUFFICES ASSUME NEW u \in Task, edited[u] > sent[u], excuse[u] = "none"
                 PROVE  u \in TasksOf(GetQueue)
    BY <1>1, <1>3 DEF ReadyCarried, TasksOf
  <2>2. Carried(u) /\ ~disposed
    BY <2>1 DEF Unload, IInv, NoEditStranded, StrandedOnlyBy
  <2>3. CASE \E i \in heap : Current(i, u)
    BY <2>3 DEF Current, GetQueue, TasksOf
  <2>4. CASE \E x \in inFlight : x.item.task = u
    BY <2>4 DEF GetQueue, TasksOf, ItemsOf
  <2>5. CASE \E m \in timers : Current(m.item, u) /\ m.epoch = epoch
    <3>1. PICK m \in timers : Current(m.item, u) /\ m.epoch = epoch
      BY <2>5
    <3>2. m \in retrying
      BY <3>1 DEF IInv, ParkedReported
    <3>3. QED
      BY <3>1, <3>2 DEF Current, GetQueue, TasksOf, ItemsOf
  <2>6. QED
    BY <2>2, <2>3, <2>4, <2>5 DEF Carried
<1>8. Moves({}, {}, inFlight)
  BY <1>1 DEF Moves
<1>9. QED
  BY <1>4, <1>5, <1>6, <1>7, <1>8, ReadyMoves

LEMMA ReloadKeeps ==
    ASSUME IInv, Reload
    PROVE  IInv'
<1>1. PICK keep \in OnePerTask(saved) : \E seqOf \in [keep -> {i.seq : i \in saved}] :
         /\ disposed' = FALSE /\ paused' = FALSE /\ epoch' = 0
         /\ limit' \in Limits
         /\ timers' = {} /\ retrying' = {} /\ saved' = {}
         /\ UNCHANGED <<seqCounter, edited, sent, excuse>>
         /\ ProcessQueue({[i EXCEPT !.seq = seqOf[i]] : i \in keep}, TasksOf(keep), {})
  BY DEF Reload
<1>2. PICK seqOf \in [keep -> {i.seq : i \in saved}] :
         /\ disposed' = FALSE /\ paused' = FALSE /\ epoch' = 0
         /\ limit' \in Limits
         /\ timers' = {} /\ retrying' = {} /\ saved' = {}
         /\ UNCHANGED <<seqCounter, edited, sent, excuse>>
         /\ ProcessQueue({[i EXCEPT !.seq = seqOf[i]] : i \in keep}, TasksOf(keep), {})
  BY <1>1
<1> DEFINE h == {[i EXCEPT !.seq = seqOf[i]] : i \in keep}
<1>3. /\ keep \subseteq Item
      /\ TasksOf(keep) = TasksOf(saved)
      /\ \A i \in keep : i.ver = 0
  BY DEF OnePerTask, IInv, TypeOK, SavedUnread
<1>4. /\ h \subseteq Item
      /\ TasksOf(h) = TasksOf(keep)
      /\ \A i \in h : i.ver = 0
  <2>1. seqOf \in [keep -> Nat]
    BY DEF IInv, TypeOK, Item
  <2>2. QED
    BY <1>3, <2>1, Rewritten
<1> HIDE DEF h
<1>5. ReadyTypes(h, TasksOf(keep), {})
  <2>1. h \subseteq Item /\ TasksOf(keep) \subseteq TasksOf(h)
    BY <1>4
  <2>2. seqCounter' = seqCounter /\ edited' = edited /\ sent' = sent /\ excuse' = excuse
    BY <1>2
  <2>3. /\ disposed' \in BOOLEAN /\ paused' \in BOOLEAN /\ epoch' \in Nat
        /\ limit' \in Limits
        /\ timers' \subseteq Running /\ retrying' \subseteq Running /\ saved' \subseteq Item
    BY <1>2
  <2>4. QED
    BY <2>1, <2>2, <2>3 DEF IInv, TypeOK, ReadyTypes
<1>6. ReadyItems(h, {})
  BY <1>2, <1>4 DEF IInv, TypeOK, ReadyItems, Item
<1>7. ReadyAborts({})
  BY DEF ReadyAborts
<1>8. ReadyCarried(h, {})
  <2>1. SUFFICES ASSUME NEW u \in Task, edited[u] > sent[u], excuse[u] = "none"
                 PROVE  \E i \in h : Current(i, u)'
    BY <1>2 DEF ReadyCarried
  <2>2. Carried(u) /\ disposed
    BY <2>1 DEF Reload, IInv, NoEditStranded, StrandedOnlyBy
  <2>3. u \in TasksOf(saved)
    <3>1. heap = {} /\ timers = {}
      BY <2>2 DEF IInv, DisposedIdle
    <3>2. QED
      BY <2>2, <3>1 DEF Carried, TasksOf
  <2>4. PICK i \in h : i.task = u
    BY <1>3, <1>4, <2>3 DEF TasksOf
  <2>5. QED
    BY <1>4, <2>4 DEF Current
<1>9. Moves(h, TasksOf(keep), {})
  BY <1>2 DEF h, Moves
<1>10. QED
  BY <1>5, <1>6, <1>7, <1>8, <1>9, ReadyMoves

-----------------------------------------------------------------------------

LEMMA InitEstablishes == Init => IInv
<1> SUFFICES ASSUME Init PROVE IInv
  OBVIOUS
<1>1. TypeOK
  BY DEF Init, TypeOK, Excuses
<1>2. QED
  BY <1>1 DEF Init, IInv, NoWall, TasksOf, ReadsExist, EpochsPast, ParkedReported,
              SavedUnread, DisposedIdle, AbortsExcuse, Active, NoEditStranded,
              StrandedOnlyBy

LEMMA StepKeeps == IInv /\ [Next]_vars => IInv'
<1> SUFFICES ASSUME IInv, [Next]_vars PROVE IInv'
  OBVIOUS
<1>1. CASE \E t \in Task : Add(t)
  BY <1>1, AddKeeps
<1>2. CASE \E r \in inFlight : Settle(r)
  BY <1>2, SucceedKeeps, ParkKeeps, GiveUpKeeps DEF Settle
<1>3. CASE \E m \in timers : RetryFires(m)
  BY <1>3, RetryFiresKeeps
<1>4. CASE \E n \in Limits : SetConcurrencyLimit(n)
  BY <1>4, AdjustKeeps DEF SetConcurrencyLimit, Moves, IInv, TypeOK
<1>5. CASE Pause
  BY <1>5, AdjustKeeps DEF Pause, Moves, IInv, TypeOK
<1>6. CASE Resume
  BY <1>6, AdjustKeeps DEF Resume, Moves, IInv, TypeOK
<1>7. CASE Clear
  BY <1>7, ClearKeeps
<1>8. CASE \E p \in Peer : ClearForPeer(p)
  BY <1>8, ClearForPeerKeeps
<1>9. CASE Unload
  BY <1>9, UnloadKeeps
<1>10. CASE Reload
  BY <1>10, ReloadKeeps
<1>11. CASE UNCHANGED vars
  BY <1>11 DEF vars, IInv, TypeOK, NoWall, ReadsExist, EpochsPast, ParkedReported,
               SavedUnread, DisposedIdle, AbortsExcuse, Active, NoEditStranded,
               StrandedOnlyBy, Carried, Current
<1>12. QED
  BY <1>1, <1>2, <1>3, <1>4, <1>5, <1>6, <1>7, <1>8, <1>9, <1>10, <1>11 DEF Next

LEMMA AlwaysIInv == Spec => []IInv
BY InitEstablishes, StepKeeps, PTL DEF Spec

(* The queue's variables keep their types; in particular no item is ever   *)
(* retried more than RetryLimit times (QueueManager.ts:218).               *)
THEOREM TypeCorrect == Spec => []TypeOK
<1>1. IInv => TypeOK
  BY DEF IInv
<1>2. QED
  BY <1>1, AlwaysIInv, PTL

(* A dedup slot never outlives the queued item that claimed it, whatever   *)
(* aborts, retries and restarts do (QueueManager.ts:183).                  *)
THEOREM SlotsAreQueued == Spec => []NoWall
<1>1. IInv => NoWall
  BY DEF IInv
<1>2. QED
  BY <1>1, AlwaysIInv, PTL

(* The newest edit of every path is delivered, or pending work carries it, *)
(* or one of the four named causes lost it (QueueManager.ts:154).          *)
THEOREM EditsAreCarried == Spec => []NoEditStranded
<1>1. IInv => NoEditStranded
  BY DEF IInv
<1>2. QED
  BY <1>1, AlwaysIInv, PTL
=============================================================================
