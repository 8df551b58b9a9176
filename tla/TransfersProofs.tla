---------------------------- MODULE TransfersProofs ----------------------------
(* Proofs about chunked and whole transfers: the type invariant, that an   *)
(* acknowledged file was written, that nothing asked for is forgotten,     *)
(* that Transfers implements what Delivery promises, and that no buffer    *)
(* mixes chunks of two attempts, for any peers, files, limits and perils.  *)
EXTENDS Transfers, SequenceTheorems, WellFoundedInduction, TLAPS

USE TransfersAssumption

-----------------------------------------------------------------------------
(* Sequences of messages, seen as sets.                                    *)

InSeq(s) == {s[k] : k \in DOMAIN s}

LEMMA TailShrinks ==
    ASSUME NEW S, NEW s \in Seq(S), s # <<>>
    PROVE  /\ Head(s) \in S /\ Head(s) \in InSeq(s)
           /\ Tail(s) \in Seq(S) /\ InSeq(Tail(s)) \subseteq InSeq(s)
<1>1. Len(s) \in Nat \ {0} /\ DOMAIN s = 1 .. Len(s)
  BY EmptySeq, LenProperties
<1>2. /\ Head(s) \in S /\ Tail(s) \in Seq(S) /\ Len(Tail(s)) = Len(s) - 1
      /\ \A i \in 1 .. Len(Tail(s)) : Tail(s)[i] = s[i + 1]
  BY HeadTailProperties
<1>3. DOMAIN Tail(s) = 1 .. Len(Tail(s))
  BY <1>2, LenProperties
<1>4. ASSUME NEW k \in DOMAIN Tail(s) PROVE Tail(s)[k] \in InSeq(s)
  <2>1. k + 1 \in DOMAIN s /\ Tail(s)[k] = s[k + 1]
    BY <1>1, <1>2, <1>3, <1>4
  <2>2. QED
    BY <2>1 DEF InSeq
<1>5. Head(s) = s[1]
  OBVIOUS
<1>6. Head(s) \in InSeq(s)
  BY <1>1, <1>5 DEF InSeq
<1>7. QED
  BY <1>2, <1>4, <1>6 DEF InSeq

LEMMA AppendAdds ==
    ASSUME NEW S, NEW s \in Seq(S), NEW e \in S
    PROVE  Append(s, e) \in Seq(S) /\ InSeq(Append(s, e)) \subseteq InSeq(s) \cup {e}
<1>1. Len(s) \in Nat /\ DOMAIN s = 1 .. Len(s)
  BY LenProperties
<1>2. /\ Append(s, e) \in Seq(S) /\ Len(Append(s, e)) = Len(s) + 1
      /\ \A i \in 1 .. Len(s) : Append(s, e)[i] = s[i]
      /\ Append(s, e)[Len(s) + 1] = e
  BY AppendProperties
<1>3. DOMAIN Append(s, e) = 1 .. Len(s) + 1
  BY <1>2, LenProperties
<1>4. ASSUME NEW k \in DOMAIN Append(s, e) PROVE Append(s, e)[k] \in InSeq(s) \cup {e}
  <2>1. CASE k = Len(s) + 1
    BY <1>2, <2>1
  <2>2. CASE k # Len(s) + 1
    <3>1. k \in DOMAIN s
      BY <1>1, <1>3, <1>4, <2>2
    <3>2. QED
      BY <1>1, <1>2, <3>1 DEF InSeq
  <2>3. QED
    BY <2>1, <2>2
<1>5. QED
  BY <1>2, <1>4 DEF InSeq

LEMMA NothingInEmpty == InSeq(<<>>) = {}
<1>1. DOMAIN <<>> = {}
  OBVIOUS
<1>2. QED
  BY <1>1 DEF InSeq

LEMMA LeastIsIn ==
    ASSUME NEW S \in SUBSET Nat, S # {}
    PROVE  Least(S) \in S
<1> DEFINE less == {ss \in Nat \X Nat : ss[1] < ss[2]}
<1>1. IsWellFoundedOn(less, Nat)
  BY NatLessThanWellFounded DEF OpToRel
<1>2. PICK k \in S : \A j \in S : ~(<<j, k>> \in less)
  <2> HIDE DEF less
  <2>1. QED
    BY <1>1, WFMin
<1>3. ASSUME NEW j \in S PROVE k <= j
  <2>1. <<j, k>> \in Nat \X Nat /\ <<j, k>>[1] = j /\ <<j, k>>[2] = k
    OBVIOUS
  <2>2. ~(j < k)
    BY <1>2, <2>1
  <2>3. QED
    BY <2>2
<1>4. QED
  BY <1>3 DEF Least

-----------------------------------------------------------------------------
(* What the helpers make of items, uploads, messages and buffers.          *)

(* The same file, version and transfer.                                    *)
SameAs(x, y) == x.id = y.id /\ x.task = y.task /\ x.ver = y.ver

LEMMA LengthBound == \A t \in Task : Length(t) \in 1 .. Chunks + 1
BY DEF Length

LEMMA BegunIs ==
    ASSUME NEW i \in Item
    PROVE  /\ Begun(i) \in Item /\ SameAs(Begun(i), i)
           /\ Begun(i).live = i.live /\ Begun(i).ack # "done"
<1>1. i.task \in Task
  BY DEF Item
<1>2. Length(i.task) \in 0 .. Chunks + 1
  BY <1>1, LengthBound
<1>3. CASE PeerOf[i.task] \in open
  <2>1. Begun(i) = [i EXCEPT !.at = "sending", !.sent = 0, !.wire = "open", !.ack = "pending"]
    BY <1>3 DEF Begun
  <2>2. 0 \in 0 .. Chunks + 1
    OBVIOUS
  <2>3. QED
    BY <2>1, <2>2 DEF Item, SameAs
<1>4. CASE PeerOf[i.task] \notin open
  BY <1>2, <1>4 DEF Begun, Item, SameAs
<1>5. QED
  BY <1>3, <1>4

LEMMA AnsweredIs ==
    ASSUME NEW i \in Item, NEW ok \in BOOLEAN
    PROVE  /\ Answered(i, ok) \in Item /\ SameAs(Answered(i, ok), i)
           /\ Answered(i, ok).live = i.live
           /\ Answered(i, ok).ack = "done" => ok \/ i.ack = "done"
BY DEF Answered, Item, SameAs

LEMMA CutOffIs ==
    ASSUME NEW i \in Item
    PROVE  /\ CutOff(i) \in Item /\ SameAs(CutOff(i), i)
           /\ CutOff(i).live = i.live
           /\ CutOff(i).ack = "done" => i.ack = "done"
<1>1. Answered(i, FALSE) \in Item /\ SameAs(Answered(i, FALSE), i) /\ Answered(i, FALSE).live = i.live
      /\ (Answered(i, FALSE).ack = "done" => i.ack = "done")
  BY AnsweredIs
<1>2. QED
  BY <1>1 DEF CutOff, Item, SameAs

LEMMA ParkedIs ==
    ASSUME NEW i \in Item, MayRetry(i)
    PROVE  LET j == [i EXCEPT !.at = "parked", !.tries = @ + 1] IN
           /\ j \in Item /\ SameAs(j, i) /\ j.live = i.live /\ j.ack = i.ack
<1>1. i.tries + 1 \in 0 .. RetryLimit
  BY DEF Item, MayRetry
<1>2. QED
  BY <1>1 DEF Item, SameAs

LEMMA SentIs ==
    ASSUME NEW i \in Item, i.sent < Length(i.task)
    PROVE  LET j == [i EXCEPT !.sent = i.sent + 1] IN
           /\ j \in Item /\ SameAs(j, i) /\ j.live = i.live /\ j.ack = i.ack
<1>1. i.sent + 1 \in 0 .. Chunks + 1
  BY LengthBound DEF Item
<1>2. QED
  BY <1>1 DEF Item, SameAs

LEMMA FailedAckIs ==
    ASSUME NEW i \in Item
    PROVE  LET j == [i EXCEPT !.ack = "failed"] IN
           j \in Item /\ SameAs(j, i) /\ j.live = i.live /\ j.ack # "done"
BY DEF Item, SameAs

LEMMA ClosedIs ==
    ASSUME NEW i \in Item
    PROVE  LET j == [i EXCEPT !.wire = "closed"] IN
           j \in Item /\ SameAs(j, i) /\ j.live = i.live /\ j.ack = i.ack
BY DEF Item, SameAs

LEMMA DeadIs ==
    ASSUME NEW i \in Item
    PROVE  LET j == [Answered(i, FALSE) EXCEPT !.live = FALSE] IN
           j \in Item /\ SameAs(j, i) /\ (j.ack = "done" => i.ack = "done")
<1>1. Answered(i, FALSE) \in Item /\ SameAs(Answered(i, FALSE), i)
      /\ (Answered(i, FALSE).ack = "done" => i.ack = "done")
  BY AnsweredIs
<1>2. QED
  BY <1>1 DEF Item, SameAs

LEMMA PausedIs ==
    ASSUME NEW u \in Upload
    PROVE  LET v == [u EXCEPT !.paused = TRUE] IN v \in Upload /\ v.id = u.id /\ v.task = u.task
BY DEF Upload

LEMMA EmptyIs ==
    ASSUME NEW m \in Message
    PROVE  Empty(m) \in Partial /\ SameAs(Empty(m), m)
BY DEF Empty, Message, Partial, Buffer, SameAs

LEMMA FilledIs ==
    ASSUME NEW x \in Partial, NEW m \in Message, m.n > 1
    PROVE  Filled(x, m) \in Partial /\ SameAs(Filled(x, m), x)
<1>1. x.buffer \in [2 .. Chunks + 1 -> SUBSET Cut] /\ m.cut \in Cut /\ m.n \in 2 .. Chunks + 1
  BY DEF Partial, Buffer, Message
<1>2. [x.buffer EXCEPT ![m.n] = IF x.buffer[m.n] = {} THEN {m.cut} ELSE x.buffer[m.n]] \in Buffer
  BY <1>1 DEF Buffer
<1>3. QED
  BY <1>2 DEF Filled, Partial, SameAs

-----------------------------------------------------------------------------
(* The inductive invariant.                                                *)

(* All that is on its way to a peer or half assembled, and every answer.   *)
Parcels == partial \cup UNION {InTransit(p) : p \in Peer}
AllAnswers == UNION {Answers(p) : p \in Peer}

(* An id names one item, and whatever else carries it belongs to that.     *)
Apart == \A i, j \in items : i.id = j.id => i = j
UploadsMatch == \A u \in uploads, i \in items : u.id = i.id => u.task = i.task
ParcelsMatch == \A x \in Parcels, i \in items : x.id = i.id => SameAs(x, i)

(* No ack is ahead of the write it reports.                                *)
AnswersTrue ==
    \A a \in AllAnswers, i \in items : a.ok /\ a.id = i.id => held[i.task] >= i.ver

NotAhead ==
    /\ \A t \in Task : asked[t] <= asks /\ held[t] <= asked[t]
    /\ \A i \in items : i.ver <= asked[i.task]
    /\ \A x \in Parcels : x.ver <= asked[x.task]

(* Who carries a file that is owed.  The record of an upload counts only   *)
(* when its item is gone: until then it goes when the item goes.           *)
Newest(t) == \E i \in items : i.task = t /\ i.live /\ i.ver = asked[t]
Orphan(t) == \E u \in uploads : u.task = t /\ u.id \notin IdsOf(items)
Owed(t) == t \in queued \/ failed[t] > 0 \/ excuse[t] # "none" \/ Newest(t) \/ Orphan(t)
StillOwed == \A t \in Task : asked[t] > held[t] => Owed(t)

IInv ==
    /\ TypeOK /\ Apart /\ UploadsMatch /\ ParcelsMatch /\ AnswersTrue
    /\ AckedIsHeld /\ NotAhead /\ StillOwed

-----------------------------------------------------------------------------
(* Where things come from in a step, whatever step it is: items keep their *)
(* file and version or are new under an unused id, records and parcels     *)
(* are made from items, a peer gets only what a parcel holds, and says so  *)
(* only then.                                                              *)

FlowItems ==
    \A j \in items' :
        \/ \E i \in items : SameAs(j, i) /\ (j.ack = "done" => i.ack = "done" \/ held[i.task] >= i.ver)
        \/ j.id \notin InUse /\ j.ver <= asked[j.task] /\ j.ack # "done"
FlowUploads ==
    \A u \in uploads' :
        \/ \E v \in uploads : u.id = v.id /\ u.task = v.task
        \/ \E i \in items' : u.id = i.id /\ u.task = i.task
FlowParcels ==
    \A x \in Parcels' : (\E y \in Parcels : SameAs(x, y)) \/ (\E i \in items : SameAs(x, i))
FlowAnswers ==
    \A a \in AllAnswers' :
        a \in AllAnswers \/ ~a.ok \/ \E x \in Parcels : x.id = a.id /\ held'[x.task] >= x.ver
FlowHeld ==
    \A t \in Task :
        \/ held'[t] = held[t]
        \/ held'[t] > held[t] /\ \E x \in Parcels : x.task = t /\ held'[t] = x.ver
FlowAsked ==
    /\ asks' >= asks
    /\ \A t \in Task : asked'[t] >= asked[t] /\ asked'[t] <= asks'
Flow == FlowItems /\ FlowUploads /\ FlowParcels /\ FlowAnswers /\ FlowHeld /\ FlowAsked

Step == TypeOK' /\ Flow /\ Apart' /\ StillOwed'

LEMMA ItemTypes ==
    ASSUME TypeOK
    PROVE  /\ \A i \in items : i \in Item /\ i.id \in Id /\ i.task \in Task /\ i.ver \in Nat
                               /\ PeerOf[i.task] \in Peer
           /\ \A u \in uploads : u \in Upload /\ u.id \in Id /\ u.task \in Task
           /\ \A t \in Task : asked[t] \in Nat /\ held[t] \in Nat /\ failed[t] \in Nat
           /\ asks \in Nat
BY DEF TypeOK, Item, Upload, Version

LEMMA ParcelTypes ==
    ASSUME TypeOK
    PROVE  \A x \in Parcels : x.id \in Id /\ x.task \in Task /\ x.ver \in Version /\ x.ver \in Nat
                              /\ PeerOf[x.task] \in Peer
<1>1. ASSUME NEW x \in partial PROVE x.id \in Id /\ x.task \in Task /\ x.ver \in Version
  BY <1>1 DEF TypeOK, Partial
<1>2. ASSUME NEW p \in Peer, NEW x \in InTransit(p)
      PROVE  x.id \in Id /\ x.task \in Task /\ x.ver \in Version
  <2>1. PICK k \in DOMAIN out[p] : x = out[p][k]
    BY <1>2 DEF InTransit
  <2>2. out[p] \in Seq(Message)
    BY DEF TypeOK
  <2>3. x \in Message
    BY <2>1, <2>2, ElementOfSeq, LenProperties
  <2>4. QED
    BY <2>3 DEF Message
<1>3. ASSUME NEW x \in Parcels
      PROVE  x.id \in Id /\ x.task \in Task /\ x.ver \in Version
  BY <1>1, <1>2, <1>3 DEF Parcels
<1>4. Version \subseteq Nat /\ \A t \in Task : PeerOf[t] \in Peer
  BY DEF Version
<1>5. QED
  BY <1>3, <1>4

LEMMA UsedIds ==
    /\ \A i \in items : i.id \in InUse
    /\ \A u \in uploads : u.id \in InUse
    /\ \A x \in Parcels : x.id \in InUse
    /\ \A a \in AllAnswers : a.id \in InUse
<1>1. \A i \in items : i.id \in InUse
  BY DEF InUse, IdsOf
<1>2. \A u \in uploads : u.id \in InUse
  BY DEF InUse, IdsOf
<1>3. \A x \in partial : x.id \in InUse
  BY DEF InUse, IdsOf
<1>4. ASSUME NEW p \in Peer
      PROVE  /\ \A x \in InTransit(p) : x.id \in InUse
             /\ \A a \in Answers(p) : a.id \in InUse
  BY DEF InUse, IdsOf
<1>5. QED
  BY <1>1, <1>2, <1>3, <1>4 DEF Parcels, AllAnswers

LEMMA FlowKeeps ==
    ASSUME IInv, Step
    PROVE  IInv'
<1> USE DEF IInv, Step, Flow
<1>1. /\ \A i \in items : i.task \in Task /\ i.ver \in Nat
      /\ \A j \in items' : j.task \in Task /\ j.ver \in Nat
      /\ \A t \in Task : /\ held[t] \in Nat /\ held'[t] \in Nat
                         /\ asked[t] \in Nat /\ asked'[t] \in Nat
      /\ asks \in Nat /\ asks' \in Nat
  <2>1. Version \subseteq Nat
    BY DEF Version
  <2>2. /\ items \subseteq Item /\ held \in [Task -> Version] /\ asked \in [Task -> Version]
        /\ items' \subseteq Item /\ held' \in [Task -> Version] /\ asked' \in [Task -> Version]
        /\ asks \in Version /\ asks' \in Version
    BY DEF TypeOK
  <2>3. \A i \in Item : i.task \in Task /\ i.ver \in Version
    BY DEF Item
  <2>4. QED
    BY <2>1, <2>2, <2>3
<1>2. \A x \in Parcels : x.task \in Task /\ x.ver \in Nat
  BY ParcelTypes
<1>3. \A t \in Task : held'[t] >= held[t]
  BY <1>1 DEF FlowHeld
<1>4. UploadsMatch'
  <2>1. SUFFICES ASSUME NEW u \in uploads', NEW j \in items', u.id = j.id
                 PROVE  u.task = j.task
    BY DEF UploadsMatch
  <2>2. CASE \E k \in items' : u.id = k.id /\ u.task = k.task
    BY <2>1, <2>2 DEF Apart
  <2>3. CASE \E v \in uploads : u.id = v.id /\ u.task = v.task
    <3>1. j.id \in InUse
      BY <2>1, <2>3, UsedIds
    <3>2. PICK i \in items : SameAs(j, i)
      BY <3>1 DEF FlowItems
    <3>3. QED
      BY <2>1, <2>3, <3>2 DEF UploadsMatch, SameAs
  <2>4. QED
    BY <2>2, <2>3 DEF FlowUploads
<1>5. ParcelsMatch'
  <2>1. SUFFICES ASSUME NEW x \in Parcels', NEW j \in items', x.id = j.id
                 PROVE  SameAs(x, j)
    BY DEF ParcelsMatch, SameAs
  <2>2. CASE \E y \in Parcels : SameAs(x, y)
    <3>1. j.id \in InUse
      BY <2>1, <2>2, UsedIds DEF SameAs
    <3>2. PICK i \in items : SameAs(j, i)
      BY <3>1 DEF FlowItems
    <3>3. QED
      BY <2>1, <2>2, <3>2 DEF ParcelsMatch, SameAs
  <2>3. CASE \E i \in items : SameAs(x, i)
    <3>1. j.id \in InUse
      BY <2>1, <2>3, UsedIds DEF SameAs
    <3>2. PICK i \in items : SameAs(j, i)
      BY <3>1 DEF FlowItems
    <3>3. QED
      BY <2>1, <2>3, <3>2 DEF Apart, SameAs
  <2>4. QED
    BY <2>2, <2>3 DEF FlowParcels
<1>6. AnswersTrue'
  <2>1. SUFFICES ASSUME NEW a \in AllAnswers', NEW j \in items', a.ok, a.id = j.id
                 PROVE  held'[j.task] >= j.ver
    BY DEF AnswersTrue
  <2>2. CASE a \in AllAnswers
    <3>1. PICK i \in items : SameAs(j, i)
      BY <2>1, <2>2, UsedIds DEF FlowItems
    <3>2. held[i.task] >= i.ver
      BY <2>1, <2>2, <3>1 DEF AnswersTrue, SameAs
    <3>3. QED
      BY <1>1, <1>3, <3>1, <3>2 DEF SameAs
  <2>3. CASE \E x \in Parcels : x.id = a.id /\ held'[x.task] >= x.ver
    <3>1. PICK x \in Parcels : x.id = a.id /\ held'[x.task] >= x.ver
      BY <2>3
    <3>2. PICK i \in items : SameAs(j, i)
      BY <2>1, <3>1, UsedIds DEF FlowItems
    <3>3. SameAs(x, i)
      BY <2>1, <3>1, <3>2 DEF ParcelsMatch, SameAs
    <3>4. QED
      BY <3>1, <3>2, <3>3 DEF SameAs
  <2>4. QED
    BY <2>1, <2>2, <2>3 DEF FlowAnswers
<1>7. AckedIsHeld'
  <2>1. SUFFICES ASSUME NEW j \in items', j.ack = "done"
                 PROVE  held'[j.task] >= j.ver
    BY DEF AckedIsHeld
  <2>2. PICK i \in items : SameAs(j, i) /\ (i.ack = "done" \/ held[i.task] >= i.ver)
    BY <2>1 DEF FlowItems
  <2>3. held[i.task] >= i.ver
    BY <2>2 DEF AckedIsHeld
  <2>4. QED
    BY <1>1, <1>3, <2>2, <2>3 DEF SameAs
<1>8. NotAhead'
  <2>1. \A t \in Task : asked'[t] <= asks' /\ asked'[t] >= asked[t]
    BY DEF FlowAsked
  <2>2. ASSUME NEW t \in Task PROVE held'[t] <= asked'[t]
    <3>1. held'[t] <= asked[t]
      BY <1>1, <1>2 DEF FlowHeld, NotAhead
    <3>2. QED
      BY <1>1, <2>1, <3>1
  <2>3. ASSUME NEW j \in items' PROVE j.ver <= asked'[j.task]
    <3>1. j.ver <= asked[j.task]
      BY <1>1 DEF FlowItems, NotAhead, SameAs
    <3>2. QED
      BY <1>1, <2>1, <3>1
  <2>4. ASSUME NEW x \in Parcels' PROVE x.ver <= asked'[x.task]
    <3>1. x.ver <= asked[x.task] /\ x.ver \in Nat /\ x.task \in Task
      BY <1>1, <1>2 DEF FlowParcels, NotAhead, SameAs
    <3>2. QED
      BY <1>1, <2>1, <3>1
  <2>5. QED
    BY <2>1, <2>2, <2>3, <2>4 DEF NotAhead
<1>9. QED
  BY <1>4, <1>5, <1>6, <1>7, <1>8

(* Steps that touch no message, no buffer and nothing a peer holds, and    *)
(* those that ask for nothing.                                             *)
LEMMA CalmFlow ==
    ASSUME UNCHANGED <<out, back, partial, held>>
    PROVE  FlowParcels /\ FlowAnswers /\ FlowHeld
<1>1. Parcels' = Parcels /\ AllAnswers' = AllAnswers
  <2>1. \A p \in Peer : InTransit(p)' = InTransit(p) /\ Answers(p)' = Answers(p)
    BY DEF InTransit, Answers
  <2>2. QED
    BY <2>1 DEF Parcels, AllAnswers
<1>2. QED
  BY <1>1 DEF FlowParcels, FlowAnswers, FlowHeld, SameAs

LEMMA NoQuestion ==
    ASSUME IInv, UNCHANGED <<asks, asked>>
    PROVE  FlowAsked
BY ItemTypes DEF IInv, NotAhead, FlowAsked

LEMMA SameItems ==
    ASSUME Apart, UNCHANGED items
    PROVE  FlowItems /\ Apart'
BY DEF Apart, FlowItems, SameAs

LEMMA SameUploads ==
    ASSUME uploads' \subseteq uploads
    PROVE  FlowUploads
BY DEF FlowUploads

(* An item that changes in hand, or that is done with.                     *)
LEMMA ItemSwapped ==
    ASSUME TypeOK, Apart, NEW i \in items, NEW b \in Item, SameAs(b, i), b.live = i.live,
           b.ack = "done" => i.ack = "done",
           items' = (items \ {i}) \cup {b}, UNCHANGED asked
    PROVE  /\ items' \subseteq Item /\ FlowItems /\ Apart'
           /\ IdsOf(items') = IdsOf(items)
           /\ \A t \in Task : Newest(t) => Newest(t)'
<1>1. items' \subseteq Item
  BY DEF TypeOK
<1>2. FlowItems
  BY DEF FlowItems, SameAs
<1>3. Apart'
  BY DEF Apart, SameAs
<1>4. IdsOf(items') = IdsOf(items)
  BY DEF IdsOf, SameAs
<1>5. ASSUME NEW t \in Task, Newest(t) PROVE Newest(t)'
  <2>1. PICK j \in items : j.task = t /\ j.live /\ j.ver = asked[t]
    BY <1>5 DEF Newest
  <2>2. CASE j = i
    BY <2>1, <2>2 DEF Newest, SameAs
  <2>3. CASE j # i
    BY <2>1, <2>3 DEF Newest
  <2>4. QED
    BY <2>2, <2>3
<1>6. QED
  BY <1>1, <1>2, <1>3, <1>4, <1>5

LEMMA ItemGone ==
    ASSUME TypeOK, Apart, NEW i \in items, items' = items \ {i}, UNCHANGED asked
    PROVE  /\ items' \subseteq Item /\ FlowItems /\ Apart'
           /\ IdsOf(items') = IdsOf(items) \ {i.id}
           /\ \A t \in Task : Newest(t) => Newest(t)' \/ (i.task = t /\ i.live /\ i.ver = asked[t])
<1>1. items' \subseteq Item
  BY DEF TypeOK
<1>2. FlowItems
  BY DEF FlowItems, SameAs
<1>3. Apart'
  BY DEF Apart
<1>4. IdsOf(items') = IdsOf(items) \ {i.id}
  BY DEF IdsOf, Apart
<1>5. \A t \in Task : Newest(t) => Newest(t)' \/ (i.task = t /\ i.live /\ i.ver = asked[t])
  BY DEF Newest
<1>6. QED
  BY <1>1, <1>2, <1>3, <1>4, <1>5

(* No debt disappears while nobody asks and no peer loses anything.        *)
LEMMA DebtsKept ==
    ASSUME TypeOK, TypeOK', StillOwed, UNCHANGED asked,
           \A t \in Task : held'[t] >= held[t],
           \A t \in Task : asked[t] > held'[t] /\ Owed(t) => Owed(t)'
    PROVE  StillOwed'
<1>1. SUFFICES ASSUME NEW t \in Task, asked'[t] > held'[t] PROVE Owed(t)'
  BY DEF StillOwed
<1>2. asked[t] \in Nat /\ held[t] \in Nat /\ held'[t] \in Nat
  BY DEF TypeOK, Version
<1>3. asked[t] > held[t]
  BY <1>1, <1>2
<1>4. QED
  BY <1>1, <1>3 DEF StillOwed

-----------------------------------------------------------------------------
(* The sender's steps.                                                     *)

LEMMA AskStep ==
    ASSUME IInv, NEW t \in Task, Ask(t)
    PROVE  Step
<1> USE DEF IInv
<1>1. TypeOK'
  <2>1. asks' \in Version
    BY DEF Ask, TypeOK, Version
  <2>2. QED
    BY <2>1 DEF Ask, TypeOK, peerVars, Excuses
<1>2. Flow
  <2>1. FlowParcels /\ FlowAnswers /\ FlowHeld
    BY CalmFlow DEF Ask, peerVars
  <2>2. FlowItems /\ FlowUploads
    BY SameItems, SameUploads DEF Ask
  <2>3. asks' = asks + 1 /\ asked' = [asked EXCEPT ![t] = asks + 1]
    BY DEF Ask
  <2>4. FlowAsked
    <3> HIDE DEF IInv
    <3>1. asks \in Nat /\ \A s \in Task : asked[s] \in Nat /\ asked[s] <= asks
      BY ItemTypes DEF IInv, NotAhead
    <3>2. asked \in [Task -> Version]
      BY DEF IInv, TypeOK
    <3>3. ASSUME NEW s \in Task PROVE asked'[s] >= asked[s] /\ asked'[s] <= asks'
      BY <2>3, <3>1, <3>2
    <3>4. QED
      BY <2>3, <3>1, <3>3 DEF FlowAsked
  <2>5. QED
    BY <2>1, <2>2, <2>4 DEF Flow
<1>3. Apart'
  BY SameItems DEF Ask
<1>4. StillOwed'
  <2>1. SUFFICES ASSUME NEW k \in Task, asked'[k] > held'[k] PROVE Owed(k)'
    BY DEF StillOwed
  <2>2. CASE k = t
    BY <2>2 DEF Ask, Owed
  <2>3. CASE k # t
    <3>1. asked'[k] = asked[k] /\ held'[k] = held[k] /\ excuse'[k] = excuse[k]
      BY <2>3 DEF Ask, TypeOK, peerVars
    <3>2. Owed(k)
      BY <2>1, <3>1 DEF StillOwed
    <3>3. QED
      BY <3>1, <3>2 DEF Owed, Newest, Orphan, Ask
  <2>4. QED
    BY <2>2, <2>3
<1>5. QED
  BY <1>1, <1>2, <1>3, <1>4 DEF Step

(* What RecordUpload leaves.                                               *)
LEMMA RecordIs ==
    ASSUME TypeOK, NEW i \in Item, RecordUpload(i)
    PROVE  /\ uploads' \subseteq Upload
           /\ \A u \in uploads' : u \in uploads \/ (u.id = i.id /\ u.task = i.task)
           /\ \A u \in uploads : u.id # i.id => u \in uploads'
<1> DEFINE new == [id |-> i.id, task |-> i.task, paused |-> FALSE]
<1>1. new \in Upload /\ new.id = i.id /\ new.task = i.task
  BY DEF Upload, Item
<1>2. uploads' = uploads \/ uploads' = {u \in uploads : u.id # i.id} \cup {new}
  BY DEF RecordUpload
<1>3. uploads \subseteq Upload
  BY DEF TypeOK
<1> HIDE DEF new
<1>4. CASE uploads' = uploads
  BY <1>3, <1>4
<1>5. CASE uploads' = {u \in uploads : u.id # i.id} \cup {new}
  BY <1>1, <1>3, <1>5
<1>6. QED
  BY <1>2, <1>4, <1>5

LEMMA StartStep ==
    ASSUME IInv, NEW t \in Task, Start(t)
    PROVE  Step
<1> USE DEF IInv
<1> DEFINE i == [id |-> FreshId, task |-> t, ver |-> asked[t], tries |-> 0,
                 at |-> "sending", sent |-> 0, wire |-> "open", ack |-> "pending", live |-> TRUE]
           b == Begun(i)
<1>1. FreshId \in Id /\ FreshId \notin InUse
  <2>1. Id \ InUse \in SUBSET Nat /\ Id \ InUse # {}
    BY DEF Start
  <2>2. QED
    BY <2>1, LeastIsIn DEF FreshId
<1>2. i \in Item
  BY <1>1 DEF Item, TypeOK
<1>3. i.id = FreshId /\ i.task = t /\ i.ver = asked[t] /\ i.live = TRUE
  OBVIOUS
<1>4. queued' = queued \ {t} /\ items' = items \cup {b} /\ RecordUpload(i)
  BY DEF Start
<1>5. UNCHANGED <<asks, asked, failed, excuse, open, out, back, partial, downloads, held, trouble>>
  BY DEF Start, peerVars
<1> HIDE DEF i
<1>6. b \in Item /\ b.id = FreshId /\ b.task = t /\ b.ver = asked[t] /\ b.live = TRUE /\ b.ack # "done"
  BY <1>2, <1>3, BegunIs DEF SameAs
<1>7. /\ uploads' \subseteq Upload
      /\ \A u \in uploads' : u \in uploads \/ (u.id = b.id /\ u.task = b.task)
      /\ \A u \in uploads : u.id # FreshId => u \in uploads'
  BY <1>2, <1>3, <1>4, <1>6, RecordIs
<1> HIDE DEF b
<1>8. TypeOK'
  BY <1>4, <1>5, <1>6, <1>7 DEF TypeOK
<1>9. Flow
  <2>1. FlowItems
    BY <1>1, <1>4, <1>6, ItemTypes DEF FlowItems, SameAs
  <2>2. FlowUploads
    BY <1>4, <1>7 DEF FlowUploads
  <2>3. QED
    BY <1>5, <2>1, <2>2, CalmFlow, NoQuestion DEF Flow
<1>10. Apart'
  <2>1. \A j \in items : j.id # b.id
    BY <1>1, <1>6, UsedIds
  <2>2. QED
    BY <1>4, <2>1 DEF Apart
<1>11. StillOwed'
  <2>1. SUFFICES ASSUME NEW k \in Task, asked[k] > held[k] PROVE Owed(k)'
    BY <1>5 DEF StillOwed
  <2>2. Owed(k)
    BY <2>1 DEF StillOwed
  <2>3. CASE k = t
    BY <1>4, <1>5, <1>6, <2>3 DEF Owed, Newest
  <2>4. CASE k # t /\ Orphan(k)
    <3>1. PICK u \in uploads : u.task = k /\ u.id \notin IdsOf(items)
      BY <2>4 DEF Orphan
    <3>2. u.id # FreshId
      BY <1>1, UsedIds
    <3>3. u.id \notin IdsOf(items')
      BY <1>4, <1>6, <3>1, <3>2 DEF IdsOf
    <3>4. QED
      BY <1>7, <3>1, <3>2, <3>3 DEF Owed, Orphan, IdsOf
  <2>5. QED
    BY <1>4, <1>5, <2>2, <2>3, <2>4 DEF Owed, Newest
<1>12. QED
  BY <1>8, <1>9, <1>10, <1>11 DEF Step

LEMMA RetryStep ==
    ASSUME IInv, NEW i \in items, Retry(i)
    PROVE  Step
<1> USE DEF IInv
<1> DEFINE b == Begun(i)
<1>1. UNCHANGED <<asks, asked, queued, failed, excuse, open, out, back, partial, downloads, held, trouble>>
  BY DEF Retry, peerVars
<1>2. i \in Item /\ held \in [Task -> Version] /\ \A t \in Task : held[t] \in Nat
  BY ItemTypes DEF TypeOK
<1>3. CASE i.live /\ items' = (items \ {i}) \cup {Begun(i)} /\ RecordUpload(i)
  <2>1. b \in Item /\ SameAs(b, i) /\ b.live = i.live /\ b.ack # "done"
    BY <1>2, BegunIs
  <2>2. items' = (items \ {i}) \cup {b}
    BY <1>3
  <2> HIDE DEF b
  <2>3. /\ items' \subseteq Item /\ FlowItems /\ Apart' /\ IdsOf(items') = IdsOf(items)
        /\ \A t \in Task : Newest(t) => Newest(t)'
    BY <1>1, <2>1, <2>2, ItemSwapped
  <2>4. /\ uploads' \subseteq Upload
        /\ \A u \in uploads' : u \in uploads \/ (u.id = i.id /\ u.task = i.task)
        /\ \A u \in uploads : u.id # i.id => u \in uploads'
    BY <1>2, <1>3, RecordIs
  <2>5. TypeOK'
    BY <1>1, <2>3, <2>4 DEF TypeOK
  <2>6. FlowUploads
    BY <2>1, <2>2, <2>4 DEF FlowUploads, SameAs
  <2>7. \A t \in Task : Orphan(t) => Orphan(t)'
    <3>1. i.id \in IdsOf(items)
      BY DEF IdsOf
    <3>2. QED
      BY <2>3, <2>4, <3>1 DEF Orphan, IdsOf
  <2>8. StillOwed'
    BY <1>1, <1>2, <2>3, <2>5, <2>7, DebtsKept DEF Owed
  <2>9. QED
    BY <1>1, <2>3, <2>5, <2>6, <2>8, CalmFlow, NoQuestion DEF Flow, Step
<1>4. CASE ~i.live /\ items' = items \ {i} /\ uploads' = uploads
  <2>1. /\ items' \subseteq Item /\ FlowItems /\ Apart' /\ IdsOf(items') = IdsOf(items) \ {i.id}
        /\ \A t \in Task : Newest(t) => Newest(t)'
    BY <1>1, <1>4, ItemGone
  <2>2. TypeOK'
    BY <1>1, <1>4, <2>1 DEF TypeOK
  <2>3. FlowUploads
    BY <1>4, SameUploads
  <2>4. \A t \in Task : Orphan(t) => Orphan(t)'
    BY <1>4, <2>1 DEF Orphan, IdsOf
  <2>5. StillOwed'
    BY <1>1, <1>2, <2>1, <2>2, <2>4, DebtsKept DEF Owed
  <2>6. QED
    BY <1>1, <2>1, <2>2, <2>3, <2>5, CalmFlow, NoQuestion DEF Flow, Step
<1>5. QED
  BY <1>3, <1>4 DEF Retry

(* Both ways to fail, whoever fails.                                       *)
LEMMA FailIs ==
    ASSUME IInv, NEW i \in items, Fail(i), UNCHANGED <<asked, queued, excuse>>
    PROVE  /\ items' \subseteq Item /\ uploads' \subseteq Upload
           /\ failed' \in [Task -> 0 .. ResendLimit + 1]
           /\ FlowItems /\ FlowUploads /\ Apart'
           /\ \A t \in Task : Owed(t) => Owed(t)'
<1> USE DEF IInv
<1> DEFINE b == [i EXCEPT !.at = "parked", !.tries = @ + 1]
<1>1. uploads' = {u \in uploads : u.id # i.id}
  BY DEF Fail
<1>2. uploads' \subseteq Upload /\ FlowUploads
  BY <1>1, SameUploads DEF TypeOK
<1>3. i \in Item /\ i.task \in Task /\ i.id \in IdsOf(items)
  BY ItemTypes DEF IdsOf
<1>4. CASE MayRetry(i) /\ items' = (items \ {i}) \cup {b} /\ UNCHANGED failed
  <2>1. b \in Item /\ SameAs(b, i) /\ b.live = i.live /\ b.ack = i.ack
    BY <1>3, <1>4, ParkedIs
  <2>2. items' = (items \ {i}) \cup {b}
    BY <1>4
  <2> HIDE DEF b
  <2>3. /\ items' \subseteq Item /\ FlowItems /\ Apart' /\ IdsOf(items') = IdsOf(items)
        /\ \A t \in Task : Newest(t) => Newest(t)'
    BY <2>1, <2>2, ItemSwapped
  <2>4. \A t \in Task : Orphan(t) => Orphan(t)'
    BY <1>1, <1>3, <2>3 DEF Orphan, IdsOf
  <2>5. failed' \in [Task -> 0 .. ResendLimit + 1]
    BY <1>4 DEF TypeOK
  <2>6. QED
    BY <1>2, <1>4, <2>3, <2>4, <2>5 DEF Owed
<1>5. CASE items' = items \ {i} /\ failed' = [failed EXCEPT ![i.task] = IF @ = 0 THEN 1 ELSE @]
  <2>1. /\ items' \subseteq Item /\ FlowItems /\ Apart' /\ IdsOf(items') = IdsOf(items) \ {i.id}
        /\ \A t \in Task : Newest(t) => Newest(t)' \/ i.task = t
    BY <1>5, ItemGone
  <2>2. failed \in [Task -> 0 .. ResendLimit + 1] /\ 1 \in 0 .. ResendLimit + 1
    BY DEF TypeOK
  <2>3. /\ failed' \in [Task -> 0 .. ResendLimit + 1]
        /\ failed'[i.task] > 0
        /\ \A t \in Task : t # i.task => failed'[t] = failed[t]
    BY <1>3, <1>5, <2>2
  <2>4. \A t \in Task : Orphan(t) => Orphan(t)'
    BY <1>1, <1>3, <2>1 DEF Orphan, IdsOf
  <2>5. QED
    BY <1>2, <2>1, <2>3, <2>4 DEF Owed
<1>6. QED
  BY <1>4, <1>5 DEF Fail

LEMMA FinishStep ==
    ASSUME IInv, NEW i \in items, Finish(i)
    PROVE  Step
<1> USE DEF IInv
<1>1. UNCHANGED <<asks, asked, queued, excuse, open, out, back, partial, downloads, held, trouble>>
  BY DEF Finish, peerVars
<1>2. i \in Item /\ i.task \in Task /\ i.id \in IdsOf(items) /\ \A t \in Task : held[t] \in Nat /\ asked[t] \in Nat
  BY ItemTypes DEF IdsOf
<1>3. CASE i.ack = "done" /\ items' = items \ {i} /\ uploads' = {u \in uploads : u.id # i.id} /\ UNCHANGED failed
  <2>1. /\ items' \subseteq Item /\ FlowItems /\ Apart' /\ IdsOf(items') = IdsOf(items) \ {i.id}
        /\ \A t \in Task : Newest(t) => Newest(t)' \/ (i.task = t /\ i.ver = asked[t])
    BY <1>1, <1>3, ItemGone
  <2>2. TypeOK'
    BY <1>1, <1>3, <2>1 DEF TypeOK
  <2>3. FlowUploads
    BY <1>3, SameUploads
  <2>4. \A t \in Task : Orphan(t) => Orphan(t)'
    BY <1>2, <1>3, <2>1 DEF Orphan, IdsOf
  <2>5. \A t \in Task : asked[t] > held[t] /\ Newest(t) => Newest(t)'
    <3>1. held[i.task] >= i.ver
      BY <1>3 DEF AckedIsHeld
    <3>2. QED
      BY <1>2, <2>1, <3>1
  <2>6. StillOwed'
    BY <1>1, <1>2, <1>3, <2>2, <2>4, <2>5, DebtsKept DEF Owed
  <2>7. QED
    BY <1>1, <2>1, <2>2, <2>3, <2>6, CalmFlow, NoQuestion DEF Flow, Step
<1>4. CASE Fail(i)
  <2>1. /\ items' \subseteq Item /\ uploads' \subseteq Upload
        /\ failed' \in [Task -> 0 .. ResendLimit + 1]
        /\ FlowItems /\ FlowUploads /\ Apart'
        /\ \A t \in Task : Owed(t) => Owed(t)'
    BY <1>1, <1>4, FailIs
  <2>2. TypeOK'
    BY <1>1, <2>1 DEF TypeOK
  <2>3. StillOwed'
    BY <1>1, <1>2, <2>1, <2>2, DebtsKept
  <2>4. QED
    BY <1>1, <2>1, <2>2, <2>3, CalmFlow, NoQuestion DEF Flow, Step
<1>5. QED
  BY <1>3, <1>4 DEF Finish

LEMMA TimeOutStep ==
    ASSUME IInv, NEW i \in items, TimeOut(i)
    PROVE  Step
<1> USE DEF IInv
<1> DEFINE b == [i EXCEPT !.ack = "failed"]
<1>1. UNCHANGED <<asks, asked, queued, failed, excuse, open, out, back, partial, downloads, held>>
  BY DEF TimeOut, peerVars
<1>2. i \in Item /\ i.id \in IdsOf(items) /\ \A t \in Task : held[t] \in Nat
  BY ItemTypes DEF IdsOf
<1>3. trouble' \in 0 .. MaxTrouble
  BY DEF TimeOut, Happens, TypeOK
<1>4. b \in Item /\ SameAs(b, i) /\ b.live = i.live /\ b.ack # "done"
  BY <1>2, FailedAckIs
<1>5. items' = (items \ {i}) \cup {b}
  BY DEF TimeOut
<1>6. uploads' \subseteq uploads /\ \A u \in uploads : u.id # i.id => u \in uploads'
  BY DEF TimeOut
<1> HIDE DEF b
<1>7. /\ items' \subseteq Item /\ FlowItems /\ Apart' /\ IdsOf(items') = IdsOf(items)
      /\ \A t \in Task : Newest(t) => Newest(t)'
  BY <1>1, <1>4, <1>5, ItemSwapped
<1>8. TypeOK'
  BY <1>1, <1>3, <1>6, <1>7 DEF TypeOK
<1>9. \A t \in Task : Orphan(t) => Orphan(t)'
  BY <1>2, <1>6, <1>7 DEF Orphan, IdsOf
<1>10. StillOwed'
  BY <1>1, <1>2, <1>7, <1>8, <1>9, DebtsKept DEF Owed
<1>11. QED
  BY <1>1, <1>6, <1>7, <1>8, <1>10, SameUploads, CalmFlow, NoQuestion DEF Flow, Step

LEMMA RetryFailedStep ==
    ASSUME IInv, NEW t \in Task, RetryFailed(t)
    PROVE  Step
<1> USE DEF IInv
<1>1. UNCHANGED <<asks, asked, items, uploads, open, out, back, partial, downloads, held, trouble>>
  BY DEF RetryFailed, peerVars
<1>2. /\ failed \in [Task -> 0 .. ResendLimit + 1] /\ excuse \in [Task -> Excuses] /\ queued \subseteq Task
      /\ \A k \in Task : held[k] \in Nat
  BY ItemTypes DEF TypeOK
<1>3. /\ failed' \in [Task -> 0 .. ResendLimit + 1] /\ excuse' \in [Task -> Excuses] /\ queued' \subseteq Task
      /\ \A k \in Task : k # t => failed'[k] = failed[k] /\ excuse'[k] = excuse[k]
      /\ queued \subseteq queued'
      /\ t \in queued' \/ excuse'[t] = "gaveUp"
  <2>1. CASE failed[t] <= ResendLimit /\ failed' = [failed EXCEPT ![t] = @ + 1]
             /\ queued' = queued \cup {t} /\ UNCHANGED excuse
    <3>1. failed[t] + 1 \in 0 .. ResendLimit + 1
      BY <1>2, <2>1
    <3>2. QED
      BY <1>2, <2>1, <3>1
  <2>2. CASE failed' = [failed EXCEPT ![t] = 0] /\ excuse' = [excuse EXCEPT ![t] = "gaveUp"] /\ UNCHANGED queued
    BY <1>2, <2>2 DEF Excuses
  <2>3. QED
    BY <2>1, <2>2 DEF RetryFailed
<1>4. TypeOK'
  BY <1>1, <1>3 DEF TypeOK
<1>5. StillOwed'
  <2>1. \A k \in Task : Owed(k) => Owed(k)'
    BY <1>1, <1>3 DEF Owed, Newest, Orphan
  <2>2. QED
    BY <1>1, <1>2, <1>4, <2>1, DebtsKept
<1>6. QED
  BY <1>1, <1>4, <1>5, SameItems, SameUploads, CalmFlow, NoQuestion DEF Flow, Step

LEMMA ExpireStep ==
    ASSUME IInv, NEW u \in uploads, Expire(u)
    PROVE  Step
<1> USE DEF IInv
<1>1. UNCHANGED <<asks, asked, queued, items, failed, open, out, back, partial, downloads, held, trouble>>
  BY DEF Expire, peerVars
<1>2. u.task \in Task /\ excuse \in [Task -> Excuses] /\ \A k \in Task : held[k] \in Nat
  BY ItemTypes DEF TypeOK
<1>3. uploads' = uploads \ {u} /\ excuse' = [excuse EXCEPT ![u.task] = "expired"]
  BY DEF Expire
<1>4. /\ excuse' \in [Task -> Excuses] /\ excuse'[u.task] = "expired"
      /\ \A k \in Task : k # u.task => excuse'[k] = excuse[k]
  BY <1>2, <1>3 DEF Excuses
<1>5. TypeOK'
  BY <1>1, <1>3, <1>4 DEF TypeOK
<1>6. StillOwed'
  <2>1. \A k \in Task : Owed(k) => Owed(k)'
    BY <1>1, <1>3, <1>4 DEF Owed, Newest, Orphan
  <2>2. QED
    BY <1>1, <1>2, <1>5, <2>1, DebtsKept
<1>7. QED
  BY <1>1, <1>3, <1>5, <1>6, SameItems, SameUploads, CalmFlow, NoQuestion DEF Flow, Step

(* One message more on the way to a peer.                                  *)
LEMMA MessageSent ==
    ASSUME TypeOK, NEW i \in items, NEW p \in Peer, NEW m \in Message, SameAs(m, i),
           out' = [out EXCEPT ![p] = Append(@, m)], UNCHANGED <<partial, back, held>>
    PROVE  out' \in [Peer -> Seq(Message)] /\ FlowParcels /\ FlowAnswers /\ FlowHeld
<1>1. out \in [Peer -> Seq(Message)]
  BY DEF TypeOK
<1>2. Append(out[p], m) \in Seq(Message) /\ InSeq(Append(out[p], m)) \subseteq InSeq(out[p]) \cup {m}
  BY <1>1, AppendAdds
<1>3. /\ out' \in [Peer -> Seq(Message)] /\ out'[p] = Append(out[p], m)
      /\ \A q \in Peer : q # p => out'[q] = out[q]
  BY <1>1, <1>2
<1>4. \A q \in Peer : InSeq(out'[q]) \subseteq InSeq(out[q]) \cup {m}
  BY <1>2, <1>3
<1>5. FlowParcels
  <2>1. SUFFICES ASSUME NEW x \in Parcels', x \notin Parcels PROVE x = m
    BY DEF FlowParcels, SameAs
  <2>2. PICK q \in Peer : x \in InSeq(out'[q])
    BY <2>1 DEF Parcels, InTransit, InSeq
  <2>3. x \notin InSeq(out[q])
    BY <2>1 DEF Parcels, InTransit, InSeq
  <2>4. QED
    BY <1>4, <2>2, <2>3
<1>6. AllAnswers' = AllAnswers
  <2>1. \A q \in Peer : Answers(q)' = Answers(q)
    BY DEF Answers
  <2>2. QED
    BY <2>1 DEF AllAnswers
<1>7. QED
  BY <1>3, <1>5, <1>6 DEF FlowAnswers, FlowHeld

LEMMA SendNextStep ==
    ASSUME IInv, NEW i \in items, SendNext(i)
    PROVE  Step
<1> USE DEF IInv
<1> DEFINE p == PeerOf[i.task]
           m == [id |-> i.id, task |-> i.task, ver |-> i.ver, cut |-> i.tries, n |-> i.sent + 1]
           b == [i EXCEPT !.sent = i.sent + 1]
<1>1. UNCHANGED <<asks, asked, queued, excuse, open, back, partial, downloads, held, trouble>>
  BY DEF SendNext, peerVars
<1>2. i \in Item /\ i.task \in Task /\ p \in Peer /\ i.sent < Length(i.task) /\ \A t \in Task : held[t] \in Nat
  BY ItemTypes DEF SendNext
<1>3. CASE items' = (items \ {i}) \cup {b} /\ out' = [out EXCEPT ![p] = Append(@, m)]
           /\ UNCHANGED <<uploads, failed>>
  <2>1. b \in Item /\ SameAs(b, i) /\ b.live = i.live /\ b.ack = i.ack
    BY <1>2, SentIs
  <2>2. m \in Message /\ SameAs(m, i)
    <3>1. Length(i.task) \in 1 .. Chunks + 1 /\ i.sent \in Nat
      BY <1>2, LengthBound DEF Item
    <3>2. i.sent + 1 \in 1 .. Chunks + 1
      BY <1>2, <3>1
    <3>3. QED
      BY <1>2, <3>2 DEF Message, Item, Cut, SameAs
  <2>3. items' = (items \ {i}) \cup {b}
    BY <1>3
  <2>4. out' = [out EXCEPT ![p] = Append(@, m)]
    BY <1>3
  <2> HIDE DEF b, m, p
  <2>5. /\ items' \subseteq Item /\ FlowItems /\ Apart' /\ IdsOf(items') = IdsOf(items)
        /\ \A t \in Task : Newest(t) => Newest(t)'
    BY <1>1, <2>1, <2>3, ItemSwapped
  <2>6. out' \in [Peer -> Seq(Message)] /\ FlowParcels /\ FlowAnswers /\ FlowHeld
    BY <1>1, <1>2, <2>2, <2>4, MessageSent
  <2>7. TypeOK'
    BY <1>1, <1>3, <2>5, <2>6 DEF TypeOK
  <2>8. \A t \in Task : Orphan(t) => Orphan(t)'
    BY <1>3, <2>5 DEF Orphan
  <2>9. StillOwed'
    BY <1>1, <1>2, <1>3, <2>5, <2>7, <2>8, DebtsKept DEF Owed
  <2>10. QED
    BY <1>1, <1>3, <2>5, <2>6, <2>7, <2>9, SameUploads, NoQuestion DEF Flow, Step
<1>4. CASE i.id \in IdsOf(uploads) /\ Pause(i) /\ UNCHANGED out
  <2>1. items' = items \ {i} /\ failed' = failed
        /\ uploads' = {IF u.id = i.id THEN [u EXCEPT !.paused = TRUE] ELSE u : u \in uploads}
    BY <1>4 DEF Pause
  <2>2. /\ items' \subseteq Item /\ FlowItems /\ Apart' /\ IdsOf(items') = IdsOf(items) \ {i.id}
        /\ \A t \in Task : Newest(t) => Newest(t)' \/ i.task = t
    BY <1>1, <2>1, ItemGone
  <2>3. \A u \in uploads : LET v == [u EXCEPT !.paused = TRUE] IN v \in Upload /\ v.id = u.id /\ v.task = u.task
    BY PausedIs, ItemTypes
  <2>4. /\ uploads' \subseteq Upload
        /\ \A v \in uploads' : \E u \in uploads : v.id = u.id /\ v.task = u.task
        /\ \A u \in uploads : \E v \in uploads' : v.id = u.id /\ v.task = u.task
    BY <2>1, <2>3, ItemTypes
  <2>5. TypeOK'
    BY <1>1, <1>4, <2>1, <2>2, <2>4 DEF TypeOK
  <2>6. FlowUploads
    BY <2>4 DEF FlowUploads
  <2>7. \A t \in Task : Orphan(t) => Orphan(t)'
    BY <2>2, <2>4 DEF Orphan
  <2>8. Orphan(i.task)'
    <3>1. PICK u \in uploads : u.id = i.id
      BY <1>4 DEF IdsOf
    <3>2. u.task = i.task
      BY <3>1 DEF UploadsMatch
    <3>3. QED
      BY <2>2, <2>4, <3>1, <3>2 DEF Orphan
  <2>9. StillOwed'
    BY <1>1, <1>2, <2>1, <2>2, <2>5, <2>7, <2>8, DebtsKept DEF Owed
  <2>10. QED
    BY <1>1, <1>4, <2>2, <2>5, <2>6, <2>9, CalmFlow, NoQuestion DEF Flow, Step
<1>5. CASE Fail(i) /\ UNCHANGED out
  <2>1. /\ items' \subseteq Item /\ uploads' \subseteq Upload
        /\ failed' \in [Task -> 0 .. ResendLimit + 1]
        /\ FlowItems /\ FlowUploads /\ Apart'
        /\ \A t \in Task : Owed(t) => Owed(t)'
    BY <1>1, <1>5, FailIs
  <2>2. TypeOK'
    BY <1>1, <1>5, <2>1 DEF TypeOK
  <2>3. StillOwed'
    BY <1>1, <1>2, <2>1, <2>2, DebtsKept
  <2>4. QED
    BY <1>1, <1>5, <2>1, <2>2, <2>3, CalmFlow, NoQuestion DEF Flow, Step
<1>6. QED
  BY <1>3, <1>4, <1>5 DEF SendNext

(* Items that all change at once, and some of which may go.                *)
LEMMA ItemsMapped ==
    ASSUME TypeOK, Apart, NEW S \in SUBSET items, NEW f, UNCHANGED asked,
           items' = {f[i] : i \in S},
           \A i \in S : /\ f[i] \in Item /\ SameAs(f[i], i)
                        /\ f[i].ack = "done" => i.ack = "done" \/ held[i.task] >= i.ver
    PROVE  /\ items' \subseteq Item /\ FlowItems /\ Apart'
           /\ IdsOf(items') \subseteq IdsOf(items)
           /\ S = items /\ (\A i \in items : f[i].live = i.live) => \A t \in Task : Newest(t) => Newest(t)'
<1>1. items' \subseteq Item
  OBVIOUS
<1>2. FlowItems
  BY DEF FlowItems
<1>3. Apart'
  BY DEF Apart, SameAs
<1>4. IdsOf(items') \subseteq IdsOf(items)
  BY DEF IdsOf, SameAs
<1>5. ASSUME S = items, \A i \in items : f[i].live = i.live, NEW t \in Task, Newest(t)
      PROVE  Newest(t)'
  <2>1. PICK i \in items : i.task = t /\ i.live /\ i.ver = asked[t]
    BY <1>5 DEF Newest
  <2>2. f[i] \in items' /\ f[i].task = t /\ f[i].live /\ f[i].ver = asked[t]
    BY <1>5, <2>1 DEF SameAs
  <2>3. QED
    BY <2>2 DEF Newest
<1>6. QED
  BY <1>1, <1>2, <1>3, <1>4, <1>5

(* Messages, answers and buffers that go.                                  *)
LEMMA LessFlow ==
    ASSUME \A q \in Peer : InSeq(out'[q]) \subseteq InSeq(out[q]) /\ InSeq(back'[q]) \subseteq InSeq(back[q]),
           partial' \subseteq partial, UNCHANGED held
    PROVE  FlowParcels /\ FlowAnswers /\ FlowHeld
<1>1. \A q \in Peer : /\ InTransit(q) = InSeq(out[q]) /\ InTransit(q)' = InSeq(out'[q])
                      /\ Answers(q) = InSeq(back[q]) /\ Answers(q)' = InSeq(back'[q])
  BY DEF InTransit, Answers, InSeq
<1>2. Parcels' \subseteq Parcels
  BY <1>1 DEF Parcels
<1>3. AllAnswers' \subseteq AllAnswers
  BY <1>1 DEF AllAnswers
<1>4. QED
  BY <1>2, <1>3 DEF FlowParcels, FlowAnswers, FlowHeld, SameAs

LEMMA ReceiveAnswerStep ==
    ASSUME IInv, NEW p \in Peer, ReceiveAnswer(p)
    PROVE  Step
<1> USE DEF IInv
<1> DEFINE a == Head(back[p])
           f == [i \in items |-> IF i.id = a.id THEN Answered(i, a.ok) ELSE i]
<1>1. UNCHANGED <<asks, asked, queued, uploads, failed, excuse, open, out, partial, downloads, held, trouble>>
  BY DEF ReceiveAnswer, peerVars
<1>2. back \in [Peer -> Seq(Reply)] /\ back[p] # <<>> /\ back' = [back EXCEPT ![p] = Tail(@)]
  BY DEF ReceiveAnswer, TypeOK
<1>3. /\ a \in Reply /\ a \in InSeq(back[p])
      /\ Tail(back[p]) \in Seq(Reply) /\ InSeq(Tail(back[p])) \subseteq InSeq(back[p])
  <2>1. back[p] \in Seq(Reply)
    BY <1>2
  <2>2. QED
    BY <1>2, <2>1, TailShrinks
<1>4. a.ok \in BOOLEAN /\ a \in AllAnswers
  <2>1. Answers(p) = InSeq(back[p])
    BY DEF Answers, InSeq
  <2>2. QED
    BY <1>3, <2>1 DEF Reply, AllAnswers
<1>5. /\ back' \in [Peer -> Seq(Reply)]
      /\ \A q \in Peer : InSeq(back'[q]) \subseteq InSeq(back[q])
  <2>1. back'[p] = Tail(back[p]) /\ \A q \in Peer : q # p => back'[q] = back[q]
    BY <1>2
  <2>2. back' \in [Peer -> Seq(Reply)]
    BY <1>2, <1>3
  <2>3. QED
    BY <1>3, <2>1, <2>2
<1>6. items' = {f[i] : i \in items}
  BY DEF ReceiveAnswer
<1>7. ASSUME NEW i \in items
      PROVE  /\ f[i] \in Item /\ SameAs(f[i], i) /\ f[i].live = i.live
             /\ f[i].ack = "done" => i.ack = "done" \/ held[i.task] >= i.ver
  <2>1. i \in Item
    BY ItemTypes
  <2>2. CASE i.id = a.id
    <3>1. f[i] = Answered(i, a.ok)
      BY <2>2
    <3>2. a.ok => held[i.task] >= i.ver
      BY <1>4, <2>2 DEF AnswersTrue
    <3>3. /\ Answered(i, a.ok) \in Item /\ SameAs(Answered(i, a.ok), i) /\ Answered(i, a.ok).live = i.live
          /\ Answered(i, a.ok).ack = "done" => a.ok \/ i.ack = "done"
      BY <1>4, <2>1, AnsweredIs
    <3> HIDE DEF f, a
    <3>4. QED
      BY <3>1, <3>2, <3>3
  <2>3. CASE i.id # a.id
    BY <2>1, <2>3 DEF SameAs
  <2>4. QED
    BY <2>2, <2>3
<1> HIDE DEF f, a
<1>8. /\ items' \subseteq Item /\ FlowItems /\ Apart' /\ IdsOf(items') \subseteq IdsOf(items)
      /\ \A t \in Task : Newest(t) => Newest(t)'
  BY <1>1, <1>6, <1>7, ItemsMapped
<1>9. TypeOK'
  BY <1>1, <1>5, <1>8 DEF TypeOK
<1>10. StillOwed'
  <2>1. \A t \in Task : held[t] \in Nat
    BY ItemTypes
  <2>2. \A t \in Task : Orphan(t) => Orphan(t)'
    BY <1>1, <1>8 DEF Orphan
  <2>3. QED
    BY <1>1, <1>8, <1>9, <2>1, <2>2, DebtsKept DEF Owed
<1>11. FlowParcels /\ FlowAnswers /\ FlowHeld
  BY <1>1, <1>5, LessFlow
<1>12. QED
  BY <1>1, <1>8, <1>9, <1>10, <1>11, SameUploads, NoQuestion DEF Flow, Step

-----------------------------------------------------------------------------
(* The peers' steps.                                                       *)

LEMMA AnswerFlow ==
    ASSUME TypeOK, NEW x, x.id \in Id, PeerOf[x.task] \in Peer, NEW ok \in BOOLEAN, Answer(x, ok)
    PROVE  /\ back' \in [Peer -> Seq(Reply)]
           /\ \A a \in AllAnswers' : a \in AllAnswers \/ (a.id = x.id /\ a.ok = ok)
<1> DEFINE r == [id |-> x.id, ok |-> ok]
           q == PeerOf[x.task]
<1>1. r \in Reply /\ r.id = x.id /\ r.ok = ok
  BY DEF Reply
<1>2. back \in [Peer -> Seq(Reply)] /\ back' = [back EXCEPT ![q] = Append(@, r)]
  BY DEF Answer, TypeOK
<1>3. q \in Peer
  OBVIOUS
<1> HIDE DEF r, q
<1>4. Append(back[q], r) \in Seq(Reply) /\ InSeq(Append(back[q], r)) \subseteq InSeq(back[q]) \cup {r}
  BY <1>1, <1>2, <1>3, AppendAdds
<1>5. /\ back' \in [Peer -> Seq(Reply)] /\ back'[q] = Append(back[q], r)
      /\ \A k \in Peer : k # q => back'[k] = back[k]
  BY <1>2, <1>3, <1>4
<1>6. \A k \in Peer : InSeq(back'[k]) \subseteq InSeq(back[k]) \cup {r}
  BY <1>4, <1>5
<1>7. ASSUME NEW a \in AllAnswers', a \notin AllAnswers PROVE a = r
  <2>1. PICK k \in Peer : a \in InSeq(back'[k])
    BY <1>7 DEF AllAnswers, Answers, InSeq
  <2>2. a \notin InSeq(back[k])
    BY <1>7 DEF AllAnswers, Answers, InSeq
  <2>3. QED
    BY <1>6, <2>1, <2>2
<1>8. QED
  BY <1>1, <1>5, <1>7

LEMMA ApplyFlow ==
    ASSUME TypeOK, NEW x \in Parcels, NEW w, w.id = x.id, w.task = x.task, w.ver = x.ver,
           NEW intact, Apply(w, intact)
    PROVE  /\ back' \in [Peer -> Seq(Reply)] /\ held' \in [Task -> Version] /\ trouble' \in 0 .. MaxTrouble
           /\ FlowAnswers /\ FlowHeld
           /\ \/ UNCHANGED held
              \/ held' = [held EXCEPT ![x.task] = x.ver] /\ x.ver > held[x.task]
<1>1. /\ x.id \in Id /\ x.task \in Task /\ x.ver \in Version /\ x.ver \in Nat /\ PeerOf[x.task] \in Peer
      /\ held \in [Task -> Version] /\ trouble \in 0 .. MaxTrouble
      /\ \A t \in Task : held[t] \in Nat
  BY ParcelTypes, ItemTypes DEF TypeOK
<1>2. CASE /\ held' = [held EXCEPT ![w.task] = IF w.ver > @ THEN w.ver ELSE @]
           /\ Answer(w, TRUE) /\ UNCHANGED trouble
  <2>1. /\ back' \in [Peer -> Seq(Reply)]
        /\ \A a \in AllAnswers' : a \in AllAnswers \/ (a.id = x.id /\ a.ok = TRUE)
    BY <1>1, <1>2, AnswerFlow
  <2>2. /\ held' \in [Task -> Version]
        /\ held'[x.task] = IF x.ver > held[x.task] THEN x.ver ELSE held[x.task]
        /\ \A t \in Task : t # x.task => held'[t] = held[t]
    BY <1>1, <1>2
  <2>3. held'[x.task] >= x.ver
    BY <1>1, <2>2
  <2>4. FlowAnswers
    BY <2>1, <2>3 DEF FlowAnswers
  <2>5. FlowHeld
    BY <1>1, <2>2 DEF FlowHeld
  <2>6. \/ UNCHANGED held
        \/ held' = [held EXCEPT ![x.task] = x.ver] /\ x.ver > held[x.task]
    BY <1>1, <1>2
  <2>7. QED
    BY <1>1, <1>2, <2>1, <2>2, <2>4, <2>5, <2>6
<1>3. CASE Answer(w, FALSE) /\ UNCHANGED held /\ (Happens("write") \/ UNCHANGED trouble)
  <2>1. /\ back' \in [Peer -> Seq(Reply)]
        /\ \A a \in AllAnswers' : a \in AllAnswers \/ (a.id = x.id /\ a.ok = FALSE)
    BY <1>1, <1>3, AnswerFlow
  <2>2. trouble' \in 0 .. MaxTrouble
    BY <1>1, <1>3 DEF Happens
  <2>3. QED
    BY <1>1, <1>3, <2>1, <2>2 DEF FlowAnswers, FlowHeld
<1>4. QED
  BY <1>2, <1>3 DEF Apply

LEMMA ArriveIs ==
    ASSUME IInv, NEW p \in Peer, Arrive(p)
    PROVE  /\ out' \in [Peer -> Seq(Message)] /\ back' \in [Peer -> Seq(Reply)]
           /\ partial' \subseteq Partial /\ downloads' \subseteq Id \X Peer
           /\ held' \in [Task -> Version] /\ trouble' \in 0 .. MaxTrouble
           /\ FlowParcels /\ FlowAnswers /\ FlowHeld
           /\ \/ UNCHANGED held
              \/ \E x \in Parcels : held' = [held EXCEPT ![x.task] = x.ver] /\ x.ver > held[x.task]
<1> USE DEF IInv
<1> DEFINE m == Head(out[p])
<1>1. out \in [Peer -> Seq(Message)] /\ out[p] # <<>> /\ out' = [out EXCEPT ![p] = Tail(@)]
  BY DEF Arrive, TypeOK
<1>2. /\ m \in Message /\ m \in InSeq(out[p])
      /\ Tail(out[p]) \in Seq(Message) /\ InSeq(Tail(out[p])) \subseteq InSeq(out[p])
  <2>1. out[p] \in Seq(Message)
    BY <1>1
  <2>2. QED
    BY <1>1, <2>1, TailShrinks
<1>3. \/ ReceiveWhole(m)
      \/ ReceiveStart(m)
      \/ m.n > 1 /\ ReceiveChunk(m)
  BY DEF Arrive
<1> HIDE DEF m
<1>4. m \in Parcels /\ m.id \in Id /\ m.task \in Task /\ PeerOf[m.task] \in Peer
  <2>1. InTransit(p) = InSeq(out[p])
    BY DEF InTransit, InSeq
  <2>2. QED
    BY <1>2, <2>1 DEF Parcels, Message
<1>5. out' \in [Peer -> Seq(Message)] /\ \A q \in Peer : InSeq(out'[q]) \subseteq InSeq(out[q])
  <2>1. out'[p] = Tail(out[p]) /\ \A q \in Peer : q # p => out'[q] = out[q]
    BY <1>1
  <2>2. out' \in [Peer -> Seq(Message)]
    BY <1>1, <1>2
  <2>3. QED
    BY <1>2, <2>1, <2>2
<1>6. ASSUME \A x \in partial' : SameAs(x, m) \/ \E y \in partial : SameAs(x, y)
      PROVE  FlowParcels
  <2>1. SUFFICES ASSUME NEW x \in Parcels' PROVE \E y \in Parcels : SameAs(x, y)
    BY DEF FlowParcels
  <2>2. CASE x \in partial'
    BY <1>4, <1>6, <2>2 DEF Parcels
  <2>3. CASE \E q \in Peer : x \in InSeq(out'[q])
    <3>1. PICK q \in Peer : x \in InSeq(out[q])
      BY <1>5, <2>3
    <3>2. x \in Parcels
      BY <3>1 DEF Parcels, InTransit, InSeq
    <3>3. QED
      BY <3>2 DEF SameAs
  <2>4. QED
    BY <2>1, <2>2, <2>3 DEF Parcels, InTransit, InSeq
<1>7. /\ back \in [Peer -> Seq(Reply)] /\ partial \subseteq Partial /\ downloads \subseteq Id \X Peer
      /\ held \in [Task -> Version] /\ trouble \in 0 .. MaxTrouble
  BY DEF TypeOK
<1>8. ASSUME UNCHANGED back PROVE FlowAnswers
  <2>1. AllAnswers' = AllAnswers
    <3>1. \A q \in Peer : Answers(q)' = Answers(q)
      BY <1>8 DEF Answers
    <3>2. QED
      BY <3>1 DEF AllAnswers
  <2>2. QED
    BY <2>1 DEF FlowAnswers
<1>9. CASE ReceiveWhole(m)
  <2>1. Apply(m, TRUE) /\ UNCHANGED <<partial, downloads>>
    BY <1>9 DEF ReceiveWhole
  <2>2. /\ back' \in [Peer -> Seq(Reply)] /\ held' \in [Task -> Version] /\ trouble' \in 0 .. MaxTrouble
        /\ FlowAnswers /\ FlowHeld
        /\ \/ UNCHANGED held
           \/ held' = [held EXCEPT ![m.task] = m.ver] /\ m.ver > held[m.task]
    BY <1>4, <2>1, ApplyFlow
  <2>3. FlowParcels
    BY <1>6, <2>1 DEF SameAs
  <2>4. QED
    BY <1>4, <1>5, <1>7, <2>1, <2>2, <2>3
<1>10. CASE ReceiveStart(m)
  <2>1. UNCHANGED <<held, trouble>>
    BY <1>10 DEF ReceiveStart
  <2>2. FlowHeld
    BY <2>1 DEF FlowHeld
  <2>3. CASE partial' = Reset(m) /\ downloads' = downloads \cup {<<m.id, PeerOf[m.task]>>} /\ UNCHANGED back
    <3>1. Empty(m) \in Partial /\ SameAs(Empty(m), m)
      BY <1>2, EmptyIs
    <3>2. \A x \in partial' : x \in partial \/ x = Empty(m)
      BY <2>3 DEF Reset
    <3>3. FlowParcels
      BY <1>6, <3>1, <3>2 DEF SameAs
    <3>4. partial' \subseteq Partial
      BY <1>7, <3>1, <3>2
    <3>5. downloads' \subseteq Id \X Peer
      BY <1>4, <1>7, <2>3
    <3>6. QED
      BY <1>5, <1>7, <1>8, <2>1, <2>2, <2>3, <3>3, <3>4, <3>5
  <2>4. CASE Answer(m, FALSE) /\ UNCHANGED <<partial, downloads>>
    <3>1. /\ back' \in [Peer -> Seq(Reply)]
          /\ \A a \in AllAnswers' : a \in AllAnswers \/ (a.id = m.id /\ a.ok = FALSE)
      BY <1>4, <2>4, AnswerFlow
    <3>2. FlowParcels
      BY <1>6, <2>4 DEF SameAs
    <3>3. FlowAnswers
      BY <3>1 DEF FlowAnswers
    <3>4. QED
      BY <1>5, <1>7, <2>1, <2>2, <2>4, <3>1, <3>2, <3>3
  <2>5. QED
    BY <1>10, <2>3, <2>4 DEF ReceiveStart
<1>11. CASE m.n > 1 /\ ReceiveChunk(m)
  <2> DEFINE mine == {Filled(x, m) : x \in {y \in Mine(PeerOf[m.task]) : y.id = m.id}}
             rest == {x \in partial : x.id # m.id}
             done == {x \in mine : Complete(x)}
  <2>1. \A x \in mine : x \in Partial /\ \E y \in partial : SameAs(x, y)
    <3>1. SUFFICES ASSUME NEW y \in partial PROVE Filled(y, m) \in Partial /\ SameAs(Filled(y, m), y)
      BY DEF Mine, OfPeer
    <3>2. QED
      BY <1>2, <1>7, <1>11, FilledIs
  <2>2. rest \subseteq partial
    OBVIOUS
  <2>3. \/ /\ partial' = rest \cup mine
           /\ UNCHANGED <<back, downloads, held, trouble>>
        \/ /\ partial' = rest
           /\ downloads' = downloads \ {<<m.id, PeerOf[m.task]>>}
           /\ \E x \in mine : Apply(x, Intact(x))
    BY <1>11 DEF ReceiveChunk
  <2> HIDE DEF mine, rest
  <2>4. CASE partial' = rest \cup mine /\ UNCHANGED <<back, downloads, held, trouble>>
    <3>1. FlowParcels
      BY <1>6, <2>1, <2>2, <2>4 DEF SameAs
    <3>2. FlowHeld
      BY <2>4 DEF FlowHeld
    <3>3. QED
      BY <1>5, <1>7, <1>8, <2>1, <2>2, <2>4, <3>1, <3>2
  <2>5. CASE partial' = rest /\ downloads' = downloads \ {<<m.id, PeerOf[m.task]>>} /\ \E x \in mine : Apply(x, Intact(x))
    <3>1. PICK x \in mine : Apply(x, Intact(x))
      BY <2>5
    <3>2. PICK y \in partial : SameAs(x, y)
      BY <2>1
    <3>3. /\ back' \in [Peer -> Seq(Reply)] /\ held' \in [Task -> Version] /\ trouble' \in 0 .. MaxTrouble
          /\ FlowAnswers /\ FlowHeld
          /\ \/ UNCHANGED held
             \/ held' = [held EXCEPT ![y.task] = y.ver] /\ y.ver > held[y.task]
      BY <3>1, <3>2, ApplyFlow DEF Parcels, SameAs
    <3>4. FlowParcels
      BY <1>6, <2>2, <2>5 DEF SameAs
    <3>5. QED
      BY <1>5, <1>7, <2>2, <2>5, <3>2, <3>3, <3>4 DEF Parcels
  <2>6. QED
    BY <2>3, <2>4, <2>5
<1>12. QED
  BY <1>3, <1>9, <1>10, <1>11

LEMMA ArriveStep ==
    ASSUME IInv, NEW p \in Peer, Arrive(p)
    PROVE  Step
<1> USE DEF IInv
<1>1. UNCHANGED <<asks, asked, queued, items, uploads, failed, excuse, open>>
  BY DEF Arrive, senderVars
<1>2. /\ out' \in [Peer -> Seq(Message)] /\ back' \in [Peer -> Seq(Reply)]
      /\ partial' \subseteq Partial /\ downloads' \subseteq Id \X Peer
      /\ held' \in [Task -> Version] /\ trouble' \in 0 .. MaxTrouble
      /\ FlowParcels /\ FlowAnswers /\ FlowHeld
  BY ArriveIs
<1>3. TypeOK'
  BY <1>1, <1>2 DEF TypeOK
<1>4. \A t \in Task : held'[t] >= held[t]
  <2>1. \A t \in Task : held[t] \in Nat /\ held'[t] \in Nat
    <3>1. Version \subseteq Nat
      BY DEF Version
    <3>2. QED
      BY <1>2, <3>1, ItemTypes
  <2>2. \A t \in Task : held'[t] = held[t] \/ held'[t] > held[t]
    BY <1>2 DEF FlowHeld
  <2>3. QED
    BY <2>1, <2>2
<1>5. StillOwed'
  <2>1. \A t \in Task : Owed(t) => Owed(t)'
    BY <1>1 DEF Owed, Newest, Orphan
  <2>2. QED
    BY <1>1, <1>3, <1>4, <2>1, DebtsKept
<1>6. QED
  BY <1>1, <1>2, <1>3, <1>5, SameItems, SameUploads, NoQuestion DEF Flow, Step

LEMMA SweepStep ==
    ASSUME IInv, \/ \E d \in downloads : SweepDownload(d)
                 \/ \E x \in partial : SweepBuffer(x)
    PROVE  Step
<1> USE DEF IInv
<1>1. UNCHANGED <<asks, asked, queued, items, uploads, failed, excuse, open, out, back, held>>
  BY DEF SweepDownload, SweepBuffer, senderVars
<1>2. partial' \subseteq partial /\ downloads' \subseteq downloads /\ trouble' \in 0 .. MaxTrouble
  <2>1. trouble \in 0 .. MaxTrouble
    BY DEF TypeOK
  <2>2. ASSUME NEW d \in downloads, SweepDownload(d)
        PROVE  partial' = partial /\ downloads' \subseteq downloads /\ trouble' \in 0 .. MaxTrouble
    BY <2>1, <2>2 DEF SweepDownload, Happens
  <2>3. ASSUME NEW x \in partial, SweepBuffer(x)
        PROVE  partial' \subseteq partial /\ downloads' = downloads /\ trouble' \in 0 .. MaxTrouble
    BY <2>1, <2>3 DEF SweepBuffer, Happens
  <2>4. QED
    BY <2>2, <2>3
<1>3. TypeOK'
  BY <1>1, <1>2 DEF TypeOK
<1>4. StillOwed'
  <2>1. \A t \in Task : held[t] \in Nat
    BY ItemTypes
  <2>2. \A t \in Task : Owed(t) => Owed(t)'
    BY <1>1 DEF Owed, Newest, Orphan
  <2>3. QED
    BY <1>1, <1>3, <2>1, <2>2, DebtsKept
<1>5. FlowParcels /\ FlowAnswers /\ FlowHeld
  BY <1>1, <1>2, LessFlow
<1>6. QED
  BY <1>1, <1>3, <1>4, <1>5, SameItems, SameUploads, NoQuestion DEF Flow, Step

-----------------------------------------------------------------------------
(* Links.                                                                  *)

(* What a closed link takes away.                                          *)
LEMMA LossIs ==
    ASSUME TypeOK, NEW P \in SUBSET Peer, PeersLose(P)
    PROVE  /\ out' \in [Peer -> Seq(Message)] /\ back' \in [Peer -> Seq(Reply)]
           /\ partial' \subseteq Partial /\ downloads' \subseteq Id \X Peer /\ UNCHANGED held
           /\ FlowParcels /\ FlowAnswers /\ FlowHeld
<1>1. /\ out' = [p \in Peer |-> IF p \in P THEN <<>> ELSE out[p]]
      /\ back' = [p \in Peer |-> IF p \in P THEN <<>> ELSE back[p]]
      /\ partial' \subseteq partial /\ downloads' \subseteq downloads /\ UNCHANGED held
  BY DEF PeersLose
<1>2. /\ out \in [Peer -> Seq(Message)] /\ back \in [Peer -> Seq(Reply)]
      /\ partial \subseteq Partial /\ downloads \subseteq Id \X Peer
  BY DEF TypeOK
<1>3. <<>> \in Seq(Message) /\ <<>> \in Seq(Reply)
  OBVIOUS
<1>4. out' \in [Peer -> Seq(Message)] /\ back' \in [Peer -> Seq(Reply)]
  BY <1>1, <1>2, <1>3
<1>5. \A q \in Peer : (out'[q] = <<>> \/ out'[q] = out[q]) /\ (back'[q] = <<>> \/ back'[q] = back[q])
  BY <1>1
<1>6. \A q \in Peer : InSeq(out'[q]) \subseteq InSeq(out[q]) /\ InSeq(back'[q]) \subseteq InSeq(back[q])
  BY <1>5, NothingInEmpty
<1>7. QED
  BY <1>1, <1>2, <1>4, <1>6, LessFlow

(* Uploads that all change at once.                                        *)
LEMMA UploadsMapped ==
    ASSUME TypeOK, NEW f, uploads' = {f[u] : u \in uploads},
           \A u \in uploads : f[u] = u \/ f[u] = [u EXCEPT !.paused = TRUE],
           IdsOf(items') \subseteq IdsOf(items)
    PROVE  uploads' \subseteq Upload /\ FlowUploads /\ \A t \in Task : Orphan(t) => Orphan(t)'
<1>1. ASSUME NEW u \in uploads PROVE f[u] \in Upload /\ f[u].id = u.id /\ f[u].task = u.task
  <2>1. u \in Upload
    BY ItemTypes
  <2>2. LET v == [u EXCEPT !.paused = TRUE] IN v \in Upload /\ v.id = u.id /\ v.task = u.task
    BY <2>1, PausedIs
  <2>3. QED
    BY <2>1, <2>2
<1>2. uploads' \subseteq Upload /\ FlowUploads
  BY <1>1 DEF FlowUploads
<1>3. ASSUME NEW t \in Task, Orphan(t) PROVE Orphan(t)'
  <2>1. PICK u \in uploads : u.task = t /\ u.id \notin IdsOf(items)
    BY <1>3 DEF Orphan
  <2>2. f[u] \in uploads' /\ f[u].task = t /\ f[u].id \notin IdsOf(items')
    BY <1>1, <2>1
  <2>3. QED
    BY <2>2 DEF Orphan
<1>4. QED
  BY <1>2, <1>3

(* resumeTransfers trades records for places in the queue.                 *)
LEMMA ResumeIs ==
    ASSUME TypeOK, NEW p \in Peer, Resume(p), IdsOf(items') \subseteq IdsOf(items)
    PROVE  /\ uploads' \subseteq Upload /\ queued' \subseteq Task /\ queued \subseteq queued' /\ FlowUploads
           /\ \A t \in Task : Orphan(t) => Orphan(t)' \/ t \in queued'
<1> DEFINE paused == {u \in OfPeer(p, uploads) : u.paused}
<1>1. uploads' = uploads \ paused /\ queued' = queued \cup TasksOf(paused) /\ paused \subseteq uploads
  BY DEF Resume, OfPeer
<1>2. uploads \subseteq Upload /\ queued \subseteq Task /\ \A u \in uploads : u.task \in Task
  BY ItemTypes DEF TypeOK
<1> HIDE DEF paused
<1>3. TasksOf(paused) \subseteq Task /\ \A u \in paused : u.task \in TasksOf(paused)
  BY <1>1, <1>2 DEF TasksOf
<1>4. FlowUploads
  BY <1>1, SameUploads
<1>5. ASSUME NEW t \in Task, Orphan(t) PROVE Orphan(t)' \/ t \in queued'
  <2>1. PICK u \in uploads : u.task = t /\ u.id \notin IdsOf(items)
    BY <1>5 DEF Orphan
  <2>2. CASE u \in paused
    BY <1>1, <1>3, <2>1, <2>2
  <2>3. CASE u \notin paused
    BY <1>1, <2>1, <2>3 DEF Orphan
  <2>4. QED
    BY <2>2, <2>3
<1>6. QED
  BY <1>1, <1>2, <1>3, <1>4, <1>5

LEMMA DisconnectStep ==
    ASSUME IInv, NEW p \in Peer, Disconnect(p)
    PROVE  Step
<1> USE DEF IInv
<1> DEFINE f == [i \in items |-> IF PeerOf[i.task] = p THEN CutOff(i) ELSE i]
           g == [u \in uploads |-> IF PeerOf[u.task] = p THEN [u EXCEPT !.paused = TRUE] ELSE u]
<1>1. UNCHANGED <<asks, asked, queued, failed, excuse>> /\ open' = open \ {p} /\ PeersLose({p})
  BY DEF Disconnect
<1>2. trouble' \in 0 .. MaxTrouble
  BY DEF Disconnect, Happens, TypeOK
<1>3. items' = {f[i] : i \in items}
  BY DEF Disconnect
<1>4. uploads' = {g[u] : u \in uploads}
  BY DEF Disconnect, UploadsPaused
<1>5. \A i \in items : /\ f[i] \in Item /\ SameAs(f[i], i) /\ f[i].live = i.live
                       /\ f[i].ack = "done" => i.ack = "done"
  BY CutOffIs, ItemTypes DEF SameAs
<1>6. \A u \in uploads : g[u] = u \/ g[u] = [u EXCEPT !.paused = TRUE]
  OBVIOUS
<1> HIDE DEF f, g
<1>7. /\ items' \subseteq Item /\ FlowItems /\ Apart' /\ IdsOf(items') \subseteq IdsOf(items)
      /\ \A t \in Task : Newest(t) => Newest(t)'
  BY <1>1, <1>3, <1>5, ItemsMapped
<1>8. uploads' \subseteq Upload /\ FlowUploads /\ \A t \in Task : Orphan(t) => Orphan(t)'
  BY <1>4, <1>6, <1>7, UploadsMapped
<1>9. /\ out' \in [Peer -> Seq(Message)] /\ back' \in [Peer -> Seq(Reply)]
      /\ partial' \subseteq Partial /\ downloads' \subseteq Id \X Peer /\ UNCHANGED held
      /\ FlowParcels /\ FlowAnswers /\ FlowHeld
  BY <1>1, LossIs
<1>10. TypeOK'
  BY <1>1, <1>2, <1>7, <1>8, <1>9 DEF TypeOK
<1>11. StillOwed'
  <2>1. \A t \in Task : held[t] \in Nat
    BY ItemTypes
  <2>2. QED
    BY <1>1, <1>7, <1>8, <1>9, <1>10, <2>1, DebtsKept DEF Owed
<1>12. QED
  BY <1>1, <1>7, <1>8, <1>9, <1>10, <1>11, NoQuestion DEF Flow, Step

LEMMA ConnectStep ==
    ASSUME IInv, NEW p \in Peer, Connect(p)
    PROVE  Step
<1> USE DEF IInv
<1>1. /\ UNCHANGED <<asks, asked, items, failed, excuse, out, back, partial, downloads, held, trouble>>
      /\ open' = open \cup {p} /\ Resume(p)
  BY DEF Connect, peerVars
<1>2. /\ uploads' \subseteq Upload /\ queued' \subseteq Task /\ queued \subseteq queued' /\ FlowUploads
      /\ \A t \in Task : Orphan(t) => Orphan(t)' \/ t \in queued'
  BY <1>1, ResumeIs
<1>3. TypeOK'
  BY <1>1, <1>2 DEF TypeOK
<1>4. StillOwed'
  <2>1. \A t \in Task : held[t] \in Nat
    BY ItemTypes
  <2>2. \A t \in Task : Owed(t) => Owed(t)'
    BY <1>1, <1>2 DEF Owed, Newest
  <2>3. QED
    BY <1>1, <1>3, <2>1, <2>2, DebtsKept
<1>5. QED
  BY <1>1, <1>2, <1>3, <1>4, SameItems, CalmFlow, NoQuestion DEF Flow, Step

LEMMA ReplaceStep ==
    ASSUME IInv, NEW p \in Peer, Replace(p)
    PROVE  Step
<1> USE DEF IInv
<1> DEFINE f == [i \in items |-> IF PeerOf[i.task] = p THEN [i EXCEPT !.wire = "closed"] ELSE i]
<1>1. UNCHANGED <<asks, asked, failed, excuse, open, partial, downloads, held>> /\ Resume(p)
  BY DEF Replace
<1>2. trouble' \in 0 .. MaxTrouble
  BY DEF Replace, Happens, TypeOK
<1>3. items' = {f[i] : i \in items}
  BY DEF Replace
<1>4. \A i \in items : /\ f[i] \in Item /\ SameAs(f[i], i) /\ f[i].live = i.live
                       /\ f[i].ack = "done" => i.ack = "done"
  BY ClosedIs, ItemTypes DEF SameAs
<1> HIDE DEF f
<1>5. /\ items' \subseteq Item /\ FlowItems /\ Apart' /\ IdsOf(items') \subseteq IdsOf(items)
      /\ \A t \in Task : Newest(t) => Newest(t)'
  BY <1>1, <1>3, <1>4, ItemsMapped
<1>6. /\ uploads' \subseteq Upload /\ queued' \subseteq Task /\ queued \subseteq queued' /\ FlowUploads
      /\ \A t \in Task : Orphan(t) => Orphan(t)' \/ t \in queued'
  BY <1>1, <1>5, ResumeIs
<1>7. /\ out' \in [Peer -> Seq(Message)] /\ back' \in [Peer -> Seq(Reply)]
      /\ \A q \in Peer : InSeq(out'[q]) \subseteq InSeq(out[q]) /\ InSeq(back'[q]) \subseteq InSeq(back[q])
  <2>1. out' = [out EXCEPT ![p] = <<>>] /\ back' = [back EXCEPT ![p] = <<>>]
    BY DEF Replace
  <2>2. out \in [Peer -> Seq(Message)] /\ back \in [Peer -> Seq(Reply)]
    BY DEF TypeOK
  <2>3. <<>> \in Seq(Message) /\ <<>> \in Seq(Reply)
    OBVIOUS
  <2>4. out' \in [Peer -> Seq(Message)] /\ back' \in [Peer -> Seq(Reply)]
    BY <2>1, <2>2, <2>3
  <2>5. \A q \in Peer : (out'[q] = <<>> \/ out'[q] = out[q]) /\ (back'[q] = <<>> \/ back'[q] = back[q])
    BY <2>1, <2>2
  <2>6. QED
    BY <2>4, <2>5, NothingInEmpty
<1>8. FlowParcels /\ FlowAnswers /\ FlowHeld
  BY <1>1, <1>7, LessFlow
<1>9. TypeOK'
  BY <1>1, <1>2, <1>5, <1>6, <1>7 DEF TypeOK
<1>10. StillOwed'
  <2>1. \A t \in Task : held[t] \in Nat
    BY ItemTypes
  <2>2. \A t \in Task : Owed(t) => Owed(t)'
    BY <1>1, <1>5, <1>6 DEF Owed
  <2>3. QED
    BY <1>1, <1>9, <2>1, <2>2, DebtsKept
<1>11. QED
  BY <1>1, <1>5, <1>6, <1>8, <1>9, <1>10, NoQuestion DEF Flow, Step

LEMMA AbortStep ==
    ASSUME IInv, NEW p \in Peer, Abort(p)
    PROVE  /\ Step
           /\ UNCHANGED held /\ \A t \in Task : excuse[t] # "none" => excuse'[t] # "none"
<1> USE DEF IInv
<1> DEFINE mine == queued \cap {t \in Task : PeerOf[t] = p}
           gone == TasksOf(OfPeer(p, items) \cup OfPeer(p, uploads)) \cup mine
           S == {j \in items : j.at = "sending" \/ PeerOf[j.task] # p}
           f == [i \in items |-> [Answered(i, FALSE) EXCEPT !.live = FALSE]]
<1>1. UNCHANGED <<asks, asked, failed, open, out, back, partial, downloads, held>>
  BY DEF Abort, peerVars
<1>2. trouble' \in 0 .. MaxTrouble
  BY DEF Abort, Happens, TypeOK
<1>3. queued' = queued \ mine /\ mine \subseteq gone
  BY DEF Abort
<1>4. items' = {f[i] : i \in S}
  BY DEF Abort
<1>5. uploads' \subseteq uploads /\ \A u \in uploads : u.task \notin gone => u \in uploads'
  BY DEF Abort, TasksOf, OfPeer
<1>6. excuse' = [t \in Task |-> IF t \in gone THEN "cleared"
                                ELSE IF t \in TasksOf(items) THEN "struck" ELSE excuse[t]]
  BY DEF Abort
<1>7. \A i \in items : /\ f[i] \in Item /\ SameAs(f[i], i)
                       /\ f[i].ack = "done" => i.ack = "done"
  BY DeadIs, ItemTypes DEF SameAs
<1>8. S \in SUBSET items
  OBVIOUS
<1> HIDE DEF f, S, mine, gone
<1>9. items' \subseteq Item /\ FlowItems /\ Apart' /\ IdsOf(items') \subseteq IdsOf(items)
  BY <1>1, <1>4, <1>7, <1>8, ItemsMapped
<1>10. excuse \in [Task -> Excuses] /\ excuse' \in [Task -> Excuses]
  BY <1>6 DEF TypeOK, Excuses
<1>11. \A t \in Task : \/ excuse'[t] # "none"
                       \/ excuse'[t] = excuse[t] /\ t \notin gone /\ t \notin TasksOf(items)
  BY <1>6
<1>12. \A t \in Task : excuse[t] # "none" => excuse'[t] # "none"
  BY <1>11
<1>13. TypeOK'
  BY <1>1, <1>2, <1>3, <1>5, <1>9, <1>10 DEF TypeOK
<1>14. StillOwed'
  <2>1. ASSUME NEW t \in Task, Owed(t), excuse'[t] = "none" PROVE Owed(t)'
    <3>1. excuse[t] = "none" /\ t \notin gone /\ t \notin TasksOf(items)
      BY <1>11, <2>1
    <3>2. ~Newest(t)
      BY <3>1 DEF Newest, TasksOf
    <3>3. CASE Orphan(t)
      <4>1. PICK u \in uploads : u.task = t /\ u.id \notin IdsOf(items)
        BY <3>3 DEF Orphan
      <4>2. u \in uploads' /\ u.id \notin IdsOf(items')
        BY <1>5, <1>9, <3>1, <4>1
      <4>3. QED
        BY <4>1, <4>2 DEF Orphan, Owed
    <3>4. QED
      BY <1>1, <1>3, <2>1, <3>1, <3>2, <3>3 DEF Owed
  <2>2. \A t \in Task : Owed(t) => Owed(t)'
    BY <2>1 DEF Owed
  <2>3. \A t \in Task : held[t] \in Nat
    BY ItemTypes
  <2>4. QED
    BY <1>1, <1>13, <2>2, <2>3, DebtsKept
<1>15. QED
  BY <1>1, <1>5, <1>9, <1>12, <1>13, <1>14, SameUploads, CalmFlow, NoQuestion DEF Flow, Step

LEMMA RestartStep ==
    ASSUME IInv, Restart
    PROVE  Step
<1> USE DEF IInv
<1> DEFINE g == [u \in uploads |-> [u EXCEPT !.paused = TRUE]]
<1>1. UNCHANGED <<asks, asked, failed, excuse>> /\ PeersLose(Peer)
  BY DEF Restart
<1>2. trouble' \in 0 .. MaxTrouble
  BY DEF Restart, Happens, TypeOK
<1>3. queued' = queued \cup TasksOf(items) /\ items' = {} /\ open' = {}
  BY DEF Restart
<1>4. uploads' = {g[u] : u \in uploads}
  BY DEF Restart
<1>5. \A u \in uploads : g[u] = [u EXCEPT !.paused = TRUE]
  OBVIOUS
<1> HIDE DEF g
<1>6. FlowItems /\ Apart' /\ IdsOf(items') \subseteq IdsOf(items)
  BY <1>3 DEF FlowItems, Apart, IdsOf
<1>7. uploads' \subseteq Upload /\ FlowUploads /\ \A t \in Task : Orphan(t) => Orphan(t)'
  BY <1>4, <1>5, <1>6, UploadsMapped
<1>8. /\ out' \in [Peer -> Seq(Message)] /\ back' \in [Peer -> Seq(Reply)]
      /\ partial' \subseteq Partial /\ downloads' \subseteq Id \X Peer /\ UNCHANGED held
      /\ FlowParcels /\ FlowAnswers /\ FlowHeld
  BY <1>1, LossIs
<1>9. queued' \subseteq Task /\ \A i \in items : i.task \in queued'
  BY <1>3, ItemTypes DEF TasksOf, TypeOK
<1>10. TypeOK'
  BY <1>1, <1>2, <1>3, <1>7, <1>8, <1>9 DEF TypeOK
<1>11. StillOwed'
  <2>1. \A t \in Task : held[t] \in Nat
    BY ItemTypes
  <2>2. \A t \in Task : Newest(t) => t \in queued'
    BY <1>9 DEF Newest
  <2>3. \A t \in Task : Owed(t) => Owed(t)'
    BY <1>1, <1>3, <1>7, <2>2 DEF Owed
  <2>4. QED
    BY <1>1, <1>8, <1>10, <2>1, <2>3, DebtsKept
<1>12. QED
  BY <1>1, <1>6, <1>7, <1>8, <1>10, <1>11, NoQuestion DEF Flow, Step

-----------------------------------------------------------------------------
(* The theorems.                                                           *)

LEMMA InitOK == Init => IInv
<1> SUFFICES ASSUME Init PROVE IInv
  OBVIOUS
<1>1. TypeOK
  <2>1. <<>> \in Seq(Message) /\ <<>> \in Seq(Reply) /\ 0 \in Version
        /\ 0 \in 0 .. ResendLimit + 1 /\ 0 \in 0 .. MaxTrouble
    BY DEF Version
  <2>2. QED
    BY <2>1 DEF Init, TypeOK, Excuses
<1>2. Parcels = {} /\ AllAnswers = {}
  <2>1. \A p \in Peer : InTransit(p) = InSeq(<<>>) /\ Answers(p) = InSeq(<<>>)
    BY DEF Init, InTransit, Answers, InSeq
  <2>2. QED
    BY <2>1, NothingInEmpty DEF Init, Parcels, AllAnswers
<1>3. /\ Apart /\ UploadsMatch /\ ParcelsMatch /\ AnswersTrue /\ AckedIsHeld
  BY <1>2 DEF Init, Apart, UploadsMatch, ParcelsMatch, AnswersTrue, AckedIsHeld
<1>4. NotAhead /\ StillOwed
  BY <1>2 DEF Init, NotAhead, StillOwed
<1>5. QED
  BY <1>1, <1>3, <1>4 DEF IInv

(* What a step may be, by who takes it.                                    *)
SenderStep ==
    \/ \E t \in Task : Start(t) \/ RetryFailed(t)
    \/ \E i \in items : Retry(i) \/ SendNext(i) \/ Finish(i) \/ TimeOut(i)
    \/ \E u \in uploads : Expire(u)
    \/ \E p \in Peer : ReceiveAnswer(p)
SweepOrLink ==
    \/ \E d \in downloads : SweepDownload(d)
    \/ \E x \in partial : SweepBuffer(x)
    \/ \E p \in Peer : Disconnect(p) \/ Connect(p) \/ Replace(p)
    \/ Restart

LEMMA NextCases ==
    Next <=> \/ \E t \in Task : Ask(t)
             \/ \E p \in Peer : Arrive(p)
             \/ \E p \in Peer : Abort(p)
             \/ SenderStep
             \/ SweepOrLink
BY DEF Next, SenderStep, SweepOrLink

LEMMA QuietStep ==
    ASSUME IInv, SenderStep \/ SweepOrLink
    PROVE  Step
BY StartStep, RetryFailedStep, RetryStep, SendNextStep, FinishStep, TimeOutStep, ExpireStep,
   ReceiveAnswerStep, SweepStep, DisconnectStep, ConnectStep, ReplaceStep, RestartStep
   DEF SenderStep, SweepOrLink

LEMMA NextStep ==
    ASSUME IInv, Next
    PROVE  Step
BY NextCases, QuietStep, AskStep, ArriveStep, AbortStep

LEMMA StutterKeeps ==
    ASSUME IInv, UNCHANGED vars
    PROVE  IInv'
<1>1. UNCHANGED <<asks, asked, queued, items, uploads, failed, excuse, open, out, back, partial, downloads, held, trouble>>
  BY DEF vars
<1>2. Parcels' = Parcels /\ AllAnswers' = AllAnswers
  <2>1. \A p \in Peer : InTransit(p)' = InTransit(p) /\ Answers(p)' = Answers(p)
    BY <1>1 DEF InTransit, Answers
  <2>2. QED
    BY <1>1, <2>1 DEF Parcels, AllAnswers
<1>3. TypeOK'
  BY <1>1 DEF IInv, TypeOK
<1>4. Apart' /\ UploadsMatch' /\ ParcelsMatch' /\ AnswersTrue' /\ AckedIsHeld' /\ NotAhead'
  BY <1>1, <1>2 DEF IInv, Apart, UploadsMatch, ParcelsMatch, AnswersTrue, AckedIsHeld, NotAhead
<1>5. StillOwed'
  BY <1>1 DEF IInv, StillOwed, Owed, Newest, Orphan
<1>6. QED
  BY <1>3, <1>4, <1>5 DEF IInv

LEMMA InvariantHolds == Spec => []IInv
<1>1. IInv /\ [Next]_vars => IInv'
  BY NextStep, FlowKeeps, StutterKeeps
<1>2. QED
  BY InitOK, <1>1, PTL DEF Spec

(* Every variable keeps its type: in particular no item is retried by the  *)
(* queue, and no entry of failedSyncs, beyond its limit.                   *)
THEOREM TypeCorrect == Spec => []TypeOK
<1>1. IInv => TypeOK
  BY DEF IInv
<1>2. QED
  BY InvariantHolds, <1>1, PTL

(* Whatever is retried, replaced, aborted or restarted: an item that was   *)
(* acknowledged was written.                                               *)
THEOREM AcksAreTrue == Spec => []AckedIsHeld
<1>1. IInv => AckedIsHeld
  BY DEF IInv
<1>2. QED
  BY InvariantHolds, <1>1, PTL

LEMMA OwedIsCarried ==
    ASSUME NEW t \in Task, Owed(t)
    PROVE  Carried(t) \/ excuse[t] # "none"
BY DEF Owed, Newest, Orphan, Carried, TasksOf

(* No file that was asked for is forgotten, for any number of peers, files *)
(* and things that go wrong.                                               *)
THEOREM NothingForgotten == Spec => []NotForgotten
<1>1. IInv => NotForgotten
  BY OwedIsCarried DEF IInv, StillOwed, NotForgotten
<1>2. QED
  BY InvariantHolds, <1>1, PTL

-----------------------------------------------------------------------------
(* Transfers implements Delivery.                                          *)

Debts == {t \in Task : Carried(t)}
Losses == {t \in Task : excuse[t] # "none"}

LEMMA SettleMaps ==
    ASSUME TypeOK, IInv', UNCHANGED <<asked, held>>,
           \A t \in Task : excuse[t] # "none" => excuse'[t] # "none"
    PROVE  Promise!Settle
<1>1. Losses \subseteq Losses' /\ Debts' \subseteq Task /\ Losses' \subseteq Task
  BY DEF Losses, Debts
<1>2. ASSUME NEW t \in Debts \ Debts' PROVE held[t] = asked[t] \/ t \in Losses'
  <2>1. t \in Task /\ ~Carried(t)'
    BY <1>2 DEF Debts
  <2>2. asked'[t] > held'[t] => excuse'[t] # "none"
    <3>1. asked'[t] > held'[t] => Owed(t)'
      BY <2>1 DEF IInv, StillOwed
    <3>2. Owed(t)' => Carried(t)' \/ excuse'[t] # "none"
      BY DEF Owed, Newest, Orphan, Carried, TasksOf
    <3>3. QED
      BY <2>1, <3>1, <3>2
  <2>3. held'[t] <= asked'[t] /\ held[t] \in Nat /\ asked[t] \in Nat
    BY <2>1, ItemTypes DEF IInv, NotAhead
  <2>4. QED
    BY <2>1, <2>2, <2>3 DEF Losses
<1>3. QED
  BY <1>1, <1>2 DEF Promise!Settle, Debts, Losses

LEMMA AskMaps ==
    ASSUME IInv, NEW t \in Task, Ask(t)
    PROVE  Promise!Ask(t)
<1>1. TypeOK /\ NotAhead
  BY DEF IInv
<1>2. /\ asks' = asks + 1 /\ asked' = [asked EXCEPT ![t] = asks + 1] /\ queued' = queued \cup {t}
      /\ excuse' = [excuse EXCEPT ![t] = "none"] /\ UNCHANGED <<items, uploads, failed, held>>
  BY DEF Ask, peerVars
<1>3. asked \in [Task -> Version] /\ excuse \in [Task -> Excuses]
  BY <1>1 DEF TypeOK
<1>4. asked[t] <= asks /\ asked[t] \in Nat /\ asks \in Nat
  BY <1>1, ItemTypes DEF NotAhead
<1>5. asked'[t] = asks + 1 /\ asked'[t] > asked[t] /\ asked' = [asked EXCEPT ![t] = asked'[t]]
  BY <1>2, <1>3, <1>4
<1>6. Debts' = Debts \cup {t}
  <2>1. \A k \in Task : k # t => asked'[k] = asked[k]
    BY <1>2, <1>3
  <2>2. ASSUME NEW k \in Task, k # t PROVE Carried(k)' <=> Carried(k)
    BY <1>2, <2>1, <2>2 DEF Carried
  <2>3. Carried(t)'
    BY <1>2 DEF Carried
  <2>4. QED
    BY <2>2, <2>3 DEF Debts
<1>7. Losses' = Losses \ {t}
  BY <1>2, <1>3 DEF Losses
<1>8. QED
  BY <1>2, <1>5, <1>6, <1>7 DEF Promise!Ask, Debts, Losses

LEMMA ArriveMaps ==
    ASSUME IInv, NEW p \in Peer, Arrive(p)
    PROVE  (\E t \in Task : Promise!Arrive(t)) \/ UNCHANGED Promise!vars
<1>1. UNCHANGED <<asked, queued, items, uploads, failed, excuse>>
  BY DEF Arrive, senderVars
<1>2. UNCHANGED <<asked, Debts, Losses>>
  BY <1>1 DEF Debts, Losses, Carried
<1>3. CASE UNCHANGED held
  BY <1>2, <1>3 DEF Promise!vars, Debts, Losses
<1>4. CASE \E x \in Parcels : held' = [held EXCEPT ![x.task] = x.ver] /\ x.ver > held[x.task]
  <2>1. PICK x \in Parcels : held' = [held EXCEPT ![x.task] = x.ver] /\ x.ver > held[x.task]
    BY <1>4
  <2>2. x.task \in Task /\ x.ver \in Nat /\ x.ver <= asked[x.task]
    BY ParcelTypes DEF IInv, NotAhead
  <2>3. held[x.task] \in Nat /\ asked[x.task] \in Nat
    BY <2>2, ItemTypes DEF IInv
  <2>4. x.ver \in held[x.task] + 1 .. asked[x.task]
    BY <2>1, <2>2, <2>3
  <2>5. Promise!Arrive(x.task)
    BY <1>2, <2>1, <2>4 DEF Promise!Arrive, Debts, Losses
  <2>6. QED
    BY <2>2, <2>5
<1>5. QED
  BY <1>3, <1>4, ArriveIs

(* Nothing but Ask, Arrive and Abort touches what is asked for, held or    *)
(* excused, but to find an excuse.                                         *)
LEMMA QuietIs ==
    ASSUME IInv, SenderStep \/ SweepOrLink
    PROVE  UNCHANGED <<asked, held>> /\ \A t \in Task : excuse[t] # "none" => excuse'[t] # "none"
<1>1. excuse \in [Task -> Excuses]
  BY DEF IInv, TypeOK
<1>2. ASSUME NEW t \in Task, RetryFailed(t)
      PROVE  UNCHANGED <<asked, held>> /\ \A k \in Task : excuse[k] # "none" => excuse'[k] # "none"
  <2>1. UNCHANGED <<asked, held>> /\ (excuse' = excuse \/ excuse' = [excuse EXCEPT ![t] = "gaveUp"])
    BY <1>2 DEF RetryFailed, peerVars
  <2>2. QED
    BY <1>1, <2>1
<1>3. ASSUME NEW u \in uploads, Expire(u)
      PROVE  UNCHANGED <<asked, held>> /\ \A k \in Task : excuse[k] # "none" => excuse'[k] # "none"
  <2>1. UNCHANGED <<asked, held>> /\ excuse' = [excuse EXCEPT ![u.task] = "expired"]
    BY <1>3 DEF Expire, peerVars
  <2>2. QED
    BY <1>1, <2>1
<1>4. ASSUME NEW t \in Task, Start(t) PROVE UNCHANGED <<asked, held, excuse>>
  BY <1>4 DEF Start, peerVars
<1>5. ASSUME NEW i \in items, Retry(i) \/ SendNext(i) \/ Finish(i) \/ TimeOut(i)
      PROVE  UNCHANGED <<asked, held, excuse>>
  BY <1>5 DEF Retry, SendNext, Finish, TimeOut, peerVars
<1>6. ASSUME NEW p \in Peer, ReceiveAnswer(p) \/ Disconnect(p) \/ Connect(p) \/ Replace(p)
      PROVE  UNCHANGED <<asked, held, excuse>>
  BY <1>6 DEF ReceiveAnswer, Disconnect, PeersLose, Connect, Replace, peerVars
<1>7. ASSUME Restart \/ (\E d \in downloads : SweepDownload(d)) \/ (\E x \in partial : SweepBuffer(x))
      PROVE  UNCHANGED <<asked, held, excuse>>
  BY <1>7 DEF Restart, PeersLose, SweepDownload, SweepBuffer, senderVars
<1>8. QED
  BY <1>2, <1>3, <1>4, <1>5, <1>6, <1>7 DEF SenderStep, SweepOrLink

LEMMA StepMaps ==
    ASSUME IInv, IInv', [Next]_vars
    PROVE  [Promise!Next]_Promise!vars
<1>1. TypeOK
  BY DEF IInv
<1>2. CASE UNCHANGED vars
  <2>1. UNCHANGED <<asked, held, queued, items, uploads, failed, excuse>>
    BY <1>2 DEF vars
  <2>2. UNCHANGED Promise!vars
    BY <2>1 DEF Promise!vars, Carried
  <2>3. QED
    BY <2>2
<1>3. CASE \E t \in Task : Ask(t)
  BY <1>3, AskMaps DEF Promise!Next
<1>4. CASE \E p \in Peer : Arrive(p)
  BY <1>4, ArriveMaps DEF Promise!Next
<1>5. CASE \E p \in Peer : Abort(p)
  <2>1. UNCHANGED <<asked, held>> /\ \A t \in Task : excuse[t] # "none" => excuse'[t] # "none"
    BY <1>5, AbortStep DEF Abort
  <2>2. QED
    BY <1>1, <2>1, SettleMaps DEF Promise!Next
<1>6. CASE SenderStep \/ SweepOrLink
  BY <1>1, <1>6, QuietIs, SettleMaps DEF Promise!Next
<1>7. QED
  BY <1>2, <1>3, <1>4, <1>5, <1>6, NextCases

(* However the transfers go, they do what Delivery promises: nothing asked *)
(* for stops being owed before the peer holds it, without a reason, and    *)
(* the peer only gets newer versions that were asked for.                  *)
THEOREM TransfersDeliver == Spec => Delivers
<1>1. Init => Promise!Init
  BY DEF Init, Promise!Init, Carried, TasksOf
<1>2. IInv /\ IInv' /\ [Next]_vars => [Promise!Next]_Promise!vars
  BY StepMaps
<1>3. QED
  BY InvariantHolds, <1>1, <1>2, PTL DEF Spec, Delivers, Promise!Spec
-----------------------------------------------------------------------------
(* Chunks of two attempts never share a buffer.                            *)

(* In the messages s to a peer, what precedes place k and carries the id   *)
(* is a chunk of the same attempt: back to the announcement of that        *)
(* attempt, or to the buffers b at the peer.                               *)
Plain(s, id, cut, l) == s[l].id = id => s[l].n > 1 /\ s[l].cut = cut
Opened(s, id, cut, k) ==
    \E j \in 1 .. k - 1 :
        /\ s[j].id = id /\ s[j].n = 1 /\ s[j].cut = cut
        /\ \A l \in j + 1 .. k - 1 : Plain(s, id, cut, l)
Continues(s, b, id, cut, k) ==
    /\ \A l \in 1 .. k - 1 : Plain(s, id, cut, l)
    /\ \A x \in b : x.id = id => x.cut = cut
Governed(s, b, id, cut, k) == Opened(s, id, cut, k) \/ Continues(s, b, id, cut, k)

(* An id belongs to one file, and its messages are on the link to its peer.*)
ParcelsApart == \A x, y \in Parcels : x.id = y.id => SameAs(x, y)
Home == \A p \in Peer : \A k \in DOMAIN out[p] : PeerOf[out[p][k].task] = p

(* Every chunk on its way, and the next one of an item that is being sent, *)
(* is governed by its own attempt.                                         *)
Streams ==
    \A p \in Peer : \A k \in DOMAIN out[p] :
        out[p][k].n > 1 => /\ out[p][k].task \in Large
                           /\ Governed(out[p], partial, out[p][k].id, out[p][k].cut, k)
Idle(i) == i.at # "sending" \/ i.sent = 0 \/ i.wire = "closed" \/ i.task \notin Large
Uploading ==
    \A i \in items : Idle(i) \/
        Governed(out[PeerOf[i.task]], partial, i.id, i.tries, Len(out[PeerOf[i.task]]) + 1)

Unmixed == ParcelsApart /\ Home /\ Streams /\ Uploading /\ BuffersUnmixed

(* Nothing new at the peer under this id but what b had.                   *)
NoneNew(b, c, id) == \A x \in c : x.id = id => \E y \in b : y.id = id /\ y.cut = x.cut

LEMMA GovernedKept ==
    ASSUME NEW s, NEW r, NEW b, NEW c, NEW id, NEW cut, NEW k \in Nat,
           Governed(s, b, id, cut, k), \A l \in 1 .. k - 1 : r[l] = s[l], NoneNew(b, c, id)
    PROVE  Governed(r, c, id, cut, k)
<1>1. CASE Opened(s, id, cut, k)
  <2>1. PICK j \in 1 .. k - 1 : /\ s[j].id = id /\ s[j].n = 1 /\ s[j].cut = cut
                                /\ \A l \in j + 1 .. k - 1 : Plain(s, id, cut, l)
    BY <1>1 DEF Opened
  <2>2. ASSUME NEW l \in j + 1 .. k - 1 PROVE Plain(r, id, cut, l)
    <3>1. l \in 1 .. k - 1 /\ Plain(s, id, cut, l)
      BY <2>1
    <3>2. QED
      BY <3>1 DEF Plain
  <2>3. QED
    BY <2>1, <2>2 DEF Opened, Governed
<1>2. CASE Continues(s, b, id, cut, k)
  <2>1. \A l \in 1 .. k - 1 : Plain(r, id, cut, l)
    BY <1>2 DEF Continues, Plain
  <2>2. QED
    BY <1>2, <2>1 DEF Continues, NoneNew, Governed
<1>3. QED
  BY <1>1, <1>2 DEF Governed

(* One message more behind place k.                                        *)
LEMMA GovernedFurther ==
    ASSUME NEW s, NEW b, NEW id, NEW cut, NEW k \in Nat \ {0},
           \/ Governed(s, b, id, cut, k) /\ Plain(s, id, cut, k)
           \/ s[k].id = id /\ s[k].n = 1 /\ s[k].cut = cut
    PROVE  Governed(s, b, id, cut, k + 1)
<1>1. CASE s[k].id = id /\ s[k].n = 1 /\ s[k].cut = cut
  BY <1>1 DEF Opened, Governed
<1>2. CASE Opened(s, id, cut, k) /\ Plain(s, id, cut, k)
  <2>1. PICK j \in 1 .. k - 1 : /\ s[j].id = id /\ s[j].n = 1 /\ s[j].cut = cut
                                /\ \A l \in j + 1 .. k - 1 : Plain(s, id, cut, l)
    BY <1>2 DEF Opened
  <2>2. j \in 1 .. (k + 1) - 1 /\ \A l \in j + 1 .. (k + 1) - 1 : l = k \/ l \in j + 1 .. k - 1
    OBVIOUS
  <2>3. QED
    BY <1>2, <2>1, <2>2 DEF Opened, Governed
<1>3. CASE Continues(s, b, id, cut, k) /\ Plain(s, id, cut, k)
  <2>1. \A l \in 1 .. (k + 1) - 1 : l = k \/ l \in 1 .. k - 1
    OBVIOUS
  <2>2. QED
    BY <1>3, <2>1 DEF Continues, Governed
<1>4. QED
  BY <1>1, <1>2, <1>3 DEF Governed

(* The first message arrives, and the buffers b become c.                  *)
LEMMA GovernedNearer ==
    ASSUME NEW S, NEW s \in Seq(S), s # <<>>, NEW b, NEW c, NEW id, NEW cut, NEW k \in 2 .. Len(s) + 1,
           Governed(s, b, id, cut, k),
           IF s[1].id = id /\ s[1].n = 1 THEN \A x \in c : x.id = id => x.cut = s[1].cut
                                         ELSE NoneNew(b, c, id)
    PROVE  Governed(Tail(s), c, id, cut, k - 1)
<1>1. Len(s) \in Nat
  BY LenProperties
<1>2. Len(Tail(s)) = Len(s) - 1 /\ \A l \in 1 .. Len(Tail(s)) : Tail(s)[l] = s[l + 1]
  BY HeadTailProperties
<1>3. \A l \in 1 .. k - 2 : l + 1 \in 2 .. k - 1 /\ Tail(s)[l] = s[l + 1]
  BY <1>1, <1>2
<1>4. ASSUME NEW j \in 2 .. k - 1, s[j].id = id, s[j].n = 1, s[j].cut = cut,
             \A l \in j + 1 .. k - 1 : Plain(s, id, cut, l)
      PROVE  Opened(Tail(s), id, cut, k - 1)
  <2>1. j - 1 \in 1 .. k - 2 /\ Tail(s)[j - 1] = s[j]
    BY <1>3
  <2>2. ASSUME NEW l \in (j - 1) + 1 .. k - 2 PROVE Plain(Tail(s), id, cut, l)
    <3>1. l \in 1 .. k - 2 /\ l + 1 \in j + 1 .. k - 1
      BY <1>1
    <3>2. Tail(s)[l] = s[l + 1] /\ Plain(s, id, cut, l + 1)
      BY <1>3, <1>4, <3>1
    <3>3. QED
      BY <3>2 DEF Plain
  <2>3. QED
    BY <1>4, <2>1, <2>2 DEF Opened
<1>5. ASSUME \A l \in 2 .. k - 1 : Plain(s, id, cut, l), \A x \in c : x.id = id => x.cut = cut
      PROVE  Continues(Tail(s), c, id, cut, k - 1)
  <2>1. ASSUME NEW l \in 1 .. k - 2 PROVE Plain(Tail(s), id, cut, l)
    BY <1>3, <1>5 DEF Plain
  <2>2. QED
    BY <1>5, <2>1 DEF Continues
<1>6. CASE Opened(s, id, cut, k)
  <2>1. PICK j \in 1 .. k - 1 : /\ s[j].id = id /\ s[j].n = 1 /\ s[j].cut = cut
                                /\ \A l \in j + 1 .. k - 1 : Plain(s, id, cut, l)
    BY <1>6 DEF Opened
  <2>2. CASE j = 1
    BY <1>5, <2>1, <2>2 DEF Governed
  <2>3. CASE j # 1
    <3>1. j \in 2 .. k - 1
      BY <2>3
    <3>2. QED
      BY <1>4, <2>1, <3>1 DEF Governed
  <2>4. QED
    BY <2>2, <2>3
<1>7. CASE Continues(s, b, id, cut, k)
  <2>1. 1 \in 1 .. k - 1 /\ \A l \in 2 .. k - 1 : l \in 1 .. k - 1
    BY <1>1
  <2>2. Plain(s, id, cut, 1) /\ \A l \in 2 .. k - 1 : Plain(s, id, cut, l)
    BY <1>7, <2>1 DEF Continues
  <2>3. ~(s[1].id = id /\ s[1].n = 1)
    BY <2>2 DEF Plain
  <2>4. \A x \in c : x.id = id => x.cut = cut
    BY <1>7, <2>3 DEF Continues, NoneNew
  <2>5. QED
    BY <1>5, <2>2, <2>4 DEF Governed
<1>8. QED
  BY <1>6, <1>7 DEF Governed

LEMMA MessageTypes ==
    ASSUME TypeOK, NEW p \in Peer, NEW k \in DOMAIN out[p]
    PROVE  /\ out[p] \in Seq(Message) /\ Len(out[p]) \in Nat /\ k \in 1 .. Len(out[p])
           /\ out[p][k] \in Message /\ out[p][k] \in Parcels
<1>1. out[p] \in Seq(Message)
  BY DEF TypeOK
<1>2. Len(out[p]) \in Nat /\ k \in 1 .. Len(out[p]) /\ out[p][k] \in Message
  BY <1>1, LenProperties, ElementOfSeq
<1>3. QED
  BY <1>1, <1>2 DEF Parcels, InTransit

LEMMA ParcelsStayApart ==
    ASSUME IInv, ParcelsApart, FlowParcels
    PROVE  ParcelsApart'
<1>1. SUFFICES ASSUME NEW x \in Parcels', NEW y \in Parcels', x.id = y.id PROVE SameAs(x, y)
  BY DEF ParcelsApart, SameAs
<1>2. PICK v \in Parcels \cup items : SameAs(x, v)
  BY DEF FlowParcels
<1>3. PICK w \in Parcels \cup items : SameAs(y, w)
  BY DEF FlowParcels
<1>4. v.id = w.id
  BY <1>1, <1>2, <1>3 DEF SameAs
<1>5. SameAs(v, w)
  BY <1>2, <1>3, <1>4 DEF ParcelsApart, IInv, ParcelsMatch, Apart, SameAs
<1>6. QED
  BY <1>2, <1>3, <1>5 DEF SameAs

(* What an item's place in the stream depends on.                          *)
Alike(j, i) ==
    /\ j.id = i.id /\ j.task = i.task /\ j.tries = i.tries
    /\ j.at = i.at /\ j.sent = i.sent /\ j.wire = i.wire

(* A step that only takes messages and buffers away, those of a link all   *)
(* at once.                                                                *)
LEMMA LessUnmixed ==
    ASSUME IInv, Home, Streams, Uploading, BuffersUnmixed, TypeOK',
           partial' \subseteq partial,
           \A j \in items' : Idle(j) \/ \E i \in items : Alike(j, i),
           \A p \in Peer : \/ out'[p] = out[p]
                           \/ out'[p] = <<>> /\ \A j \in items' : PeerOf[j.task] = p => Idle(j)
    PROVE  Home' /\ Streams' /\ Uploading' /\ BuffersUnmixed'
<1>1. \A id \in Id : NoneNew(partial, partial', id)
  BY DEF NoneNew
<1>2. ASSUME NEW p \in Peer, NEW k \in DOMAIN out'[p]
      PROVE  /\ out'[p] = out[p] /\ k \in DOMAIN out[p] /\ k \in Nat
             /\ out[p][k].id \in Id
  <2>1. out'[p] # <<>>
    BY <1>2
  <2>2. out'[p] = out[p] /\ k \in DOMAIN out[p]
    BY <1>2, <2>1
  <2>3. k \in Nat /\ out[p][k] \in Message
    BY <2>2, MessageTypes DEF IInv
  <2>4. QED
    BY <2>2, <2>3 DEF Message
<1>3. Home'
  BY <1>2 DEF Home
<1>4. Streams'
  <2>1. SUFFICES ASSUME NEW p \in Peer, NEW k \in DOMAIN out'[p], out'[p][k].n > 1
                 PROVE  /\ out'[p][k].task \in Large
                        /\ Governed(out'[p], partial', out'[p][k].id, out'[p][k].cut, k)
    BY DEF Streams
  <2>2. out'[p] = out[p] /\ k \in DOMAIN out[p] /\ k \in Nat /\ out[p][k].id \in Id
    BY <1>2
  <2>3. out[p][k].task \in Large /\ Governed(out[p], partial, out[p][k].id, out[p][k].cut, k)
    BY <2>1, <2>2 DEF Streams
  <2>4. Governed(out[p], partial', out[p][k].id, out[p][k].cut, k)
    BY <1>1, <2>2, <2>3, GovernedKept
  <2>5. QED
    BY <2>2, <2>3, <2>4
<1>5. Uploading'
  <2>1. SUFFICES ASSUME NEW j \in items', ~Idle(j)
                 PROVE  Governed(out'[PeerOf[j.task]], partial', j.id, j.tries, Len(out'[PeerOf[j.task]]) + 1)
    BY DEF Uploading, Idle
  <2>2. PICK i \in items : Alike(j, i)
    BY <2>1
  <2>3. ~Idle(i)
    BY <2>1, <2>2 DEF Idle, Alike
  <2> DEFINE p == PeerOf[i.task]
  <2>4. p \in Peer /\ i.id \in Id
    BY ItemTypes DEF IInv
  <2>5. PeerOf[j.task] = p /\ j.id = i.id /\ j.tries = i.tries
    BY <2>2 DEF Alike
  <2>6. Governed(out[p], partial, i.id, i.tries, Len(out[p]) + 1)
    BY <2>3 DEF Uploading
  <2>7. out'[p] = out[p]
    BY <2>1, <2>4, <2>5
  <2>8. Len(out[p]) + 1 \in Nat
    <3>1. out[p] \in Seq(Message)
      BY <2>4 DEF IInv, TypeOK
    <3>2. QED
      BY <3>1, LenProperties
  <2>9. Governed(out[p], partial', i.id, i.tries, Len(out[p]) + 1)
    BY <1>1, <2>4, <2>6, <2>8, GovernedKept
  <2>10. QED
    BY <2>5, <2>7, <2>9
<1>6. BuffersUnmixed'
  BY DEF BuffersUnmixed
<1>7. QED
  BY <1>3, <1>4, <1>5, <1>6

(* The sender at work, but for sending.                                    *)
LEMMA BegunIsIdle ==
    ASSUME NEW i \in Item
    PROVE  Idle(Begun(i))
BY DEF Begun, Idle, Item

LEMMA WorkAlike ==
    ASSUME IInv, \/ \E t \in Task : Ask(t) \/ Start(t) \/ RetryFailed(t)
                 \/ \E i \in items : Retry(i) \/ Finish(i) \/ TimeOut(i)
                 \/ \E u \in uploads : Expire(u)
                 \/ \E p \in Peer : ReceiveAnswer(p) \/ Abort(p)
                 \/ \E i \in items : SendNext(i) /\ (Pause(i) \/ Fail(i)) /\ UNCHANGED out
    PROVE  /\ UNCHANGED <<out, partial>>
           /\ \A j \in items' : Idle(j) \/ \E i \in items : Alike(j, i)
<1>1. \A i \in items : i \in Item
  BY ItemTypes DEF IInv
<1>2. ASSUME NEW i \in items, Fail(i)
      PROVE  \A j \in items' : Idle(j) \/ \E k \in items : Alike(j, k)
  <2>1. [i EXCEPT !.at = "parked", !.tries = @ + 1].at = "parked"
    BY <1>1 DEF Item
  <2>2. QED
    BY <1>2, <2>1 DEF Fail, Idle, Alike
<1>3. ASSUME NEW t \in Task, Ask(t) \/ RetryFailed(t)
      PROVE  UNCHANGED <<out, partial, items>>
  BY <1>3 DEF Ask, RetryFailed, peerVars
<1>4. ASSUME NEW t \in Task, Start(t)
      PROVE  UNCHANGED <<out, partial>> /\ \A j \in items' : Idle(j) \/ j \in items
  <2> DEFINE i == [id |-> FreshId, task |-> t, ver |-> asked[t], tries |-> 0,
                   at |-> "sending", sent |-> 0, wire |-> "open", ack |-> "pending", live |-> TRUE]
  <2>1. items' = items \cup {Begun(i)} /\ UNCHANGED <<out, partial>>
    BY <1>4 DEF Start, peerVars
  <2>2. Idle(Begun(i))
    BY DEF Begun, Idle
  <2> HIDE DEF i
  <2>3. QED
    BY <2>1, <2>2
<1>5. ASSUME NEW i \in items, Retry(i)
      PROVE  UNCHANGED <<out, partial>> /\ \A j \in items' : Idle(j) \/ j \in items
  BY <1>1, <1>5, BegunIsIdle DEF Retry, peerVars
<1>6. ASSUME NEW i \in items, Finish(i)
      PROVE  UNCHANGED <<out, partial>> /\ \A j \in items' : Idle(j) \/ \E k \in items : Alike(j, k)
  BY <1>2, <1>6 DEF Finish, peerVars, Alike
<1>7. ASSUME NEW i \in items, TimeOut(i)
      PROVE  UNCHANGED <<out, partial>> /\ \A j \in items' : \E k \in items : Alike(j, k)
  <2>1. items' = (items \ {i}) \cup {[i EXCEPT !.ack = "failed"]} /\ UNCHANGED <<out, partial>>
    BY <1>7 DEF TimeOut, peerVars
  <2>2. Alike([i EXCEPT !.ack = "failed"], i)
    BY <1>1 DEF Item, Alike
  <2>3. QED
    BY <2>1, <2>2 DEF Alike
<1>8. ASSUME NEW u \in uploads, Expire(u)
      PROVE  UNCHANGED <<out, partial, items>>
  BY <1>8 DEF Expire, peerVars
<1>9. ASSUME NEW p \in Peer, ReceiveAnswer(p)
      PROVE  UNCHANGED <<out, partial>> /\ \A j \in items' : \E k \in items : Alike(j, k)
  <2>1. PICK a : items' = {IF i.id = a.id THEN Answered(i, a.ok) ELSE i : i \in items}
    BY <1>9 DEF ReceiveAnswer
  <2>2. UNCHANGED <<out, partial>>
    BY <1>9 DEF ReceiveAnswer, peerVars
  <2>3. \A i \in items : Alike(Answered(i, a.ok), i) /\ Alike(i, i)
    BY <1>1 DEF Answered, Item, Alike
  <2>4. QED
    BY <2>1, <2>2, <2>3
<1>10. ASSUME NEW p \in Peer, Abort(p)
       PROVE  UNCHANGED <<out, partial>> /\ \A j \in items' : \E k \in items : Alike(j, k)
  <2>1. /\ items' = {[Answered(i, FALSE) EXCEPT !.live = FALSE] :
                        i \in {j \in items : j.at = "sending" \/ PeerOf[j.task] # p}}
        /\ UNCHANGED <<out, partial>>
    BY <1>10 DEF Abort, peerVars
  <2>2. \A i \in items : Alike([Answered(i, FALSE) EXCEPT !.live = FALSE], i)
    BY <1>1 DEF Answered, Item, Alike
  <2>3. QED
    BY <2>1, <2>2
<1>11. ASSUME NEW i \in items, SendNext(i), Pause(i) \/ Fail(i), UNCHANGED out
       PROVE  UNCHANGED <<out, partial>> /\ \A j \in items' : Idle(j) \/ \E k \in items : Alike(j, k)
  <2>1. UNCHANGED <<out, partial>>
    BY <1>11 DEF SendNext, peerVars
  <2>2. CASE Pause(i)
    BY <2>1, <2>2 DEF Pause, Alike
  <2>3. QED
    BY <1>2, <1>11, <2>1, <2>2
<1>12. \A i \in items : Alike(i, i)
  BY DEF Alike
<1>13. QED
  BY <1>3, <1>4, <1>5, <1>6, <1>7, <1>8, <1>9, <1>10, <1>11, <1>12

(* Links and sweeps.                                                       *)
LEMMA LinksAlike ==
    ASSUME IInv, \/ \E d \in downloads : SweepDownload(d)
                 \/ \E x \in partial : SweepBuffer(x)
                 \/ \E p \in Peer : Disconnect(p) \/ Connect(p) \/ Replace(p)
                 \/ Restart
    PROVE  /\ partial' \subseteq partial
           /\ \A j \in items' : Idle(j) \/ \E i \in items : Alike(j, i)
           /\ \A p \in Peer : \/ out'[p] = out[p]
                              \/ out'[p] = <<>> /\ \A j \in items' : PeerOf[j.task] = p => Idle(j)
<1>1. \A i \in items : i \in Item
  BY ItemTypes DEF IInv
<1>2. \A i \in items : Alike(i, i)
  BY DEF Alike
<1>3. out \in [Peer -> Seq(Message)]
  BY DEF IInv, TypeOK
<1>4. CASE \/ \E d \in downloads : SweepDownload(d)
           \/ \E x \in partial : SweepBuffer(x)
           \/ \E p \in Peer : Connect(p)
  <2>1. UNCHANGED <<items, out>> /\ partial' \subseteq partial
    BY <1>4 DEF SweepDownload, SweepBuffer, Connect, senderVars, peerVars
  <2>2. QED
    BY <1>2, <2>1
<1>5. ASSUME NEW p \in Peer, Disconnect(p)
      PROVE  /\ partial' \subseteq partial
             /\ \A j \in items' : Idle(j) \/ \E i \in items : Alike(j, i)
             /\ \A q \in Peer : \/ out'[q] = out[q]
                                \/ out'[q] = <<>> /\ \A j \in items' : PeerOf[j.task] = q => Idle(j)
  <2>1. /\ items' = {IF PeerOf[i.task] = p THEN CutOff(i) ELSE i : i \in items}
        /\ PeersLose({p})
    BY <1>5 DEF Disconnect
  <2>2. /\ partial' \subseteq partial
        /\ \A q \in Peer : out'[q] = IF q = p THEN <<>> ELSE out[q]
    BY <2>1 DEF PeersLose
  <2>3. \A i \in items : Idle(CutOff(i)) /\ CutOff(i).task = i.task
    BY <1>1 DEF CutOff, Answered, Item, Idle
  <2>4. QED
    BY <1>2, <2>1, <2>2, <2>3
<1>6. ASSUME NEW p \in Peer, Replace(p)
      PROVE  /\ partial' \subseteq partial
             /\ \A j \in items' : Idle(j) \/ \E i \in items : Alike(j, i)
             /\ \A q \in Peer : \/ out'[q] = out[q]
                                \/ out'[q] = <<>> /\ \A j \in items' : PeerOf[j.task] = q => Idle(j)
  <2>1. /\ items' = {IF PeerOf[i.task] = p THEN [i EXCEPT !.wire = "closed"] ELSE i : i \in items}
        /\ out' = [out EXCEPT ![p] = <<>>] /\ partial' = partial
    BY <1>6 DEF Replace
  <2>2. \A q \in Peer : out'[q] = IF q = p THEN <<>> ELSE out[q]
    BY <1>3, <2>1
  <2>3. \A i \in items : Idle([i EXCEPT !.wire = "closed"]) /\ [i EXCEPT !.wire = "closed"].task = i.task
    BY <1>1 DEF Item, Idle
  <2>4. QED
    BY <1>2, <2>1, <2>2, <2>3
<1>7. CASE Restart
  <2>1. items' = {} /\ PeersLose(Peer)
    BY <1>7 DEF Restart
  <2>2. partial' \subseteq partial /\ \A q \in Peer : out'[q] = <<>>
    BY <2>1 DEF PeersLose
  <2>3. QED
    BY <2>1, <2>2
<1>8. QED
  BY <1>4, <1>5, <1>6, <1>7

(* The next message goes to the link: an announcement starts a stream, a   *)
(* chunk continues the one it belongs to.                                  *)
LEMMA SentUnmixed ==
    ASSUME IInv, Home, Streams, Uploading, BuffersUnmixed, TypeOK',
           NEW i \in items, SendNext(i), ~((Pause(i) \/ Fail(i)) /\ UNCHANGED out)
    PROVE  Home' /\ Streams' /\ Uploading' /\ BuffersUnmixed'
<1> DEFINE p == PeerOf[i.task]
           m == [id |-> i.id, task |-> i.task, ver |-> i.ver, cut |-> i.tries, n |-> i.sent + 1]
           b == [i EXCEPT !.sent = i.sent + 1]
           s == out[p]
<1>1. /\ i \in Item /\ i.task \in Task /\ p \in Peer /\ i.id \in Id /\ i.sent \in Nat /\ i.sent < Length(i.task)
      /\ i.at = "sending" /\ s \in Seq(Message) /\ Len(s) \in Nat /\ out \in [Peer -> Seq(Message)]
  <2>1. i \in Item /\ i.task \in Task /\ p \in Peer /\ i.id \in Id /\ i.sent < Length(i.task) /\ i.at = "sending"
    BY ItemTypes DEF IInv, SendNext
  <2>2. s \in Seq(Message) /\ out \in [Peer -> Seq(Message)]
    BY <2>1 DEF IInv, TypeOK
  <2>3. QED
    BY <2>1, <2>2, LenProperties DEF Item
<1>2. /\ IF i.sent + 1 = 1 THEN p \in open ELSE i.wire = "open"
      /\ items' = (items \ {i}) \cup {b}
      /\ out' = [out EXCEPT ![p] = Append(@, m)]
      /\ partial' = partial
  BY DEF SendNext, peerVars
<1>3. i.sent > 0 => i.task \in Large
  BY <1>1 DEF Length
<1>4. m \in Message /\ m.id = i.id /\ m.cut = i.tries /\ m.n = i.sent + 1 /\ m.task = i.task
  <2>1. Length(i.task) \in 1 .. Chunks + 1
    BY <1>1, LengthBound
  <2>2. i.sent + 1 \in 1 .. Chunks + 1
    BY <1>1, <2>1
  <2>3. QED
    BY <1>1, <2>2 DEF Message, Item, Cut
<1>5. b.id = i.id /\ b.task = i.task /\ b.tries = i.tries
  BY <1>1 DEF Item
<1>6. i.sent > 0 => Governed(s, partial, i.id, i.tries, Len(s) + 1)
  <2>1. ASSUME i.sent > 0 PROVE ~Idle(i)
    <3>1. i.sent + 1 # 1 /\ i.sent # 0
      BY <1>1, <2>1
    <3>2. i.wire = "open"
      BY <1>2, <3>1
    <3>3. QED
      BY <1>1, <1>3, <2>1, <3>1, <3>2 DEF Idle
  <2>2. QED
    BY <2>1 DEF Uploading
<1> HIDE DEF m, b
<1> DEFINE r == Append(s, m)
<1>7. /\ Len(r) = Len(s) + 1 /\ r[Len(s) + 1] = m /\ \A l \in 1 .. Len(s) : r[l] = s[l]
      /\ DOMAIN r = 1 .. Len(s) + 1 /\ DOMAIN s = 1 .. Len(s)
  <2>1. r \in Seq(Message) /\ Len(r) = Len(s) + 1 /\ r[Len(s) + 1] = m /\ \A l \in 1 .. Len(s) : r[l] = s[l]
    BY <1>1, <1>4, AppendProperties
  <2>2. QED
    BY <1>1, <2>1, LenProperties
<1>8. out'[p] = r /\ \A q \in Peer : q # p => out'[q] = out[q]
  BY <1>1, <1>2
<1> HIDE DEF r, p
<1>9. \A id, cut : NoneNew(partial, partial, id)
  BY DEF NoneNew
<1>10. ASSUME NEW id, NEW cut, NEW k \in 1 .. Len(s) + 1, Governed(s, partial, id, cut, k)
       PROVE  Governed(r, partial, id, cut, k)
  <2>1. \A l \in 1 .. k - 1 : r[l] = s[l]
    BY <1>1, <1>7
  <2>2. k \in Nat
    BY <1>1
  <2>3. QED
    BY <1>9, <1>10, <2>1, <2>2, GovernedKept
<1>11. Governed(r, partial, i.id, i.tries, Len(s) + 2)
  <2>1. Len(s) + 1 \in Nat \ {0} /\ Len(s) + 1 \in 1 .. Len(s) + 1 /\ (Len(s) + 1) + 1 = Len(s) + 2
    BY <1>1
  <2>2. CASE i.sent = 0
    <3>1. r[Len(s) + 1].id = i.id /\ r[Len(s) + 1].n = 1 /\ r[Len(s) + 1].cut = i.tries
      BY <1>1, <1>4, <1>7, <2>2
    <3>2. QED
      BY <2>1, <3>1, GovernedFurther
  <2>3. CASE i.sent > 0
    <3>1. Governed(r, partial, i.id, i.tries, Len(s) + 1)
      BY <1>6, <1>10, <2>1, <2>3
    <3>2. Plain(r, i.id, i.tries, Len(s) + 1)
      BY <1>1, <1>4, <1>7, <2>3 DEF Plain
    <3>3. QED
      BY <2>1, <3>1, <3>2, GovernedFurther
  <2>4. QED
    BY <1>1, <2>2, <2>3
<1>12. Home'
  <2>1. SUFFICES ASSUME NEW q \in Peer, NEW k \in DOMAIN out'[q] PROVE PeerOf[out'[q][k].task] = q
    BY DEF Home
  <2>2. CASE q # p
    BY <1>8, <2>1, <2>2 DEF Home
  <2>3. CASE q = p /\ k = Len(s) + 1
    BY <1>4, <1>7, <1>8, <2>3 DEF p
  <2>4. CASE q = p /\ k # Len(s) + 1
    <3>1. k \in DOMAIN s /\ out'[q][k] = s[k]
      BY <1>1, <1>7, <1>8, <2>1, <2>4
    <3>2. QED
      BY <1>1, <2>4, <3>1 DEF Home
  <2>5. QED
    BY <2>2, <2>3, <2>4
<1>13. Streams'
  <2>1. SUFFICES ASSUME NEW q \in Peer, NEW k \in DOMAIN out'[q], out'[q][k].n > 1
                 PROVE  /\ out'[q][k].task \in Large
                        /\ Governed(out'[q], partial, out'[q][k].id, out'[q][k].cut, k)
    BY <1>2 DEF Streams
  <2>2. CASE q # p
    BY <1>8, <2>1, <2>2 DEF Streams
  <2>3. CASE q = p /\ k = Len(s) + 1
    <3>1. out'[q][k] = m /\ i.sent > 0 /\ out'[q] = r
      BY <1>1, <1>4, <1>7, <1>8, <2>1, <2>3
    <3>2. Len(s) + 1 \in 1 .. Len(s) + 1
      BY <1>1
    <3>3. Governed(r, partial, i.id, i.tries, k)
      BY <1>6, <1>10, <2>3, <3>1, <3>2
    <3>4. QED
      BY <1>3, <1>4, <3>1, <3>3
  <2>4. CASE q = p /\ k # Len(s) + 1
    <3>1. k \in DOMAIN s /\ k \in 1 .. Len(s) + 1 /\ out'[q] = r /\ r[k] = s[k]
      BY <1>1, <1>7, <1>8, <2>1, <2>4
    <3>2. s[k].task \in Large /\ Governed(s, partial, s[k].id, s[k].cut, k)
      BY <1>1, <2>1, <2>4, <3>1 DEF Streams
    <3>3. QED
      BY <1>10, <3>1, <3>2
  <2>5. QED
    BY <2>2, <2>3, <2>4
<1>14. Uploading'
  <2>1. SUFFICES ASSUME NEW j \in items', ~Idle(j)
                 PROVE  Governed(out'[PeerOf[j.task]], partial, j.id, j.tries, Len(out'[PeerOf[j.task]]) + 1)
    BY <1>2 DEF Uploading, Idle
  <2>2. CASE j = b
    <3>1. out'[PeerOf[j.task]] = r /\ Len(r) + 1 = Len(s) + 2
      BY <1>1, <1>5, <1>7, <1>8, <2>2 DEF p
    <3>2. QED
      BY <1>5, <1>11, <2>2, <3>1
  <2>3. CASE j # b
    <3>1. j \in items /\ j # i
      BY <1>2, <2>1, <2>3
    <3>2. j.id # i.id
      BY <3>1 DEF IInv, Apart
    <3> DEFINE q == PeerOf[j.task]
    <3>3. q \in Peer
      BY <3>1, ItemTypes DEF IInv
    <3>4. Governed(out[q], partial, j.id, j.tries, Len(out[q]) + 1)
      BY <2>1, <3>1 DEF Uploading
    <3> HIDE DEF q
    <3>5. CASE q # p
      <4>1. out'[q] = out[q]
        BY <1>8, <3>3, <3>5
      <4>2. QED
        BY <3>4, <4>1 DEF q
    <3>6. CASE q = p
      <4>1. Len(s) + 1 \in Nat \ {0} /\ Len(s) + 1 \in 1 .. Len(s) + 1 /\ (Len(s) + 1) + 1 = Len(r) + 1
        BY <1>1, <1>7
      <4>2. Governed(r, partial, j.id, j.tries, Len(s) + 1)
        BY <1>10, <3>4, <3>6, <4>1
      <4>3. Plain(r, j.id, j.tries, Len(s) + 1)
        BY <1>4, <1>7, <3>2 DEF Plain
      <4>4. Governed(r, partial, j.id, j.tries, Len(r) + 1)
        BY <4>1, <4>2, <4>3, GovernedFurther
      <4>5. out'[q] = r
        BY <1>8, <3>6
      <4>6. QED
        BY <4>4, <4>5 DEF q
    <3>7. QED
      BY <3>5, <3>6
  <2>4. QED
    BY <2>2, <2>3
<1>15. BuffersUnmixed'
  BY <1>2 DEF BuffersUnmixed
<1>16. QED
  BY <1>12, <1>13, <1>14, <1>15

(* A message arrives: an announcement makes the buffer its own, a chunk    *)
(* finds the buffer of its attempt.                                        *)
LEMMA BuffersAfter ==
    ASSUME IInv, ParcelsApart, Home, Streams, BuffersUnmixed, NEW p \in Peer, Arrive(p), NEW m, m = Head(out[p])
    PROVE  /\ \A id : (m.id = id => m.task \in Large) =>
                IF m.id = id /\ m.n = 1 THEN \A x \in partial' : x.id = id => x.cut = m.cut
                                        ELSE NoneNew(partial, partial', id)
           /\ BuffersUnmixed'
<1>1. /\ m \in Message /\ m = out[p][1] /\ m \in Parcels /\ 1 \in DOMAIN out[p] /\ PeerOf[m.task] = p
  <2>1. out[p] \in Seq(Message) /\ out[p] # <<>>
    BY DEF IInv, TypeOK, Arrive
  <2>2. 1 \in DOMAIN out[p] /\ m = out[p][1]
    BY <2>1, EmptySeq, LenProperties
  <2>3. QED
    BY <2>2, MessageTypes DEF IInv, Home
<1>2. partial \subseteq Partial
  BY DEF IInv, TypeOK
<1>3. \/ m.task \notin Large /\ ReceiveWhole(m)
      \/ m.n = 1 /\ ReceiveStart(m)
      \/ m.n > 1 /\ ReceiveChunk(m)
  BY DEF Arrive
<1>4. CASE m.task \notin Large /\ ReceiveWhole(m)
  <2>1. partial' = partial
    BY <1>4 DEF ReceiveWhole
  <2>2. QED
    BY <1>4, <2>1 DEF NoneNew, BuffersUnmixed
<1>5. CASE m.n = 1 /\ ReceiveStart(m)
  <2>1. CASE partial' = Reset(m)
    <3>1. \A x \in partial' : (x \in partial /\ x.id # m.id) \/ x = Empty(m)
      BY <2>1 DEF Reset
    <3>2. /\ Empty(m).id = m.id /\ Empty(m).cut = m.cut
          /\ \A n \in DOMAIN Empty(m).buffer : Empty(m).buffer[n] \subseteq {Empty(m).cut}
      BY DEF Empty
    <3>3. BuffersUnmixed'
      BY <3>1, <3>2 DEF BuffersUnmixed
    <3>4. QED
      BY <1>5, <3>1, <3>2, <3>3 DEF NoneNew
  <2>2. CASE ~Room(m) /\ partial' = partial
    <3>1. ASSUME NEW x \in partial PROVE x.id # m.id
      <4>1. SUFFICES ASSUME x.id = m.id PROVE FALSE
        OBVIOUS
      <4>2. SameAs(x, m)
        BY <1>1, <4>1 DEF ParcelsApart, Parcels
      <4>3. x \in Mine(PeerOf[m.task])
        BY <4>2 DEF Mine, OfPeer, SameAs
      <4>4. QED
        BY <2>2, <4>1, <4>3 DEF Room, IdsOf
    <3>2. QED
      BY <2>2, <3>1 DEF NoneNew, BuffersUnmixed
  <2>3. QED
    BY <1>5, <2>1, <2>2 DEF ReceiveStart
<1>6. CASE m.n > 1 /\ ReceiveChunk(m)
  <2>1. \A y \in partial : y.id = m.id => y.cut = m.cut
    <3>1. Governed(out[p], partial, m.id, m.cut, 1)
      BY <1>1, <1>6 DEF Streams
    <3>2. QED
      BY <3>1 DEF Governed, Opened, Continues
  <2>2. \A x \in partial' : x \in partial \/ \E y \in partial : y.id = m.id /\ x = Filled(y, m)
    BY <1>6 DEF ReceiveChunk, Mine, OfPeer
  <2>3. ASSUME NEW y \in partial, y.id = m.id
        PROVE  /\ Filled(y, m).id = y.id /\ Filled(y, m).cut = y.cut
               /\ \A n \in DOMAIN Filled(y, m).buffer : Filled(y, m).buffer[n] \subseteq {Filled(y, m).cut}
    <3>1. y \in Partial /\ y.cut = m.cut
      BY <1>2, <2>1, <2>3
    <3> DEFINE full == [y.buffer EXCEPT ![m.n] = IF y.buffer[m.n] = {} THEN {m.cut} ELSE y.buffer[m.n]]
    <3>2. y = [id |-> y.id, task |-> y.task, ver |-> y.ver, cut |-> y.cut, buffer |-> y.buffer]
      BY <3>1 DEF Partial
    <3>3. Filled(y, m) = [id |-> y.id, task |-> y.task, ver |-> y.ver, cut |-> y.cut, buffer |-> full]
      BY <3>2 DEF Filled
    <3>4. Filled(y, m).id = y.id /\ Filled(y, m).cut = y.cut /\ Filled(y, m).buffer = full
      BY <3>3
    <3>5. \A n \in DOMAIN y.buffer : y.buffer[n] \subseteq {y.cut}
      BY <2>3 DEF BuffersUnmixed
    <3>6. QED
      BY <3>1, <3>4, <3>5
  <2>4. BuffersUnmixed'
    BY <2>2, <2>3 DEF BuffersUnmixed
  <2>5. \A id : NoneNew(partial, partial', id)
    BY <2>2, <2>3 DEF NoneNew
  <2>6. QED
    BY <1>6, <2>4, <2>5
<1>7. QED
  BY <1>3, <1>4, <1>5, <1>6

LEMMA ArriveUnmixed ==
    ASSUME IInv, Unmixed, NEW p \in Peer, Arrive(p)
    PROVE  Home' /\ Streams' /\ Uploading' /\ BuffersUnmixed'
<1> USE DEF Unmixed
<1> DEFINE m == Head(out[p])
           s == out[p]
<1>1. /\ s \in Seq(Message) /\ s # <<>> /\ Len(s) \in Nat \ {0} /\ DOMAIN s = 1 .. Len(s)
      /\ out \in [Peer -> Seq(Message)] /\ m = s[1]
  <2>1. s \in Seq(Message) /\ s # <<>> /\ out \in [Peer -> Seq(Message)]
    BY DEF IInv, TypeOK, Arrive
  <2>2. QED
    BY <2>1, EmptySeq, LenProperties
<1>2. m \in Parcels /\ PeerOf[m.task] = p
  BY <1>1, MessageTypes DEF IInv, Home
<1>3. /\ items' = items
      /\ out'[p] = Tail(s) /\ \A q \in Peer : q # p => out'[q] = out[q]
  BY <1>1 DEF Arrive, senderVars
<1>4. /\ Len(Tail(s)) = Len(s) - 1 /\ DOMAIN Tail(s) = 1 .. Len(s) - 1
      /\ \A k \in 1 .. Len(s) - 1 : Tail(s)[k] = s[k + 1] /\ k + 1 \in 2 .. Len(s)
  <2>1. Tail(s) \in Seq(Message) /\ Len(Tail(s)) = Len(s) - 1 /\ \A l \in 1 .. Len(Tail(s)) : Tail(s)[l] = s[l + 1]
    BY <1>1, HeadTailProperties
  <2>2. DOMAIN Tail(s) = 1 .. Len(s) - 1
    BY <2>1, LenProperties
  <2>3. QED
    BY <1>1, <2>1, <2>2
<1>5. /\ \A id : (m.id = id => m.task \in Large) =>
           IF m.id = id /\ m.n = 1 THEN \A x \in partial' : x.id = id => x.cut = m.cut
                                   ELSE NoneNew(partial, partial', id)
      /\ BuffersUnmixed'
  BY BuffersAfter
<1> HIDE DEF m
<1>6. ASSUME NEW id, NEW cut, NEW k \in 2 .. Len(s) + 1, m.id = id => m.task \in Large,
             Governed(s, partial, id, cut, k)
      PROVE  Governed(Tail(s), partial', id, cut, k - 1)
  <2>1. IF s[1].id = id /\ s[1].n = 1 THEN \A x \in partial' : x.id = id => x.cut = s[1].cut
                                      ELSE NoneNew(partial, partial', id)
    BY <1>1, <1>5, <1>6
  <2> HIDE DEF s
  <2>2. QED
    BY <1>1, <1>6, <2>1, GovernedNearer
<1>7. ASSUME NEW id, NEW cut, NEW q \in Peer, q # p, NEW k \in 1 .. Len(out[q]) + 1, m.id # id,
             Governed(out[q], partial, id, cut, k)
      PROVE  Governed(out'[q], partial', id, cut, k)
  <2>1. NoneNew(partial, partial', id)
    BY <1>5, <1>7
  <2>2. k \in Nat
    OBVIOUS
  <2>3. QED
    BY <1>3, <1>7, <2>1, <2>2, GovernedKept
<1>8. ASSUME NEW k \in DOMAIN out'[p]
       PROVE  k \in 1 .. Len(s) - 1 /\ out'[p][k] = s[k + 1] /\ k + 1 \in 2 .. Len(s)
  <2>1. k \in 1 .. Len(s) - 1
    BY <1>3, <1>4, <1>8
  <2>2. out'[p][k] = s[k + 1] /\ k + 1 \in 2 .. Len(s)
    BY <1>3, <1>4, <2>1
  <2>3. QED
    BY <2>1, <2>2
<1>9. Home'
  <2>1. SUFFICES ASSUME NEW q \in Peer, NEW k \in DOMAIN out'[q] PROVE PeerOf[out'[q][k].task] = q
    BY DEF Home
  <2>2. CASE q # p
    BY <1>3, <2>1, <2>2 DEF Home
  <2>3. CASE q = p
    <3>1. out'[q][k] = s[k + 1] /\ k + 1 \in DOMAIN s
      BY <1>1, <1>8, <2>1, <2>3
    <3>2. QED
      BY <2>3, <3>1 DEF Home
  <2>4. QED
    BY <2>2, <2>3
<1>10. Streams'
  <2>1. SUFFICES ASSUME NEW q \in Peer, NEW k \in DOMAIN out'[q], out'[q][k].n > 1
                 PROVE  /\ out'[q][k].task \in Large
                        /\ Governed(out'[q], partial', out'[q][k].id, out'[q][k].cut, k)
    BY DEF Streams
  <2>2. CASE q # p
    <3> DEFINE a == out[q][k]
    <3>1. out'[q] = out[q] /\ k \in DOMAIN out[q]
      BY <1>3, <2>1, <2>2
    <3>2. k \in 1 .. Len(out[q]) + 1 /\ a \in Parcels
      BY <3>1, MessageTypes DEF IInv
    <3>3. a.task \in Large /\ Governed(out[q], partial, a.id, a.cut, k) /\ PeerOf[a.task] = q
      BY <2>1, <3>1 DEF Streams, Home
    <3>4. m.id # a.id
      BY <1>2, <2>2, <3>2, <3>3 DEF ParcelsApart, SameAs
    <3> HIDE DEF a
    <3>5. Governed(out'[q], partial', a.id, a.cut, k)
      BY <1>7, <2>2, <3>2, <3>3, <3>4
    <3>6. QED
      BY <3>1, <3>3, <3>5 DEF a
  <2>3. CASE q = p
    <3> DEFINE a == s[k + 1]
    <3>1. out'[q] = Tail(s) /\ out'[q][k] = a /\ k + 1 \in DOMAIN s /\ k + 1 \in 2 .. Len(s) + 1 /\ (k + 1) - 1 = k
      BY <1>1, <1>3, <1>8, <2>1, <2>3
    <3>2. a \in Parcels
      BY <3>1, MessageTypes DEF IInv
    <3>3. a.task \in Large /\ Governed(s, partial, a.id, a.cut, k + 1)
      BY <2>1, <3>1 DEF Streams
    <3>4. m.id = a.id => m.task \in Large
      BY <1>2, <3>2, <3>3 DEF ParcelsApart, SameAs
    <3> HIDE DEF a, s
    <3>5. Governed(Tail(s), partial', a.id, a.cut, (k + 1) - 1)
      BY <1>6, <3>1, <3>3, <3>4
    <3>6. QED
      BY <3>1, <3>3, <3>5
  <2>4. QED
    BY <2>2, <2>3
<1>11. Uploading'
  <2>1. SUFFICES ASSUME NEW i \in items, ~Idle(i)
                 PROVE  Governed(out'[PeerOf[i.task]], partial', i.id, i.tries, Len(out'[PeerOf[i.task]]) + 1)
    BY <1>3 DEF Uploading
  <2> DEFINE q == PeerOf[i.task]
  <2>2. q \in Peer /\ i.task \in Large
    BY <2>1, ItemTypes DEF IInv, Idle
  <2>3. Governed(out[q], partial, i.id, i.tries, Len(out[q]) + 1)
    BY <2>1 DEF Uploading
  <2>4. m.id = i.id => m.task = i.task
    BY <1>2 DEF IInv, ParcelsMatch, SameAs
  <2>5. CASE q # p
    <3>1. m.id # i.id
      BY <1>2, <2>4, <2>5
    <3>2. out[q] \in Seq(Message) /\ out'[q] = out[q]
      BY <1>1, <1>3, <2>2, <2>5
    <3>3. Len(out[q]) + 1 \in 1 .. Len(out[q]) + 1
      BY <3>2, LenProperties
    <3> HIDE DEF q
    <3>4. Governed(out'[q], partial', i.id, i.tries, Len(out[q]) + 1)
      BY <1>7, <2>2, <2>3, <2>5, <3>1, <3>3
    <3>5. QED
      BY <3>2, <3>4 DEF q
  <2>6. CASE q = p
    <3>1. out'[q] = Tail(s) /\ Len(s) + 1 \in 2 .. Len(s) + 1 /\ (Len(s) + 1) - 1 = Len(Tail(s)) + 1
      BY <1>1, <1>3, <1>4, <2>6
    <3>2. m.id = i.id => m.task \in Large
      BY <2>2, <2>4
    <3>3. Governed(s, partial, i.id, i.tries, Len(s) + 1)
      BY <2>3, <2>6
    <3> HIDE DEF q, s
    <3>4. Governed(Tail(s), partial', i.id, i.tries, (Len(s) + 1) - 1)
      BY <1>6, <3>1, <3>2, <3>3
    <3>5. QED
      BY <3>1, <3>4 DEF q
  <2>7. QED
    BY <2>5, <2>6
<1>12. QED
  BY <1>5, <1>9, <1>10, <1>11

LEMMA UnmixedKept ==
    ASSUME IInv, Unmixed, Next
    PROVE  Unmixed'
<1>1. Step
  BY NextStep
<1>2. TypeOK' /\ ParcelsApart'
  BY <1>1, ParcelsStayApart DEF Step, Flow, Unmixed
<1>3. Home' /\ Streams' /\ Uploading' /\ BuffersUnmixed'
  <2>1. CASE \/ \E t \in Task : Ask(t) \/ Start(t) \/ RetryFailed(t)
             \/ \E i \in items : Retry(i) \/ Finish(i) \/ TimeOut(i)
             \/ \E u \in uploads : Expire(u)
             \/ \E p \in Peer : ReceiveAnswer(p) \/ Abort(p)
             \/ \E i \in items : SendNext(i) /\ (Pause(i) \/ Fail(i)) /\ UNCHANGED out
    <3>1. /\ UNCHANGED <<out, partial>>
          /\ \A j \in items' : Idle(j) \/ \E i \in items : Alike(j, i)
      BY <2>1, WorkAlike
    <3>2. QED
      BY <1>2, <3>1, LessUnmixed DEF Unmixed
  <2>2. CASE \/ \E d \in downloads : SweepDownload(d)
             \/ \E x \in partial : SweepBuffer(x)
             \/ \E p \in Peer : Disconnect(p) \/ Connect(p) \/ Replace(p)
             \/ Restart
    BY <1>2, <2>2, LinksAlike, LessUnmixed DEF Unmixed
  <2>3. CASE \E i \in items : SendNext(i) /\ ~((Pause(i) \/ Fail(i)) /\ UNCHANGED out)
    BY <1>2, <2>3, SentUnmixed DEF Unmixed
  <2>4. CASE \E p \in Peer : Arrive(p)
    BY <2>4, ArriveUnmixed
  <2>5. QED
    BY <2>1, <2>2, <2>3, <2>4 DEF Next
<1>4. QED
  BY <1>2, <1>3 DEF Unmixed

(* Whatever starts, restarts, is replaced, refused or swept: the chunks in *)
(* a buffer are of the attempt that announced it.                          *)
THEOREM BuffersStayPure == Spec => []BuffersUnmixed
<1>1. Init => Unmixed
  <2> SUFFICES ASSUME Init PROVE Unmixed
    OBVIOUS
  <2>1. \A p \in Peer : InTransit(p) = {} /\ DOMAIN out[p] = {}
    BY DEF Init, InTransit
  <2>2. Parcels = {}
    BY <2>1 DEF Init, Parcels
  <2>3. QED
    BY <2>1, <2>2 DEF Init, Unmixed, ParcelsApart, Home, Streams, Uploading, BuffersUnmixed
<1>2. IInv /\ Unmixed /\ [Next]_vars => Unmixed'
  <2>1. ASSUME IInv, Unmixed, UNCHANGED vars PROVE Unmixed'
    <3>1. UNCHANGED <<items, out, partial>>
      BY <2>1 DEF vars
    <3>2. Parcels' = Parcels
      BY <3>1 DEF Parcels, InTransit
    <3>3. QED
      BY <2>1, <3>1, <3>2 DEF Unmixed, ParcelsApart, Home, Streams, Uploading, BuffersUnmixed
  <2>2. QED
    BY <2>1, UnmixedKept
<1>3. Unmixed => BuffersUnmixed
  BY DEF Unmixed
<1>4. QED
  BY InvariantHolds, <1>1, <1>2, <1>3, PTL DEF Spec
=============================================================================
