--------------------------- MODULE FileSyncProofs ---------------------------
(* Proofs about one note on several devices: what deciding between two     *)
(* versions promises, the type invariant, that no copy of a vector ever    *)
(* counts more of a device's edits than the device itself, that what a     *)
(* device knows never shrinks, and when no stale tombstone is left, for    *)
(* every set of devices and every bound; and that two devices converge.    *)
EXTENDS FileSyncPair, SequenceTheorems, WellFoundedInduction, TLAPS

USE DeviceAssumption

(***************************************************************************)
(* What deciding between versions promises: the vectors form a join        *)
(* semilattice, and two devices that compare the same two versions reach   *)
(* the same verdict.                                                       *)
(***************************************************************************)

(* Merging loses no edit and invents none: the result includes both        *)
(* vectors, and any vector that includes both includes it (mergeVectors).  *)
THEOREM MergeIsJoin ==
    ASSUME NEW a \in Vector, NEW b \in Vector
    PROVE  /\ MergeVectors(a, b) \in Vector
           /\ Includes(MergeVectors(a, b), a)
           /\ Includes(MergeVectors(a, b), b)
           /\ \A c \in Vector : Includes(c, a) /\ Includes(c, b)
                                  => Includes(c, MergeVectors(a, b))
BY DEF Vector, Includes, MergeVectors

(* The order in which versions are merged does not matter, and merging one *)
(* twice changes nothing: repeated and reordered messages are harmless to  *)
(* the vectors (mergeVectors).                                             *)
THEOREM MergeIsOrderless ==
    ASSUME NEW a \in Vector, NEW b \in Vector, NEW c \in Vector
    PROVE  /\ MergeVectors(a, b) = MergeVectors(b, a)
           /\ MergeVectors(a, MergeVectors(b, c)) = MergeVectors(MergeVectors(a, b), c)
           /\ MergeVectors(MergeVectors(a, b), b) = MergeVectors(a, b)
<1>1. \A d \in Device : a[d] \in Nat /\ b[d] \in Nat /\ c[d] \in Nat
  BY DEF Vector
<1>2. QED
  BY <1>1 DEF MergeVectors

LEMMA SameCounts ==
    ASSUME NEW a \in Vector, NEW b \in Vector, \A d \in Device : a[d] = b[d]
    PROVE  a = b
<1>1. a = [d \in Device |-> a[d]] /\ b = [d \in Device |-> b[d]]
  BY DEF Vector
<1>2. QED
  BY <1>1

LEMMA InclusionBothWays ==
    ASSUME NEW a \in Vector, NEW b \in Vector
    PROVE  Includes(a, b) /\ Includes(b, a) <=> a = b
<1>1. \A d \in Device : a[d] \in Nat /\ b[d] \in Nat
  BY DEF Vector
<1>2. (\A d \in Device : a[d] = b[d]) => a = b
  BY SameCounts
<1>3. QED
  BY <1>1, <1>2 DEF Includes

(* Two devices that compare the same two vectors see the same order from   *)
(* either side (compareVectors).                                           *)
THEOREM OrdersMirror ==
    ASSUME NEW a \in Vector, NEW b \in Vector
    PROVE  /\ CompareVectors(a, b) = "equal" <=> a = b
           /\ CompareVectors(a, b) = "after" <=> CompareVectors(b, a) = "before"
           /\ CompareVectors(a, b) = "concurrent" <=> CompareVectors(b, a) = "concurrent"
BY InclusionBothWays DEF CompareVectors

(* A set of device IDs that is not empty has a lowest one.                 *)
LEMMA LowestDevice ==
    ASSUME NEW S \in SUBSET Device, S # {}
    PROVE  \E m \in S : \A d \in S : m <= d
<1> DEFINE Less == OpToRel(<, Nat)
<1>1. \A x, y \in Nat : x < y => <<x, y>> \in Less
  BY DEF OpToRel
<1>2. IsWellFoundedOn(Less, Nat)
  BY NatLessThanWellFounded
<1> HIDE DEF Less
<1>3. PICK m \in S : \A d \in S : ~(<<d, m>> \in Less)
  BY <1>2, WFMin
<1>4. ASSUME NEW d \in S PROVE m <= d
  <2>1. m \in Nat /\ d \in Nat
    OBVIOUS
  <2>2. ~(d < m)
    BY <1>1, <1>3, <2>1, Zenon
  <2>3. QED
    BY <2>1, <2>2
<1>5. QED
  BY <1>4

LEMMA UnseenEditsDiffer ==
    ASSUME NEW a \in Vector, NEW b \in Vector, a # b
    PROVE  /\ UnseenEdits(a, b) \subseteq Device /\ UnseenEdits(b, a) \subseteq Device
           /\ UnseenEdits(a, b) \cap UnseenEdits(b, a) = {}
           /\ UnseenEdits(a, b) \cup UnseenEdits(b, a) # {}
<1>1. \A d \in Device : a[d] \in Nat /\ b[d] \in Nat
  BY DEF Vector
<1>2. (\A d \in Device : a[d] = b[d]) => a = b
  BY SameCounts
<1>3. PICK d \in Device : a[d] # b[d]
  BY <1>2
<1>4. d \in UnseenEdits(a, b) \/ d \in UnseenEdits(b, a)
  BY <1>1, <1>3 DEF UnseenEdits
<1>5. \A e \in Device : ~(e \in UnseenEdits(a, b) /\ e \in UnseenEdits(b, a))
  BY <1>1 DEF UnseenEdits
<1>6. UnseenEdits(a, b) \subseteq Device /\ UnseenEdits(b, a) \subseteq Device
  BY DEF UnseenEdits
<1>7. QED
  BY <1>4, <1>5, <1>6

LEMMA LowerFirstMirrors ==
    ASSUME NEW s \in SUBSET Device, NEW t \in SUBSET Device,
           s \cap t = {}, s \cup t # {}
    PROVE  LowerFirst(s, t) <=> ~LowerFirst(t, s)
<1>1. \A d \in Device : d \in Nat
  OBVIOUS
<1>2. CASE s = {}
  BY <1>2 DEF LowerFirst
<1>3. CASE t = {}
  BY <1>3 DEF LowerFirst
<1>4. CASE s # {} /\ t # {}
  <2>1. PICK m \in s : \A d \in s : m <= d
    BY <1>4, LowestDevice
  <2>2. PICK n \in t : \A d \in t : n <= d
    BY <1>4, LowestDevice
  <2>3. m # n
    OBVIOUS
  <2>4. CASE m < n
    <3>1. LowerFirst(s, t)
      BY <1>1, <2>2, <2>4 DEF LowerFirst
    <3>2. ~LowerFirst(t, s)
      BY <1>1, <2>2, <2>4 DEF LowerFirst
    <3>3. QED
      BY <3>1, <3>2
  <2>5. CASE n < m
    <3>1. LowerFirst(t, s)
      BY <1>1, <2>1, <2>5 DEF LowerFirst
    <3>2. ~LowerFirst(s, t)
      BY <1>1, <2>1, <2>5 DEF LowerFirst
    <3>3. QED
      BY <3>1, <3>2
  <2>6. QED
    BY <1>1, <2>3, <2>4, <2>5
<1>5. QED
  BY <1>2, <1>3, <1>4

(* Whatever two versions are compared, one of them wins on both ends, as   *)
(* long as their holders are known and different (newerVersion:            *)
(* "Symmetric: swapping the arguments swaps the answer").                  *)
THEOREM NewerMirrors ==
    ASSUME NEW a \in VersionInfo, NEW b \in VersionInfo,
           a.device # 0, b.device # 0, a.device # b.device
    PROVE  NewerIsFirst(a, b) <=> ~NewerIsFirst(b, a)
<1>1. /\ a.mtime \in Nat /\ b.mtime \in Nat /\ a.hash \in Nat /\ b.hash \in Nat
      /\ a.vv \in Vector /\ b.vv \in Vector /\ a.device \in Nat /\ b.device \in Nat
  BY DEF VersionInfo
<1>2. CASE a.mtime # b.mtime
  BY <1>1, <1>2 DEF NewerIsFirst
<1>3. CASE a.mtime = b.mtime /\ a.vv = b.vv
  BY <1>1, <1>3 DEF NewerIsFirst, NewerByTie
<1>4. CASE a.mtime = b.mtime /\ a.vv # b.vv
  <2>1. LowerFirst(UnseenEdits(a.vv, b.vv), UnseenEdits(b.vv, a.vv))
          <=> ~LowerFirst(UnseenEdits(b.vv, a.vv), UnseenEdits(a.vv, b.vv))
    BY <1>1, <1>4, UnseenEditsDiffer, LowerFirstMirrors
  <2>2. QED
    BY <1>1, <1>4, <2>1 DEF NewerIsFirst
<1>5. QED
  BY <1>2, <1>3, <1>4

(* Both ends of a conflict pick the same winner, and a version that        *)
(* includes the other always is it, whatever the clocks say (pickVersion). *)
THEOREM PickMirrors ==
    ASSUME NEW a \in VersionInfo, NEW b \in VersionInfo,
           a.device # 0, b.device # 0, a.device # b.device
    PROVE  /\ PickIsFirst(a, b) <=> ~PickIsFirst(b, a)
           /\ Includes(a.vv, b.vv) /\ a.vv # b.vv => PickIsFirst(a, b)
<1>1. a.vv \in Vector /\ b.vv \in Vector
  BY DEF VersionInfo
<1>2. NewerIsFirst(a, b) <=> ~NewerIsFirst(b, a)
  BY NewerMirrors
<1>3. CompareVectors(a.vv, b.vv) \in {"equal", "after", "before", "concurrent"}
  BY DEF CompareVectors
<1>4. /\ CompareVectors(a.vv, b.vv) = "after" <=> CompareVectors(b.vv, a.vv) = "before"
      /\ CompareVectors(a.vv, b.vv) = "before" <=> CompareVectors(b.vv, a.vv) = "after"
      /\ CompareVectors(a.vv, b.vv) = "equal" <=> CompareVectors(b.vv, a.vv) = "equal"
      /\ CompareVectors(a.vv, b.vv) = "concurrent" <=> CompareVectors(b.vv, a.vv) = "concurrent"
  BY <1>1, OrdersMirror
<1>5. PickIsFirst(a, b) <=> ~PickIsFirst(b, a)
  BY <1>2, <1>3, <1>4 DEF PickIsFirst
<1>6. Includes(a.vv, b.vv) /\ a.vv # b.vv => PickIsFirst(a, b)
  BY <1>1, InclusionBothWays DEF PickIsFirst, CompareVectors
<1>7. QED
  BY <1>5, <1>6


-----------------------------------------------------------------------------
(***************************************************************************)
(* What the parties to a pair may do to it, whatever program they run: a   *)
(* device edits, announces an edit it counts, repeats what it has, or      *)
(* hears the first version on its way to it.                               *)
(***************************************************************************)

LEMMA PairMirrors ==
    ASSUME NEW F, NEW G, NEW x, NEW y, NEW low, Pair(F, G, x, y, low)
    PROVE  Pair(G, F, y, x, ~low)
BY DEF Pair, Even

-----------------------------------------------------------------------------
\* A device changes its note; the change is not counted yet.
Edited(x, z) == IsSide(z) /\ z.own = x.own /\ z.other = x.other /\ z.q /\ z.t > x.t

LEMMA EditedFits ==
    ASSUME NEW x, NEW y, NEW low \in BOOLEAN, NEW z, NEW w, IsSide(x), IsSide(y), IsSaid(w),
           Edited(x, z), Fits(w, x, y, low)
    PROVE  Fits(w, z, y, low)
BY DEF Fits, SaidBefore, IsMeant, IsKnown, Rises, Decides, IsLatest, Edited, IsSide, IsSaid,
   Precedes, News, Beats

LEMMA EditedHears ==
    ASSUME NEW x, NEW y, NEW low \in BOOLEAN, NEW z, NEW w, IsSide(x), IsSide(y), IsSaid(w),
           Edited(x, z), Fits(w, y, x, ~low)
    PROVE  Fits(w, y, z, ~low)
BY DEF Fits, SaidBefore, IsMeant, IsKnown, Rises, Decides, IsLatest, Edited, IsSide, IsSaid,
   Precedes, News, Beats

LEMMA EditedFollows ==
    ASSUME NEW x, NEW y, NEW low \in BOOLEAN, NEW z, NEW w, NEW v, IsSide(x), IsSide(y),
           IsSaid(w), IsSaid(v),
           Edited(x, z)
    PROVE  /\ Follows(w, v, x, y, low) => Follows(w, v, z, y, low)
           /\ Follows(w, v, y, x, ~low) => Follows(w, v, y, z, ~low)
BY DEF Follows, Ordered, RisesTo, Agrees, Edited, IsSide, IsSaid, Precedes, News, Beats

LEMMA Edits ==
    ASSUME NEW F, NEW G, NEW x, NEW y, NEW low, Pair(F, G, x, y, low), NEW z, Edited(x, z)
    PROVE  Pair(F, G, z, y, low)
<1>1. low \in BOOLEAN /\ IsSide(x) /\ IsSide(y) /\ Halfway(F, x, y, low) /\ Halfway(G, y, x, ~low)
  BY DEF Pair
<1>2. Halfway(F, z, y, low)
  BY <1>1, EditedFits, EditedFollows DEF Halfway, NewsTravels, Edited
<1>3. Halfway(G, y, z, ~low)
  BY <1>1, EditedHears, EditedFollows DEF Halfway, NewsTravels, Edited
<1> QED BY <1>1, <1>2, <1>3 DEF Pair, Even, Edited

-----------------------------------------------------------------------------
\* A flight grows at its end and is heard from its front.
Extends(E, F, z) ==
    /\ Len(E) = Len(F) + 1 /\ E[Len(F) + 1] = z
    /\ \A i \in 1 .. Len(F) : E[i] = F[i]
Shifts(E, F) == Len(E) \in Nat /\ Len(F) = Len(E) + 1 /\ \A i \in 1 .. Len(E) : E[i] = F[i + 1]

\* A device counts a change, made now or before, and says so.
Announced(x, z) ==
    /\ IsSide(z) /\ z.own = x.own + 1 /\ z.other = x.other /\ ~z.q
    /\ z.t > x.t \/ (x.q /\ z.t = x.t /\ z.c = x.c)

LEMMA AnnouncedSays ==
    ASSUME NEW x, NEW y, NEW low \in BOOLEAN, NEW z, NEW w, IsSide(x), IsSide(y), IsSaid(w),
           Announced(x, z), y.other <= x.own, w.c = z.c, w.t = z.t, w.own = z.own,
           w.other = z.other
    PROVE  Fits(w, z, y, low) /\ Follows(w, w, z, y, low)
BY DEF Fits, SaidBefore, IsMeant, IsKnown, Rises, Decides, IsLatest, Announced, IsSide, IsSaid,
   Precedes, News, Beats,
   Follows, Ordered, RisesTo, Agrees, Outcome, Takes

LEMMA AnnouncedFits ==
    ASSUME NEW x, NEW y, NEW low \in BOOLEAN, NEW z, NEW w, IsSide(x), IsSide(y), IsSaid(w),
           Announced(x, z), y.other <= x.own, Fits(w, x, y, low)
    PROVE  Fits(w, z, y, low)
BY DEF Fits, SaidBefore, IsMeant, IsKnown, Rises, Decides, IsLatest, Announced, IsSide, IsSaid,
   Precedes, News, Beats

LEMMA AnnouncedHears ==
    ASSUME NEW x, NEW y, NEW low \in BOOLEAN, NEW z, NEW w, IsSide(x), IsSide(y), IsSaid(w),
           Announced(x, z), y.other <= x.own, Fits(w, y, x, ~low)
    PROVE  Fits(w, y, z, ~low)
BY DEF Fits, SaidBefore, IsMeant, IsKnown, Rises, Decides, IsLatest, Announced, IsSide, IsSaid,
   Precedes, News, Beats

LEMMA AnnouncedLast ==
    ASSUME NEW x, NEW y, NEW low \in BOOLEAN, NEW z, NEW w, NEW v, IsSide(x), IsSide(y),
           IsSaid(w), IsSaid(v),
           Announced(x, z), Fits(w, x, y, low), v.c = z.c, v.t = z.t, v.own = z.own,
           v.other = z.other
    PROVE  Follows(w, v, z, y, low)
BY DEF Fits, SaidBefore, Rises, Follows, Ordered, RisesTo, Agrees, Announced, IsSide, IsSaid,
   Precedes, News, Beats

LEMMA AnnouncedFollows ==
    ASSUME NEW x, NEW y, NEW low \in BOOLEAN, NEW z, NEW w, NEW v, IsSide(x), IsSide(y),
           IsSaid(w), IsSaid(v),
           Announced(x, z), y.other <= x.own
    PROVE  /\ Follows(w, v, x, y, low) => Follows(w, v, z, y, low)
           /\ Follows(w, v, y, x, ~low) /\ Fits(v, y, x, ~low) => Follows(w, v, y, z, ~low)
BY DEF Follows, Ordered, RisesTo, Agrees, Announced, IsSide, IsSaid, Precedes, News, Beats,
   Fits, SaidBefore

LEMMA SaysMore ==
    ASSUME NEW F, NEW x, NEW y, NEW low, NEW z, NEW s, NEW E, Extends(E, F, s), IsSaid(s),
           Halfway(F, x, y, low), y.other <= z.own, s.own = z.own,
           \A i \in 1 .. Len(F) : Fits(F[i], z, y, low) /\ Follows(F[i], s, z, y, low),
           \A i, j \in 1 .. Len(F) : i <= j => Follows(F[i], F[j], z, y, low),
           Fits(s, z, y, low), Follows(s, s, z, y, low)
    PROVE  Halfway(E, z, y, low)
<1>1. Len(F) \in Nat /\ Len(E) = Len(F) + 1 /\ E[Len(E)] = s /\ Len(E) \in 1 .. Len(E)
  BY DEF Extends, Halfway
<1>2. \A i \in 1 .. Len(E) : i = Len(E) \/ (i \in 1 .. Len(F) /\ E[i] = F[i])
  BY <1>1 DEF Extends
<1>3. \A i \in 1 .. Len(E) : IsSaid(E[i]) /\ Fits(E[i], z, y, low)
  BY <1>1, <1>2 DEF Halfway
<1>4. NewsTravels(E, z, y)
  BY <1>1 DEF NewsTravels
<1>5. ASSUME NEW i \in 1 .. Len(E), NEW j \in 1 .. Len(E),
             i <= j
      PROVE  Follows(E[i], E[j], z, y, low)
  <2>1. CASE i = Len(E)
    BY <2>1, <1>1, <1>5
  <2>2. CASE i # Len(E) /\ j = Len(E)
    BY <2>2, <1>1, <1>2
  <2>3. CASE i # Len(E) /\ j # Len(E)
    BY <2>3, <1>2, <1>5
  <2> QED BY <2>1, <2>2, <2>3
<1> QED BY <1>1, <1>3, <1>4, <1>5 DEF Halfway

LEMMA Announces ==
    ASSUME NEW F, NEW G, NEW x, NEW y, NEW low, Pair(F, G, x, y, low), NEW z, Announced(x, z),
           NEW s, IsSaid(s), s.c = z.c, s.t = z.t, s.own = z.own, s.other = z.other, NEW E,
           Extends(E, F, s)
    PROVE  Pair(E, G, z, y, low)
<1>1. low \in BOOLEAN /\ IsSide(x) /\ IsSide(y) /\ Halfway(F, x, y, low) /\ Halfway(G, y, x, ~low)
  BY DEF Pair
<1>2. y.other <= x.own /\ y.other <= z.own
  BY <1>1 DEF Halfway, Announced, IsSide
<1>3. \A i \in 1 .. Len(F) : Fits(F[i], z, y, low) /\ Follows(F[i], s, z, y, low)
  <2> SUFFICES ASSUME NEW i \in 1 .. Len(F) PROVE Fits(F[i], z, y, low) /\ Follows(F[i], s, z, y, low)
    OBVIOUS
  <2>1. IsSaid(F[i]) /\ Fits(F[i], x, y, low)
    BY <1>1 DEF Halfway
  <2> QED BY <2>1, <1>1, <1>2, AnnouncedFits, AnnouncedLast
<1>4. \A i, j \in 1 .. Len(F) : i <= j => Follows(F[i], F[j], z, y, low)
  BY <1>1, <1>2, AnnouncedFollows DEF Halfway
<1>5. Fits(s, z, y, low) /\ Follows(s, s, z, y, low)
  BY <1>1, <1>2, AnnouncedSays
<1>6. Halfway(E, z, y, low)
  BY <1>1, <1>2, <1>3, <1>4, <1>5, SaysMore
<1>7. Halfway(G, y, z, ~low)
  <2>1. \A i \in 1 .. Len(G) : IsSaid(G[i]) /\ Fits(G[i], y, x, ~low) /\ Fits(G[i], y, z, ~low)
    BY <1>1, <1>2, AnnouncedHears DEF Halfway
  <2>2. \A i, j \in 1 .. Len(G) : i <= j => Follows(G[i], G[j], y, z, ~low)
    BY <2>1, <1>1, <1>2, AnnouncedFollows DEF Halfway
  <2> QED BY <2>1, <2>2, <1>1 DEF Halfway, NewsTravels, Announced
<1>8. Even(z, y)
  BY <1>1, <1>2 DEF Even, Announced, IsSide
<1> QED BY <1>1, <1>6, <1>7, <1>8 DEF Pair, Announced

LEMMA RepeatedSays ==
    ASSUME NEW x, NEW y, NEW low \in BOOLEAN, NEW w, IsSide(x), IsSide(y), IsSaid(w),
           Even(x, y), ~x.q,
           y.other <= x.own, w.c = x.c, w.t = x.t, w.own = x.own, w.other = x.other
    PROVE  Fits(w, x, y, low) /\ Follows(w, w, x, y, low)
BY DEF Fits, SaidBefore, IsMeant, IsKnown, Rises, Decides, IsLatest, IsSide, IsSaid, Precedes,
   News, Beats,
   Follows, Ordered, RisesTo, Agrees, Outcome, Takes, Even

LEMMA RepeatedLast ==
    ASSUME NEW x, NEW y, NEW low \in BOOLEAN, NEW w, NEW v, IsSide(x), IsSide(y), IsSaid(w),
           IsSaid(v), ~x.q,
           Fits(w, x, y, low), v.c = x.c, v.t = x.t, v.own = x.own, v.other = x.other
    PROVE  Follows(w, v, x, y, low)
BY DEF Fits, SaidBefore, Rises, Decides, Follows, Ordered, RisesTo, Agrees, IsSide, IsSaid,
   Precedes, News

LEMMA Repeats ==
    ASSUME NEW F, NEW G, NEW x, NEW y, NEW low, Pair(F, G, x, y, low), ~x.q,
           NEW s, IsSaid(s), s.c = x.c, s.t = x.t, s.own = x.own, s.other = x.other, NEW E,
           Extends(E, F, s)
    PROVE  Pair(E, G, x, y, low)
<1>1. /\ low \in BOOLEAN /\ IsSide(x) /\ IsSide(y) /\ Halfway(F, x, y, low) /\ Halfway(G, y, x, ~low)
      /\ Even(x, y) /\ y.other <= x.own
  BY DEF Pair, Halfway
<1>2. \A i \in 1 .. Len(F) : Fits(F[i], x, y, low) /\ Follows(F[i], s, x, y, low)
  BY <1>1, RepeatedLast DEF Halfway
<1>3. \A i, j \in 1 .. Len(F) : i <= j => Follows(F[i], F[j], x, y, low)
  BY <1>1 DEF Halfway
<1>4. Fits(s, x, y, low) /\ Follows(s, s, x, y, low)
  BY <1>1, RepeatedSays
<1>5. Halfway(E, x, y, low)
  BY <1>1, <1>2, <1>3, <1>4, SaysMore
<1> QED BY <1>1, <1>5 DEF Pair

-----------------------------------------------------------------------------
\* A device x without uncounted changes hears m and is z then: it knows of the sender's edits,
\* and has m's content when m is news that wins, or its own.
Heard(x, m, z, low) ==
    /\ IsSide(z) /\ z.own = x.own /\ ~x.q /\ ~z.q
    /\ z.other = IF m.own > x.other THEN m.own ELSE x.other
    /\ \/ m.c = x.c /\ z.c = x.c /\ (z.t = x.t \/ (x.t = 0 /\ z.t = m.t))
       \/ Takes(x, m, ~low) /\ z.c = m.c /\ z.t = m.t
       \/ m.c # x.c /\ ~Takes(x, m, ~low) /\ z.c = x.c /\ z.t = x.t

LEMMA HeardFits ==
    ASSUME NEW x, NEW y, NEW low \in BOOLEAN, NEW z, NEW m, NEW w, IsSide(x), IsSide(y),
           IsSaid(w), IsSaid(m),
           Heard(x, m, z, low), y.other <= x.own, Even(x, y), Fits(m, y, x, ~low),
           Fits(w, x, y, low)
    PROVE  Fits(w, z, y, low)
<1> USE DEF Fits, SaidBefore, IsSide, IsSaid
<1>1. SaidBefore(w, z, y)
  BY DEF Heard
<1>2. IsMeant(w, z)
  BY DEF Heard, IsMeant, Takes, News
<1>3. IsKnown(w, y)
  OBVIOUS
<1>4. Rises(w, z, y, low)
  BY DEF Heard, Rises, Precedes, News, Takes, Beats
<1>5. Decides(w, z, y, low)
  BY DEF Heard, Decides, Outcome, News, Takes, Beats, IsLatest, Rises, Precedes, Even, IsKnown,
     IsMeant
<1>6. IsLatest(w, z, y)
  BY DEF Heard, News, Takes, Beats, IsLatest, Rises, Precedes
<1> QED BY <1>1, <1>2, <1>3, <1>4, <1>5, <1>6

LEMMA HeardHears ==
    ASSUME NEW x, NEW y, NEW low \in BOOLEAN, NEW z, NEW m, NEW w, IsSide(x), IsSide(y),
           IsSaid(w), IsSaid(m),
           Heard(x, m, z, low), y.other <= x.own, x.other <= y.own, Even(x, y),
           Fits(m, y, x, ~low), Fits(w, y, x, ~low),
           Follows(m, w, y, x, ~low)
    PROVE  Fits(w, y, z, ~low)
<1> USE DEF Fits, SaidBefore, IsSide, IsSaid, Follows, Ordered
<1>1. SaidBefore(w, y, z)
  BY DEF Heard
<1>2. IsMeant(w, y)
  OBVIOUS
<1>3. IsKnown(w, z)
  BY DEF Heard, IsKnown, News, Takes, Beats, Agrees, Outcome
<1>4. Rises(w, y, z, ~low)
  BY DEF Heard, Rises, RisesTo, Precedes, News, Takes, Beats
<1>5. Decides(w, y, z, ~low)
  <2> SUFFICES ASSUME z.other < y.own, y.other = x.own, ~y.q, w.own = y.own
               PROVE  Outcome(z, w, ~low) = y.c
    BY DEF Heard, Decides
  <2>1. Outcome(x, w, ~low) = y.c
    BY DEF Heard, Decides
  <2>2. w.other = x.own => w.c = y.c
    BY DEF IsMeant
  <2>3. CASE Takes(x, m, ~low) /\ z.c = m.c /\ z.t = m.t
    BY <2>1, <2>2, <2>3 DEF Heard, Outcome, News, Takes, Beats, RisesTo, Precedes
  <2>4. CASE z.c = x.c /\ (z.t = x.t \/ x.t = 0)
    BY <2>1, <2>2, <2>4 DEF Heard, Outcome, News, Takes, Beats
  <2> QED BY <2>3, <2>4 DEF Heard
<1>6. IsLatest(w, y, z)
  BY DEF Heard, IsMeant, News, Takes, Beats, IsLatest, Rises, RisesTo, Precedes
<1> QED BY <1>1, <1>2, <1>3, <1>4, <1>5, <1>6

LEMMA HeardFollows ==
    ASSUME NEW x, NEW y, NEW low \in BOOLEAN, NEW z, NEW m, NEW w, NEW v, IsSide(x), IsSide(y),
           IsSaid(w), IsSaid(v), IsSaid(m),
           Heard(x, m, z, low), y.other <= x.own
    PROVE  /\ Follows(w, v, x, y, low) => Follows(w, v, z, y, low)
           /\ /\ Follows(w, v, y, x, ~low) /\ Fits(w, y, x, ~low) /\ Fits(v, y, x, ~low) /\ Fits(m, y, x, ~low)
              /\ Follows(m, w, y, x, ~low) /\ Follows(m, v, y, x, ~low)
              => Follows(w, v, y, z, ~low)
<1>1. Follows(w, v, x, y, low) => Follows(w, v, z, y, low)
  BY DEF Follows, Ordered, RisesTo, Agrees, Heard, Precedes, IsSide, IsSaid
<1>2. ASSUME Follows(w, v, y, x, ~low), Fits(w, y, x, ~low), Fits(v, y, x, ~low),
             Fits(m, y, x, ~low),
             Follows(m, w, y, x, ~low), Follows(m, v, y, x, ~low)
      PROVE  Follows(w, v, y, z, ~low)
  <2>1. RisesTo(w, v, y, z, ~low)
    BY <1>2 DEF Follows, Ordered, RisesTo, Heard, Precedes, IsSide, IsSaid, Fits, SaidBefore,
       News, Takes, Beats
  <2>2. Agrees(w, v, z, ~low)
    BY <1>2 DEF Follows, Ordered, Agrees, RisesTo, Heard, Precedes, IsSide, IsSaid, Fits,
       SaidBefore, News, Takes, Beats, Outcome, IsKnown
  <2> QED BY <1>2, <2>1, <2>2 DEF Follows
<1> QED BY <1>1, <1>2

LEMMA HeardEven ==
    ASSUME NEW x, NEW y, NEW low \in BOOLEAN, NEW z, NEW m, IsSide(x), IsSide(y), IsSaid(m),
           Heard(x, m, z, low), y.other <= x.own, x.other <= y.own, Even(x, y),
           Fits(m, y, x, ~low)
    PROVE  Even(z, y)
BY DEF Heard, Even, Fits, SaidBefore, IsKnown, Decides, Outcome, Takes, News, IsSide, IsSaid

LEMMA Hears ==
    ASSUME NEW F, NEW G, NEW x, NEW y, NEW low, Pair(F, G, x, y, low), NEW m, Len(G) > 0,
           G[1] = m,
           NEW H, Shifts(H, G), NEW z, Heard(x, m, z, low)
    PROVE  Pair(F, H, z, y, low)
<1>1. /\ low \in BOOLEAN /\ IsSide(x) /\ IsSide(y) /\ Halfway(F, x, y, low) /\ Halfway(G, y, x, ~low)
      /\ Even(x, y) /\ y.other <= x.own /\ x.other <= y.own
  BY DEF Pair, Halfway
<1>2. 1 \in 1 .. Len(G) /\ IsSaid(m) /\ Fits(m, y, x, ~low)
  BY <1>1 DEF Halfway
<1>3. ASSUME NEW i \in 1 .. Len(H)
      PROVE  /\ IsSaid(H[i]) /\ Fits(H[i], y, x, ~low) /\ Follows(m, H[i], y, x, ~low)
             /\ Fits(H[i], y, z, ~low)
  <2>1. i + 1 \in 1 .. Len(G) /\ 1 <= i + 1 /\ H[i] = G[i + 1]
    BY <1>1 DEF Shifts, Halfway
  <2>2. IsSaid(H[i]) /\ Fits(H[i], y, x, ~low) /\ Follows(m, H[i], y, x, ~low)
    BY <2>1, <1>1, <1>2 DEF Halfway
  <2> QED BY <2>2, <1>1, <1>2, HeardHears
<1>4. ASSUME NEW i \in 1 .. Len(H), NEW j \in 1 .. Len(H), i <= j
      PROVE  Follows(H[i], H[j], y, z, ~low)
  <2>1. /\ i + 1 \in 1 .. Len(G) /\ j + 1 \in 1 .. Len(G) /\ i + 1 <= j + 1
        /\ H[i] = G[i + 1] /\ H[j] = G[j + 1]
    BY <1>1, <1>4 DEF Shifts, Halfway
  <2>2. Follows(H[i], H[j], y, x, ~low)
    BY <2>1, <1>1 DEF Halfway
  <2> QED BY <2>2, <1>1, <1>2, <1>3, HeardFollows
<1>5. NewsTravels(H, y, z)
  <2> SUFFICES ASSUME z.other < y.own PROVE \E i \in 1 .. Len(H) : H[i].own = y.own
    BY DEF NewsTravels
  <2>1. x.other < y.own /\ m.own < y.own
    <3>1. z.other = IF m.own > x.other THEN m.own ELSE x.other
      BY DEF Heard
    <3> QED BY <3>1, <1>1, <1>2 DEF IsSide, IsSaid
  <2>2. PICK i \in 1 .. Len(G) : G[i].own = y.own
    BY <2>1, <1>1 DEF Halfway, NewsTravels
  <2>3. i # 1
    BY <2>1, <2>2, <1>1, <1>2 DEF IsSide, IsSaid
  <2>4. i - 1 \in 1 .. Len(H) /\ H[i - 1] = G[i]
    BY <2>3, <1>1 DEF Shifts, Halfway
  <2> QED BY <2>2, <2>4
<1>6. Halfway(H, y, z, ~low)
  <2>1. z.other <= y.own
    BY <1>1, <1>2 DEF Heard, Fits, SaidBefore
  <2> QED BY <2>1, <1>3, <1>4, <1>5 DEF Halfway, Shifts
<1>7. Halfway(F, z, y, low)
  <2>1. \A i \in 1 .. Len(F) : IsSaid(F[i]) /\ Fits(F[i], z, y, low)
    BY <1>1, <1>2, HeardFits DEF Halfway
  <2>2. \A i, j \in 1 .. Len(F) : i <= j => Follows(F[i], F[j], z, y, low)
    BY <1>1, <1>2, HeardFollows DEF Halfway
  <2> QED BY <2>1, <2>2, <1>1 DEF Halfway, NewsTravels, Heard
<1>8. Even(z, y)
  BY <1>1, <1>2, HeardEven
<1> QED BY <1>1, <1>6, <1>7, <1>8 DEF Pair, Heard

-----------------------------------------------------------------------------
(* The same moves keep the times in order, and keep every edit of which    *)
(* no copy is kept.                                                        *)

LEMMA EditedTimed ==
    ASSUME NEW x, NEW y, NEW low \in BOOLEAN, NEW z, NEW w, NEW v, IsSide(x), IsSide(y),
           IsSaid(w), IsSaid(v), Edited(x, z)
    PROVE  /\ Fits(w, x, y, low) => IsOlder(w, z, y) /\ IsStill(w, z, y)
           /\ IsOlder(w, y, x) => IsOlder(w, y, z)
           /\ IsStill(w, y, x) => IsStill(w, y, z)
           /\ Drops(w, v, x) => Drops(w, v, z)
BY DEF Fits, Rises, Precedes, IsOlder, IsStill, Drops, Yields, News, Edited, IsSide, IsSaid

LEMMA AnnouncedTimed ==
    ASSUME NEW x, NEW y, NEW low \in BOOLEAN, NEW z, NEW w, NEW v, NEW s, IsSide(x), IsSide(y),
           IsSaid(w), IsSaid(v), Announced(x, z), s.c = z.c, s.t = z.t, s.own = z.own
    PROVE  /\ Fits(w, x, y, low) /\ IsOlder(w, x, y) /\ y.other <= x.own
              => IsOlder(w, z, y) /\ IsStill(w, z, y) /\ Drops(w, s, y)
           /\ IsOlder(s, z, y) /\ IsStill(s, z, y) /\ Drops(s, s, y)
           /\ IsOlder(w, y, x) => IsOlder(w, y, z)
           /\ IsStill(w, y, x) /\ y.other <= x.own => IsStill(w, y, z)
           /\ Drops(w, v, x) /\ v.other <= y.other /\ y.other <= x.own => Drops(w, v, z)
BY DEF Fits, SaidBefore, Rises, Precedes, IsOlder, IsStill, Drops, Yields, News, Announced,
   IsSide, IsSaid

LEMMA RepeatedTimed ==
    ASSUME NEW x, NEW y, NEW low \in BOOLEAN, NEW w, NEW s, IsSide(x), IsSide(y),
           IsSaid(w), ~x.q, s.c = x.c, s.t = x.t, s.own = x.own, s.other = x.other
    PROVE  /\ IsStill(w, x, y) => Drops(w, s, y)
           /\ IsOlder(s, x, y) /\ IsStill(s, x, y) /\ Drops(s, s, y)
BY DEF IsOlder, IsStill, Drops, Yields, News, IsSide, IsSaid

LEMMA SentOnTime ==
    ASSUME NEW x, NEW y, NEW low \in BOOLEAN, NEW z, NEW m, NEW w, IsSide(x), IsSide(y),
           IsSaid(w), IsSaid(m), Heard(x, m, z, low), y.other <= x.own, x.other <= y.own,
           Fits(m, y, x, ~low), IsOlder(m, y, x),
           Fits(w, x, y, low), IsOlder(w, x, y), IsStill(w, x, y)
    PROVE  IsOlder(w, z, y) /\ IsStill(w, z, y)
<1> USE DEF Heard, Takes, Fits, SaidBefore, Rises, Precedes, IsOlder, IsStill, Yields, News,
    Beats,
        IsSide, IsSaid
<1>1. IsOlder(w, z, y)
  OBVIOUS
<1>2. IsStill(w, z, y)
  OBVIOUS
<1> QED BY <1>1, <1>2

LEMMA HeardOnTime ==
    ASSUME NEW x, NEW y, NEW low \in BOOLEAN, NEW z, NEW m, NEW w, NEW v, IsSide(x), IsSide(y),
           IsSaid(w), IsSaid(v), IsSaid(m),
           Heard(x, m, z, low), y.other <= x.own, x.other <= y.own,
           Fits(m, y, x, ~low), IsOlder(m, y, x)
    PROVE  /\ IsOlder(w, y, x) => IsOlder(w, y, z)
           /\ IsStill(w, y, x) /\ Fits(w, y, x, ~low) /\ Follows(m, w, y, x, ~low)
              => IsStill(w, y, z)
           /\ /\ Drops(w, v, x) /\ Fits(w, y, x, ~low) /\ Fits(v, y, x, ~low)
              /\ Follows(m, w, y, x, ~low) /\ Follows(w, v, y, x, ~low)
              => Drops(w, v, z)
<1> USE DEF Heard, Takes, Fits, SaidBefore, Rises, Precedes, IsOlder, IsStill, Drops, Yields,
    News,
        Beats, IsSide, IsSaid, Follows, Ordered, RisesTo
<1>1. IsOlder(w, y, x) => IsOlder(w, y, z)
  OBVIOUS
<1>2. IsStill(w, y, x) /\ Fits(w, y, x, ~low) /\ Follows(m, w, y, x, ~low) => IsStill(w, y, z)
  OBVIOUS
<1>3. /\ Drops(w, v, x) /\ Fits(w, y, x, ~low) /\ Fits(v, y, x, ~low)
      /\ Follows(m, w, y, x, ~low) /\ Follows(w, v, y, x, ~low)
      => Drops(w, v, z)
  OBVIOUS
<1> QED BY <1>1, <1>2, <1>3

\* The order of the times, both ways.
OnTime(F, G, x, y) == Timed(F, x, y) /\ Timed(G, y, x)

LEMMA EditsOnTime ==
    ASSUME NEW F, NEW G, NEW x, NEW y, NEW low, Pair(F, G, x, y, low), OnTime(F, G, x, y),
           NEW z, Edited(x, z)
    PROVE  OnTime(F, G, z, y)
<1>1. low \in BOOLEAN /\ IsSide(x) /\ IsSide(y) /\ Halfway(F, x, y, low) /\ Halfway(G, y, x, ~low)
  BY DEF Pair
<1>2. Timed(F, z, y)
  <2>1. ASSUME NEW i \in 1 .. Len(F) PROVE IsOlder(F[i], z, y) /\ IsStill(F[i], z, y)
    <3>1. Fits(F[i], x, y, low) /\ IsSaid(F[i])
      BY <1>1 DEF Halfway
    <3> QED BY <1>1, <3>1, EditedTimed
  <2> QED BY <2>1 DEF OnTime, Timed
<1>3. Timed(G, y, z)
  <2>1. ASSUME NEW i \in 1 .. Len(G) PROVE IsOlder(G[i], y, z) /\ IsStill(G[i], y, z)
    <3>1. IsOlder(G[i], y, x) /\ IsStill(G[i], y, x) /\ IsSaid(G[i])
      BY <1>1 DEF Halfway, OnTime, Timed
    <3> QED BY <1>1, <3>1, EditedTimed
  <2>2. ASSUME NEW i \in 1 .. Len(G), NEW j \in 1 .. Len(G), i <= j
        PROVE  Drops(G[i], G[j], z)
    <3>1. Drops(G[i], G[j], x) /\ IsSaid(G[i]) /\ IsSaid(G[j])
      BY <1>1, <2>2 DEF Halfway, OnTime, Timed
    <3> QED BY <1>1, <3>1, EditedTimed
  <2> QED BY <2>1, <2>2 DEF Timed
<1> QED BY <1>2, <1>3 DEF OnTime

LEMMA SaysMoreTimely ==
    ASSUME NEW F, NEW z, NEW y, NEW s, NEW E, Extends(E, F, s), Len(F) \in Nat,
           \A i \in 1 .. Len(F) : IsOlder(F[i], z, y) /\ IsStill(F[i], z, y) /\ Drops(F[i], s, y),
           \A i, j \in 1 .. Len(F) : i <= j => Drops(F[i], F[j], y),
           IsOlder(s, z, y), IsStill(s, z, y), Drops(s, s, y)
    PROVE  Timed(E, z, y)
<1>1. Len(E) = Len(F) + 1 /\ E[Len(E)] = s /\ \A i \in 1 .. Len(E) : i = Len(E) \/ (i \in 1 .. Len(F) /\ E[i] = F[i])
  BY DEF Extends
<1>2. \A i \in 1 .. Len(E) : IsOlder(E[i], z, y) /\ IsStill(E[i], z, y)
  BY <1>1
<1>3. ASSUME NEW i \in 1 .. Len(E), NEW j \in 1 .. Len(E), i <= j PROVE Drops(E[i], E[j], y)
  <2>1. CASE i = Len(E)
    BY <2>1, <1>1, <1>3
  <2>2. CASE i # Len(E) /\ j = Len(E)
    BY <2>2, <1>1
  <2>3. CASE i # Len(E) /\ j # Len(E)
    BY <2>3, <1>1, <1>3
  <2> QED BY <2>1, <2>2, <2>3
<1> QED BY <1>2, <1>3 DEF Timed

LEMMA AnnouncesOnTime ==
    ASSUME NEW F, NEW G, NEW x, NEW y, NEW low, Pair(F, G, x, y, low), OnTime(F, G, x, y),
           NEW z, Announced(x, z),
           NEW s, IsSaid(s), s.c = z.c, s.t = z.t, s.own = z.own, s.other = z.other, NEW E,
           Extends(E, F, s)
    PROVE  OnTime(E, G, z, y)
<1>1. /\ low \in BOOLEAN /\ IsSide(x) /\ IsSide(y) /\ Halfway(F, x, y, low) /\ Halfway(G, y, x, ~low)
      /\ y.other <= x.own /\ Len(F) \in Nat
  BY DEF Pair, Halfway
<1>2. \A i \in 1 .. Len(F) : IsOlder(F[i], z, y) /\ IsStill(F[i], z, y) /\ Drops(F[i], s, y)
  <2> SUFFICES ASSUME NEW i \in 1 .. Len(F)
               PROVE  IsOlder(F[i], z, y) /\ IsStill(F[i], z, y) /\ Drops(F[i], s, y)
    OBVIOUS
  <2>1. IsSaid(F[i]) /\ Fits(F[i], x, y, low) /\ IsOlder(F[i], x, y)
    BY <1>1 DEF Halfway, OnTime, Timed
  <2> QED BY <2>1, <1>1, AnnouncedTimed
<1>3. IsOlder(s, z, y) /\ IsStill(s, z, y) /\ Drops(s, s, y)
  BY <1>1, AnnouncedTimed
<1>4. Timed(E, z, y)
  BY <1>1, <1>2, <1>3, SaysMoreTimely DEF OnTime, Timed
<1>5. ASSUME NEW i \in 1 .. Len(G) PROVE IsOlder(G[i], y, z) /\ IsStill(G[i], y, z)
  <2>1. IsSaid(G[i]) /\ IsOlder(G[i], y, x) /\ IsStill(G[i], y, x)
    BY <1>1 DEF Halfway, OnTime, Timed
  <2> QED BY <2>1, <1>1, AnnouncedTimed
<1>6. ASSUME NEW i \in 1 .. Len(G), NEW j \in 1 .. Len(G), i <= j PROVE Drops(G[i], G[j], z)
  <2>1. IsSaid(G[i]) /\ IsSaid(G[j]) /\ Drops(G[i], G[j], x) /\ G[j].other <= y.other
    BY <1>1, <1>6 DEF Halfway, OnTime, Timed, Fits, SaidBefore
  <2> QED BY <2>1, <1>1, AnnouncedTimed
<1> QED BY <1>4, <1>5, <1>6 DEF OnTime, Timed

LEMMA RepeatsOnTime ==
    ASSUME NEW F, NEW G, NEW x, NEW y, NEW low, Pair(F, G, x, y, low), OnTime(F, G, x, y), ~x.q,
           NEW s, IsSaid(s), s.c = x.c, s.t = x.t, s.own = x.own, s.other = x.other, NEW E,
           Extends(E, F, s)
    PROVE  OnTime(E, G, x, y)
<1>1. low \in BOOLEAN /\ IsSide(x) /\ IsSide(y) /\ Halfway(F, x, y, low) /\ Len(F) \in Nat
  BY DEF Pair, Halfway
<1>2. \A i \in 1 .. Len(F) : Drops(F[i], s, y)
  BY <1>1, RepeatedTimed DEF Halfway, OnTime, Timed
<1>3. IsOlder(s, x, y) /\ IsStill(s, x, y) /\ Drops(s, s, y)
  BY <1>1, RepeatedTimed
<1>4. Timed(E, x, y)
  BY <1>1, <1>2, <1>3, SaysMoreTimely DEF OnTime, Timed
<1> QED BY <1>4 DEF OnTime

\* What is heard after the first version: the rest of the flight.
LEMMA RestFollows ==
    ASSUME NEW G, NEW x, NEW y, NEW low, Halfway(G, y, x, low), Len(G) > 0, NEW H, Shifts(H, G)
    PROVE  /\ IsSaid(G[1]) /\ Fits(G[1], y, x, low) /\ 1 \in 1 .. Len(G)
           /\ Len(G) = Len(H) + 1 /\ Len(H) \in Nat
           /\ \A i \in 1 .. Len(H) :
                /\ i + 1 \in 1 .. Len(G) /\ H[i] = G[i + 1] /\ IsSaid(H[i])
                /\ Fits(H[i], y, x, low) /\ Follows(G[1], H[i], y, x, low)
           /\ \A i, j \in 1 .. Len(H) : i <= j => Follows(H[i], H[j], y, x, low)
<1>1. Len(G) = Len(H) + 1 /\ Len(H) \in Nat /\ 1 \in 1 .. Len(G)
  BY DEF Shifts, Halfway
<1>2. ASSUME NEW i \in 1 .. Len(H)
      PROVE  /\ i + 1 \in 1 .. Len(G) /\ H[i] = G[i + 1] /\ IsSaid(H[i])
             /\ Fits(H[i], y, x, low) /\ Follows(G[1], H[i], y, x, low)
  <2>1. i + 1 \in 1 .. Len(G) /\ 1 <= i + 1 /\ H[i] = G[i + 1]
    BY <1>1 DEF Shifts
  <2> QED BY <2>1, <1>1 DEF Halfway
<1>3. ASSUME NEW i \in 1 .. Len(H), NEW j \in 1 .. Len(H),
             i <= j
      PROVE  Follows(H[i], H[j], y, x, low)
  <2>1. i + 1 \in 1 .. Len(G) /\ j + 1 \in 1 .. Len(G) /\ i + 1 <= j + 1
    BY <1>1, <1>3
  <2> QED BY <2>1, <1>2 DEF Halfway
<1> QED BY <1>1, <1>2, <1>3 DEF Halfway

LEMMA HearsOnTime ==
    ASSUME NEW F, NEW G, NEW x, NEW y, NEW low, Pair(F, G, x, y, low), OnTime(F, G, x, y),
           NEW m, Len(G) > 0, G[1] = m,
           NEW H, Shifts(H, G), NEW z, Heard(x, m, z, low)
    PROVE  OnTime(F, H, z, y)
<1>1. /\ low \in BOOLEAN /\ IsSide(x) /\ IsSide(y) /\ Halfway(F, x, y, low) /\ Halfway(G, y, x, ~low)
      /\ y.other <= x.own /\ x.other <= y.own
  BY DEF Pair, Halfway
<1>2. /\ IsSaid(m) /\ Fits(m, y, x, ~low) /\ 1 \in 1 .. Len(G)
      /\ \A i \in 1 .. Len(H) :
           /\ i + 1 \in 1 .. Len(G) /\ H[i] = G[i + 1] /\ IsSaid(H[i])
           /\ Fits(H[i], y, x, ~low) /\ Follows(m, H[i], y, x, ~low)
      /\ \A i, j \in 1 .. Len(H) : i <= j => Follows(H[i], H[j], y, x, ~low)
  BY <1>1, RestFollows
<1>3. IsOlder(m, y, x)
  BY <1>2 DEF OnTime, Timed
<1>4. ASSUME NEW i \in 1 .. Len(F) PROVE IsOlder(F[i], z, y) /\ IsStill(F[i], z, y)
  <2>1. IsSaid(F[i]) /\ Fits(F[i], x, y, low) /\ IsOlder(F[i], x, y) /\ IsStill(F[i], x, y)
    BY <1>1 DEF Halfway, OnTime, Timed
  <2> QED BY <2>1, <1>1, <1>2, <1>3, SentOnTime
<1>5. Timed(F, z, y)
  BY <1>4 DEF OnTime, Timed
<1>6. ASSUME NEW i \in 1 .. Len(H) PROVE IsOlder(H[i], y, z) /\ IsStill(H[i], y, z)
  <2>1. IsOlder(H[i], y, x) /\ IsStill(H[i], y, x)
    BY <1>2 DEF OnTime, Timed
  <2> QED BY <2>1, <1>1, <1>2, <1>3, HeardOnTime
<1>7. ASSUME NEW i \in 1 .. Len(H), NEW j \in 1 .. Len(H), i <= j PROVE Drops(H[i], H[j], z)
  <2>1. i + 1 <= j + 1
    BY <1>7
  <2>2. Drops(H[i], H[j], x)
    BY <2>1, <1>2 DEF OnTime, Timed
  <2> QED BY <2>2, <1>1, <1>2, <1>3, <1>7, HeardOnTime
<1> QED BY <1>5, <1>6, <1>7 DEF OnTime, Timed

\* The edit e, both ways.
Sparing(e, F, G, x, y, low) == Spared(e, F, x, y, low) /\ Spared(e, G, y, x, ~low)

\* A device whose changes are not counted, or are not known to the other one, is warned of
\* nothing.
LEMMA ChangedSpares ==
    ASSUME NEW e, NEW G, NEW x, NEW y, NEW low, Spared(e, G, y, x, low), Halfway(G, y, x, low),
           IsSide(x), IsSide(y),
           NEW z, IsSide(z), z.q \/ (y.other < z.own)
    PROVE  Spared(e, G, y, z, low)
<1>1. \A i \in 1 .. Len(G) : IsSaid(G[i]) /\ G[i].other <= y.other
  BY DEF Halfway, Fits, SaidBefore
<1>2. ASSUME NEW i \in 1 .. Len(G) PROVE z.q \/ G[i].other # z.own
  <2>1. IsSaid(G[i]) /\ G[i].other <= y.other
    BY <1>1
  <2> QED BY <2>1 DEF IsSide, IsSaid
<1>3. z.q \/ y.other # z.own
  BY DEF IsSide
<1> QED BY <1>2, <1>3 DEF Spared

LEMMA EditsSpare ==
    ASSUME NEW e, NEW F, NEW G, NEW x, NEW y, NEW low, Pair(F, G, x, y, low),
           Sparing(e, F, G, x, y, low), NEW z, Edited(x, z), e \in x.c => e \in z.c
    PROVE  Sparing(e, F, G, z, y, low)
<1>1. /\ low \in BOOLEAN /\ IsSide(x) /\ IsSide(y) /\ Halfway(G, y, x, ~low) /\ IsSide(z) /\ z.q
      /\ z.other = x.other
  BY DEF Pair, Edited
<1>2. Spared(e, F, z, y, low)
  BY <1>1 DEF Sparing, Spared
<1>3. Spared(e, G, y, z, ~low)
  BY <1>1, ChangedSpares DEF Sparing
<1> QED BY <1>2, <1>3 DEF Sparing

\* A device that says what it has.
LEMMA SaysMoreSparing ==
    ASSUME NEW e, NEW F, NEW z, NEW y, NEW low, NEW s, NEW E, Extends(E, F, s), Len(F) \in Nat,
           Spared(e, F, z, y, low), s.c = z.c, s.other = z.other
    PROVE  Spared(e, E, z, y, low)
<1>1. Len(E) = Len(F) + 1 /\ E[Len(E)] = s /\ \A i \in 1 .. Len(E) : i = Len(E) \/ (i \in 1 .. Len(F) /\ E[i] = F[i])
  BY DEF Extends
<1>2. \A i \in 1 .. Len(E) : e \in E[i].c => e \in z.c
  BY <1>1 DEF Spared
<1>3. ASSUME NEW i \in 1 .. Len(E), NEW j \in 1 .. Len(E), i <= j,
             e \in E[i].c
      PROVE  e \in E[j].c
  <2>1. CASE j = Len(E)
    BY <2>1, <1>1, <1>2, <1>3
  <2>2. CASE j # Len(E)
    <3>1. i \in 1 .. Len(F) /\ j \in 1 .. Len(F) /\ E[i] = F[i] /\ E[j] = F[j]
      BY <1>1, <1>3, <2>2
    <3> QED BY <1>3, <3>1 DEF Spared
  <2> QED BY <2>1, <2>2
<1>4. ASSUME NEW n \in 0 .. Len(F), Warned(F, n, y, low) PROVE Warned(E, n, y, low)
  <2>1. PICK j \in 1 .. n : Conflicts(F[j], y, low)
    BY <1>4 DEF Warned
  <2>2. E[j] = F[j]
    BY DEF Extends
  <2> QED BY <2>1, <2>2 DEF Warned
<1>5. ASSUME NEW i \in 1 .. Len(E), ~y.q, E[i].other = y.own, News(E[i], y), e \in y.c
      PROVE  e \in E[i].c \/ Warned(E, i - 1, y, low)
  <2>1. CASE i = Len(E)
    <3>1. i - 1 = Len(F) /\ Len(F) \in 0 .. Len(F)
      BY <1>1, <2>1
    <3>2. e \in z.c \/ Warned(F, Len(F), y, low)
      BY <1>1, <1>5, <2>1 DEF Spared
    <3> QED BY <1>1, <1>4, <2>1, <3>1, <3>2
  <2>2. CASE i # Len(E)
    <3>1. i \in 1 .. Len(F) /\ E[i] = F[i] /\ i - 1 \in 0 .. Len(F)
      BY <1>1, <2>2
    <3>2. e \in F[i].c \/ Warned(F, i - 1, y, low)
      BY <1>5, <3>1 DEF Spared
    <3> QED BY <1>4, <3>1, <3>2
  <2> QED BY <2>1, <2>2
<1>6. ~y.q /\ z.other = y.own /\ e \in y.c => e \in z.c \/ Warned(E, Len(E), y, low)
  <2> SUFFICES ASSUME Warned(F, Len(F), y, low) PROVE Warned(E, Len(E), y, low)
    BY DEF Spared
  <2>1. PICK j \in 1 .. Len(F) : Conflicts(F[j], y, low)
    BY DEF Warned
  <2>2. j \in 1 .. Len(E) /\ E[j] = F[j]
    BY <1>1 DEF Extends
  <2> QED BY <2>1, <2>2 DEF Warned
<1> QED BY <1>2, <1>3, <1>5, <1>6 DEF Spared

LEMMA AnnouncesSparing ==
    ASSUME NEW e, NEW F, NEW G, NEW x, NEW y, NEW low, Pair(F, G, x, y, low),
           Sparing(e, F, G, x, y, low), NEW z, Announced(x, z), e \in x.c => e \in z.c,
           NEW s, s.c = z.c, s.other = z.other, NEW E, Extends(E, F, s)
    PROVE  Sparing(e, E, G, z, y, low)
<1>1. /\ low \in BOOLEAN /\ IsSide(x) /\ IsSide(y) /\ Halfway(F, x, y, low) /\ Halfway(G, y, x, ~low)
      /\ IsSide(z) /\ z.other = x.other /\ y.other <= x.own /\ z.own = x.own + 1 /\ Len(F) \in Nat
  BY DEF Pair, Halfway, Announced
<1>2. Spared(e, F, z, y, low)
  BY <1>1 DEF Sparing, Spared
<1>3. Spared(e, E, z, y, low)
  BY <1>1, <1>2, SaysMoreSparing
<1>4. y.other < z.own
  BY <1>1 DEF IsSide
<1>5. Spared(e, G, y, z, ~low)
  BY <1>1, <1>4, ChangedSpares DEF Sparing
<1> QED BY <1>3, <1>5 DEF Sparing

LEMMA RepeatsSparing ==
    ASSUME NEW e, NEW F, NEW G, NEW x, NEW y, NEW low, Pair(F, G, x, y, low),
           Sparing(e, F, G, x, y, low),
           NEW s, s.c = x.c, s.other = x.other, NEW E, Extends(E, F, s)
    PROVE  Sparing(e, E, G, x, y, low)
<1>1. Len(F) \in Nat
  BY DEF Pair, Halfway
<1> QED BY <1>1, SaysMoreSparing DEF Sparing

\* A version that wins although it does not know all that x did is told to be in conflict.
MayLose(e, x, m, z) == e \in x.c => e \in z.c \/ m.other = x.own

LEMMA HeardKeeps ==
    ASSUME NEW e, NEW G, NEW x, NEW y, NEW low, Spared(e, G, y, x, low), Len(G) \in Nat,
           Len(G) > 0,
           NEW z, Heard(x, G[1], z, ~low), low \in BOOLEAN, MayLose(e, x, G[1], z)
    PROVE  e \in x.c => e \in z.c
<1>1. 1 \in 1 .. Len(G) /\ ~Warned(G, 1 - 1, x, low)
  BY DEF Warned
<1>2. ~x.q /\ G[1].other = x.own /\ News(G[1], x) /\ e \in x.c => e \in G[1].c
  BY <1>1 DEF Spared
<1>3. (~~low) = low
  OBVIOUS
<1> QED BY <1>2, <1>3 DEF Heard, MayLose, Takes

\* The receiver y of F knows by then of all that x says it knows, or is warned.
LEMMA HeardMeets ==
    ASSUME NEW x, NEW y, NEW low \in BOOLEAN, NEW z, NEW m, NEW w, IsSide(x), IsSide(y),
           IsSaid(m), IsSaid(w), Heard(x, m, z, low), Even(z, y),
           y.other < x.own, News(m, x), m.own = y.own, ~y.q, Fits(m, y, x, ~low),
           IsStill(m, y, x), w.own = x.own, w.other <= x.other, IsStill(w, x, y)
    PROVE  z.c = y.c \/ Conflicts(w, y, low)
<1>1. CASE m.c = y.c /\ m.t = y.t
  <2>1. z.c = y.c \/ (z.c = x.c /\ ~Takes(x, m, ~low))
    BY <1>1 DEF Heard
  <2>2. ASSUME ~Takes(x, m, ~low) PROVE Conflicts(w, y, low)
    BY <1>1, <2>2 DEF Takes, Beats, News, IsStill, Yields, Conflicts, IsSide, IsSaid, Fits,
       SaidBefore, Heard
  <2> QED BY <2>1, <2>2
<1>2. CASE Yields(m, y, x)
  BY <1>2 DEF Takes, Beats, News, IsStill, Yields, Conflicts, IsSide, IsSaid, Fits, SaidBefore,
     Heard, Rises, Precedes
<1> QED BY <1>1, <1>2 DEF IsStill

LEMMA HearsForward ==
    ASSUME NEW e, NEW F, NEW G, NEW x, NEW y, NEW low, Pair(F, G, x, y, low),
           OnTime(F, G, x, y),
           Sparing(e, F, G, x, y, low),
           Len(G) > 0, NEW z, Heard(x, G[1], z, low), e \in x.c => e \in z.c
    PROVE  Spared(e, F, z, y, low)
<1> DEFINE m == G[1]
<1>1. /\ low \in BOOLEAN /\ IsSide(x) /\ IsSide(y) /\ Halfway(F, x, y, low) /\ Halfway(G, y, x, ~low)
      /\ y.other <= x.own /\ x.other <= y.own /\ Even(x, y)
  BY DEF Pair, Halfway
<1>2. /\ IsSaid(m) /\ Fits(m, y, x, ~low) /\ IsStill(m, y, x)
  <2>1. 1 \in 1 .. Len(G)
    BY <1>1 DEF Halfway
  <2> QED BY <1>1, <2>1 DEF Halfway, OnTime, Timed
<1>3. Even(z, y)
  BY <1>1, <1>2, HeardEven
<1>4. ASSUME ~y.q, z.other = y.own, e \in y.c PROVE e \in z.c \/ Warned(F, Len(F), y, low)
  <2>1. CASE ~News(m, x)
    <3>1. z.other = x.other /\ z.c = x.c
      BY <1>1, <1>2, <2>1 DEF Heard, Takes, News, IsSide, IsSaid
    <3> QED BY <1>4, <3>1 DEF Sparing, Spared
  <2>2. CASE News(m, x) /\ y.other = x.own
    BY <1>3, <1>4, <2>2 DEF Even, Heard
  <2>3. CASE News(m, x) /\ y.other # x.own
    <3>1. y.other < x.own /\ m.own = y.own
      BY <1>1, <1>4, <2>3 DEF News, Heard, IsSide, IsSaid
    <3>2. PICK i \in 1 .. Len(F) : F[i].own = x.own
      BY <1>1, <3>1 DEF Halfway, NewsTravels
    <3>3. IsSaid(F[i]) /\ F[i].other <= x.other /\ IsStill(F[i], x, y)
      BY <1>1 DEF Halfway, Fits, SaidBefore, OnTime, Timed
    <3> HIDE DEF m
    <3>4. Heard(x, m, z, low)
      BY DEF m
    <3>5. PICK w : w = F[i]
      OBVIOUS
    <3>6. z.c = y.c \/ Conflicts(w, y, low)
      <4>1. low \in BOOLEAN /\ IsSide(x) /\ IsSide(y)
        BY <1>1
      <4>2. ~y.q
        BY <1>4
      <4>3. News(m, x)
        BY <2>3
      <4>4. IsSaid(w) /\ w.own = x.own /\ w.other <= x.other /\ IsStill(w, x, y)
        BY <3>2, <3>3, <3>5
      <4> QED BY <1>2, <1>3, <3>1, <3>4, <4>1, <4>2, <4>3, <4>4, HeardMeets
    <3> QED BY <1>4, <3>5, <3>6 DEF Warned
  <2> QED BY <2>1, <2>2, <2>3
<1> QED BY <1>4 DEF Sparing, Spared

\* A warning that was not the version just heard is a warning still.
LEMMA HeardWarns ==
    ASSUME NEW x, NEW y, NEW low \in BOOLEAN, NEW z, NEW m, NEW w, IsSide(x), IsSide(y),
           IsSaid(m), IsSaid(w), Heard(x, m, z, low), z.c # m.c,
           Follows(m, w, y, x, ~low), Drops(m, w, x)
    PROVE  /\ ~Conflicts(m, x, ~low)
           /\ Conflicts(w, x, ~low) => Conflicts(w, z, ~low)
BY DEF Heard, Takes, Beats, News, Conflicts, Follows, Ordered, Drops, Yields, IsSide, IsSaid

LEMMA HearsBack ==
    ASSUME NEW e, NEW F, NEW G, NEW x, NEW y, NEW low, Pair(F, G, x, y, low),
           OnTime(F, G, x, y),
           Sparing(e, F, G, x, y, low), NEW m, Len(G) > 0, G[1] = m,
           NEW H, Shifts(H, G), NEW z, Heard(x, m, z, low)
    PROVE  Spared(e, H, y, z, ~low)
<1>1. /\ low \in BOOLEAN /\ IsSide(x) /\ IsSide(y) /\ Halfway(G, y, x, ~low) /\ Spared(e, G, y, x, ~low)
      /\ Timed(G, y, x)
  BY DEF Pair, Sparing, OnTime
<1>2. /\ IsSaid(m) /\ Fits(m, y, x, ~low) /\ 1 \in 1 .. Len(G)
      /\ Len(G) = Len(H) + 1 /\ Len(H) \in Nat
      /\ \A i \in 1 .. Len(H) :
           /\ i + 1 \in 1 .. Len(G) /\ H[i] = G[i + 1] /\ IsSaid(H[i])
           /\ Fits(H[i], y, x, ~low) /\ Follows(m, H[i], y, x, ~low)
  BY <1>1, RestFollows
<1>3. \A i \in 1 .. Len(H) : e \in H[i].c => e \in y.c
  BY <1>1, <1>2 DEF Spared
<1>4. ASSUME NEW i \in 1 .. Len(H), NEW j \in 1 .. Len(H), i <= j,
             e \in H[i].c
      PROVE  e \in H[j].c
  <2>1. i + 1 \in 1 .. Len(G) /\ j + 1 \in 1 .. Len(G) /\ i + 1 <= j + 1
    BY <1>2, <1>4
  <2> QED BY <1>1, <1>2, <1>4, <2>1 DEF Spared
<1>5. e \in m.c => e \in y.c /\ \A i \in 1 .. Len(H) : e \in H[i].c
  <2> SUFFICES ASSUME e \in m.c PROVE e \in y.c /\ \A i \in 1 .. Len(H) : e \in H[i].c
    OBVIOUS
  <2>1. \A i \in 1 .. Len(H) : i + 1 \in 1 .. Len(G) /\ 1 <= i + 1 /\ H[i] = G[i + 1]
    BY <1>2
  <2> QED BY <1>1, <1>2, <2>1 DEF Spared
<1>6. ASSUME NEW n \in 0 .. Len(H), z.c # m.c,
             Warned(G, n + 1, x, ~low)
      PROVE  Warned(H, n, z, ~low)
  <2>1. PICK j \in 1 .. n + 1 : Conflicts(G[j], x, ~low)
    BY <1>6 DEF Warned
  <2>2. \A i \in 1 .. Len(H) : Drops(m, H[i], x)
    <3> SUFFICES ASSUME NEW i \in 1 .. Len(H) PROVE Drops(m, H[i], x)
      OBVIOUS
    <3>1. i + 1 \in 1 .. Len(G) /\ 1 <= i + 1 /\ H[i] = G[i + 1]
      BY <1>2
    <3> QED BY <1>1, <1>2, <3>1 DEF Timed
  <2>3. j # 1
    <3> SUFFICES ASSUME j = 1 PROVE FALSE
      OBVIOUS
    <3>1. Conflicts(m, x, ~low)
      BY <2>1
    <3>2. Takes(x, m, ~low)
      BY <3>1 DEF Conflicts, Takes
    <3> QED BY <1>6, <3>2 DEF Heard
  <2>4. j - 1 \in 1 .. n /\ j - 1 \in 1 .. Len(H) /\ H[j - 1] = G[j]
    <3>1. j - 1 \in 1 .. n /\ j - 1 \in 1 .. Len(H) /\ (j - 1) + 1 = j
      BY <1>2, <2>3
    <3> QED BY <1>2, <3>1
  <2>5. Conflicts(H[j - 1], x, ~low) => Conflicts(H[j - 1], z, ~low)
    BY <1>1, <1>2, <1>6, <2>2, <2>4, HeardWarns
  <2> QED BY <2>1, <2>4, <2>5 DEF Warned
<1>7. z.c = m.c \/ z.c = x.c
  BY DEF Heard
<1>8. z.own = x.own /\ ~x.q /\ \A w : News(w, z) /\ IsSaid(w) => News(w, x)
  <2>1. z.own = x.own /\ ~x.q /\ x.other <= z.other /\ x.other \in Nat /\ z.other \in Nat
    BY <1>1, <1>2 DEF Heard, IsSide, IsSaid
  <2> QED BY <2>1 DEF News, IsSaid
<1>9. ASSUME NEW i \in 1 .. Len(H), H[i].other = z.own, News(H[i], z), e \in z.c
      PROVE  e \in H[i].c \/ Warned(H, i - 1, z, ~low)
  <2>1. CASE z.c = m.c
    BY <1>5, <1>9, <2>1
  <2>2. CASE z.c # m.c
    <3>1. /\ i + 1 \in 1 .. Len(G) /\ (i + 1) - 1 = i /\ H[i] = G[i + 1] /\ i - 1 \in 0 .. Len(H)
          /\ (i - 1) + 1 = i
      BY <1>2
    <3>2. News(G[i + 1], x) /\ G[i + 1].other = x.own /\ e \in x.c
      BY <1>2, <1>7, <1>8, <1>9, <2>2, <3>1
    <3>3. e \in G[i + 1].c \/ Warned(G, (i + 1) - 1, x, ~low)
      BY <1>1, <1>8, <3>1, <3>2 DEF Spared
    <3>4. Warned(G, (i - 1) + 1, x, ~low) => Warned(H, i - 1, z, ~low)
      BY <1>6, <2>2, <3>1
    <3> QED BY <3>1, <3>3, <3>4
  <2> QED BY <2>1, <2>2
<1>10. ASSUME y.other = z.own, e \in z.c PROVE e \in y.c \/ Warned(H, Len(H), z, ~low)
  <2>1. CASE z.c = m.c
    BY <1>5, <1>10, <2>1
  <2>2. CASE z.c # m.c
    <3>1. e \in y.c \/ Warned(G, Len(G), x, ~low)
      BY <1>1, <1>7, <1>8, <1>10, <2>2 DEF Spared
    <3>2. Len(H) \in 0 .. Len(H)
      BY <1>2
    <3> QED BY <1>2, <1>6, <2>2, <3>1, <3>2
  <2> QED BY <2>1, <2>2
<1> QED BY <1>3, <1>4, <1>9, <1>10 DEF Spared

LEMMA HearsSparing ==
    ASSUME NEW e, NEW F, NEW G, NEW x, NEW y, NEW low, Pair(F, G, x, y, low),
           OnTime(F, G, x, y),
           Sparing(e, F, G, x, y, low), NEW m, Len(G) > 0, G[1] = m,
           NEW H, Shifts(H, G), NEW z, Heard(x, m, z, low), MayLose(e, x, m, z)
    PROVE  Sparing(e, F, H, z, y, low) /\ (e \in x.c => e \in z.c)
<1>1. low \in BOOLEAN /\ Len(G) \in Nat /\ (~~low) = low
  BY DEF Pair, Halfway
<1>2. Heard(x, m, z, ~~low)
  BY <1>1
<1>3. e \in x.c => e \in z.c
  BY <1>1, <1>2, HeardKeeps DEF Sparing
<1>4. Spared(e, F, z, y, low)
  BY <1>3, HearsForward
<1>5. Spared(e, H, y, z, ~low)
  BY HearsBack, SMTT(30)
<1> QED BY <1>3, <1>4, <1>5 DEF Sparing

USE FileSyncAssumption

(***************************************************************************)
(* The invariant, one part per place a vector can be.                      *)
(***************************************************************************)
SoundVector == {v \in Vector : NotAhead(v)}
SoundTask == {t \in Task : \A v \in t.vector : NotAhead(v)}
SoundMessage == {m \in Message : NotAhead(m.vv)}
SoundPayload == {p \in Payload : NotAhead(p.msg.vv)}
SoundDecision == {w \in Decision : NotAhead(w.merged)}

VaultsTyped ==
    /\ file \in [Device -> Note \cup {NoFile}]
    /\ tomb \in [Device -> Times \cup {0}]
    /\ pending \in [Device -> BOOLEAN]
    /\ echo \in [Device -> SUBSET Content]
    /\ marked \in [Device -> BOOLEAN]
    /\ cooling \in [Device -> SUBSET Device]
HistoryTyped ==
    /\ made \in 0 .. MaxEdits /\ deletes \in Nat /\ failures \in Nat
    /\ stamps \subseteq Times /\ kept \subseteq Edit /\ dropped \subseteq Edit
VectorsSound == vv \in [Device -> Vector] /\ \A d \in Device : vv[d] \in SoundVector
TasksSound == DOMAIN tasks = Device /\ \A d \in Device : tasks[d] \subseteq SoundTask
WaitingSound == DOMAIN waiting = Device /\ \A d \in Device : waiting[d] \subseteq SoundPayload
NetSound == net \in [Device \X Device -> Seq(SoundMessage)]
BusySound == DOMAIN busy = Device /\ \A d \in Device : busy[d] \subseteq SoundDecision

Parts ==
    /\ VaultsTyped /\ HistoryTyped
    /\ VectorsSound /\ TasksSound /\ WaitingSound /\ NetSound /\ BusySound
    /\ DeletionsDated /\ DecisionsCover

\* Every device knows of its own edits at least as many as before, ...
OwnGrows == \A e \in Device : vv[e][e] <= vv'[e][e]
\* ... and of everybody's.
Grows == \A d \in Device : Includes(vv'[d], vv[d])

-----------------------------------------------------------------------------
(* Sequences of messages.                                                  *)

LEMMA SoundSequence ==
    ASSUME NEW s \in Seq(Message)
    PROVE  s \in Seq(SoundMessage) <=> \A n \in DOMAIN s : NotAhead(s[n].vv)
<1>1. DOMAIN s = 1 .. Len(s) /\ Len(s) \in Nat
  BY LenProperties
<1>2. ASSUME s \in Seq(SoundMessage), NEW n \in DOMAIN s PROVE NotAhead(s[n].vv)
  <2>1. s[n] \in SoundMessage
    BY <1>1, <1>2, ElementOfSeq
  <2>2. QED
    BY <2>1 DEF SoundMessage
<1>3. ASSUME \A n \in DOMAIN s : NotAhead(s[n].vv) PROVE s \in Seq(SoundMessage)
  <2>1. \A n \in 1 .. Len(s) : s[n] \in SoundMessage
    BY <1>1, <1>3, ElementOfSeq DEF SoundMessage
  <2>2. s = [n \in 1 .. Len(s) |-> s[n]]
    BY <1>1, IsASeq
  <2>3. QED
    BY <1>1, <2>1, <2>2, IsASeq
<1>4. QED
  BY <1>2, <1>3

LEMMA RemoveAtType ==
    ASSUME NEW S, NEW s \in Seq(S), NEW n \in DOMAIN s
    PROVE  RemoveAt(s, n) \in Seq(S)
<1>1. n \in 1 .. Len(s) /\ Len(s) \in Nat
  BY LenProperties
<1>2. \A i \in 1 .. Len(s) : s[i] \in S
  BY ElementOfSeq
<1>3. SubSeq(s, 1, n - 1) \in Seq(S)
  BY <1>1, <1>2, SubSeqProperties
<1>4. SubSeq(s, n + 1, Len(s)) \in Seq(S)
  BY <1>1, <1>2, SubSeqProperties
<1>5. QED
  BY <1>3, <1>4, ConcatProperties DEF RemoveAt

-----------------------------------------------------------------------------

LEMMA PartsAreIInv == Parts <=> IInv
<1>1. (DOMAIN tasks = Device /\ \A d \in Device : tasks[d] \subseteq Task)
        /\ (\A d \in Device : \A t \in tasks[d] : \A v \in t.vector : NotAhead(v))
      <=> TasksSound
  BY DEF TasksSound, SoundTask
<1>2. (DOMAIN waiting = Device /\ \A d \in Device : waiting[d] \subseteq Payload)
        /\ (\A d \in Device : \A p \in waiting[d] : NotAhead(p.msg.vv))
      <=> WaitingSound
  BY DEF WaitingSound, SoundPayload
<1>3. (DOMAIN busy = Device /\ \A d \in Device : busy[d] \subseteq Decision)
        /\ (\A d \in Device : \A w \in busy[d] : NotAhead(w.merged))
      <=> BusySound
  BY DEF BusySound, SoundDecision
<1>4. vv \in [Device -> Vector] /\ (\A d \in Device : NotAhead(vv[d])) <=> VectorsSound
  BY DEF VectorsSound, SoundVector
<1>5. net \in [Device \X Device -> Seq(Message)]
        /\ (\A d \in Device : \A from \in Device : \A n \in DOMAIN net[<<from, d>>] :
              NotAhead(net[<<from, d>>][n].vv))
      <=> NetSound
  <2>1. ASSUME net \in [Device \X Device -> Seq(Message)]
        PROVE  NetSound <=> \A d \in Device : \A from \in Device :
                 \A n \in DOMAIN net[<<from, d>>] : NotAhead(net[<<from, d>>][n].vv)
    <3>1. \A d, from \in Device : net[<<from, d>>] \in Seq(Message)
      BY <2>1
    <3>2. \A d, from \in Device : net[<<from, d>>] \in Seq(SoundMessage)
            <=> \A n \in DOMAIN net[<<from, d>>] : NotAhead(net[<<from, d>>][n].vv)
      BY <3>1, SoundSequence
    <3>3. ASSUME NetSound
          PROVE  \A d, from \in Device : net[<<from, d>>] \in Seq(SoundMessage)
      BY <3>3 DEF NetSound
    <3>4. ASSUME \A d, from \in Device : net[<<from, d>>] \in Seq(SoundMessage)
          PROVE  NetSound
      <4>1. ASSUME NEW c \in Device \X Device PROVE net[c] \in Seq(SoundMessage)
        <5>1. c = <<c[1], c[2]>> /\ c[1] \in Device /\ c[2] \in Device
          OBVIOUS
        <5>2. QED
          BY <3>4, <5>1
      <4>2. net = [c \in Device \X Device |-> net[c]]
        BY <2>1
      <4>3. QED
        BY <4>1, <4>2, Zenon DEF NetSound
    <3>5. QED
      BY <3>2, <3>3, <3>4
  <2>2. NetSound => net \in [Device \X Device -> Seq(Message)]
    <3>1. Seq(SoundMessage) \subseteq Seq(Message)
      BY SeqMonotonic DEF SoundMessage
    <3>2. QED
      BY <3>1 DEF NetSound
  <2>3. QED
    BY <2>1, <2>2
<1>6. QED
  BY <1>1, <1>2, <1>3, <1>4, <1>5
  DEF Parts, IInv, TypeOK, OwnCountIsHighest, VaultsTyped, HistoryTyped

-----------------------------------------------------------------------------
(* What is sound stays sound when devices count more of their own edits.   *)

LEMMA SoundStays ==
    ASSUME VectorsSound, vv' \in [Device -> Vector], OwnGrows
    PROVE  /\ SoundVector \subseteq SoundVector'
           /\ SoundTask \subseteq SoundTask'
           /\ SoundMessage \subseteq SoundMessage'
           /\ SoundPayload \subseteq SoundPayload'
           /\ SoundDecision \subseteq SoundDecision'
<1>1. \A e \in Device : vv[e][e] \in Nat /\ vv'[e][e] \in Nat
  BY DEF VectorsSound, Vector
<1>2. ASSUME NEW v \in Vector, NotAhead(v) PROVE NotAhead(v)'
  <2>1. \A e \in Device : v[e] \in Nat /\ v[e] <= vv[e][e]
    BY <1>2 DEF Vector, NotAhead
  <2>2. QED
    BY <1>1, <2>1 DEF NotAhead, OwnGrows
<1>3. SoundVector \subseteq SoundVector'
  BY <1>2 DEF SoundVector
<1>4. SoundTask \subseteq SoundTask'
  <2>1. \A t \in Task : \A v \in t.vector : v \in Vector
    BY DEF Task
  <2>2. QED
    BY <1>2, <2>1 DEF SoundTask
<1>5. SoundMessage \subseteq SoundMessage'
  <2>1. \A m \in Message : m.vv \in Vector
    BY DEF Message, Update, Deletion
  <2>2. QED
    BY <1>2, <2>1 DEF SoundMessage
<1>6. SoundPayload \subseteq SoundPayload'
  <2>1. \A p \in Payload : p.msg.vv \in Vector
    BY DEF Payload, Message, Update, Deletion
  <2>2. QED
    BY <1>2, <2>1 DEF SoundPayload
<1>7. SoundDecision \subseteq SoundDecision'
  <2>1. \A w \in Decision : w.merged \in Vector
    BY DEF Decision
  <2>2. QED
    BY <1>2, <2>1 DEF SoundDecision
<1>8. QED
  BY <1>3, <1>4, <1>5, <1>6, <1>7

LEMMA Untouched ==
    ASSUME VectorsSound, vv' \in [Device -> Vector], OwnGrows
    PROVE  /\ TasksSound /\ UNCHANGED tasks => TasksSound'
           /\ WaitingSound /\ UNCHANGED waiting => WaitingSound'
           /\ NetSound /\ UNCHANGED net => NetSound'
           /\ BusySound /\ UNCHANGED busy => BusySound'
<1>1. TasksSound /\ UNCHANGED tasks => TasksSound'
  BY SoundStays DEF TasksSound
<1>2. WaitingSound /\ UNCHANGED waiting => WaitingSound'
  BY SoundStays DEF WaitingSound
<1>3. BusySound /\ UNCHANGED busy => BusySound'
  BY SoundStays DEF BusySound
<1>4. ASSUME NetSound, UNCHANGED net PROVE NetSound'
  <2>1. SoundMessage \subseteq SoundMessage'
    BY SoundStays
  <2>2. Seq(SoundMessage) \subseteq Seq(SoundMessage')
    BY <2>1, SeqMonotonic
  <2>3. net' \in [Device \X Device -> Seq(SoundMessage)]
    BY <1>4 DEF NetSound
  <2>4. net' \in [Device \X Device -> Seq(SoundMessage')]
    BY <2>2, <2>3
  <2>5. QED
    BY <2>4 DEF NetSound
<1>5. QED
  BY <1>1, <1>2, <1>3, <1>4

(* A step that leaves the vectors alone grows them.                        *)
LEMMA NothingCounted ==
    ASSUME VectorsSound, UNCHANGED vv
    PROVE  vv' \in [Device -> Vector] /\ OwnGrows /\ Grows /\ VectorsSound'
<1>1. \A d, e \in Device : vv[d][e] \in Nat
  BY DEF VectorsSound, Vector
<1>2. \A d \in Device : Includes(vv'[d], vv[d])
  BY <1>1 DEF Includes
<1>3. OwnGrows
  BY <1>1 DEF OwnGrows
<1>4. vv' \in [Device -> Vector]
  BY DEF VectorsSound
<1>5. VectorsSound'
  BY <1>3, <1>4, SoundStays DEF VectorsSound
<1>6. QED
  BY <1>2, <1>3, <1>4, <1>5 DEF Grows

-----------------------------------------------------------------------------
(* The operations on vectors.                                              *)

LEMMA OneMoves ==
    ASSUME VectorsSound, NEW d \in Device, NEW v \in Vector,
           Includes(v, vv[d]),
           \A e \in Device \ {d} : v[e] <= vv[e][e],
           vv' = [vv EXCEPT ![d] = v]
    PROVE  /\ vv' \in [Device -> Vector] /\ OwnGrows /\ Grows /\ VectorsSound'
           /\ v \in SoundVector'
<1>1. \A e, f \in Device : vv[e][f] \in Nat /\ v[f] \in Nat
  BY DEF VectorsSound, Vector
<1>2. vv' \in [Device -> Vector]
  BY DEF VectorsSound
<1>3. vv'[d] = v /\ \A e \in Device \ {d} : vv'[e] = vv[e]
  BY DEF VectorsSound
<1>4. Grows
  BY <1>1, <1>3 DEF Grows, Includes
<1>5. OwnGrows
  BY <1>4 DEF OwnGrows, Grows, Includes
<1>6. NotAhead(v)'
  BY <1>1, <1>3 DEF NotAhead
<1>7. v \in SoundVector'
  BY <1>6 DEF SoundVector
<1>8. SoundVector \subseteq SoundVector'
  BY <1>2, <1>5, SoundStays
<1>9. VectorsSound'
  BY <1>2, <1>3, <1>7, <1>8 DEF VectorsSound
<1>10. QED
  BY <1>2, <1>4, <1>5, <1>7, <1>9

LEMMA Revectored ==
    ASSUME NEW p \in Payload, NEW v \in Vector
    PROVE  /\ [p EXCEPT !.msg.vv = v] \in Payload
           /\ [p EXCEPT !.msg.vv = v].msg.vv = v
           /\ [p EXCEPT !.msg.vv = v].msg.kind = p.msg.kind
           /\ [p EXCEPT !.msg.vv = v].isTask = p.isTask
<1>1. /\ p.msg \in Message
      /\ p = [to |-> p.to, msg |-> p.msg, alias |-> p.alias, isTask |-> p.isTask]
      /\ p.to \in Device \cup {Everyone} /\ p.alias \in BOOLEAN /\ p.isTask \in BOOLEAN
  BY DEF Payload
<1>2. [p.msg EXCEPT !.vv = v] \in Message
  BY <1>1 DEF Message, Update, Deletion
<1>3. [p.msg EXCEPT !.vv = v].vv = v /\ [p.msg EXCEPT !.vv = v].kind = p.msg.kind
  BY <1>1 DEF Message, Update, Deletion
<1>4. [p EXCEPT !.msg.vv = v] = [p EXCEPT !.msg = [p.msg EXCEPT !.vv = v]]
  OBVIOUS
<1>5. [p EXCEPT !.msg = [p.msg EXCEPT !.vv = v]] =
        [to |-> p.to, msg |-> [p.msg EXCEPT !.vv = v], alias |-> p.alias, isTask |-> p.isTask]
  BY <1>1
<1>6. QED
  BY <1>1, <1>2, <1>3, <1>4, <1>5 DEF Payload

\* Payloads wait that are deletions' tasks only where some did before.
NoNewDeletions ==
    \A e \in Device : \A p \in waiting'[e] :
        \E q \in waiting[e] : q.isTask = p.isTask /\ q.msg.kind = p.msg.kind

LEMMA RecordSound ==
    ASSUME VectorsSound, WaitingSound, NEW d \in Device, RecordLocalEdit(d)
    PROVE  /\ vv' \in [Device -> Vector] /\ OwnGrows /\ Grows /\ VectorsSound'
           /\ WaitingSound' /\ NoNewDeletions
           /\ \A e \in Device \ {d} : vv'[e] = vv[e]
<1> DEFINE Counted(p) == [p EXCEPT !.msg.vv = Incremented(p.msg.vv, d)]
           Moved(p) == IF p.alias THEN Counted(p) ELSE p
<1>1. \A v \in Vector : /\ Incremented(v, d) \in Vector
                        /\ Incremented(v, d)[d] = v[d] + 1
                        /\ \A e \in Device \ {d} : Incremented(v, d)[e] = v[e]
  BY DEF Incremented, Vector
<1>2. /\ vv' = [vv EXCEPT ![d] = Incremented(vv[d], d)]
      /\ waiting' = [waiting EXCEPT ![d] = {Moved(p) : p \in waiting[d]}]
  BY DEF RecordLocalEdit, WaitingSound, VectorsSound
<1>3. /\ vv[d] \in Vector /\ NotAhead(vv[d])
      /\ \A e, f \in Device : vv[e][f] \in Nat
  BY DEF VectorsSound, SoundVector, Vector
<1>4. /\ vv' \in [Device -> Vector] /\ OwnGrows /\ Grows /\ VectorsSound'
  <2>1. Includes(Incremented(vv[d], d), vv[d])
    BY <1>1, <1>3 DEF Includes
  <2>2. \A e \in Device \ {d} : Incremented(vv[d], d)[e] <= vv[e][e]
    BY <1>1, <1>3 DEF NotAhead
  <2>3. QED
    BY <1>1, <1>2, <1>3, <2>1, <2>2, OneMoves
<1>5. vv'[d][d] = vv[d][d] + 1 /\ \A e \in Device \ {d} : vv'[e] = vv[e]
  BY <1>1, <1>2, <1>3 DEF VectorsSound
<1>6. ASSUME NEW p \in SoundPayload
      PROVE  /\ Counted(p) \in SoundPayload'
             /\ Counted(p).isTask = p.isTask /\ Counted(p).msg.kind = p.msg.kind
  <2>1. p \in Payload /\ p.msg.vv \in Vector /\ NotAhead(p.msg.vv)
    BY DEF SoundPayload, Payload, Message, Update, Deletion
  <2>2. \A e \in Device : p.msg.vv[e] \in Nat /\ p.msg.vv[e] <= vv[e][e]
    BY <2>1 DEF Vector, NotAhead
  <2>3. NotAhead(Incremented(p.msg.vv, d))'
    BY <1>1, <1>3, <1>5, <2>1, <2>2 DEF NotAhead
  <2>4. Incremented(p.msg.vv, d) \in Vector
    BY <1>1, <2>1
  <2>5. /\ Counted(p) \in Payload /\ Counted(p).msg.vv = Incremented(p.msg.vv, d)
        /\ Counted(p).isTask = p.isTask /\ Counted(p).msg.kind = p.msg.kind
    BY <2>1, <2>4, Revectored
  <2>6. QED
    BY <2>3, <2>5 DEF SoundPayload
<1>7. SoundPayload \subseteq SoundPayload'
  BY <1>4, SoundStays
<1> HIDE DEF Counted
<1>8. WaitingSound'
  <2>1. waiting'[d] = {Moved(p) : p \in waiting[d]}
    BY <1>2 DEF WaitingSound
  <2>2. waiting'[d] \subseteq SoundPayload'
    BY <1>6, <1>7, <2>1 DEF WaitingSound
  <2>3. \A e \in Device \ {d} : waiting'[e] \subseteq SoundPayload'
    BY <1>2, <1>7 DEF WaitingSound
  <2>4. DOMAIN waiting' = Device
    BY <1>2 DEF WaitingSound
  <2>5. QED
    BY <2>2, <2>3, <2>4 DEF WaitingSound
<1>9. NoNewDeletions
  <2>1. waiting'[d] = {Moved(p) : p \in waiting[d]} /\ waiting[d] \subseteq SoundPayload
    BY <1>2 DEF WaitingSound
  <2>2. \A p \in waiting'[d] :
          \E q \in waiting[d] : q.isTask = p.isTask /\ q.msg.kind = p.msg.kind
    BY <1>6, <2>1
  <2>3. \A e \in Device \ {d} : waiting'[e] = waiting[e]
    BY <1>2 DEF WaitingSound
  <2>4. QED
    BY <2>2, <2>3 DEF NoNewDeletions
<1>10. QED
  BY <1>4, <1>5, <1>8, <1>9

LEMMA MergedSound ==
    ASSUME VectorsSound, NEW d \in Device, NEW v \in Vector, NotAhead(v)
    PROVE  /\ MergeVectors(vv[d], v) \in SoundVector
           /\ Includes(MergeVectors(vv[d], v), vv[d])
<1>1. vv[d] \in Vector /\ NotAhead(vv[d])
  BY DEF VectorsSound, SoundVector
<1>2. \A e \in Device : /\ vv[d][e] \in Nat /\ v[e] \in Nat
                        /\ vv[d][e] <= vv[e][e] /\ v[e] <= vv[e][e]
  BY <1>1 DEF Vector, NotAhead
<1>3. MergeVectors(vv[d], v) \in Vector
  BY <1>2 DEF MergeVectors, Vector
<1>4. Includes(MergeVectors(vv[d], v), vv[d])
  BY <1>2 DEF MergeVectors, Includes
<1>5. NotAhead(MergeVectors(vv[d], v))
  BY <1>2 DEF MergeVectors, NotAhead
<1>6. QED
  BY <1>3, <1>4, <1>5 DEF SoundVector

LEMMA AdoptSound ==
    ASSUME VectorsSound, WaitingSound, NEW d \in Device, NEW v \in SoundVector,
           Includes(v, vv[d]), AdoptVector(d, v)
    PROVE  /\ vv' \in [Device -> Vector] /\ OwnGrows /\ Grows /\ VectorsSound'
           /\ WaitingSound' /\ NoNewDeletions
           /\ \A e \in Device \ {d} : vv'[e] = vv[e]
<1> DEFINE Parted(p) == [p EXCEPT !.alias = FALSE]
<1>1. /\ vv' = [vv EXCEPT ![d] = v]
      /\ waiting' = [waiting EXCEPT ![d] = {Parted(p) : p \in waiting[d]}]
  BY DEF AdoptVector
<1>2. v \in Vector /\ \A e \in Device : v[e] <= vv[e][e]
  BY DEF SoundVector, NotAhead
<1>3. vv' \in [Device -> Vector] /\ OwnGrows /\ Grows /\ VectorsSound'
  BY <1>1, <1>2, OneMoves
<1>4. \A e \in Device \ {d} : vv'[e] = vv[e]
  BY <1>1 DEF VectorsSound
<1>5. ASSUME NEW p \in SoundPayload
      PROVE  /\ Parted(p) \in SoundPayload'
             /\ Parted(p).isTask = p.isTask /\ Parted(p).msg.kind = p.msg.kind
  <2>1. p \in SoundPayload'
    BY <1>3, SoundStays
  <2>2. p \in Payload /\ NotAhead(p.msg.vv)'
    BY <2>1 DEF SoundPayload
  <2>3. /\ Parted(p) \in Payload /\ Parted(p).msg = p.msg /\ Parted(p).isTask = p.isTask
    BY <2>2 DEF Payload
  <2>4. QED
    BY <2>2, <2>3 DEF SoundPayload
<1>6. SoundPayload \subseteq SoundPayload'
  BY <1>3, SoundStays
<1> HIDE DEF Parted
<1>7. /\ waiting'[d] = {Parted(p) : p \in waiting[d]} /\ waiting[d] \subseteq SoundPayload
      /\ \A e \in Device \ {d} : waiting'[e] = waiting[e] /\ waiting[e] \subseteq SoundPayload
      /\ DOMAIN waiting' = Device
  BY <1>1 DEF WaitingSound
<1>8. WaitingSound'
  <2>1. waiting'[d] \subseteq SoundPayload'
    BY <1>5, <1>7
  <2>2. QED
    BY <1>6, <1>7, <2>1 DEF WaitingSound
<1>9. NoNewDeletions
  BY <1>5, <1>7 DEF NoNewDeletions
<1>10. QED
  BY <1>3, <1>4, <1>8, <1>9

-----------------------------------------------------------------------------
(* The operations on the queue and the network.                            *)

LEMMA QueueSound ==
    ASSUME VectorsSound, TasksSound, vv' \in [Device -> Vector], OwnGrows,
           NEW d \in Device, NEW t \in SoundTask, Queue(d, t)
    PROVE  /\ TasksSound'
           /\ \A e \in Device : tasks'[e] \subseteq tasks[e] \cup IF e = d THEN {t} ELSE {}
<1>1. SoundTask \subseteq SoundTask'
  BY SoundStays
<1>2. QED
  BY <1>1 DEF Queue, TasksSound

LEMMA ReplySound ==
    ASSUME VectorsSound, TasksSound, vv' \in [Device -> Vector], OwnGrows,
           cooling \in [Device -> SUBSET Device],
           NEW d \in Device, NEW peer \in Device, Reply(d, peer)
    PROVE  /\ TasksSound' /\ cooling' \in [Device -> SUBSET Device]
           /\ \A e \in Device : \A t \in tasks'[e] : t \in tasks[e] \/ t.kind = "update"
<1> DEFINE t == [kind |-> "update", to |-> peer, vector |-> {vv[d]}]
<1>1. t \in SoundTask
  BY DEF SoundTask, Task, VectorsSound, SoundVector
<1>2. CASE peer \in cooling[d]
  BY <1>2, Untouched DEF Reply
<1>3. CASE peer \notin cooling[d]
  <2>1. Queue(d, t) /\ cooling' = [cooling EXCEPT ![d] = cooling[d] \cup {peer}]
    BY <1>3 DEF Reply
  <2>2. /\ TasksSound'
        /\ \A e \in Device : tasks'[e] \subseteq tasks[e] \cup IF e = d THEN {t} ELSE {}
    BY <1>1, <2>1, QueueSound
  <2>3. t.kind = "update"
    OBVIOUS
  <2>4. cooling' \in [Device -> SUBSET Device]
    BY <2>1
  <2>5. QED
    BY <2>2, <2>3, <2>4
<1>4. QED
  BY <1>2, <1>3

LEMMA TransmitSound ==
    ASSUME VectorsSound, WaitingSound, NetSound, UNCHANGED vv, failures \in Nat,
           NEW d \in Device, NEW p \in SoundPayload, NEW peer \in Device,
           Transmit(d, p, peer)
    PROVE  /\ WaitingSound' /\ NetSound' /\ failures' \in Nat
           /\ \A e \in Device : \A q \in waiting'[e] :
                \/ q \in waiting[e] \/ ~q.isTask \/ (e = d /\ q = p)
<1> DEFINE Copy(q) == [p EXCEPT !.to = q, !.isTask = FALSE]
           others == (waiting[d] \ {p}) \cup Copies(d, p, peer)
<1>1. /\ SoundPayload \subseteq SoundPayload' /\ SoundMessage \subseteq SoundMessage'
  BY NothingCounted, SoundStays
<1>2. p \in Payload /\ NotAhead(p.msg.vv) /\ p.msg \in SoundMessage
  BY DEF SoundPayload, SoundMessage, Payload
<1>3. ASSUME NEW q \in Receivers(d, p.to)
      PROVE  Copy(q) \in SoundPayload /\ ~Copy(q).isTask
  <2>1. q \in Device \cup {Everyone}
    BY <1>2 DEF Receivers, Payload
  <2>2. Copy(q) \in Payload /\ Copy(q).msg = p.msg /\ ~Copy(q).isTask
    BY <1>2, <2>1 DEF Payload
  <2>3. QED
    BY <1>2, <2>2 DEF SoundPayload
<1>4. /\ others \subseteq SoundPayload
      /\ \A q \in others : q \in waiting[d] \/ ~q.isTask
  <2>1. Copies(d, p, peer) = {Copy(q) : q \in Receivers(d, p.to) \ {peer}}
    BY DEF Copies
  <2> HIDE DEF Copy
  <2>2. QED
    BY <1>3, <2>1 DEF WaitingSound
<1> HIDE DEF others
<1>5. /\ \/ waiting' = [waiting EXCEPT ![d] = others]
         \/ waiting' = [waiting EXCEPT ![d] = others \cup {p}]
      /\ net' = net \/ net' = Arrived(d, peer, p.msg)
      /\ failures' = failures \/ failures' = failures + 1
  BY DEF Transmit, others
<1>6. WaitingSound'
  BY <1>1, <1>4, <1>5 DEF WaitingSound
<1>7. \A e \in Device : \A q \in waiting'[e] :
        \/ q \in waiting[e] \/ ~q.isTask \/ (e = d /\ q = p)
  BY <1>4, <1>5 DEF WaitingSound
<1>8. NetSound'
  <2>1. ASSUME net' = Arrived(d, peer, p.msg) PROVE net' \in [Device \X Device -> Seq(SoundMessage)]
    <3>1. net[<<d, peer>>] \in Seq(SoundMessage)
      BY DEF NetSound
    <3>2. Append(net[<<d, peer>>], p.msg) \in Seq(SoundMessage)
      BY <1>2, <3>1, AppendProperties
    <3>3. QED
      BY <2>1, <3>2 DEF Arrived, NetSound
  <2>2. net' \in [Device \X Device -> Seq(SoundMessage)]
    BY <1>5, <2>1 DEF NetSound
  <2>3. Seq(SoundMessage) \subseteq Seq(SoundMessage')
    BY <1>1, SeqMonotonic
  <2>4. net' \in [Device \X Device -> Seq(SoundMessage')]
    BY <2>2, <2>3
  <2>5. QED
    BY <2>4 DEF NetSound
<1>9. QED
  BY <1>5, <1>6, <1>7, <1>8

-----------------------------------------------------------------------------
(* The actions.                                                            *)

LEMMA NoteFacts ==
    ASSUME VaultsTyped, NEW d \in Device
    PROVE  /\ file[d].content \subseteq Edit
           /\ Exists(d) => file[d].content \in Content /\ file[d].mtime \in Times
           /\ tomb[d] # 0 => tomb[d] \in Times
           /\ 0 \notin Times
<1>1. file[d] \in Note \/ file[d] = NoFile
  BY DEF VaultsTyped
<1>2. tomb[d] \in Times \cup {0} /\ 0 \notin Times
  BY DEF VaultsTyped
<1>3. QED
  BY <1>1, <1>2 DEF Note, NoFile, Exists, Content

\* What the steps that touch neither the vectors nor what carries them keep.
LEMMA OnlyLocal ==
    ASSUME Parts, UNCHANGED <<vv, tasks, waiting, net, busy>>
    PROVE  /\ VectorsSound' /\ TasksSound' /\ WaitingSound' /\ NetSound' /\ BusySound'
           /\ DecisionsCover' /\ Grows
           /\ \A d \in Device : DeletionQueued(d)' => DeletionQueued(d)
<1>1. vv' \in [Device -> Vector] /\ OwnGrows /\ Grows /\ VectorsSound'
  BY NothingCounted DEF Parts
<1>2. TasksSound' /\ WaitingSound' /\ NetSound' /\ BusySound'
  BY <1>1, Untouched DEF Parts
<1>3. DecisionsCover'
  BY DEF Parts, DecisionsCover, Includes
<1>4. \A d \in Device : DeletionQueued(d)' => DeletionQueued(d)
  BY DEF DeletionQueued
<1>5. QED
  BY <1>1, <1>2, <1>3, <1>4

LEMMA SaveKeeps ==
    ASSUME Parts, NEW d \in Device, NEW t \in Times, Save(d, t)
    PROVE  Parts' /\ Grows
<1> DEFINE note == [content |-> file[d].content \cup {made + 1}, mtime |-> t]
<1>1. /\ made < MaxEdits /\ made' = made + 1
      /\ stamps' = stamps \cup {t}
      /\ file' = [file EXCEPT ![d] = note]
      /\ \E b \in BOOLEAN : pending' = [pending EXCEPT ![d] = b]
      /\ UNCHANGED <<vv, tomb, echo, marked, tasks, waiting, net, busy, cooling, deletes,
                     failures, kept, dropped>>
  BY DEF Save, VaultsTyped, Parts, EventHeard
<1>2. /\ VectorsSound' /\ TasksSound' /\ WaitingSound' /\ NetSound' /\ BusySound'
      /\ DecisionsCover' /\ Grows
      /\ \A e \in Device : DeletionQueued(e)' => DeletionQueued(e)
  BY <1>1, OnlyLocal
<1>3. made + 1 \in Edit /\ made' \in 0 .. MaxEdits
  BY <1>1 DEF Parts, HistoryTyped, Edit
<1>4. note \in Note /\ note # NoFile
  <2>1. file[d].content \subseteq Edit /\ 0 \notin Times
    BY NoteFacts DEF Parts
  <2>2. note.content \in Content /\ note.mtime # 0
    BY <1>3, <2>1 DEF Content
  <2>3. QED
    BY <2>2 DEF Note, NoFile
<1> HIDE DEF note
<1>5. VaultsTyped'
  BY <1>1, <1>4 DEF Parts, VaultsTyped
<1>6. HistoryTyped'
  BY <1>1, <1>3 DEF Parts, HistoryTyped
<1>7. DeletionsDated'
  <2>1. \A e \in Device : Exists(e) => Exists(e)'
    BY <1>1, <1>4 DEF Parts, VaultsTyped, Exists
  <2>2. QED
    BY <1>1, <1>2, <2>1 DEF Parts, DeletionsDated
<1>8. QED
  BY <1>2, <1>5, <1>6, <1>7 DEF Parts

LEMMA TimersKeep ==
    ASSUME Parts, NEW d \in Device,
           MarkerExpires(d) \/ \E p \in Device : CooldownExpires(d, p)
    PROVE  Parts' /\ Grows
<1>1. UNCHANGED <<file, vv, tomb, pending, echo, tasks, waiting, net, busy,
                  made, deletes, failures, stamps, kept, dropped>>
  BY DEF MarkerExpires, CooldownExpires
<1>2. marked' \in [Device -> BOOLEAN] /\ cooling' \in [Device -> SUBSET Device]
  <2>1. marked \in [Device -> BOOLEAN] /\ cooling \in [Device -> SUBSET Device]
    BY DEF Parts, VaultsTyped
  <2>2. CASE MarkerExpires(d)
    BY <2>1, <2>2 DEF MarkerExpires
  <2>3. CASE \E p \in Device : CooldownExpires(d, p)
    BY <2>1, <2>3 DEF CooldownExpires
  <2>4. QED
    BY <2>2, <2>3
<1>3. /\ VectorsSound' /\ TasksSound' /\ WaitingSound' /\ NetSound' /\ BusySound'
      /\ DecisionsCover' /\ Grows
      /\ \A e \in Device : DeletionQueued(e)' => DeletionQueued(e)
  BY <1>1, OnlyLocal
<1>4. VaultsTyped' /\ HistoryTyped'
  BY <1>1, <1>2 DEF Parts, VaultsTyped, HistoryTyped
<1>5. DeletionsDated'
  BY <1>1, <1>3 DEF Parts, DeletionsDated, Exists
<1>6. QED
  BY <1>3, <1>4, <1>5 DEF Parts

(* A local change is counted in the vector and in every payload that holds *)
(* the vector object, and a task for it is queued.                         *)
LEMMA CountedKeeps ==
    ASSUME Parts, NEW d \in Device, busy[d] = {},
           RecordLocalEdit(d), NEW t \in SoundTask, Queue(d, t),
           UNCHANGED <<net, busy>>
    PROVE  /\ VectorsSound' /\ TasksSound' /\ WaitingSound' /\ NetSound' /\ BusySound'
           /\ DecisionsCover' /\ Grows
           /\ \A e \in Device : DeletionQueued(e)' =>
                DeletionQueued(e) \/ (e = d /\ t.kind = "delete")
<1>1. /\ vv' \in [Device -> Vector] /\ OwnGrows /\ Grows /\ VectorsSound'
      /\ WaitingSound' /\ NoNewDeletions
      /\ \A e \in Device \ {d} : vv'[e] = vv[e]
  BY RecordSound DEF Parts
<1>2. /\ TasksSound'
      /\ \A e \in Device : tasks'[e] \subseteq tasks[e] \cup IF e = d THEN {t} ELSE {}
  BY <1>1, QueueSound DEF Parts
<1>3. NetSound' /\ BusySound'
  BY <1>1, Untouched DEF Parts
<1>4. DecisionsCover'
  BY <1>1 DEF Parts, DecisionsCover
<1>5. \A e \in Device : DeletionQueued(e)' =>
                DeletionQueued(e) \/ (e = d /\ t.kind = "delete")
  BY <1>1, <1>2 DEF DeletionQueued, NoNewDeletions
<1>6. QED
  BY <1>1, <1>2, <1>3, <1>4, <1>5

LEMMA FlushKeeps ==
    ASSUME Parts, NEW d \in Device, Flush(d)
    PROVE  Parts' /\ Grows
<1>1. /\ busy[d] = {} /\ pending' = [pending EXCEPT ![d] = FALSE]
      /\ UNCHANGED <<file, net, busy, cooling, made, deletes, failures, stamps, kept, dropped>>
  BY DEF Flush
<1>2. echo' \in [Device -> SUBSET Content] /\ marked' \in [Device -> BOOLEAN]
  <2>1. echo \in [Device -> SUBSET Content] /\ marked \in [Device -> BOOLEAN]
    BY DEF Parts, VaultsTyped
  <2>2. CASE Exists(d)
    <3>1. /\ echo' = [echo EXCEPT ![d] = {}]
          /\ marked' = [marked EXCEPT ![d] = marked[d] /\ echo[d] = {}]
      BY <2>1, <2>2 DEF Flush
    <3>2. (marked[d] /\ echo[d] = {}) \in BOOLEAN
      OBVIOUS
    <3>3. QED
      BY <2>1, <3>1, <3>2
  <2>3. CASE ~Exists(d)
    BY <2>1, <2>3 DEF Flush
  <2>4. QED
    BY <2>2, <2>3
<1>3. tomb' \in [Device -> Times \cup {0}] /\ \A e \in Device : tomb'[e] = tomb[e] \/ Exists(e)
  BY DEF Flush, ClearTombstone, Parts, VaultsTyped
<1>4. VaultsTyped' /\ HistoryTyped'
  BY <1>1, <1>2, <1>3 DEF Parts, VaultsTyped, HistoryTyped
<1>5. /\ VectorsSound' /\ TasksSound' /\ WaitingSound' /\ NetSound' /\ BusySound'
      /\ DecisionsCover' /\ Grows
      /\ \A e \in Device : DeletionQueued(e)' => DeletionQueued(e)
  <2>1. CASE UNCHANGED <<vv, waiting, tasks>>
    BY <1>1, <2>1, OnlyLocal
  <2>2. CASE RecordLocalEdit(d) /\ Queue(d, SendUpdate)
    <3>1. SendUpdate \in SoundTask /\ SendUpdate.kind # "delete"
      BY DEF SendUpdate, SoundTask, Task
    <3>2. QED
      BY <1>1, <2>2, <3>1, CountedKeeps
  <2>3. QED
    BY <2>1, <2>2 DEF Flush
<1>6. DeletionsDated'
  BY <1>1, <1>3, <1>5 DEF Parts, DeletionsDated, Exists
<1>7. QED
  BY <1>4, <1>5, <1>6 DEF Parts

LEMMA DeleteKeeps ==
    ASSUME Parts, NEW d \in Device, NEW t \in Times, Delete(d, t)
    PROVE  Parts' /\ Grows
<1>1. /\ Exists(d) /\ busy[d] = {}
      /\ deletes' = deletes + 1
      /\ stamps' = stamps \cup {t}
      /\ dropped' = dropped \cup file[d].content
      /\ file' = [file EXCEPT ![d] = NoFile]
      /\ RecordLocalEdit(d)
      /\ tomb' = [tomb EXCEPT ![d] = t]
      /\ Queue(d, SendDelete(Everyone))
      /\ UNCHANGED <<pending, echo, marked, net, busy, cooling, made, failures, kept>>
  BY DEF Delete
<1>2. file[d].content \subseteq Edit /\ t # 0
  BY NoteFacts DEF Parts
<1>3. VaultsTyped' /\ HistoryTyped'
  BY <1>1, <1>2 DEF Parts, VaultsTyped, HistoryTyped
<1>4. SendDelete(Everyone) \in SoundTask
  BY DEF SendDelete, SoundTask, Task
<1>5. /\ VectorsSound' /\ TasksSound' /\ WaitingSound' /\ NetSound' /\ BusySound'
      /\ DecisionsCover' /\ Grows
      /\ \A e \in Device : DeletionQueued(e)' => DeletionQueued(e) \/ e = d
  BY <1>1, <1>4, CountedKeeps
<1>6. DeletionsDated'
  <2>1. tomb'[d] # 0
    BY <1>1, <1>2 DEF Parts, VaultsTyped
  <2>2. \A e \in Device \ {d} : tomb'[e] = tomb[e] /\ file'[e] = file[e]
    BY <1>1 DEF Parts, VaultsTyped
  <2>3. QED
    BY <1>5, <2>1, <2>2 DEF Parts, DeletionsDated, Exists
<1>7. QED
  BY <1>3, <1>5, <1>6 DEF Parts

(* A sound payload for a message built of what the device holds now.       *)
LEMMA BuiltSound ==
    ASSUME Parts, NEW d \in Device, NEW t \in tasks[d], ~Obsolete(d, t)
    PROVE  [to |-> t.to, msg |-> Built(d, t), alias |-> t.vector = {}, isTask |-> TRUE]
             \in SoundPayload
<1>1. /\ t.kind \in {"update", "delete"} /\ t.to \in Device \cup {Everyone}
      /\ \A v \in t.vector : v \in Vector /\ NotAhead(v)
  BY DEF Parts, TasksSound, SoundTask, Task
<1>2. vv[d] \in Vector /\ NotAhead(vv[d])
  BY DEF Parts, VectorsSound, SoundVector
<1>3. CASE t.kind = "update"
  <2>1. file[d].content \in Content /\ file[d].mtime \in Times
    BY <1>3, NoteFacts DEF Parts, Obsolete
  <2> DEFINE v == IF t.vector = {} THEN vv[d] ELSE CHOOSE u \in t.vector : TRUE
  <2>2. v \in Vector /\ NotAhead(v)
    BY <1>1, <1>2
  <2>3. Built(d, t) = [kind |-> "update", from |-> d, content |-> file[d].content,
                       mtime |-> file[d].mtime, vv |-> v]
    BY <1>3 DEF Built
  <2> HIDE DEF v
  <2>4. Built(d, t) \in Update /\ NotAhead(Built(d, t).vv)
    BY <2>1, <2>2, <2>3 DEF Update
  <2>5. QED
    BY <1>1, <2>4 DEF SoundPayload, Payload, Message
<1>4. CASE t.kind = "delete"
  <2>1. ~Exists(d)
    BY <1>4 DEF Obsolete
  <2>2. DeletionQueued(d)
    BY <1>4 DEF DeletionQueued
  <2>3. tomb[d] \in Times
    BY <2>1, <2>2, NoteFacts DEF Parts, DeletionsDated
  <2>4. Built(d, t) = [kind |-> "delete", from |-> d, content |-> {}, mtime |-> tomb[d],
                       vv |-> vv[d]]
    BY <1>4 DEF Built
  <2>5. Built(d, t) \in Deletion /\ NotAhead(Built(d, t).vv)
    BY <1>2, <2>3, <2>4 DEF Deletion
  <2>6. QED
    BY <1>1, <2>5 DEF SoundPayload, Payload, Message
<1>5. QED
  BY <1>1, <1>3, <1>4

LEMMA ProcessKeeps ==
    ASSUME Parts, NEW d \in Device, NEW t \in tasks[d], Process(d, t)
    PROVE  Parts' /\ Grows
<1> DEFINE p == [to |-> t.to, msg |-> Built(d, t), alias |-> t.vector = {}, isTask |-> TRUE]
<1>1. /\ tasks' = [tasks EXCEPT ![d] = tasks[d] \ {t}]
      /\ echo' = [echo EXCEPT ![d] = IF IsPlain(t) /\ Exists(d) THEN {} ELSE echo[d]]
      /\ \/ UNCHANGED <<net, waiting, failures>>
         \/ ~Obsolete(d, t) /\ \E peer \in Receivers(d, t.to) : Transmit(d, p, peer)
      /\ UNCHANGED <<file, vv, tomb, pending, marked, busy, cooling, made, deletes, stamps,
                     kept, dropped>>
  BY DEF Process, Parts, VaultsTyped, TasksSound
<1> HIDE DEF p
<1>0. t.kind \in {"update", "delete"} /\ t.to \in Device \cup {Everyone}
  BY DEF Parts, TasksSound, SoundTask, Task
<1>2. vv' \in [Device -> Vector] /\ OwnGrows /\ Grows /\ VectorsSound'
  BY <1>1, NothingCounted DEF Parts
<1>3. TasksSound'
  BY <1>1, <1>2, SoundStays DEF Parts, TasksSound
<1>4. BusySound' /\ DecisionsCover'
  BY <1>1, <1>2, Untouched DEF Parts, DecisionsCover, Includes
<1>5. /\ WaitingSound' /\ NetSound' /\ failures' \in Nat
      /\ \A e \in Device : \A q \in waiting'[e] :
           q \in waiting[e] \/ ~q.isTask \/ (e = d /\ q = p)
  <2>1. CASE UNCHANGED <<net, waiting, failures>>
    BY <1>2, <2>1, Untouched DEF Parts, HistoryTyped
  <2>2. CASE ~Obsolete(d, t) /\ \E peer \in Receivers(d, t.to) : Transmit(d, p, peer)
    <3>1. PICK peer \in Receivers(d, t.to) : Transmit(d, p, peer)
      BY <2>2
    <3>2. peer \in Device
      BY <1>0 DEF Receivers
    <3>3. p \in SoundPayload
      BY <2>2, BuiltSound DEF p
    <3>4. QED
      BY <1>1, <3>1, <3>2, <3>3, TransmitSound DEF Parts, HistoryTyped
  <2>3. QED
    BY <1>1, <2>1, <2>2
<1>6. VaultsTyped' /\ HistoryTyped'
  BY <1>1, <1>5 DEF Parts, VaultsTyped, HistoryTyped
<1>7. DeletionsDated'
  <2>1. p.msg.kind = "delete" => t.kind = "delete"
    <3>1. p.msg = Built(d, t)
      BY DEF p
    <3>2. CASE t.kind = "update"
      BY <3>1, <3>2 DEF Built
    <3>3. QED
      BY <1>0, <3>2
  <2>2. \A e \in Device : DeletionQueued(e)' => DeletionQueued(e)
    BY <1>1, <1>5, <2>1 DEF DeletionQueued, Parts, TasksSound
  <2>3. QED
    BY <1>1, <2>2 DEF Parts, DeletionsDated, Exists
<1>8. QED
  BY <1>2, <1>3, <1>4, <1>5, <1>6, <1>7 DEF Parts

LEMMA ResendKeeps ==
    ASSUME Parts, NEW d \in Device, NEW p \in waiting[d], Resend(d, p)
    PROVE  Parts' /\ Grows
<1>1. UNCHANGED <<file, vv, tomb, pending, echo, marked, busy, cooling, made, deletes,
                  stamps, kept, dropped>>
  BY DEF Resend
<1>2. vv' \in [Device -> Vector] /\ OwnGrows /\ Grows /\ VectorsSound'
  BY <1>1, NothingCounted DEF Parts
<1>3. BusySound' /\ DecisionsCover'
  BY <1>1, <1>2, Untouched DEF Parts, DecisionsCover, Includes
<1>4. p \in SoundPayload /\ p.to \in Device \cup {Everyone}
  BY DEF Parts, WaitingSound, SoundPayload, Payload
<1>5. /\ TasksSound' /\ WaitingSound' /\ NetSound' /\ failures' \in Nat
      /\ \A e \in Device : DeletionQueued(e)' => DeletionQueued(e)
  <2>1. CASE /\ waiting' = [waiting EXCEPT ![d] = waiting[d] \ {p}]
             /\ IF p.msg.kind = "delete" THEN Queue(d, SendDelete(p.to)) ELSE UNCHANGED tasks
             /\ p.isTask
             /\ UNCHANGED <<net, failures>>
    <3>1. WaitingSound'
      BY <1>2, <2>1, SoundStays DEF Parts, WaitingSound
    <3>2. NetSound' /\ failures' \in Nat
      BY <1>2, <2>1, Untouched DEF Parts, HistoryTyped
    <3>3. \A e \in Device : waiting'[e] \subseteq waiting[e]
      BY <2>1 DEF Parts, WaitingSound
    <3>4. CASE p.msg.kind = "delete"
      <4>1. SendDelete(p.to) \in SoundTask
        BY <1>4 DEF SendDelete, SoundTask, Task
      <4>2. /\ TasksSound'
            /\ \A e \in Device : tasks'[e] \subseteq tasks[e] \cup IF e = d THEN {SendDelete(p.to)} ELSE {}
        BY <1>2, <2>1, <3>4, <4>1, QueueSound DEF Parts
      <4>3. DeletionQueued(d)
        BY <2>1, <3>4 DEF DeletionQueued
      <4>4. \A e \in Device : DeletionQueued(e)' => DeletionQueued(e)
        BY <3>3, <4>2, <4>3 DEF DeletionQueued
      <4>5. QED
        BY <3>1, <3>2, <4>2, <4>4
    <3>5. CASE p.msg.kind # "delete"
      <4>1. TasksSound'
        BY <1>2, <2>1, <3>5, Untouched DEF Parts
      <4>2. \A e \in Device : DeletionQueued(e)' => DeletionQueued(e)
        BY <2>1, <3>3, <3>5 DEF DeletionQueued
      <4>3. QED
        BY <3>1, <3>2, <4>1, <4>2
    <3>6. QED
      BY <3>4, <3>5
  <2>2. CASE (\E peer \in Receivers(d, p.to) : Transmit(d, p, peer)) /\ UNCHANGED tasks
    <3>1. PICK peer \in Receivers(d, p.to) : Transmit(d, p, peer)
      BY <2>2
    <3>2. peer \in Device
      BY <1>4 DEF Receivers
    <3>3. /\ WaitingSound' /\ NetSound' /\ failures' \in Nat
          /\ \A e \in Device : \A q \in waiting'[e] :
               q \in waiting[e] \/ ~q.isTask \/ (e = d /\ q = p)
      BY <1>1, <1>4, <3>1, <3>2, TransmitSound DEF Parts, HistoryTyped
    <3>4. TasksSound'
      BY <1>2, <2>2, Untouched DEF Parts
    <3>5. \A e \in Device : DeletionQueued(e)' => DeletionQueued(e)
      BY <2>2, <3>3 DEF DeletionQueued
    <3>6. QED
      BY <3>3, <3>4, <3>5
  <2>3. QED
    BY <2>1, <2>2 DEF Resend
<1>6. VaultsTyped' /\ HistoryTyped'
  BY <1>1, <1>5 DEF Parts, VaultsTyped, HistoryTyped
<1>7. DeletionsDated'
  BY <1>1, <1>5 DEF Parts, DeletionsDated, Exists
<1>8. QED
  BY <1>2, <1>3, <1>5, <1>6, <1>7 DEF Parts

LEMMA WriteKeeps ==
    ASSUME Parts, NEW d \in Device, Write(d)
    PROVE  Parts' /\ Grows
<1>1. PICK w \in busy[d] :
        /\ kept' = kept \cup w.copy
        /\ file' = [file EXCEPT ![d] = [content |-> w.msg.content, mtime |-> w.msg.mtime]]
        /\ echo' = [echo EXCEPT ![d] = {w.msg.content}]
        /\ AdoptVector(d, w.merged)
  BY DEF Write
<1>2. PICK heard \in BOOLEAN : pending' = [pending EXCEPT ![d] = pending[d] \/ heard]
  BY DEF Write, Parts, VaultsTyped
<1>3. /\ busy' = [busy EXCEPT ![d] = {}]
      /\ marked' = [marked EXCEPT ![d] = TRUE]
      /\ UNCHANGED <<tomb, tasks, net, cooling, made, deletes, failures, stamps, dropped>>
  BY DEF Write
<1>4. /\ w \in Decision /\ w.merged \in SoundVector
      /\ w.msg.content \in Content /\ w.msg.mtime \in Times /\ w.copy \subseteq Edit
  BY DEF Parts, BusySound, SoundDecision, SoundVector, Decision, Update
<1>5. Includes(w.merged, vv[d])
  BY DEF Parts, DecisionsCover
<1>6. /\ vv' \in [Device -> Vector] /\ OwnGrows /\ Grows /\ VectorsSound'
      /\ WaitingSound' /\ NoNewDeletions
      /\ \A e \in Device \ {d} : vv'[e] = vv[e]
  BY <1>1, <1>4, <1>5, AdoptSound DEF Parts
<1>7. TasksSound' /\ NetSound'
  BY <1>3, <1>6, Untouched DEF Parts
<1>8. BusySound'
  BY <1>3, <1>6, SoundStays DEF Parts, BusySound
<1>9. DecisionsCover'
  BY <1>3, <1>6 DEF Parts, DecisionsCover, BusySound
<1>10. VaultsTyped'
  <2>1. [content |-> w.msg.content, mtime |-> w.msg.mtime] \in Note
    BY <1>4 DEF Note
  <2>2. (pending[d] \/ heard) \in BOOLEAN
    BY <1>2
  <2>3. pending' \in [Device -> BOOLEAN]
    BY <1>2, <2>2 DEF Parts, VaultsTyped
  <2>4. QED
    BY <1>1, <1>3, <1>4, <2>1, <2>3 DEF Parts, VaultsTyped
<1>11. HistoryTyped'
  BY <1>1, <1>3, <1>4 DEF Parts, HistoryTyped
<1>12. DeletionsDated'
  <2>1. \A e \in Device : DeletionQueued(e)' => DeletionQueued(e)
    BY <1>3, <1>6 DEF DeletionQueued, NoNewDeletions
  <2>2. [content |-> w.msg.content, mtime |-> w.msg.mtime] # NoFile
    BY <1>4, NoteFacts DEF Parts, NoFile
  <2>3. \A e \in Device : Exists(e) => Exists(e)'
    BY <1>1, <2>2 DEF Parts, VaultsTyped, Exists
  <2>4. QED
    BY <1>3, <2>1, <2>3 DEF Parts, DeletionsDated
<1>13. QED
  BY <1>6, <1>7, <1>8, <1>9, <1>10, <1>11, <1>12 DEF Parts

(* What applying a message may do to the vectors, to the queue, to the     *)
(* decision to write, and to the vault.                                    *)
VectorEffect(d, m) == AdoptMerged(d, m) \/ UNCHANGED <<vv, waiting>>
QueueEffect(d, m) ==
    \/ UNCHANGED <<tasks, cooling>>
    \/ Reply(d, m.from)
    \/ tomb[d] # 0 /\ Queue(d, SendDelete(m.from)) /\ UNCHANGED <<cooling, file, tomb>>
DecisionEffect(d, m) ==
    \/ UNCHANGED busy
    \/ m.kind = "update" /\ \E copy \in SUBSET Edit : DecideToWrite(d, m, copy)
VaultEffect(d, m) ==
    \/ UNCHANGED <<file, tomb, echo, marked, kept>>
    \/ /\ m.kind = "update"
       /\ file' = [file EXCEPT ![d] = [content |-> m.content, mtime |-> m.mtime]]
       /\ tomb' = [tomb EXCEPT ![d] = 0]
       /\ echo' = [echo EXCEPT ![d] = {m.content}]
       /\ marked' = [marked EXCEPT ![d] = TRUE]
       /\ UNCHANGED kept
    \/ /\ file' = [file EXCEPT ![d] = NoFile]
       /\ tomb' = [tomb EXCEPT ![d] = m.mtime]
       /\ kept' = kept \cup file[d].content
       /\ UNCHANGED <<echo, marked>>
    \/ /\ \E t \in {tomb[d], m.mtime} \ {0} : tomb' = [tomb EXCEPT ![d] = t]
       /\ UNCHANGED <<file, echo, marked, kept>>

LEMMA MessageFacts ==
    ASSUME NEW m \in SoundMessage
    PROVE  /\ m.kind \in {"update", "delete"} /\ m.from \in Device
           /\ m.vv \in Vector /\ NotAhead(m.vv)
           /\ m.mtime \in Times /\ m.mtime # 0
           /\ m.kind = "update" => m \in Update /\ m.content \in Content
BY DEF SoundMessage, Message, Update, Deletion

LEMMA ApplyEffects ==
    ASSUME Parts, NEW d \in Device, NEW m \in SoundMessage, Apply(d, m)
    PROVE  VectorEffect(d, m) /\ QueueEffect(d, m) /\ DecisionEffect(d, m) /\ VaultEffect(d, m)
<1>1. m.kind \in {"update", "delete"} /\ m.mtime # 0 /\ file[d].content \subseteq Edit
  BY MessageFacts, NoteFacts DEF Parts
<1>2. CASE m.kind = "delete" /\ ApplyDelete(d, m)
  <2>1. CASE ~Exists(d)
    <3>1. \E t \in {tomb[d], m.mtime} \ {0} : tomb' = [tomb EXCEPT ![d] = t]
      BY <1>1, <1>2, <2>1 DEF ApplyDelete
    <3>2. QED
      BY <1>2, <2>1, <3>1
      DEF ApplyDelete, VectorEffect, QueueEffect, DecisionEffect, VaultEffect
  <2>2. CASE Exists(d)
    BY <1>2, <2>2 DEF ApplyDelete, VectorEffect, QueueEffect, DecisionEffect, VaultEffect
  <2>3. QED
    BY <2>1, <2>2
<1>3. CASE m.kind = "update" /\ ApplyToFile(d, m)
  <2>1. UNCHANGED <<file, tomb, echo, marked, kept>>
    BY <1>3 DEF ApplyToFile
  <2>2. CASE AdoptMerged(d, m) /\ UNCHANGED <<busy, tasks, cooling>>
    BY <2>1, <2>2 DEF VectorEffect, QueueEffect, DecisionEffect, VaultEffect
  <2>3. CASE Reply(d, m.from) /\ UNCHANGED <<vv, waiting, busy>>
    BY <2>1, <2>3 DEF VectorEffect, QueueEffect, DecisionEffect, VaultEffect
  <2>4. CASE Reply(d, m.from) /\ AdoptMerged(d, m) /\ UNCHANGED busy
    BY <2>1, <2>4 DEF VectorEffect, QueueEffect, DecisionEffect, VaultEffect
  <2>5. CASE \E copy \in SUBSET Edit : DecideToWrite(d, m, copy)
    BY <1>3, <2>1, <2>5
    DEF DecideToWrite, VectorEffect, QueueEffect, DecisionEffect, VaultEffect
  <2>6. ASSUME ResolveConflict(d, m)
        PROVE  \/ \E copy \in SUBSET Edit : DecideToWrite(d, m, copy)
               \/ Reply(d, m.from) /\ AdoptMerged(d, m) /\ UNCHANGED busy
    BY <1>1, <2>6 DEF ResolveConflict
  <2>7. DecideToWrite(d, m, {}) => \E copy \in SUBSET Edit : DecideToWrite(d, m, copy)
    OBVIOUS
  <2>8. QED
    BY <1>3, <2>2, <2>3, <2>4, <2>5, <2>6, <2>7 DEF ApplyToFile
<1>4. CASE m.kind = "update" /\ ApplyToNothing(d, m)
  BY <1>4 DEF ApplyToNothing, ClearTombstone, VectorEffect, QueueEffect, DecisionEffect,
     VaultEffect
<1>5. QED
  BY <1>1, <1>2, <1>3, <1>4 DEF Apply

LEMMA ApplyKeeps ==
    ASSUME Parts, NEW d \in Device, NEW m \in SoundMessage, busy[d] = {}, Apply(d, m),
           UNCHANGED <<pending, made, deletes, failures, stamps, dropped>>
    PROVE  /\ VaultsTyped' /\ HistoryTyped'
           /\ VectorsSound' /\ TasksSound' /\ WaitingSound' /\ BusySound'
           /\ DeletionsDated' /\ DecisionsCover'
           /\ vv' \in [Device -> Vector] /\ OwnGrows /\ Grows
<1>1. VectorEffect(d, m) /\ QueueEffect(d, m) /\ DecisionEffect(d, m) /\ VaultEffect(d, m)
  BY ApplyEffects
<1>2. /\ m.kind \in {"update", "delete"} /\ m.from \in Device
      /\ m.vv \in Vector /\ NotAhead(m.vv)
      /\ m.mtime \in Times /\ m.mtime # 0
      /\ m.kind = "update" => m \in Update /\ m.content \in Content
  BY MessageFacts
<1>3. /\ MergeVectors(vv[d], m.vv) \in SoundVector
      /\ Includes(MergeVectors(vv[d], m.vv), vv[d])
  BY <1>2, MergedSound DEF Parts
<1>4. /\ vv' \in [Device -> Vector] /\ OwnGrows /\ Grows /\ VectorsSound'
      /\ WaitingSound' /\ NoNewDeletions
      /\ \A e \in Device \ {d} : vv'[e] = vv[e]
  <2>1. CASE AdoptMerged(d, m)
    BY <1>3, <2>1, AdoptSound DEF Parts, AdoptMerged
  <2>2. CASE UNCHANGED <<vv, waiting>>
    <3>1. vv' \in [Device -> Vector] /\ OwnGrows /\ Grows /\ VectorsSound'
      BY <2>2, NothingCounted DEF Parts
    <3>2. WaitingSound' /\ NoNewDeletions
      BY <2>2, <3>1, Untouched DEF Parts, NoNewDeletions
    <3>3. QED
      BY <2>2, <3>1, <3>2
  <2>3. QED
    BY <1>1, <2>1, <2>2 DEF VectorEffect
<1>5. /\ TasksSound' /\ cooling' \in [Device -> SUBSET Device]
      /\ \A e \in Device : \A t \in tasks'[e] :
           \/ t \in tasks[e] \/ t.kind = "update"
           \/ e = d /\ tomb[d] # 0 /\ UNCHANGED <<file, tomb>>
  <2>1. cooling \in [Device -> SUBSET Device]
    BY DEF Parts, VaultsTyped
  <2>2. CASE UNCHANGED <<tasks, cooling>>
    BY <1>4, <2>1, <2>2, Untouched DEF Parts
  <2>3. CASE Reply(d, m.from)
    BY <1>2, <1>4, <2>1, <2>3, ReplySound DEF Parts
  <2>4. CASE tomb[d] # 0 /\ Queue(d, SendDelete(m.from)) /\ UNCHANGED <<cooling, file, tomb>>
    <3>1. SendDelete(m.from) \in SoundTask
      BY <1>2 DEF SendDelete, SoundTask, Task
    <3>2. /\ TasksSound'
          /\ \A e \in Device :
               tasks'[e] \subseteq tasks[e] \cup IF e = d THEN {SendDelete(m.from)} ELSE {}
      BY <1>4, <2>4, <3>1, QueueSound DEF Parts
    <3>3. QED
      BY <2>1, <2>4, <3>2
  <2>5. QED
    BY <1>1, <2>2, <2>3, <2>4 DEF QueueEffect
<1>6. BusySound' /\ DecisionsCover'
  <2>1. CASE UNCHANGED busy
    BY <1>4, <2>1, Untouched DEF Parts, DecisionsCover
  <2>2. ASSUME m.kind = "update", NEW copy \in SUBSET Edit, DecideToWrite(d, m, copy)
        PROVE  BusySound' /\ DecisionsCover'
    <3> DEFINE w == [msg |-> m, merged |-> MergeVectors(vv[d], m.vv), copy |-> copy]
    <3>1. busy' = [busy EXCEPT ![d] = {w}] /\ UNCHANGED vv
      BY <2>2 DEF DecideToWrite
    <3>2. w \in SoundDecision /\ w.merged = MergeVectors(vv[d], m.vv)
      BY <1>2, <1>3, <2>2 DEF SoundDecision, SoundVector, Decision
    <3> HIDE DEF w
    <3>3. BusySound'
      BY <1>4, <3>1, <3>2, SoundStays DEF Parts, BusySound
    <3>4. DecisionsCover'
      <4>1. Includes(w.merged, vv'[d])
        BY <1>3, <3>1, <3>2
      <4>2. busy'[d] = {w} /\ \A e \in Device \ {d} : busy'[e] = busy[e]
        BY <3>1 DEF Parts, BusySound
      <4>3. QED
        BY <1>4, <4>1, <4>2 DEF Parts, DecisionsCover
    <3>5. QED
      BY <3>3, <3>4
  <2>3. QED
    BY <1>1, <2>1, <2>2 DEF DecisionEffect
<1>7. /\ file' \in [Device -> Note \cup {NoFile}]
      /\ tomb' \in [Device -> Times \cup {0}]
      /\ echo' \in [Device -> SUBSET Content]
      /\ marked' \in [Device -> BOOLEAN]
      /\ kept' \subseteq Edit
      /\ \A e \in Device : Exists(e) \/ tomb[e] # 0 => Exists(e)' \/ tomb'[e] # 0
  <2>1. /\ file \in [Device -> Note \cup {NoFile}]
        /\ tomb \in [Device -> Times \cup {0}]
        /\ echo \in [Device -> SUBSET Content]
        /\ marked \in [Device -> BOOLEAN]
        /\ kept \subseteq Edit
        /\ file[d].content \subseteq Edit
    BY NoteFacts DEF Parts, VaultsTyped, HistoryTyped
  <2>2. CASE UNCHANGED <<file, tomb, echo, marked, kept>>
    BY <2>1, <2>2 DEF Exists
  <2>3. CASE /\ m.kind = "update"
             /\ file' = [file EXCEPT ![d] = [content |-> m.content, mtime |-> m.mtime]]
             /\ tomb' = [tomb EXCEPT ![d] = 0]
             /\ echo' = [echo EXCEPT ![d] = {m.content}]
             /\ marked' = [marked EXCEPT ![d] = TRUE]
             /\ UNCHANGED kept
    <3>1. /\ [content |-> m.content, mtime |-> m.mtime] \in Note
          /\ [content |-> m.content, mtime |-> m.mtime] # NoFile
      BY <1>2, <2>3 DEF Note, NoFile
    <3>2. QED
      BY <1>2, <2>1, <2>3, <3>1 DEF Exists
  <2>4. CASE /\ file' = [file EXCEPT ![d] = NoFile]
             /\ tomb' = [tomb EXCEPT ![d] = m.mtime]
             /\ kept' = kept \cup file[d].content
             /\ UNCHANGED <<echo, marked>>
    BY <1>2, <2>1, <2>4 DEF Exists
  <2>5. ASSUME NEW t \in {tomb[d], m.mtime} \ {0}, tomb' = [tomb EXCEPT ![d] = t],
               UNCHANGED <<file, echo, marked, kept>>
        PROVE  /\ file' \in [Device -> Note \cup {NoFile}]
               /\ tomb' \in [Device -> Times \cup {0}]
               /\ echo' \in [Device -> SUBSET Content]
               /\ marked' \in [Device -> BOOLEAN]
               /\ kept' \subseteq Edit
               /\ \A e \in Device : Exists(e) \/ tomb[e] # 0 => Exists(e)' \/ tomb'[e] # 0
    BY <1>2, <2>1, <2>5 DEF Exists
  <2>6. QED
    BY <1>1, <2>2, <2>3, <2>4, <2>5 DEF VaultEffect
<1>8. VaultsTyped' /\ HistoryTyped'
  BY <1>5, <1>7 DEF Parts, VaultsTyped, HistoryTyped
<1>9. DeletionsDated'
  <2>1. \A e \in Device : DeletionQueued(e)' => DeletionQueued(e) \/ (e = d /\ tomb'[d] # 0)
    BY <1>4, <1>5 DEF DeletionQueued, NoNewDeletions
  <2>2. QED
    BY <1>7, <2>1 DEF Parts, DeletionsDated
<1>10. QED
  BY <1>4, <1>5, <1>6, <1>8, <1>9

LEMMA DeliverKeeps ==
    ASSUME Parts, NEW d \in Device, NEW from \in Device,
           NEW n \in DOMAIN net[<<from, d>>], Deliver(d, from, n)
    PROVE  Parts' /\ Grows
<1> DEFINE m == net[<<from, d>>][n]
<1>1. /\ busy[d] = {}
      /\ net' = [net EXCEPT ![<<from, d>>] = RemoveAt(net[<<from, d>>], n)]
      /\ Apply(d, m)
      /\ UNCHANGED <<pending, made, deletes, failures, stamps, dropped>>
  BY DEF Deliver
<1>2. net[<<from, d>>] \in Seq(SoundMessage)
  BY DEF Parts, NetSound
<1>3. m \in SoundMessage
  BY <1>2, LenProperties, ElementOfSeq
<1>4. RemoveAt(net[<<from, d>>], n) \in Seq(SoundMessage)
  BY <1>2, RemoveAtType
<1> HIDE DEF m
<1>5. /\ VaultsTyped' /\ HistoryTyped'
      /\ VectorsSound' /\ TasksSound' /\ WaitingSound' /\ BusySound'
      /\ DeletionsDated' /\ DecisionsCover'
      /\ vv' \in [Device -> Vector] /\ OwnGrows /\ Grows
  BY <1>1, <1>3, ApplyKeeps
<1>6. NetSound'
  <2>1. net' \in [Device \X Device -> Seq(SoundMessage)]
    BY <1>1, <1>4 DEF Parts, NetSound
  <2>2. SoundMessage \subseteq SoundMessage'
    BY <1>5, SoundStays DEF Parts
  <2>3. Seq(SoundMessage) \subseteq Seq(SoundMessage')
    BY <2>2, SeqMonotonic
  <2>4. net' \in [Device \X Device -> Seq(SoundMessage')]
    BY <2>1, <2>3
  <2>5. QED
    BY <2>4 DEF NetSound
<1>7. QED
  BY <1>5, <1>6 DEF Parts

-----------------------------------------------------------------------------

LEMMA InitParts == Init => Parts
<1> SUFFICES ASSUME Init PROVE Parts
  OBVIOUS
<1>1. ZeroVector \in Vector /\ \A d, e \in Device : ZeroVector[d] = 0
  BY DEF ZeroVector, Vector
<1>2. VaultsTyped /\ HistoryTyped
  BY DEF Init, VaultsTyped, HistoryTyped
<1>3. VectorsSound
  BY <1>1 DEF Init, VectorsSound, SoundVector, NotAhead
<1>4. TasksSound /\ WaitingSound /\ BusySound
  BY DEF Init, TasksSound, WaitingSound, BusySound
<1>5. NetSound
  <2>1. <<>> \in Seq(SoundMessage)
    BY EmptySeq
  <2>2. QED
    BY <2>1 DEF Init, NetSound
<1>6. DeletionsDated /\ DecisionsCover
  BY DEF Init, DeletionsDated, DeletionQueued, DecisionsCover
<1>7. QED
  BY <1>2, <1>3, <1>4, <1>5, <1>6 DEF Parts

LEMMA NextKeeps ==
    ASSUME Parts, [Next]_vars
    PROVE  Parts' /\ Grows
<1>1. ASSUME NEW d \in Device, NEW t \in Times, Save(d, t) PROVE Parts' /\ Grows
  BY <1>1, SaveKeeps
<1>2. ASSUME NEW d \in Device, NEW t \in Times, Delete(d, t) PROVE Parts' /\ Grows
  BY <1>2, DeleteKeeps
<1>3. ASSUME NEW d \in Device, Flush(d) PROVE Parts' /\ Grows
  BY <1>3, FlushKeeps
<1>4. ASSUME NEW d \in Device, MarkerExpires(d) PROVE Parts' /\ Grows
  BY <1>4, TimersKeep
<1>5. ASSUME NEW d \in Device, NEW p \in Device, CooldownExpires(d, p) PROVE Parts' /\ Grows
  BY <1>5, TimersKeep
<1>6. ASSUME NEW d \in Device, NEW t \in tasks[d], Process(d, t) PROVE Parts' /\ Grows
  BY <1>6, ProcessKeeps
<1>7. ASSUME NEW d \in Device, NEW p \in waiting[d], Resend(d, p) PROVE Parts' /\ Grows
  BY <1>7, ResendKeeps
<1>8. ASSUME NEW d \in Device, NEW from \in Device, NEW n \in DOMAIN net[<<from, d>>],
             Deliver(d, from, n)
      PROVE  Parts' /\ Grows
  BY <1>8, DeliverKeeps
<1>9. ASSUME NEW d \in Device, Write(d) PROVE Parts' /\ Grows
  BY <1>9, WriteKeeps
<1>10. ASSUME UNCHANGED vars PROVE Parts' /\ Grows
  <2>1. UNCHANGED <<vv, tasks, waiting, net, busy>>
    BY <1>10 DEF vars
  <2>2. /\ VectorsSound' /\ TasksSound' /\ WaitingSound' /\ NetSound' /\ BusySound'
        /\ DecisionsCover' /\ Grows
        /\ \A d \in Device : DeletionQueued(d)' => DeletionQueued(d)
    BY <2>1, OnlyLocal
  <2>3. VaultsTyped' /\ HistoryTyped'
    BY <1>10 DEF vars, Parts, VaultsTyped, HistoryTyped
  <2>4. DeletionsDated'
    BY <1>10, <2>2 DEF vars, Parts, DeletionsDated, Exists
  <2>5. QED
    BY <2>2, <2>3, <2>4 DEF Parts
<1>11. QED
  BY <1>1, <1>2, <1>3, <1>4, <1>5, <1>6, <1>7, <1>8, <1>9, <1>10 DEF Next

LEMMA PartsInvariant == Spec => []Parts
<1>1. Parts /\ [Next]_vars => Parts'
  BY NextKeeps
<1>2. QED
  BY InitParts, <1>1, PTL DEF Spec

(* Every variable keeps its type: whatever is queued, built, sent or       *)
(* decided is well formed, and no update without content and no deletion   *)
(* without a date is ever built (processQueueItem).                        *)
THEOREM TypeCorrect == Spec => []TypeOK
<1>1. Parts => TypeOK
  BY PartsAreIInv DEF IInv
<1>2. QED
  BY PartsInvariant, <1>1, PTL

(* No vector anywhere counts more edits of a device than the device itself *)
(* (recordLocalEdit, adoptVector, replyWithOurVersion), so nobody ever     *)
(* takes a version for newer than one its author has moved past.           *)
THEOREM AuthorsLead == Spec => []OwnCountIsHighest
<1>1. Parts => OwnCountIsHighest
  BY PartsAreIInv DEF IInv
<1>2. QED
  BY PartsInvariant, <1>1, PTL

(* No step makes a device forget an edit it knew of, not even the write of *)
(* a version decided on earlier (adoptVector in writeRemoteVersion).       *)
THEOREM NothingForgotten == Spec => VectorsGrow
<1>1. Parts /\ [Next]_vars => [\A d \in Device : Includes(vv'[d], vv[d])]_vars
  BY NextKeeps DEF Grows
<1>2. QED
  BY PartsInvariant, <1>1, PTL DEF Spec, VectorsGrow

(***************************************************************************)
(* Why a device that holds the note advertises no deletion of it.  What    *)
(* clears a tombstone for certain is the debounce, and it does so only for *)
(* a content that is not the echo of a plugin write: so no content under   *)
(* way, and no echo, may hold an edit that is not made yet.                *)
(***************************************************************************)
Made == 1 .. made
MadeMessage == {m \in Message : m.content \subseteq Made}

VaultsMade == \A d \in Device : /\ file[d].content \subseteq Made
                                /\ \A c \in echo[d] : c \subseteq Made
WaitingMade == \A d \in Device : \A p \in waiting[d] : p.msg.content \subseteq Made
NetMade == net \in [Device \X Device -> Seq(MadeMessage)]
BusyMade == \A d \in Device : \A w \in busy[d] : w.msg.content \subseteq Made

\* A note that is back is waiting to be counted, and will be; and nothing is
\* written over a note whose deletion is still advertised.
TombAgrees(d) ==
    /\ Exists(d) /\ tomb[d] # 0 => pending[d] /\ file[d].content \notin echo[d]
    /\ busy[d] # {} => tomb[d] = 0

TombInv ==
    /\ VaultsMade /\ WaitingMade /\ NetMade /\ BusyMade
    /\ \A d \in Device : TombAgrees(d)

\* The user's save two seconds after a plugin write is not overheard, and no message is
\* applied while a change waits in the debounce.
ChangesAreHeard == Perils \cap {"saveInWindow", "applyPending"} = {}

LEMMA NothingMade ==
    ASSUME UNCHANGED made
    PROVE  /\ UNCHANGED waiting /\ WaitingMade => WaitingMade'
           /\ UNCHANGED net /\ NetMade => NetMade'
           /\ UNCHANGED busy /\ BusyMade => BusyMade'
           /\ UNCHANGED <<file, echo>> /\ VaultsMade => VaultsMade'
           /\ Made' = Made /\ MadeMessage' = MadeMessage
<1>1. Made' = Made /\ MadeMessage' = MadeMessage
  BY DEF Made, MadeMessage
<1>2. QED
  BY <1>1 DEF WaitingMade, NetMade, BusyMade, VaultsMade

\* What concerns the other devices is as it was.
LEMMA OthersAgree ==
    ASSUME NEW d \in Device, \A e \in Device : TombAgrees(e), TombAgrees(d)',
           \A e \in Device \ {d} :
              /\ file'[e] = file[e] /\ tomb'[e] = tomb[e] /\ pending'[e] = pending[e]
              /\ echo'[e] = echo[e] /\ busy'[e] = busy[e]
    PROVE  \A e \in Device : TombAgrees(e)'
BY DEF TombAgrees, Exists

LEMMA RecordMade ==
    ASSUME WaitingSound, WaitingMade, UNCHANGED made, NEW d \in Device, RecordLocalEdit(d)
    PROVE  WaitingMade'
<1> DEFINE Counted(p) == [p EXCEPT !.msg.vv = Incremented(p.msg.vv, d)]
           Moved(p) == IF p.alias THEN Counted(p) ELSE p
<1>1. waiting' = [waiting EXCEPT ![d] = {Moved(p) : p \in waiting[d]}]
  BY DEF RecordLocalEdit, WaitingSound
<1>2. ASSUME NEW p \in Payload PROVE Counted(p).msg.content = p.msg.content
  <2>1. p = [to |-> p.to, msg |-> p.msg, alias |-> p.alias, isTask |-> p.isTask]
    BY DEF Payload
  <2>2. p.msg = [kind |-> p.msg.kind, from |-> p.msg.from, content |-> p.msg.content,
                 mtime |-> p.msg.mtime, vv |-> p.msg.vv]
    BY DEF Payload, Message, Update, Deletion
  <2>3. Counted(p) = [p EXCEPT !.msg = [p.msg EXCEPT !.vv = Incremented(p.msg.vv, d)]]
    OBVIOUS
  <2> HIDE DEF Counted
  <2>4. Counted(p).msg = [p.msg EXCEPT !.vv = Incremented(p.msg.vv, d)]
    BY <2>1, <2>3
  <2>5. QED
    BY <2>2, <2>4
<1> HIDE DEF Counted
<1>3. /\ waiting'[d] = {Moved(p) : p \in waiting[d]} /\ waiting[d] \subseteq Payload
      /\ \A e \in Device \ {d} : waiting'[e] = waiting[e]
  BY <1>1 DEF WaitingSound, SoundPayload
<1>4. Made' = Made
  BY NothingMade
<1>5. \A p \in waiting'[d] : p.msg.content \subseteq Made
  BY <1>2, <1>3 DEF WaitingMade
<1>6. QED
  BY <1>3, <1>4, <1>5 DEF WaitingMade

LEMMA AdoptMade ==
    ASSUME WaitingSound, WaitingMade, UNCHANGED made, NEW d \in Device, NEW v,
           AdoptVector(d, v)
    PROVE  WaitingMade'
<1> DEFINE Parted(p) == [p EXCEPT !.alias = FALSE]
<1>1. waiting' = [waiting EXCEPT ![d] = {Parted(p) : p \in waiting[d]}]
  BY DEF AdoptVector
<1>2. ASSUME NEW p \in Payload PROVE Parted(p).msg = p.msg
  BY DEF Payload
<1> HIDE DEF Parted
<1>3. /\ waiting'[d] = {Parted(p) : p \in waiting[d]} /\ waiting[d] \subseteq Payload
      /\ \A e \in Device \ {d} : waiting'[e] = waiting[e]
  BY <1>1 DEF WaitingSound, SoundPayload
<1>4. Made' = Made
  BY NothingMade
<1>5. \A p \in waiting'[d] : p.msg.content \subseteq Made
  BY <1>2, <1>3 DEF WaitingMade
<1>6. QED
  BY <1>3, <1>4, <1>5 DEF WaitingMade

LEMMA TransmitMade ==
    ASSUME WaitingSound, WaitingMade, NetMade, UNCHANGED made,
           NEW d \in Device, NEW p \in Payload, p.msg.content \subseteq Made,
           NEW peer \in Device, Transmit(d, p, peer)
    PROVE  WaitingMade' /\ NetMade'
<1> DEFINE Copy(q) == [p EXCEPT !.to = q, !.isTask = FALSE]
           others == (waiting[d] \ {p}) \cup Copies(d, p, peer)
<1>1. \A q \in Copies(d, p, peer) : q.msg = p.msg
  <2>1. \A q : Copy(q).msg = p.msg
    BY DEF Payload
  <2>2. Copies(d, p, peer) = {Copy(q) : q \in Receivers(d, p.to) \ {peer}}
    BY DEF Copies
  <2> HIDE DEF Copy
  <2>3. QED
    BY <2>1, <2>2
<1>2. \A q \in others \cup {p} : q.msg.content \subseteq Made
  BY <1>1 DEF WaitingMade
<1> HIDE DEF others
<1>3. /\ \/ waiting' = [waiting EXCEPT ![d] = others]
         \/ waiting' = [waiting EXCEPT ![d] = others \cup {p}]
      /\ net' = net \/ net' = Arrived(d, peer, p.msg)
  BY DEF Transmit, others
<1>4. Made' = Made /\ MadeMessage' = MadeMessage
  BY NothingMade
<1>5. WaitingMade'
  BY <1>2, <1>3, <1>4 DEF WaitingMade, WaitingSound
<1>6. NetMade'
  <2>1. ASSUME net' = Arrived(d, peer, p.msg) PROVE net' \in [Device \X Device -> Seq(MadeMessage)]
    <3>1. net[<<d, peer>>] \in Seq(MadeMessage) /\ p.msg \in MadeMessage
      BY DEF NetMade, MadeMessage, Payload
    <3>2. Append(net[<<d, peer>>], p.msg) \in Seq(MadeMessage)
      BY <3>1, AppendProperties
    <3>3. QED
      BY <2>1, <3>2 DEF Arrived, NetMade
  <2>2. QED
    BY <1>3, <1>4, <2>1 DEF NetMade
<1>7. QED
  BY <1>5, <1>6

-----------------------------------------------------------------------------

LEMMA SaveAgrees ==
    ASSUME ChangesAreHeard, Parts, TombInv, NEW d \in Device, NEW t \in Times, Save(d, t)
    PROVE  TombInv'
<1> DEFINE note == [content |-> file[d].content \cup {made + 1}, mtime |-> t]
<1>1. /\ made' = made + 1
      /\ file' = [file EXCEPT ![d] = note]
      /\ EventHeard(d, Exists(d))
      /\ pending' = [pending EXCEPT ![d] = TRUE]
      /\ UNCHANGED <<tomb, echo, waiting, net, busy>>
  BY DEF Save, ChangesAreHeard, Parts, VaultsTyped
<1>2. made \in Nat /\ Made' = Made \cup {made + 1} /\ made + 1 \notin Made
  BY <1>1 DEF Parts, HistoryTyped, Made
<1>3. MadeMessage \subseteq MadeMessage'
  BY <1>2 DEF MadeMessage
<1>4. NetMade'
  <2>1. Seq(MadeMessage) \subseteq Seq(MadeMessage')
    BY <1>3, SeqMonotonic
  <2>2. net' \in [Device \X Device -> Seq(MadeMessage)]
    BY <1>1 DEF TombInv, NetMade
  <2>3. net' \in [Device \X Device -> Seq(MadeMessage')]
    BY <2>1, <2>2
  <2>4. QED
    BY <2>3 DEF NetMade
<1>5. WaitingMade' /\ BusyMade'
  BY <1>1, <1>2 DEF TombInv, WaitingMade, BusyMade
<1>6. /\ file'[d] = note /\ pending'[d]
      /\ \A e \in Device \ {d} : file'[e] = file[e] /\ pending'[e] = pending[e]
  BY <1>1 DEF Parts, VaultsTyped
<1>7. VaultsMade'
  BY <1>1, <1>2, <1>6 DEF TombInv, VaultsMade
<1>8. TombAgrees(d)'
  <2>1. \A c \in echo[d] : made + 1 \notin c
    BY <1>2 DEF TombInv, VaultsMade
  <2>2. made + 1 \in file'[d].content
    BY <1>6
  <2>3. file'[d].content \notin echo'[d]
    BY <1>1, <2>1, <2>2
  <2>4. QED
    BY <1>1, <1>6, <2>3 DEF TombInv, TombAgrees
<1>9. \A e \in Device : TombAgrees(e)'
  BY <1>1, <1>6, <1>8, OthersAgree DEF TombInv
<1>10. QED
  BY <1>4, <1>5, <1>7, <1>9 DEF TombInv

LEMMA FlushAgrees ==
    ASSUME Parts, TombInv, NEW d \in Device, Flush(d)
    PROVE  TombInv'
<1>1. /\ busy[d] = {} /\ pending' = [pending EXCEPT ![d] = FALSE]
      /\ UNCHANGED <<file, net, busy, made>>
      /\ \/ Exists(d) /\ file[d].content \notin echo[d] /\ RecordLocalEdit(d) /\ ClearTombstone(d)
         \/ ~(Exists(d) /\ file[d].content \notin echo[d]) /\ UNCHANGED <<waiting, tomb>>
  BY DEF Flush
<1>2. /\ \A e \in Device \ {d} : echo'[e] = echo[e]
      /\ echo'[d] \subseteq echo[d]
  <2>1. CASE Exists(d)
    <3>1. echo' = [echo EXCEPT ![d] = {}]
      BY <2>1 DEF Flush
    <3>2. DOMAIN echo = Device
      BY DEF Parts, VaultsTyped
    <3>3. QED
      BY <3>1, <3>2
  <2>2. CASE ~Exists(d)
    BY <2>2 DEF Flush
  <2>3. QED
    BY <2>1, <2>2
<1>3. NetMade' /\ BusyMade' /\ Made' = Made
  BY <1>1, NothingMade DEF TombInv
<1>4. WaitingMade'
  <2>1. CASE RecordLocalEdit(d)
    BY <1>1, <2>1, RecordMade DEF Parts, TombInv
  <2>2. CASE UNCHANGED waiting
    BY <1>1, <2>2, NothingMade DEF TombInv
  <2>3. QED
    BY <1>1, <2>1, <2>2
<1>5. VaultsMade'
  BY <1>1, <1>2, <1>3 DEF TombInv, VaultsMade
<1>6. /\ \A e \in Device \ {d} : tomb'[e] = tomb[e] /\ pending'[e] = pending[e]
      /\ tomb'[d] = 0 \/ ~Exists(d) \/ (tomb'[d] = tomb[d] /\ file[d].content \in echo[d])
  BY <1>1 DEF ClearTombstone, Parts, VaultsTyped
<1>7. TombAgrees(d)'
  BY <1>1, <1>6 DEF TombInv, TombAgrees, Exists
<1>8. \A e \in Device : TombAgrees(e)'
  BY <1>1, <1>2, <1>6, <1>7, OthersAgree DEF TombInv
<1>9. QED
  BY <1>3, <1>4, <1>5, <1>8 DEF TombInv

LEMMA DeleteAgrees ==
    ASSUME Parts, TombInv, NEW d \in Device, NEW t \in Times, Delete(d, t)
    PROVE  TombInv'
<1>1. /\ busy[d] = {} /\ RecordLocalEdit(d)
      /\ file' = [file EXCEPT ![d] = NoFile]
      /\ tomb' = [tomb EXCEPT ![d] = t]
      /\ UNCHANGED <<pending, echo, net, busy, made>>
  BY DEF Delete
<1>2. /\ file'[d] = NoFile
      /\ \A e \in Device \ {d} : file'[e] = file[e] /\ tomb'[e] = tomb[e]
  BY <1>1 DEF Parts, VaultsTyped
<1>3. NetMade' /\ BusyMade' /\ WaitingMade' /\ Made' = Made
  BY <1>1, NothingMade, RecordMade DEF Parts, TombInv
<1>4. VaultsMade'
  BY <1>1, <1>2, <1>3 DEF TombInv, VaultsMade, NoFile
<1>5. TombAgrees(d)'
  BY <1>1, <1>2 DEF TombAgrees, Exists, NoFile
<1>6. \A e \in Device : TombAgrees(e)'
  BY <1>1, <1>2, <1>5, OthersAgree DEF TombInv
<1>7. QED
  BY <1>3, <1>4, <1>6 DEF TombInv

LEMMA ProcessAgrees ==
    ASSUME Parts, TombInv, NEW d \in Device, NEW t \in tasks[d], Process(d, t)
    PROVE  TombInv'
<1> DEFINE p == [to |-> t.to, msg |-> Built(d, t), alias |-> t.vector = {}, isTask |-> TRUE]
<1>1. /\ echo' = [echo EXCEPT ![d] = IF IsPlain(t) /\ Exists(d) THEN {} ELSE echo[d]]
      /\ \/ UNCHANGED <<net, waiting>>
         \/ ~Obsolete(d, t) /\ \E peer \in Receivers(d, t.to) : Transmit(d, p, peer)
      /\ UNCHANGED <<file, tomb, pending, busy, made>>
  BY DEF Process, Parts, VaultsTyped
<1>2. t.kind \in {"update", "delete"} /\ t.to \in Device \cup {Everyone}
  BY DEF Parts, TasksSound, SoundTask, Task
<1>3. p.msg.content \subseteq Made
  <2>1. Built(d, t).content \in {file[d].content, {}}
    BY DEF Built
  <2>2. QED
    BY <2>1 DEF TombInv, VaultsMade
<1>4. ASSUME ~Obsolete(d, t) PROVE p \in Payload
  BY <1>4, BuiltSound DEF SoundPayload
<1> HIDE DEF p
<1>5. WaitingMade' /\ NetMade'
  <2>1. CASE UNCHANGED <<net, waiting>>
    BY <1>1, <2>1, NothingMade DEF TombInv
  <2>2. CASE ~Obsolete(d, t) /\ \E peer \in Receivers(d, t.to) : Transmit(d, p, peer)
    <3>1. PICK peer \in Receivers(d, t.to) : Transmit(d, p, peer)
      BY <2>2
    <3>2. peer \in Device
      BY <1>2 DEF Receivers
    <3>3. QED
      BY <1>1, <1>3, <1>4, <2>2, <3>1, <3>2, TransmitMade DEF Parts, TombInv
  <2>3. QED
    BY <1>1, <2>1, <2>2
<1>6. BusyMade' /\ Made' = Made
  BY <1>1, NothingMade DEF TombInv
<1>7. \A e \in Device : echo'[e] \subseteq echo[e]
  BY <1>1 DEF Parts, VaultsTyped
<1>8. VaultsMade'
  BY <1>1, <1>6, <1>7 DEF TombInv, VaultsMade
<1>9. \A e \in Device : TombAgrees(e)'
  BY <1>1, <1>7 DEF TombInv, TombAgrees, Exists
<1>10. QED
  BY <1>5, <1>6, <1>8, <1>9 DEF TombInv

LEMMA ResendAgrees ==
    ASSUME Parts, TombInv, NEW d \in Device, NEW p \in waiting[d], Resend(d, p)
    PROVE  TombInv'
<1>1. UNCHANGED <<file, tomb, pending, echo, busy, made>>
  BY DEF Resend
<1>2. p \in Payload /\ p.to \in Device \cup {Everyone} /\ p.msg.content \subseteq Made
  BY DEF Parts, WaitingSound, SoundPayload, Payload, TombInv, WaitingMade
<1>3. WaitingMade' /\ NetMade'
  <2>1. CASE waiting' = [waiting EXCEPT ![d] = waiting[d] \ {p}] /\ UNCHANGED net
    <3>1. \A e \in Device : waiting'[e] \subseteq waiting[e]
      BY <2>1 DEF Parts, WaitingSound
    <3>2. QED
      BY <1>1, <2>1, <3>1, NothingMade DEF TombInv, WaitingMade
  <2>2. CASE \E peer \in Receivers(d, p.to) : Transmit(d, p, peer)
    <3>1. PICK peer \in Receivers(d, p.to) : Transmit(d, p, peer)
      BY <2>2
    <3>2. peer \in Device
      BY <1>2 DEF Receivers
    <3>3. QED
      BY <1>1, <1>2, <3>1, <3>2, TransmitMade DEF Parts, TombInv
  <2>3. QED
    BY <2>1, <2>2 DEF Resend
<1>4. VaultsMade' /\ BusyMade'
  BY <1>1, NothingMade DEF TombInv
<1>5. \A e \in Device : TombAgrees(e)'
  BY <1>1 DEF TombInv, TombAgrees, Exists
<1>6. QED
  BY <1>3, <1>4, <1>5 DEF TombInv

LEMMA DeliverAgrees ==
    ASSUME ChangesAreHeard, Parts, TombInv, NEW d \in Device, NEW from \in Device,
           NEW n \in DOMAIN net[<<from, d>>], Deliver(d, from, n)
    PROVE  TombInv'
<1> DEFINE m == net[<<from, d>>][n]
<1>1. /\ busy[d] = {} /\ ~pending[d]
      /\ net' = [net EXCEPT ![<<from, d>>] = RemoveAt(net[<<from, d>>], n)]
      /\ Apply(d, m)
      /\ UNCHANGED <<pending, made>>
  BY DEF Deliver, ChangesAreHeard
<1>2. net[<<from, d>>] \in Seq(SoundMessage) /\ net[<<from, d>>] \in Seq(MadeMessage)
  BY DEF Parts, NetSound, TombInv, NetMade
<1>3. m \in SoundMessage /\ m \in MadeMessage
  BY <1>2, LenProperties, ElementOfSeq
<1>4. RemoveAt(net[<<from, d>>], n) \in Seq(MadeMessage)
  BY <1>2, RemoveAtType
<1> HIDE DEF m
<1>5. Made' = Made /\ MadeMessage' = MadeMessage
  BY <1>1, NothingMade
<1>6. NetMade'
  BY <1>1, <1>4, <1>5 DEF TombInv, NetMade
<1>7. VectorEffect(d, m) /\ DecisionEffect(d, m) /\ VaultEffect(d, m)
  BY <1>1, <1>3, ApplyEffects
<1>8. WaitingMade'
  <2>1. CASE AdoptMerged(d, m)
    BY <1>1, <2>1, AdoptMade DEF AdoptMerged, Parts, TombInv
  <2>2. CASE UNCHANGED waiting
    BY <1>1, <2>2, NothingMade DEF TombInv
  <2>3. QED
    BY <1>7, <2>1, <2>2 DEF VectorEffect
<1>9. BusyMade' /\ \A e \in Device \ {d} : busy'[e] = busy[e]
  <2>1. CASE UNCHANGED busy
    BY <1>1, <2>1, NothingMade DEF TombInv
  <2>2. CASE \E copy \in SUBSET Edit : DecideToWrite(d, m, copy)
    <3>1. PICK copy \in SUBSET Edit : DecideToWrite(d, m, copy)
      BY <2>2
    <3>2. busy' = [busy EXCEPT ![d] =
                     {[msg |-> m, merged |-> MergeVectors(vv[d], m.vv), copy |-> copy]}]
      BY <3>1 DEF DecideToWrite
    <3>3. m.content \subseteq Made
      BY <1>3 DEF MadeMessage
    <3>4. QED
      BY <1>5, <3>2, <3>3 DEF TombInv, BusyMade, Parts, BusySound
  <2>3. QED
    BY <1>7, <2>1, <2>2 DEF DecisionEffect
<1>10. /\ VaultsMade'
       /\ \A e \in Device \ {d} :
            file'[e] = file[e] /\ tomb'[e] = tomb[e] /\ echo'[e] = echo[e]
  <2>1. m.content \subseteq Made
    BY <1>3 DEF MadeMessage
  <2>2. QED
    BY <1>5, <1>7, <2>1 DEF VaultEffect, VaultsMade, TombInv, NoFile, Parts, VaultsTyped
<1>11. TombAgrees(d)'
  <2>1. m.kind \in {"update", "delete"}
    BY <1>3, MessageFacts
  <2>2. CASE ~Exists(d)
    <3>1. UNCHANGED busy /\ (UNCHANGED file \/ ClearTombstone(d))
      BY <1>1, <2>1, <2>2 DEF Apply, ApplyDelete, ApplyToNothing
    <3>2. UNCHANGED file \/ tomb'[d] = 0
      BY <3>1 DEF ClearTombstone, Parts, VaultsTyped
    <3>3. QED
      BY <1>1, <2>2, <3>1, <3>2 DEF TombAgrees, Exists
  <2>3. CASE Exists(d)
    <3>1. tomb[d] = 0
      BY <1>1, <2>3 DEF TombInv, TombAgrees
    <3>2. \/ UNCHANGED <<file, tomb>>
          \/ file' = [file EXCEPT ![d] = NoFile] /\ UNCHANGED busy
      BY <1>1, <2>1, <2>3 DEF Apply, ApplyDelete, ApplyToFile
    <3>3. CASE UNCHANGED <<file, tomb>>
      BY <3>1, <3>3 DEF TombAgrees
    <3>4. CASE file' = [file EXCEPT ![d] = NoFile] /\ UNCHANGED busy
      <4>1. file'[d] = NoFile
        BY <3>4 DEF Parts, VaultsTyped
      <4>2. QED
        BY <1>1, <3>4, <4>1 DEF TombAgrees, Exists
    <3>5. QED
      BY <3>2, <3>3, <3>4
  <2>4. QED
    BY <2>2, <2>3
<1>12. \A e \in Device : TombAgrees(e)'
  BY <1>1, <1>9, <1>10, <1>11, OthersAgree DEF TombInv
<1>13. QED
  BY <1>6, <1>8, <1>9, <1>10, <1>12 DEF TombInv

LEMMA WriteAgrees ==
    ASSUME Parts, TombInv, NEW d \in Device, Write(d)
    PROVE  TombInv'
<1>1. PICK w \in busy[d] :
        /\ file' = [file EXCEPT ![d] = [content |-> w.msg.content, mtime |-> w.msg.mtime]]
        /\ echo' = [echo EXCEPT ![d] = {w.msg.content}]
        /\ AdoptVector(d, w.merged)
  BY DEF Write
<1>2. /\ busy' = [busy EXCEPT ![d] = {}]
      /\ \A e \in Device \ {d} : pending'[e] = pending[e]
      /\ UNCHANGED <<tomb, net, made>>
  BY DEF Write, Parts, VaultsTyped
<1>3. w.msg.content \subseteq Made /\ tomb[d] = 0
  BY DEF TombInv, BusyMade, TombAgrees
<1>4. NetMade' /\ WaitingMade' /\ Made' = Made
  BY <1>1, <1>2, NothingMade, AdoptMade DEF Parts, TombInv
<1>5. /\ file'[d].content = w.msg.content /\ echo'[d] = {w.msg.content} /\ busy'[d] = {}
      /\ \A e \in Device \ {d} : file'[e] = file[e] /\ echo'[e] = echo[e] /\ busy'[e] = busy[e]
  BY <1>1, <1>2 DEF Parts, VaultsTyped, BusySound
<1>6. VaultsMade' /\ BusyMade'
  BY <1>3, <1>4, <1>5 DEF TombInv, VaultsMade, BusyMade
<1>7. TombAgrees(d)'
  BY <1>2, <1>3, <1>5 DEF TombAgrees
<1>8. \A e \in Device : TombAgrees(e)'
  BY <1>2, <1>5, <1>7, OthersAgree DEF TombInv
<1>9. QED
  BY <1>4, <1>6, <1>8 DEF TombInv

-----------------------------------------------------------------------------

LEMMA InitAgrees == Init => TombInv
<1> SUFFICES ASSUME Init PROVE TombInv
  OBVIOUS
<1>1. VaultsMade /\ WaitingMade /\ BusyMade
  BY DEF Init, VaultsMade, WaitingMade, BusyMade, NoFile
<1>2. NetMade
  <2>1. <<>> \in Seq(MadeMessage)
    BY EmptySeq
  <2>2. QED
    BY <2>1 DEF Init, NetMade
<1>3. ASSUME NEW d \in Device PROVE TombAgrees(d)
  <2>1. tomb = [e \in Device |-> 0] /\ busy = [e \in Device |-> {}]
    BY Zenon DEF Init
  <2>2. tomb[d] = 0 /\ busy[d] = {}
    BY <2>1
  <2>3. QED
    BY <2>2 DEF TombAgrees
<1>4. QED
  BY <1>1, <1>2, <1>3 DEF TombInv

LEMMA NextAgrees ==
    ASSUME ChangesAreHeard, Parts, TombInv, [Next]_vars
    PROVE  TombInv'
<1>1. ASSUME NEW d \in Device, NEW t \in Times, Save(d, t) PROVE TombInv'
  BY <1>1, SaveAgrees
<1>2. ASSUME NEW d \in Device, NEW t \in Times, Delete(d, t) PROVE TombInv'
  BY <1>2, DeleteAgrees
<1>3. ASSUME NEW d \in Device, Flush(d) PROVE TombInv'
  BY <1>3, FlushAgrees
<1>4. ASSUME UNCHANGED <<file, tomb, pending, echo, waiting, net, busy, made>> PROVE TombInv'
  <2>1. VaultsMade' /\ WaitingMade' /\ NetMade' /\ BusyMade'
    BY <1>4, NothingMade DEF TombInv
  <2>2. QED
    BY <1>4, <2>1 DEF TombInv, TombAgrees, Exists
<1>5. ASSUME NEW d \in Device, MarkerExpires(d) PROVE TombInv'
  BY <1>4, <1>5 DEF MarkerExpires
<1>6. ASSUME NEW d \in Device, NEW p \in Device, CooldownExpires(d, p) PROVE TombInv'
  BY <1>4, <1>6 DEF CooldownExpires
<1>7. ASSUME NEW d \in Device, NEW t \in tasks[d], Process(d, t) PROVE TombInv'
  BY <1>7, ProcessAgrees
<1>8. ASSUME NEW d \in Device, NEW p \in waiting[d], Resend(d, p) PROVE TombInv'
  BY <1>8, ResendAgrees
<1>9. ASSUME NEW d \in Device, NEW from \in Device, NEW n \in DOMAIN net[<<from, d>>],
             Deliver(d, from, n)
      PROVE  TombInv'
  BY <1>9, DeliverAgrees
<1>10. ASSUME NEW d \in Device, Write(d) PROVE TombInv'
  BY <1>10, WriteAgrees
<1>11. CASE UNCHANGED vars
  BY <1>4, <1>11 DEF vars
<1>12. QED
  BY <1>1, <1>2, <1>3, <1>5, <1>6, <1>7, <1>8, <1>9, <1>10, <1>11 DEF Next

(* A device that holds the note advertises no deletion of it once its      *)
(* debounce has flushed, with any devices, clocks, lost acknowledgements   *)
(* and overtaking messages, and even if it saves while a write is on its   *)
(* way: as long as each save is overheard (shouldProcessEvent) and nothing *)
(* is applied while a change waits in the debounce                         *)
(* (handleFileModification).                                               *)
THEOREM NoStaleTombstone ==
    ASSUME ChangesAreHeard
    PROVE  Spec => []TombstoneOfTheDead
<1>1. Parts /\ TombInv => TombstoneOfTheDead
  BY DEF TombInv, TombAgrees, TombstoneOfTheDead
<1>2. Parts /\ TombInv /\ [Next]_vars => TombInv'
  BY NextAgrees
<1>3. QED
  BY InitAgrees, PartsInvariant, <1>1, <1>2, PTL DEF Spec
-----------------------------------------------------------------------------
(***************************************************************************)
(* Two devices.  Each step of one of them edits, announces, repeats or     *)
(* hears, or changes nothing the pair's invariant speaks of; the other one *)
(* stands by.                                                              *)
(***************************************************************************)
HIDE DeviceAssumption

\* A message says what a device has.
Says(s, x) == IsSaid(s) /\ s.c = x.c /\ s.t = x.t /\ s.own = x.own /\ s.other = x.other

\* What d does to the pair in a step of its own, while p stands by: nothing, an edit, an
\* edit or a deletion counted and announced, or the first message heard, with an answer
\* that says what d had or what it has now.
Rests(d, p) ==
    /\ Holding(d, p)' = Holding(d, p)
    /\ Flight(d, p)' = Flight(d, p) /\ Flight(p, d)' = Flight(p, d)
Types(d, p) ==
    /\ Flight(d, p)' = Flight(d, p) /\ Flight(p, d)' = Flight(p, d)
    /\ Edited(Holding(d, p), Holding(d, p)')
    /\ \A e : e \in Holding(d, p).c => e \in Holding(d, p)'.c
Reports(d, p) ==
    /\ Flight(p, d)' = Flight(p, d)
    /\ Announced(Holding(d, p), Holding(d, p)')
    /\ \E s : Says(s, Holding(d, p)') /\ Extends(Flight(d, p)', Flight(d, p), s)
    /\ \A e : e \in Holding(d, p).c => e \in Holding(d, p)'.c \/ IsSaved(e)'
Listens(d, p) ==
    /\ Len(Flight(p, d)) > 0 /\ Shifts(Flight(p, d)', Flight(p, d))
    /\ Heard(Holding(d, p), Flight(p, d)[1], Holding(d, p)', Lower(d, p))
    /\ \/ Flight(d, p)' = Flight(d, p)
       \/ \E s : /\ Extends(Flight(d, p)', Flight(d, p), s)
                /\ (Says(s, Holding(d, p)) \/ Says(s, Holding(d, p)'))
    /\ \A e : IsSaved(e)' \/ MayLose(e, Holding(d, p), Flight(p, d)[1], Holding(d, p)')
Turn(d, p) ==
    /\ Calm(d, p)' /\ Calm(p, d)' /\ Holding(p, d)' = Holding(p, d)
    /\ Rests(d, p) \/ Types(d, p) \/ Reports(d, p) \/ Listens(d, p)

LEMMA TurnPairs ==
    ASSUME NEW d, NEW p, PairInv(d, p), Turn(d, p)
    PROVE  PairInv(d, p)'
<1> DEFINE F == Flight(d, p)  G == Flight(p, d)  x == Holding(d, p)  y == Holding(p, d)
           E == Flight(d, p)'  H == Flight(p, d)'  z == Holding(d, p)'  low == Lower(d, p)
<1>1. Pair(F, G, x, y, low)
  BY DEF PairInv
<1>2. Holding(p, d)' = y
  BY DEF Turn
<1>3. Pair(E, H, z, y, low)
  <2>1. CASE Rests(d, p)
    BY <1>1, <2>1 DEF Rests
  <2>2. CASE Types(d, p)
    <3>1. Edited(x, z) /\ E = F /\ H = G
      BY <2>2 DEF Types
    <3> HIDE DEF F, G, x, y, E, H, z, low
    <3> QED BY <1>1, <3>1, Edits
  <2>3. CASE Reports(d, p)
    <3>1. PICK s : Says(s, z) /\ Extends(E, F, s)
      BY <2>3 DEF Reports
    <3>2. Announced(x, z) /\ H = G
      BY <2>3 DEF Reports
    <3> HIDE DEF F, G, x, y, E, H, z, low
    <3> QED BY <1>1, <3>1, <3>2, Announces DEF Says
  <2>4. CASE Listens(d, p)
    <3>1. /\ Len(G) > 0 /\ Shifts(H, G) /\ Heard(x, G[1], z, low)
          /\ E = F \/ \E s : Extends(E, F, s) /\ (Says(s, x) \/ Says(s, z))
      BY <2>4 DEF Listens
    <3> HIDE DEF F, G, x, y, E, H, z, low
    <3>2. ~x.q /\ ~z.q
      BY <3>1 DEF Heard
    <3>3. Pair(F, H, z, y, low)
      BY <1>1, <3>1, Hears
    <3>4. ASSUME NEW s, Extends(E, F, s), Says(s, x) PROVE Pair(E, H, z, y, low)
      <4>1. Pair(E, G, x, y, low)
        BY <1>1, <3>2, <3>4, Repeats DEF Says
      <4> QED BY <3>1, <4>1, Hears
    <3>5. ASSUME NEW s, Extends(E, F, s), Says(s, z) PROVE Pair(E, H, z, y, low)
      BY <3>2, <3>3, <3>5, Repeats DEF Says
    <3> QED BY <3>1, <3>3, <3>4, <3>5
  <2> QED BY <2>1, <2>2, <2>3, <2>4 DEF Turn
<1> QED BY <1>2, <1>3 DEF PairInv, Turn, Lower

LEMMA TurnOnTime ==
    ASSUME NEW d, NEW p, PairInv(d, p), Turn(d, p),
           OnTime(Flight(d, p), Flight(p, d), Holding(d, p), Holding(p, d))
    PROVE  OnTime(Flight(d, p)', Flight(p, d)', Holding(d, p)', Holding(p, d)')
<1> DEFINE F == Flight(d, p)  G == Flight(p, d)  x == Holding(d, p)  y == Holding(p, d)
           E == Flight(d, p)'  H == Flight(p, d)'  z == Holding(d, p)'  low == Lower(d, p)
<1>1. Pair(F, G, x, y, low) /\ OnTime(F, G, x, y)
  BY DEF PairInv
<1>2. Holding(p, d)' = y
  BY DEF Turn
<1>3. OnTime(E, H, z, y)
  <2>1. CASE Rests(d, p)
    BY <1>1, <2>1 DEF Rests
  <2>2. CASE Types(d, p)
    <3>1. Edited(x, z) /\ E = F /\ H = G
      BY <2>2 DEF Types
    <3> HIDE DEF F, G, x, y, E, H, z, low
    <3> QED BY <1>1, <3>1, EditsOnTime
  <2>3. CASE Reports(d, p)
    <3>1. PICK s : Says(s, z) /\ Extends(E, F, s)
      BY <2>3 DEF Reports
    <3>2. Announced(x, z) /\ H = G
      BY <2>3 DEF Reports
    <3> HIDE DEF F, G, x, y, E, H, z, low
    <3> QED BY <1>1, <3>1, <3>2, AnnouncesOnTime DEF Says
  <2>4. CASE Listens(d, p)
    <3>1. /\ Len(G) > 0 /\ Shifts(H, G) /\ Heard(x, G[1], z, low)
          /\ E = F \/ \E s : Extends(E, F, s) /\ (Says(s, x) \/ Says(s, z))
      BY <2>4 DEF Listens
    <3> HIDE DEF F, G, x, y, E, H, z, low
    <3>2. ~x.q /\ ~z.q
      BY <3>1 DEF Heard
    <3>3. Pair(F, H, z, y, low) /\ OnTime(F, H, z, y)
      BY <1>1, <3>1, Hears, HearsOnTime
    <3>4. ASSUME NEW s, Extends(E, F, s), Says(s, x) PROVE OnTime(E, H, z, y)
      <4>1. Pair(E, G, x, y, low)
        BY <1>1, <3>2, <3>4, Repeats DEF Says
      <4>2. OnTime(E, G, x, y)
        BY <1>1, <3>2, <3>4, RepeatsOnTime DEF Says
      <4> QED BY <3>1, <4>1, <4>2, HearsOnTime
    <3>5. ASSUME NEW s, Extends(E, F, s), Says(s, z) PROVE OnTime(E, H, z, y)
      BY <3>2, <3>3, <3>5, RepeatsOnTime DEF Says
    <3> QED BY <3>1, <3>3, <3>4, <3>5
  <2> QED BY <2>1, <2>2, <2>3, <2>4 DEF Turn
<1> QED BY <1>2, <1>3

LEMMA TurnSpares ==
    ASSUME NEW d, NEW p, PairInv(d, p), Turn(d, p),
           OnTime(Flight(d, p), Flight(p, d), Holding(d, p), Holding(p, d)),
           NEW e, ~IsSaved(e)',
           Sparing(e, Flight(d, p), Flight(p, d), Holding(d, p), Holding(p, d), Lower(d, p))
    PROVE  /\ Sparing(e, Flight(d, p)', Flight(p, d)', Holding(d, p)', Holding(p, d)', Lower(d, p))
           /\ e \in Holding(d, p).c => e \in Holding(d, p)'.c
<1> DEFINE F == Flight(d, p)  G == Flight(p, d)  x == Holding(d, p)  y == Holding(p, d)
           E == Flight(d, p)'  H == Flight(p, d)'  z == Holding(d, p)'  low == Lower(d, p)
<1>1. Pair(F, G, x, y, low) /\ OnTime(F, G, x, y) /\ Sparing(e, F, G, x, y, low)
  BY DEF PairInv
<1>2. Holding(p, d)' = y
  BY DEF Turn
<1>3. Sparing(e, E, H, z, y, low) /\ (e \in x.c => e \in z.c)
  <2>1. CASE Rests(d, p)
    BY <1>1, <2>1 DEF Rests
  <2>2. CASE Types(d, p)
    <3>1. Edited(x, z) /\ E = F /\ H = G /\ (e \in x.c => e \in z.c)
      BY <2>2 DEF Types
    <3> HIDE DEF F, G, x, y, E, H, z, low
    <3> QED BY <1>1, <3>1, EditsSpare
  <2>3. CASE Reports(d, p)
    <3>1. PICK s : Says(s, z) /\ Extends(E, F, s)
      BY <2>3 DEF Reports
    <3>2. Announced(x, z) /\ H = G /\ (e \in x.c => e \in z.c)
      BY <2>3 DEF Reports
    <3> HIDE DEF F, G, x, y, E, H, z, low
    <3> QED BY <1>1, <3>1, <3>2, AnnouncesSparing DEF Says
  <2>4. CASE Listens(d, p)
    <3>1. /\ Len(G) > 0 /\ Shifts(H, G) /\ Heard(x, G[1], z, low)
          /\ E = F \/ \E s : Extends(E, F, s) /\ (Says(s, x) \/ Says(s, z))
          /\ MayLose(e, x, G[1], z)
      BY <2>4 DEF Listens
    <3> HIDE DEF F, G, x, y, E, H, z, low
    <3>2. ~x.q /\ ~z.q
      BY <3>1 DEF Heard
    <3>3. /\ Pair(F, H, z, y, low) /\ Sparing(e, F, H, z, y, low)
          /\ e \in x.c => e \in z.c
      BY <1>1, <3>1, Hears, HearsSparing
    <3>4. ASSUME NEW s, Extends(E, F, s), Says(s, x) PROVE Sparing(e, E, H, z, y, low)
      <4>1. Pair(E, G, x, y, low)
        BY <1>1, <3>2, <3>4, Repeats DEF Says
      <4>2. OnTime(E, G, x, y) /\ Sparing(e, E, G, x, y, low)
        BY <1>1, <3>2, <3>4, RepeatsOnTime, RepeatsSparing DEF Says
      <4> QED BY <3>1, <4>1, <4>2, HearsSparing
    <3>5. ASSUME NEW s, Extends(E, F, s), Says(s, z) PROVE Sparing(e, E, H, z, y, low)
      BY <3>3, <3>5, RepeatsSparing DEF Says
    <3> QED BY <3>1, <3>3, <3>4, <3>5
  <2> QED BY <2>1, <2>2, <2>3, <2>4 DEF Turn
<1> QED BY <1>2, <1>3

LEMMA PairInvMirrors ==
    ASSUME NEW d \in Device, NEW p \in Device, d # p, PairInv(d, p)
    PROVE  PairInv(p, d)
<1> DEFINE F == Flight(d, p)  G == Flight(p, d)  x == Holding(d, p)  y == Holding(p, d)
           low == Lower(d, p)  high == Lower(p, d)
<1>1. low \in BOOLEAN /\ (~low) = high
  BY DeviceAssumption DEF Lower
<1>2. Pair(F, G, x, y, low)
  BY DEF PairInv
<1> HIDE DEF F, G, x, y, low, high
<1>3. Pair(G, F, y, x, ~low)
  BY <1>2, PairMirrors
<1>4. Pair(G, F, y, x, high)
  BY <1>1, <1>3, Zenon
<1> QED BY <1>4 DEF PairInv, F, G, x, y, high

-----------------------------------------------------------------------------
(* Messages and the versions they say.                                     *)

LEMMA ItemsLength ==
    ASSUME NEW S, NEW s \in Seq(S), NEW d, NEW p
    PROVE  /\ Len(Items(s, d, p)) = Len(s) /\ Len(s) \in Nat
           /\ \A i \in 1 .. Len(s) : Items(s, d, p)[i] = Item(s[i], d, p)
<1>1. Len(s) \in Nat BY LenProperties
<1> QED BY <1>1 DEF Items

LEMMA ItemsExtend ==
    ASSUME NEW S, NEW s \in Seq(S), NEW m \in S, NEW d, NEW p
    PROVE  Extends(Items(Append(s, m), d, p), Items(s, d, p), Item(m, d, p))
<1>1. /\ Append(s, m) \in Seq(S) /\ Len(Append(s, m)) = Len(s) + 1 /\ Len(s) \in Nat
      /\ Append(s, m)[Len(s) + 1] = m /\ \A i \in 1 .. Len(s) : Append(s, m)[i] = s[i]
  BY AppendProperties, LenProperties
<1>2. /\ Len(Items(s, d, p)) = Len(s)
      /\ \A i \in 1 .. Len(s) : Items(s, d, p)[i] = Item(s[i], d, p)
  BY ItemsLength
<1> DEFINE r == Append(s, m)
<1> HIDE DEF r
<1>3. /\ Len(Items(r, d, p)) = Len(r)
      /\ \A i \in 1 .. Len(r) : Items(r, d, p)[i] = Item(r[i], d, p)
  <2>1. r \in Seq(S)
    BY <1>1 DEF r
  <2> QED BY <2>1, ItemsLength
<1>4. Extends(Items(r, d, p), Items(s, d, p), Item(m, d, p))
  BY <1>1, <1>2, <1>3 DEF Extends, r
<1> QED BY <1>4 DEF r

LEMMA FirstRemoved ==
    ASSUME NEW S, NEW s \in Seq(S), 1 \in DOMAIN s
    PROVE  /\ RemoveAt(s, 1) \in Seq(S) /\ Len(s) \in Nat /\ Len(s) > 0 /\ Len(RemoveAt(s, 1)) = Len(s) - 1
           /\ \A i \in 1 .. Len(s) - 1 : RemoveAt(s, 1)[i] = s[i + 1]
<1>1. 1 \in 1 .. Len(s) /\ Len(s) \in Nat /\ Len(s) \in 1 .. Len(s)
  BY LenProperties
<1>2. RemoveAt(s, 1) \in Seq(S)
  BY RemoveAtType
<1>3. RemoveAt(s, 1) = SubSeq(s, 1, 0) \o SubSeq(s, 2, Len(s))
  BY DEF RemoveAt
<1>4. \A i \in 1 .. Len(s) : s[i] \in S
  BY ElementOfSeq
<1>5. SubSeq(s, 1, 0) = <<>>
  BY <1>1, SubSeqEmpty
<1> DEFINE u == SubSeq(s, 2, Len(s))
<1>6. /\ u \in Seq(S) /\ Len(u) = Len(s) - 1
      /\ \A i \in 1 .. Len(s) - 1 : u[i] = s[i + 1]
  <2>1. \A i \in 2 .. Len(s) : s[i] \in S
    BY <1>1, <1>4
  <2>2. /\ u \in Seq(S)
        /\ Len(u) = IF 2 <= Len(s) THEN Len(s) - 2 + 1 ELSE 0
        /\ \A i \in 1 .. Len(s) - 2 + 1 : u[i] = s[2 + i - 1]
    BY <1>1, <2>1, SubSeqProperties DEF u
  <2> HIDE DEF u
  <2>3. ASSUME NEW i \in 1 .. Len(s) - 1 PROVE u[i] = s[i + 1]
    <3>1. i \in 1 .. Len(s) - 2 + 1 /\ 2 + i - 1 = i + 1
      BY <1>1
    <3> QED BY <2>2, <3>1
  <2>4. Len(u) = Len(s) - 1
    <3>1. ASSUME NEW n \in Nat, n > 0, Len(u) = IF 2 <= n THEN n - 2 + 1 ELSE 0
          PROVE  Len(u) = n - 1
      BY <3>1
    <3>2. Len(s) \in Nat /\ Len(s) > 0
      BY <1>1
    <3> QED BY <2>2, <3>1, <3>2
  <2> QED BY <2>2, <2>3, <2>4
<1>7. RemoveAt(s, 1) = SubSeq(s, 2, Len(s))
  BY <1>3, <1>5, <1>6, ConcatEmptySeq
<1> QED BY <1>1, <1>2, <1>6, <1>7

LEMMA ItemsShift ==
    ASSUME NEW S, NEW s \in Seq(S), 1 \in DOMAIN s, NEW m \in S, NEW d, NEW p
    PROVE  /\ Shifts(Items(RemoveAt(s, 1), d, p), Items(s, d, p))
           /\ Shifts(Items(Append(RemoveAt(s, 1), m), d, p), Items(Append(s, m), d, p))
<1> DEFINE r == RemoveAt(s, 1)
<1>1. /\ r \in Seq(S) /\ Len(s) \in Nat /\ Len(s) > 0 /\ Len(r) = Len(s) - 1
      /\ \A i \in 1 .. Len(s) - 1 : r[i] = s[i + 1]
  BY FirstRemoved
<1> HIDE DEF r
<1> DEFINE sm == Append(s, m)  rm == Append(r, m)
<1>2. /\ Len(sm) = Len(s) + 1 /\ sm \in Seq(S)
      /\ sm[Len(s) + 1] = m /\ \A i \in 1 .. Len(s) : sm[i] = s[i]
      /\ Len(rm) = Len(r) + 1 /\ rm \in Seq(S)
      /\ rm[Len(r) + 1] = m /\ \A i \in 1 .. Len(r) : rm[i] = r[i]
  BY <1>1, AppendProperties
<1> HIDE DEF sm, rm
<1>3. Shifts(Items(r, d, p), Items(s, d, p))
  <2>1. /\ Len(Items(s, d, p)) = Len(s) /\ Len(Items(r, d, p)) = Len(r)
        /\ \A i \in 1 .. Len(s) : Items(s, d, p)[i] = Item(s[i], d, p)
        /\ \A i \in 1 .. Len(r) : Items(r, d, p)[i] = Item(r[i], d, p)
    BY <1>1, ItemsLength
  <2> QED BY <1>1, <2>1 DEF Shifts
<1>4. Shifts(Items(rm, d, p), Items(sm, d, p))
  <2>1. /\ Len(Items(sm, d, p)) = Len(s) + 1 /\ Len(Items(rm, d, p)) = Len(s)
        /\ \A i \in 1 .. Len(s) + 1 : Items(sm, d, p)[i] = Item(sm[i], d, p)
        /\ \A i \in 1 .. Len(s) : Items(rm, d, p)[i] = Item(rm[i], d, p)
    BY <1>1, <1>2, ItemsLength
  <2>2. \A i \in 1 .. Len(s) : rm[i] = sm[i + 1]
    BY <1>1, <1>2
  <2> QED BY <1>1, <2>1, <2>2 DEF Shifts
<1> QED BY <1>3, <1>4 DEF r, sm, rm

-----------------------------------------------------------------------------
(* The device that does not act.                                           *)

LEMMA BystanderHolds ==
    ASSUME NEW d, NEW p, file'[p] = file[p], tomb'[p] = tomb[p], pending'[p] = pending[p],
           echo'[p] = echo[p],
           tasks'[p] = tasks[p], waiting'[p] = waiting[p], busy'[p] = busy[p], vv'[p] = vv[p]
    PROVE  /\ Holding(p, d)' = Holding(p, d) /\ TheTask(p)' = TheTask(p)
           /\ \A t : Built(p, t)' = Built(p, t) /\ (Sendable(p, t, d)' <=> Sendable(p, t, d))
           /\ Exists(p)' <=> Exists(p)
<1>1. Exists(p)' = Exists(p) /\ Uncounted(p)' = Uncounted(p) /\ LastChange(p)' = LastChange(p)
  BY Zenon DEF Exists, Uncounted, LastChange
<1>2. TheDecision(p)' = TheDecision(p) /\ TheTask(p)' = TheTask(p)
  BY DEF TheDecision, TheTask
<1>3. Holding(p, d)' = Holding(p, d)
  BY <1>1, <1>2, Zenon DEF Holding
<1>4. \A t : Built(p, t)' = Built(p, t)
  BY DEF Built
<1>5. \A t : Sendable(p, t, d)' <=> Sendable(p, t, d)
  BY <1>1 DEF Sendable
<1> QED BY <1>1, <1>2, <1>3, <1>4, <1>5

LEMMA Bystander ==
    ASSUME NEW d, NEW p, file'[p] = file[p], tomb'[p] = tomb[p], pending'[p] = pending[p],
           echo'[p] = echo[p],
           tasks'[p] = tasks[p], waiting'[p] = waiting[p], busy'[p] = busy[p], vv'[p] = vv[p],
           net'[<<p, d>>] = net[<<p, d>>], net'[<<p, p>>] = net[<<p, p>>], Calm(p, d)
    PROVE  Holding(p, d)' = Holding(p, d) /\ Flight(p, d)' = Flight(p, d) /\ Calm(p, d)'
<1>1. /\ Holding(p, d)' = Holding(p, d) /\ TheTask(p)' = TheTask(p)
      /\ \A t : Built(p, t)' = Built(p, t) /\ (Sendable(p, t, d)' <=> Sendable(p, t, d))
      /\ Exists(p)' <=> Exists(p)
  BY BystanderHolds
<1>2. Outgoing(p, d)' = Outgoing(p, d)
  BY <1>1 DEF Outgoing
<1>3. Flight(p, d)' = Flight(p, d)
  BY <1>2 DEF Flight
<1>4. Calm(p, d)'
  BY <1>1 DEF Calm
<1> QED BY <1>1, <1>3, <1>4


-----------------------------------------------------------------------------
(* Of two versions that count no more of the other side's edits than that  *)
(* side does, newerVersion and pickVersion choose as Takes says.           *)

LEMMA ChoiceOfTwo ==
    ASSUME NEW d \in Device, NEW p \in Device, d # p, Device = {d, p},
           NEW a \in VersionInfo, NEW b \in VersionInfo,
           b.vv[p] <= a.vv[p], a.vv[d] <= b.vv[d], a.vv # b.vv
    PROVE  /\ CompareVectors(a.vv, b.vv) = "after" <=> a.vv[d] = b.vv[d]
           /\ CompareVectors(a.vv, b.vv) = "before" <=> a.vv[p] = b.vv[p]
           /\ CompareVectors(a.vv, b.vv) # "equal"
           /\ CompareVectors(a.vv, b.vv) = "concurrent"
              => (NewerIsFirst(a, b) <=> Beats(a.mtime, b.mtime, Lower(p, d)))
           /\ PickIsFirst(a, b)
              <=> a.vv[p] > b.vv[p] /\ (a.vv[d] = b.vv[d] \/ Beats(a.mtime, b.mtime, Lower(p, d)))
<1>1. /\ a.vv \in Vector /\ b.vv \in Vector /\ a.mtime \in Nat /\ b.mtime \in Nat
      /\ a.vv[d] \in Nat /\ a.vv[p] \in Nat /\ b.vv[d] \in Nat /\ b.vv[p] \in Nat
      /\ d \in Nat /\ p \in Nat
  BY DeviceAssumption DEF VersionInfo, Vector
<1>2. ~(a.vv[d] = b.vv[d] /\ a.vv[p] = b.vv[p])
  BY <1>1 DEF Vector
<1>3. Includes(a.vv, b.vv) <=> a.vv[d] = b.vv[d]
  BY <1>1 DEF Includes
<1>4. Includes(b.vv, a.vv) <=> a.vv[p] = b.vv[p]
  BY <1>1 DEF Includes
<1>5. /\ CompareVectors(a.vv, b.vv) = "after" <=> a.vv[d] = b.vv[d]
      /\ CompareVectors(a.vv, b.vv) = "before" <=> a.vv[p] = b.vv[p]
      /\ CompareVectors(a.vv, b.vv) # "equal"
      /\ CompareVectors(a.vv, b.vv) \in {"after", "before", "concurrent"}
  BY <1>2, <1>3, <1>4 DEF CompareVectors
<1>6. ASSUME a.vv[d] # b.vv[d], a.vv[p] # b.vv[p]
      PROVE  NewerIsFirst(a, b) <=> Beats(a.mtime, b.mtime, Lower(p, d))
  <2>1. UnseenEdits(a.vv, b.vv) = {p} /\ UnseenEdits(b.vv, a.vv) = {d}
    BY <1>1, <1>6 DEF UnseenEdits
  <2>2. LowerFirst({p}, {d}) <=> Lower(p, d)
    BY DEF LowerFirst, Lower
  <2> QED BY <1>1, <2>1, <2>2 DEF NewerIsFirst, Beats
<1>7. CompareVectors(a.vv, b.vv) = "concurrent" <=> a.vv[d] # b.vv[d] /\ a.vv[p] # b.vv[p]
  BY <1>5
<1>8. PickIsFirst(a, b)
      <=> a.vv[p] > b.vv[p] /\ (a.vv[d] = b.vv[d] \/ Beats(a.mtime, b.mtime, Lower(p, d)))
  <2>1. PickIsFirst(a, b) <=> \/ a.vv[d] = b.vv[d]
                              \/ a.vv[d] # b.vv[d] /\ a.vv[p] # b.vv[p] /\ NewerIsFirst(a, b)
    BY <1>5, <1>7 DEF PickIsFirst
  <2>2. a.vv[d] = b.vv[d] => a.vv[p] > b.vv[p]
    BY <1>1, <1>2
  <2>3. a.vv[p] # b.vv[p] <=> a.vv[p] > b.vv[p]
    BY <1>1
  <2> QED BY <2>1, <2>2, <2>3, <1>6
<1> QED BY <1>5, <1>6, <1>7, <1>8

\* A note and a tombstone bear times of the clocks.
LEMMA NoteTimes ==
    ASSUME Parts, NEW d \in Device
    PROVE  /\ file[d].content \subseteq Edit /\ file[d].mtime \in Nat
           /\ Exists(d) <=> file[d].content # {}
           /\ Exists(d) <=> file[d].mtime # 0
           /\ Exists(d) <=> file[d].mtime \in Times
           /\ LastChange(d) \in Nat /\ (LastChange(d) = 0 <=> ~Exists(d) /\ tomb[d] = 0)
           /\ (LastChange(d) # 0 => LastChange(d) \in Times)
<1>1. file[d] \in Note \cup {NoFile} /\ tomb[d] \in Times \cup {0} /\ Times \subseteq Nat \ {0}
  BY DEF Parts, VaultsTyped
<1>2. CASE file[d] = NoFile
  <2>1. file[d].content = {} /\ file[d].mtime = 0 /\ ~Exists(d)
    BY <1>2 DEF NoFile, Exists
  <2>2. LastChange(d) = tomb[d]
    BY <2>1 DEF LastChange
  <2>3. /\ 0 \notin Times
        /\ tomb[d] \in Nat
        /\ tomb[d] # 0 => tomb[d] \in Times
    <3>1. 0 \notin Times
      BY <1>1
    <3>2. tomb[d] # 0 => tomb[d] \in Times
      BY <1>1
    <3>3. tomb[d] \in Nat
      <4>1. CASE tomb[d] = 0
        BY <4>1
      <4>2. CASE tomb[d] \in Times
        BY <1>1, <4>2
      <4> QED BY <3>2, <4>1, <4>2
    <3> QED BY <3>1, <3>2, <3>3
  <2> QED BY <2>1, <2>2, <2>3
<1>3. CASE file[d] # NoFile
  <2>1. file[d].content \in Content /\ file[d].mtime \in Times
    BY <1>1, <1>3 DEF Note
  <2>2. Exists(d) /\ LastChange(d) = file[d].mtime
    BY <1>3 DEF Exists, LastChange
  <2> QED BY <1>1, <2>1, <2>2 DEF Content
<1> QED BY <1>2, <1>3


-----------------------------------------------------------------------------
(* The user's changes, and what the send side does.                        *)

LEMMA SaveTurns ==
    ASSUME Benign, Parts, TombInv, NEW d \in Device, NEW p \in Device, d # p,
           PairInv(d, p), NEW t \in Times, Save(d, t)
    PROVE  Turn(d, p)
<1> DEFINE note == [content |-> file[d].content \cup {made + 1}, mtime |-> t]
<1>1. /\ file' = [file EXCEPT ![d] = note]
      /\ pending' = [pending EXCEPT ![d] = TRUE]
      /\ UNCHANGED <<vv, tomb, echo, tasks, waiting, net, busy>>
      /\ tasks[d] = {} /\ t > LastChange(d)
  BY DEF Save, Benign, Unhurried, Timely, Parts, VaultsTyped
<1>2. /\ file'[d] = note /\ pending'[d] /\ file'[p] = file[p] /\ pending'[p] = pending[p]
  BY <1>1 DEF Parts, VaultsTyped
<1>3. Holding(p, d)' = Holding(p, d) /\ Flight(p, d)' = Flight(p, d) /\ Calm(p, d)'
  BY <1>1, <1>2, Bystander DEF PairInv
<1>4. Flight(d, p)' = Flight(d, p)
  BY <1>1 DEF Flight, Outgoing
<1>5. t \in Nat \ {0} /\ Exists(d)' /\ LastChange(d)' = t
  <2>1. t \in Nat \ {0}
    OBVIOUS
  <2>2. file'[d].mtime = t
    BY <1>2
  <2>3. Exists(d)'
    BY <2>1, <2>2 DEF Exists, NoFile
  <2> QED BY <2>1, <2>2, <2>3 DEF LastChange
<1>6. Calm(d, p)'
  BY <1>1, <1>5 DEF PairInv, Calm
<1>7. Rests(d, p) \/ Types(d, p)
  <2>1. CASE busy[d] # {}
    <3>1. Holding(d, p)' = Holding(d, p)
      BY <1>1, <2>1 DEF Holding, TheDecision
    <3> QED BY <1>3, <1>4, <3>1 DEF Rests
  <2>2. CASE busy[d] = {}
    <3>1. made + 1 \in note.content /\ \A c \in echo[d] : made + 1 \notin c
      BY DEF TombInv, VaultsMade, Made, Parts, HistoryTyped
    <3>2. Uncounted(d)'
      BY <1>1, <1>2, <1>5, <3>1 DEF Uncounted
    <3>3. Holding(d, p)' = [c |-> note.content, t |-> t, q |-> TRUE, own |-> vv[d][d], other |-> vv[d][p]]
      BY <1>1, <1>2, <1>5, <2>2, <3>2 DEF Holding
    <3>4. /\ Holding(d, p).t = LastChange(d) /\ Holding(d, p).own = vv[d][d]
          /\ Holding(d, p).other = vv[d][p]
      BY <2>2 DEF Holding
    <3>5. vv[d][d] \in Nat /\ vv[d][p] \in Nat
      BY DEF Parts, VectorsSound, Vector
    <3>6. note.content # {}
      BY <3>1
    <3>7. \A e : e \in Holding(d, p).c => e \in Holding(d, p)'.c
      <4>1. Holding(d, p).c = file[d].content
        BY <2>2 DEF Holding
      <4> QED BY <3>3, <4>1
    <3> HIDE DEF note
    <3>8. Edited(Holding(d, p), Holding(d, p)')
      BY <1>1, <1>5, <3>3, <3>4, <3>5, <3>6 DEF Edited, IsSide
    <3> QED BY <1>3, <1>4, <3>8, <3>7 DEF Types
  <2> QED BY <2>1, <2>2
<1> QED BY <1>3, <1>6, <1>7 DEF Turn

LEMMA FlightGrows ==
    ASSUME Parts, NEW d \in Device, NEW p \in Device, NEW m \in Message, tasks[d] = {},
           net'[<<d, p>>] = net[<<d, p>>], NEW t, tasks'[d] = {t}, Built(d, t)' = m
    PROVE  Extends(Flight(d, p)', Flight(d, p), Item(m, d, p))
<1>1. net[<<d, p>>] \in Seq(Message)
  <2>1. net[<<d, p>>] \in Seq(SoundMessage) /\ SoundMessage \subseteq Message
    BY DEF Parts, NetSound, SoundMessage
  <2> QED BY <2>1, SeqMonotonic
<1>2. Outgoing(d, p) = net[<<d, p>>]
  BY DEF Outgoing
<1>3. TheTask(d)' = t
  BY DEF TheTask
<1>4. Outgoing(d, p)' = Append(net[<<d, p>>], m)
  BY <1>3 DEF Outgoing
<1> QED BY <1>1, <1>2, <1>4, ItemsExtend DEF Flight

LEMMA FlushTurns ==
    ASSUME Benign, Parts, NEW d \in Device, NEW p \in Device, d # p,
           PairInv(d, p), Flush(d)
    PROVE  Turn(d, p)
<1>1. /\ pending[d] /\ busy[d] = {} /\ tasks[d] = {} /\ waiting[d] = {}
      /\ pending' = [pending EXCEPT ![d] = FALSE]
      /\ UNCHANGED <<file, net, busy>>
  BY DEF Flush, Unhurried, Benign, PairInv, Calm
<1>2. /\ pending'[d] = FALSE /\ pending'[p] = pending[p] /\ echo'[p] = echo[p]
      /\ Exists(d) => echo'[d] = {}
  <2>1. \/ Exists(d) /\ echo' = [echo EXCEPT ![d] = {}]
        \/ ~Exists(d) /\ echo' = echo
    BY DEF Flush
  <2> QED BY <1>1, <2>1 DEF Parts, VaultsTyped
<1>3. CASE ~Uncounted(d)
  <2>1. UNCHANGED <<vv, waiting, tomb, tasks>>
    BY <1>1, <1>3 DEF Flush, Uncounted
  <2>2. Holding(p, d)' = Holding(p, d) /\ Flight(p, d)' = Flight(p, d) /\ Calm(p, d)'
    BY <1>1, <1>2, <2>1, Bystander DEF PairInv
  <2>3. Flight(d, p)' = Flight(d, p) /\ Calm(d, p)'
    BY <1>1, <2>1 DEF Flight, Outgoing, PairInv, Calm, Exists
  <2>4. Holding(d, p)' = Holding(d, p)
    <3>1. Uncounted(d)' = FALSE /\ Uncounted(d) = FALSE
      BY <1>2, <1>3 DEF Uncounted
    <3>2. LastChange(d)' = LastChange(d)
      BY <1>1, <2>1 DEF LastChange, Exists
    <3> QED BY <1>1, <2>1, <3>1, <3>2, Zenon DEF Holding
  <2> QED BY <2>2, <2>3, <2>4 DEF Turn, Rests
<1>4. CASE Uncounted(d)
  <2>1. /\ Exists(d) /\ vv' = [vv EXCEPT ![d] = Incremented(vv[d], d)]
        /\ waiting' = [waiting EXCEPT ![d] = {}]
        /\ tomb' = [tomb EXCEPT ![d] = 0] /\ tasks' = [tasks EXCEPT ![d] = {SendUpdate}]
    BY <1>1, <1>4 DEF Flush, Uncounted, RecordLocalEdit, ClearTombstone, Queue
  <2>2. /\ vv'[p] = vv[p] /\ waiting'[p] = waiting[p] /\ tomb'[p] = tomb[p] /\ tasks'[p] = tasks[p]
        /\ waiting'[d] = {} /\ tomb'[d] = 0 /\ tasks'[d] = {SendUpdate}
        /\ vv[d] \in Vector /\ vv'[d] \in Vector
        /\ vv'[d][d] = vv[d][d] + 1 /\ vv'[d][p] = vv[d][p]
    BY <2>1 DEF Parts, VaultsTyped, WaitingSound, TasksSound, VectorsSound, SoundVector,
       Vector, Incremented
  <2>3. Holding(p, d)' = Holding(p, d) /\ Flight(p, d)' = Flight(p, d) /\ Calm(p, d)'
    BY <1>1, <1>2, <2>2, Bystander DEF PairInv
  <2>4. Sendable(d, SendUpdate, p)' /\ Exists(d)'
    BY <1>1, <1>2, <2>1 DEF Sendable, SendUpdate, Exists
  <2>5. Calm(d, p)'
    BY <1>1, <2>2, <2>4 DEF PairInv, Calm
  <2> DEFINE m == [kind |-> "update", from |-> d, content |-> file[d].content,
                   mtime |-> file[d].mtime, vv |-> vv'[d]]
  <2>6. file[d].content \in Content /\ file[d].mtime \in Times
    BY <2>1 DEF Parts, VaultsTyped, Exists, Note
  <2>7. m \in Message /\ Built(d, SendUpdate)' = m
    BY <1>1, <2>2, <2>6 DEF Message, Update, Built, SendUpdate
  <2>8. Extends(Flight(d, p)', Flight(d, p), Item(m, d, p))
    BY <1>1, <2>2, <2>7, FlightGrows
  <2>9. Uncounted(d)' = FALSE /\ LastChange(d)' = file[d].mtime /\ LastChange(d) = file[d].mtime
    BY <1>1, <1>2, <2>1, <2>4 DEF Uncounted, LastChange
  <2>10. Holding(d, p)' = [c |-> file[d].content, t |-> file[d].mtime, q |-> FALSE,
                           own |-> vv[d][d] + 1, other |-> vv[d][p]]
    BY <1>1, <2>2, <2>9 DEF Holding
  <2>11. /\ Holding(d, p).c = file[d].content /\ Holding(d, p).t = file[d].mtime
         /\ Holding(d, p).q /\ Holding(d, p).own = vv[d][d] /\ Holding(d, p).other = vv[d][p]
    BY <1>1, <1>4, <2>9 DEF Holding
  <2>12. /\ Item(m, d, p).c = file[d].content /\ Item(m, d, p).t = file[d].mtime
         /\ Item(m, d, p).own = vv[d][d] + 1 /\ Item(m, d, p).other = vv[d][p]
    BY <2>2 DEF Item
  <2>13. vv[d][d] \in Nat /\ vv[d][p] \in Nat /\ file[d].mtime \in Nat \ {0} /\ file[d].content # {}
    BY <2>2, <2>6 DEF Vector, Content
  <2> HIDE DEF m
  <2>14. IsSaid(Item(m, d, p))
    BY <2>12, <2>13 DEF IsSaid
  <2>15. Announced(Holding(d, p), Holding(d, p)')
    BY <2>10, <2>11, <2>13 DEF Announced, IsSide
  <2>16. Says(Item(m, d, p), Holding(d, p)')
    BY <2>10, <2>12, <2>14 DEF Says
  <2>17. Holding(d, p)'.c = Holding(d, p).c
    BY <2>10, <2>11
  <2>18. Reports(d, p)
    BY <2>3, <2>8, <2>15, <2>16, <2>17 DEF Reports
  <2> QED BY <2>3, <2>5, <2>18 DEF Turn
<1> QED BY <1>3, <1>4


LEMMA DeleteTurns ==
    ASSUME Benign, Parts, NEW d \in Device, NEW p \in Device, d # p,
           PairInv(d, p), NEW t \in Times, Delete(d, t)
    PROVE  Turn(d, p)
<1>1. /\ Exists(d) /\ busy[d] = {} /\ tasks[d] = {} /\ waiting[d] = {} /\ t > LastChange(d)
      /\ file' = [file EXCEPT ![d] = NoFile]
      /\ tomb' = [tomb EXCEPT ![d] = t]
      /\ vv' = [vv EXCEPT ![d] = Incremented(vv[d], d)]
      /\ waiting' = [waiting EXCEPT ![d] = {}]
      /\ tasks' = [tasks EXCEPT ![d] = {SendDelete(Everyone)}]
      /\ UNCHANGED <<pending, echo, net, busy>>
  <2>1. /\ Exists(d) /\ busy[d] = {} /\ Unhurried(d) /\ Timely(d, t)
        /\ RecordLocalEdit(d) /\ Queue(d, SendDelete(Everyone))
        /\ file' = [file EXCEPT ![d] = NoFile] /\ tomb' = [tomb EXCEPT ![d] = t]
        /\ UNCHANGED <<pending, echo, net, busy>>
    BY DEF Delete
  <2>2. tasks[d] = {} /\ waiting[d] = {} /\ t > LastChange(d)
    BY <2>1 DEF Unhurried, Benign, PairInv, Calm, Timely
  <2> QED BY <2>1, <2>2 DEF RecordLocalEdit, Queue
<1>2. /\ vv'[p] = vv[p] /\ waiting'[p] = waiting[p] /\ tomb'[p] = tomb[p] /\ tasks'[p] = tasks[p]
      /\ file'[p] = file[p] /\ file'[d] = NoFile
      /\ waiting'[d] = {} /\ tomb'[d] = t /\ tasks'[d] = {SendDelete(Everyone)}
      /\ vv[d] \in Vector /\ vv'[d] \in Vector
      /\ vv'[d][d] = vv[d][d] + 1 /\ vv'[d][p] = vv[d][p]
  BY <1>1 DEF Parts, VaultsTyped, WaitingSound, TasksSound, VectorsSound, SoundVector, Vector,
     Incremented
<1>3. Holding(p, d)' = Holding(p, d) /\ Flight(p, d)' = Flight(p, d) /\ Calm(p, d)'
  BY <1>1, <1>2, Bystander DEF PairInv
<1>4. t \in Nat /\ t # 0
  OBVIOUS
<1>5. ~Exists(d)' /\ Sendable(d, SendDelete(Everyone), p)'
  BY <1>2, <1>4 DEF Sendable, SendDelete, Exists
<1>6. Calm(d, p)'
  BY <1>1, <1>2, <1>4, <1>5 DEF PairInv, Calm
<1> DEFINE m == [kind |-> "delete", from |-> d, content |-> {}, mtime |-> t, vv |-> vv'[d]]
<1>7. m \in Message /\ Built(d, SendDelete(Everyone))' = m
  BY <1>1, <1>2 DEF Message, Deletion, Built, SendDelete
<1>8. Extends(Flight(d, p)', Flight(d, p), Item(m, d, p))
  BY <1>1, <1>2, <1>7, FlightGrows
<1>9. Uncounted(d)' = FALSE /\ LastChange(d)' = t
  BY <1>2, <1>5 DEF Uncounted, LastChange
<1>10. Holding(d, p)' = [c |-> {}, t |-> t, q |-> FALSE, own |-> vv[d][d] + 1, other |-> vv[d][p]]
  <2>1. busy'[d] = {} /\ file'[d].content = {}
    BY <1>1, <1>2 DEF NoFile
  <2>2. Holding(d, p)' = [c |-> file'[d].content, t |-> LastChange(d)', q |-> Uncounted(d)',
                          own |-> vv'[d][d], other |-> vv'[d][p]]
    BY <2>1 DEF Holding
  <2> QED BY <1>2, <1>9, <2>1, <2>2
<1>11. /\ Holding(d, p).t = LastChange(d) /\ Holding(d, p).own = vv[d][d]
       /\ Holding(d, p).other = vv[d][p]
  BY <1>1 DEF Holding
<1>12. /\ Item(m, d, p).c = {} /\ Item(m, d, p).t = t
       /\ Item(m, d, p).own = vv[d][d] + 1 /\ Item(m, d, p).other = vv[d][p]
  BY <1>2 DEF Item
<1>13. vv[d][d] \in Nat /\ vv[d][p] \in Nat
  BY <1>2 DEF Vector
<1> HIDE DEF m
<1>14. IsSaid(Item(m, d, p))
  BY <1>4, <1>12, <1>13 DEF IsSaid
<1>15. Announced(Holding(d, p), Holding(d, p)')
  BY <1>1, <1>4, <1>10, <1>11, <1>13 DEF Announced, IsSide
<1>16. Says(Item(m, d, p), Holding(d, p)')
  BY <1>10, <1>12, <1>14 DEF Says
<1>17. \A e : e \in Holding(d, p).c => IsSaved(e)'
  <2>1. Holding(d, p).c = file[d].content
    BY <1>1 DEF Holding
  <2>2. dropped' = dropped \cup file[d].content
    BY DEF Delete
  <2> QED BY <2>1, <2>2 DEF IsSaved
<1>18. Reports(d, p)
  BY <1>3, <1>8, <1>15, <1>16, <1>17 DEF Reports
<1> QED BY <1>3, <1>6, <1>18 DEF Turn

LEMMA ProcessTurns ==
    ASSUME Benign, Parts, NEW d \in Device, NEW p \in Device, d # p, Device = {d, p},
           PairInv(d, p), NEW t \in tasks[d], Process(d, t)
    PROVE  Turn(d, p)
<1>1. /\ busy[d] = {} /\ tasks[d] = {t} /\ Sendable(d, t, p) /\ waiting[d] = {}
  BY DEF PairInv, Calm
<1>2. ~Obsolete(d, t)
  BY <1>1 DEF Sendable, Obsolete, IsPlain
<1>3. Everyone \notin Device
  BY DeviceAssumption DEF Everyone
<1>4. Receivers(d, t.to) = {p}
  BY <1>1, <1>3 DEF Receivers, Sendable
<1> DEFINE q == [to |-> t.to, msg |-> Built(d, t), alias |-> t.vector = {}, isTask |-> TRUE]
<1>5. Transmit(d, q, p)
  BY <1>2, <1>4 DEF Process
<1>6. Copies(d, q, p) = {}
  BY <1>4 DEF Copies
<1>7. net' = Arrived(d, p, Built(d, t)) /\ waiting' = [waiting EXCEPT ![d] = {}]
  BY <1>1, <1>5, <1>6 DEF Transmit, Benign
<1>8. /\ tasks' = [tasks EXCEPT ![d] = {}]
      /\ echo' = [echo EXCEPT ![d] = IF IsPlain(t) /\ Exists(d) THEN {} ELSE echo[d]]
      /\ UNCHANGED <<file, vv, tomb, pending, busy>>
  BY <1>1 DEF Process, Parts, VaultsTyped, TasksSound
<1>9. /\ tasks'[d] = {} /\ waiting'[d] = {} /\ tasks'[p] = tasks[p] /\ waiting'[p] = waiting[p]
      /\ echo'[p] = echo[p]
      /\ net'[<<p, d>>] = net[<<p, d>>] /\ net'[<<p, p>>] = net[<<p, p>>] /\ net'[<<d, d>>] = net[<<d, d>>]
      /\ net'[<<d, p>>] = Append(net[<<d, p>>], Built(d, t))
  BY <1>7, <1>8 DEF Parts, VaultsTyped, TasksSound, WaitingSound, NetSound, Arrived
<1>10. Holding(p, d)' = Holding(p, d) /\ Flight(p, d)' = Flight(p, d) /\ Calm(p, d)'
  BY <1>8, <1>9, Bystander DEF PairInv
<1>11. Flight(d, p)' = Flight(d, p)
  <2>1. TheTask(d) = t
    BY <1>1 DEF TheTask
  <2>2. Outgoing(d, p)' = net'[<<d, p>>] /\ Outgoing(d, p) = Append(net[<<d, p>>], Built(d, t))
    BY <1>1, <1>9, <2>1 DEF Outgoing
  <2> QED BY <1>9, <2>2 DEF Flight
<1>12. Holding(d, p)' = Holding(d, p)
  <2>1. Uncounted(d)' = Uncounted(d)
    <3>1. CASE t.kind = "update"
      <4>1. ~pending[d] /\ ~pending'[d]
        BY <1>1, <1>8, <3>1 DEF Sendable
      <4> QED BY <4>1 DEF Uncounted
    <3>2. CASE t.kind # "update"
      <4>1. ~Exists(d) /\ ~Exists(d)'
        BY <1>1, <1>8, <3>2 DEF Sendable, Exists
      <4> QED BY <4>1 DEF Uncounted
    <3> QED BY <3>1, <3>2
  <2>2. LastChange(d)' = LastChange(d)
    BY <1>8 DEF LastChange, Exists
  <2> QED BY <1>8, <2>1, <2>2, Zenon DEF Holding, TheDecision
<1>13. Calm(d, p)'
  <2>1. net[<<d, p>>] \in Seq(SoundMessage) /\ Built(d, t) \in SoundMessage
    <3>1. net[<<d, p>>] \in Seq(SoundMessage)
      BY DEF Parts, NetSound
    <3>2. Built(d, t) \in SoundMessage
      BY <1>2, BuiltSound DEF SoundPayload, SoundMessage, Payload
    <3> QED BY <3>1, <3>2
  <2>2. Built(d, t).from = d
    BY DEF Built
  <2>3. \A i \in 1 .. Len(net'[<<d, p>>]) : net'[<<d, p>>][i].from = d
    <3> DEFINE s == net[<<d, p>>]  m == Built(d, t)
    <3>1. \A i \in 1 .. Len(s) : s[i].from = d
      BY DEF PairInv, Calm
    <3>2. /\ Len(Append(s, m)) = Len(s) + 1 /\ Len(s) \in Nat /\ Append(s, m)[Len(s) + 1] = m
          /\ \A i \in 1 .. Len(s) : Append(s, m)[i] = s[i]
      BY <2>1, AppendProperties, LenProperties
    <3> HIDE DEF s, m
    <3>3. \A i \in 1 .. Len(Append(s, m)) : Append(s, m)[i].from = d
      BY <3>1, <3>2, <2>2 DEF m
    <3> QED BY <3>3, <1>9 DEF s, m
  <2> QED BY <1>1, <1>8, <1>9, <2>3 DEF PairInv, Calm, Exists
<1> QED BY <1>10, <1>11, <1>12, <1>13 DEF Turn, Rests

LEMMA WriteTurns ==
    ASSUME Benign, Parts, NEW d \in Device, NEW p \in Device, d # p, Device = {d, p},
           PairInv(d, p), Write(d)
    PROVE  Turn(d, p)
<1>1. PICK w \in busy[d] :
        /\ file' = [file EXCEPT ![d] = [content |-> w.msg.content, mtime |-> w.msg.mtime]]
        /\ echo' = [echo EXCEPT ![d] = {w.msg.content}]
        /\ AdoptVector(d, w.merged)
  BY DEF Write
<1>2. /\ busy[d] = {w} /\ tasks[d] = {} /\ waiting[d] = {} /\ TheDecision(d) = w
  BY DEF PairInv, Calm, TheDecision
<1>3. /\ vv' = [vv EXCEPT ![d] = w.merged] /\ waiting' = [waiting EXCEPT ![d] = {}]
      /\ busy' = [busy EXCEPT ![d] = {}]
      /\ UNCHANGED <<tomb, tasks, net>>
  <2>1. vv' = [vv EXCEPT ![d] = w.merged]
    BY <1>1 DEF AdoptVector
  <2>2. waiting' = [waiting EXCEPT ![d] = {}]
    BY <1>1, <1>2 DEF AdoptVector
  <2> QED BY <2>1, <2>2, <1>2 DEF Write
<1>4. /\ file'[d] = [content |-> w.msg.content, mtime |-> w.msg.mtime]
      /\ echo'[d] = {w.msg.content} /\ vv'[d] = w.merged /\ busy'[d] = {} /\ waiting'[d] = {}
      /\ file'[p] = file[p] /\ echo'[p] = echo[p] /\ vv'[p] = vv[p] /\ busy'[p] = busy[p]
      /\ waiting'[p] = waiting[p] /\ pending'[p] = pending[p]
  BY <1>1, <1>3 DEF Write, Parts, VaultsTyped, BusySound, VectorsSound, WaitingSound
<1>5. Holding(p, d)' = Holding(p, d) /\ Flight(p, d)' = Flight(p, d) /\ Calm(p, d)'
  BY <1>3, <1>4, Bystander DEF PairInv
<1>6. Flight(d, p)' = Flight(d, p)
  BY <1>2, <1>3 DEF Flight, Outgoing
<1>7. Exists(d)' /\ Uncounted(d)' = FALSE /\ LastChange(d)' = w.msg.mtime
  <2>1. w.msg.content # {}
    BY DEF Parts, BusySound, SoundDecision, Decision, Update, Content
  <2>2. Exists(d)'
    BY <1>4, <2>1 DEF Exists, NoFile
  <2> QED BY <1>4, <2>2 DEF Uncounted, LastChange
<1>8. Calm(d, p)'
  BY <1>2, <1>3, <1>4, <1>7 DEF PairInv, Calm
<1>9. Holding(d, p)' = Holding(d, p)
  <2>1. Holding(d, p)' = [c |-> file'[d].content, t |-> LastChange(d)', q |-> Uncounted(d)',
                          own |-> vv'[d][d], other |-> vv'[d][p]]
    BY <1>4 DEF Holding
  <2>2. Holding(d, p) = [c |-> w.msg.content, t |-> w.msg.mtime, q |-> FALSE,
                         own |-> w.merged[d], other |-> w.merged[p]]
    <3>1. busy[d] # {}
      BY <1>2
    <3> QED BY <1>2, <3>1, Zenon DEF Holding
  <2>3. /\ file'[d].content = w.msg.content /\ vv'[d][d] = w.merged[d] /\ vv'[d][p] = w.merged[p]
        /\ LastChange(d)' = w.msg.mtime /\ Uncounted(d)' = FALSE
    BY <1>4, <1>7
  <2> QED BY <2>1, <2>2, <2>3, Zenon
<1> QED BY <1>5, <1>6, <1>8, <1>9 DEF Turn, Rests


-----------------------------------------------------------------------------
(* Hearing a message.                                                      *)

LEMMA FlightShifts ==
    ASSUME Parts, NEW d \in Device, NEW p \in Device, 1 \in DOMAIN net[<<p, d>>],
           net'[<<p, d>>] = RemoveAt(net[<<p, d>>], 1), tasks'[p] = tasks[p],
           TheTask(p)' = TheTask(p), Built(p, TheTask(p))' = Built(p, TheTask(p))
    PROVE  /\ Shifts(Flight(p, d)', Flight(p, d)) /\ Len(Flight(p, d)) > 0
           /\ Flight(p, d)[1] = Item(net[<<p, d>>][1], p, d)
<1> DEFINE s == net[<<p, d>>]  m == Built(p, TheTask(p))  S == SoundMessage \cup {m}
<1>1. s \in Seq(S) /\ m \in S
  <2>1. s \in Seq(SoundMessage)
    BY DEF Parts, NetSound
  <2> QED BY <2>1, SeqMonotonic
<1>2. /\ tasks[p] = {} => Outgoing(p, d) = s /\ Outgoing(p, d)' = RemoveAt(s, 1)
      /\ tasks[p] # {} => Outgoing(p, d) = Append(s, m) /\ Outgoing(p, d)' = Append(RemoveAt(s, 1), m)
  BY DEF Outgoing
<1> HIDE DEF s, m, S
<1>3. 1 \in DOMAIN s
  BY DEF s
<1>4. Shifts(Items(RemoveAt(s, 1), p, d), Items(s, p, d))
  BY <1>1, <1>3, ItemsShift
<1>5. Shifts(Items(Append(RemoveAt(s, 1), m), p, d), Items(Append(s, m), p, d))
  BY <1>1, <1>3, ItemsShift
<1>6. Shifts(Flight(p, d)', Flight(p, d))
  BY <1>2, <1>4, <1>5 DEF Flight
<1>7. Len(s) \in Nat /\ 1 \in 1 .. Len(s)
  BY <1>1, <1>3, LenProperties
<1>8. Items(s, p, d)[1] = Item(s[1], p, d) /\ Len(Items(s, p, d)) = Len(s)
  BY <1>1, <1>7, ItemsLength
<1>9. Extends(Items(Append(s, m), p, d), Items(s, p, d), Item(m, p, d))
  BY <1>1, ItemsExtend
<1>10. /\ Len(Items(s, p, d)) > 0 /\ Len(Items(Append(s, m), p, d)) > 0
       /\ Items(Append(s, m), p, d)[1] = Item(s[1], p, d)
  BY <1>7, <1>8, <1>9 DEF Extends
<1>11. Len(Flight(p, d)) > 0 /\ Flight(p, d)[1] = Item(s[1], p, d)
  <2>1. CASE tasks[p] = {}
    BY <1>2, <1>8, <1>10, <2>1 DEF Flight
  <2>2. CASE tasks[p] # {}
    BY <1>2, <1>10, <2>2 DEF Flight
  <2> QED BY <2>1, <2>2
<1> QED BY <1>6, <1>11 DEF s

\* What hearing the first message does to the pair, with or without an answer, which says
\* what the device had before or what it has since.
LEMMA OutcomeTurns ==
    ASSUME Parts, NEW d \in Device, NEW p \in Device, d # p, PairInv(d, p),
           1 \in DOMAIN net[<<p, d>>],
           net' = [net EXCEPT ![<<p, d>>] = RemoveAt(net[<<p, d>>], 1)],
           file'[p] = file[p], tomb'[p] = tomb[p], pending'[p] = pending[p], echo'[p] = echo[p],
           tasks'[p] = tasks[p], waiting'[p] = waiting[p], busy'[p] = busy[p], vv'[p] = vv[p],
           tasks[d] = {}, Calm(d, p)',
           Heard(Holding(d, p), Item(net[<<p, d>>][1], p, d), Holding(d, p)', Lower(d, p)),
           \A e : IsSaved(e)' \/ MayLose(e, Holding(d, p), Item(net[<<p, d>>][1], p, d), Holding(d, p)'),
           \/ tasks'[d] = {}
           \/ \E t : /\ tasks'[d] = {t} /\ Built(d, t)' \in Message
                     /\ \/ Says(Item(Built(d, t)', d, p), Holding(d, p))
                        \/ Says(Item(Built(d, t)', d, p), Holding(d, p)')
    PROVE  Turn(d, p)
<1>1. /\ net'[<<d, p>>] = net[<<d, p>>] /\ net'[<<p, p>>] = net[<<p, p>>]
      /\ net'[<<p, d>>] = RemoveAt(net[<<p, d>>], 1)
  BY DEF Parts, NetSound
<1>2. /\ Holding(p, d)' = Holding(p, d) /\ TheTask(p)' = TheTask(p)
      /\ \A t : Built(p, t)' = Built(p, t) /\ (Sendable(p, t, d)' <=> Sendable(p, t, d))
      /\ Exists(p)' <=> Exists(p)
  BY BystanderHolds
<1>3. /\ Shifts(Flight(p, d)', Flight(p, d)) /\ Len(Flight(p, d)) > 0
      /\ Flight(p, d)[1] = Item(net[<<p, d>>][1], p, d)
  BY <1>1, <1>2, FlightShifts
<1>4. Calm(p, d)'
  <2>1. net[<<p, d>>] \in Seq(SoundMessage)
    BY DEF Parts, NetSound
  <2> DEFINE s == net[<<p, d>>]  r == RemoveAt(s, 1)
  <2>2. /\ Len(s) \in Nat /\ Len(s) > 0 /\ Len(r) = Len(s) - 1
        /\ \A i \in 1 .. Len(s) - 1 : r[i] = s[i + 1]
    BY <2>1, FirstRemoved
  <2>3. \A i \in 1 .. Len(s) : s[i].from = p
    BY DEF PairInv, Calm
  <2> HIDE DEF s, r
  <2>4. \A i \in 1 .. Len(r) : r[i].from = p
    BY <2>2, <2>3
  <2>5. \A i \in 1 .. Len(net'[<<p, d>>]) : net'[<<p, d>>][i].from = p
    BY <1>1, <2>4 DEF r, s
  <2> QED BY <1>1, <1>2, <2>5 DEF PairInv, Calm
<1>5. Listens(d, p)
  <2>1. CASE tasks'[d] = {}
    <3>1. Flight(d, p)' = Flight(d, p)
      BY <1>1, <2>1 DEF Flight, Outgoing
    <3> QED BY <1>3, <3>1, Zenon DEF Listens
  <2>2. ASSUME NEW t, tasks'[d] = {t}, Built(d, t)' \in Message,
               \/ Says(Item(Built(d, t)', d, p), Holding(d, p))
               \/ Says(Item(Built(d, t)', d, p), Holding(d, p)')
        PROVE  Listens(d, p)
    <3>1. Extends(Flight(d, p)', Flight(d, p), Item(Built(d, t)', d, p))
      BY <1>1, <2>2, FlightGrows
    <3> QED BY <1>3, <2>2, <3>1, Zenon DEF Listens
  <2> QED BY <2>1, <2>2
<1> QED BY <1>2, <1>4, <1>5 DEF Turn

LEMMA IdleHolding ==
    ASSUME NEW d, NEW p, busy[d] = {}, ~pending[d]
    PROVE  Holding(d, p) = [c |-> file[d].content, t |-> LastChange(d), q |-> FALSE,
                            own |-> vv[d][d], other |-> vv[d][p]]
<1>1. Uncounted(d) = FALSE
  BY DEF Uncounted
<1> QED BY <1>1, Zenon DEF Holding

LEMMA IdleHoldingNext ==
    ASSUME NEW d, NEW p, busy'[d] = {}, ~pending'[d]
    PROVE  Holding(d, p)' = [c |-> file'[d].content, t |-> LastChange(d)', q |-> FALSE,
                             own |-> vv'[d][d], other |-> vv'[d][p]]
<1>1. Uncounted(d)' = FALSE
  BY DEF Uncounted
<1> QED BY <1>1, Zenon DEF Holding

LEMMA DecidedHolding ==
    ASSUME NEW d, NEW p, NEW w, busy'[d] = {w}
    PROVE  Holding(d, p)' = [c |-> w.msg.content, t |-> w.msg.mtime, q |-> FALSE,
                             own |-> w.merged[d], other |-> w.merged[p]]
<1>1. busy'[d] # {}
  OBVIOUS
<1>2. TheDecision(d)' = w
  BY DEF TheDecision
<1> QED BY <1>1, <1>2, Zenon DEF Holding

\* z is what a device that held x has once it has heard s: it knows all that s tells of, and
\* has its content, took the other one, or kept its own.
Joins(x, s, z) ==
    /\ ~x.q /\ z.q = FALSE /\ z.own = x.own /\ z.other = s.own
    /\ x.own \in Nat /\ x.other \in Nat /\ s.own \in Nat /\ x.other <= s.own
    /\ z.t \in Nat /\ z.t # 0

LEMMA JoinsHears ==
    ASSUME NEW x, NEW z, NEW s, Joins(x, s, z), NEW low \in BOOLEAN,
           \/ s.c = x.c /\ z.c = x.c /\ (z.t = x.t \/ (x.t = 0 /\ z.t = s.t))
           \/ Takes(x, s, ~low) /\ z.c = s.c /\ z.t = s.t
           \/ s.c # x.c /\ z.c = x.c /\ z.t = x.t /\ ~Takes(x, s, ~low)
    PROVE  Heard(x, s, z, low)
<1>1. IsSide(z) /\ z.own = x.own /\ ~x.q /\ ~z.q
  BY DEF IsSide, Joins
<1>2. z.other = IF s.own > x.other THEN s.own ELSE x.other
  BY DEF Joins
<1> QED BY <1>1, <1>2 DEF Heard

LEMMA HeardSame ==
    ASSUME NEW x, NEW z, NEW s, Joins(x, s, z), NEW d, NEW p,
           s.c = x.c, z.c = x.c, z.t = x.t \/ (x.t = 0 /\ z.t = s.t)
    PROVE  Heard(x, s, z, Lower(d, p))
<1>1. Lower(d, p) \in BOOLEAN
  BY DEF Lower
<1> QED BY <1>1, JoinsHears

LEMMA HeardTaken ==
    ASSUME NEW x, NEW z, NEW s, Joins(x, s, z), NEW d \in Device, NEW p \in Device, d # p,
           Takes(x, s, Lower(p, d)), z.c = s.c, z.t = s.t
    PROVE  Heard(x, s, z, Lower(d, p))
<1>1. Lower(d, p) \in BOOLEAN /\ (~Lower(d, p)) = Lower(p, d)
  BY DeviceAssumption DEF Lower
<1> DEFINE low == Lower(d, p)
<1> HIDE DEF low
<1>2. Takes(x, s, ~low)
  BY <1>1, Zenon DEF low
<1>3. Heard(x, s, z, low)
  BY <1>1, <1>2, JoinsHears DEF low
<1> QED BY <1>3 DEF low

LEMMA HeardKept ==
    ASSUME NEW x, NEW z, NEW s, Joins(x, s, z), NEW d \in Device, NEW p \in Device, d # p,
           ~Takes(x, s, Lower(p, d)), s.c # x.c, z.c = x.c, z.t = x.t
    PROVE  Heard(x, s, z, Lower(d, p))
<1>1. Lower(d, p) \in BOOLEAN /\ (~Lower(d, p)) = Lower(p, d)
  BY DeviceAssumption DEF Lower
<1> DEFINE low == Lower(d, p)
<1> HIDE DEF low
<1>2. ~Takes(x, s, ~low)
  BY <1>1, Zenon DEF low
<1>3. Heard(x, s, z, low)
  BY <1>1, <1>2, JoinsHears DEF low
<1> QED BY <1>3 DEF low

\* What holds when a message is applied, and what applying it must do.
ReadyFor(d, p, m) ==
    /\ busy[d] = {} /\ tasks[d] = {} /\ waiting[d] = {} /\ ~pending[d] /\ m.from = p
    /\ vv[d][p] <= m.vv[p] /\ m.vv[d] <= vv[d][d]
    /\ m.vv = vv[d] => m.content = file[d].content
    /\ ~Exists(d) /\ tomb[d] = 0 => vv[d][d] = 0 /\ vv[d][p] = 0
Hearkens(d, p, m) ==
    /\ Heard(Holding(d, p), Item(m, p, d), Holding(d, p)', Lower(d, p))
    /\ \A e : IsSaved(e)' \/ MayLose(e, Holding(d, p), Item(m, p, d), Holding(d, p)')
    /\ waiting'[d] = {}
    /\ ~Exists(d)' /\ tomb'[d] = 0 => vv'[d][d] = 0 /\ vv'[d][p] = 0
    /\ busy'[d] = {} \/ \E w : busy'[d] = {w}
    /\ \/ tasks'[d] = {}
       \/ \E t : /\ tasks'[d] = {t} /\ busy'[d] = {} /\ Sendable(d, t, p)' /\ Built(d, t)' \in Message
                 /\ \/ Says(Item(Built(d, t)', d, p), Holding(d, p))
                    \/ Says(Item(Built(d, t)', d, p), Holding(d, p)')

LEMMA VectorFacts ==
    ASSUME Parts, NEW d \in Device, NEW p \in Device, NEW m \in SoundMessage
    PROVE  /\ vv[d] \in Vector /\ m.vv \in Vector /\ vv[d][d] \in Nat /\ vv[d][p] \in Nat
           /\ m.vv[d] \in Nat /\ m.vv[p] \in Nat /\ m.mtime \in Nat /\ m.mtime # 0
           /\ Lower(d, p) \in BOOLEAN /\ Lower(p, d) \in BOOLEAN
           /\ (d # p => (~Lower(d, p)) = Lower(p, d))
<1>1. vv[d] \in Vector
  BY DEF Parts, VectorsSound, SoundVector
<1>2. m.vv \in Vector /\ m.mtime \in Nat /\ m.mtime # 0
  BY MessageFacts
<1>3. d \in Nat /\ p \in Nat
  BY DeviceAssumption
<1> QED BY <1>1, <1>2, <1>3 DEF Vector, Lower

LEMMA AdoptNext ==
    ASSUME Parts, NEW d \in Device, NEW p \in Device, NEW m \in SoundMessage, ReadyFor(d, p, m),
           AdoptMerged(d, m)
    PROVE  vv'[d][d] = vv[d][d] /\ vv'[d][p] = m.vv[p] /\ waiting'[d] = {}
<1>1. vv' = [vv EXCEPT ![d] = MergeVectors(vv[d], m.vv)] /\ waiting' = [waiting EXCEPT ![d] = {}]
  BY DEF AdoptMerged, AdoptVector, ReadyFor
<1>2. vv'[d] = MergeVectors(vv[d], m.vv) /\ waiting'[d] = {}
  BY <1>1 DEF Parts, VectorsSound, WaitingSound
<1>3. /\ MergeVectors(vv[d], m.vv)[d] = IF vv[d][d] > m.vv[d] THEN vv[d][d] ELSE m.vv[d]
      /\ MergeVectors(vv[d], m.vv)[p] = IF vv[d][p] > m.vv[p] THEN vv[d][p] ELSE m.vv[p]
  BY DEF MergeVectors
<1>4. m.vv[d] <= vv[d][d] /\ vv[d][p] <= m.vv[p]
  BY DEF ReadyFor
<1> QED BY <1>2, <1>3, <1>4, VectorFacts

LEMMA ReplyNext ==
    ASSUME Parts, NEW d \in Device, NEW p \in Device, tasks[d] = {}, busy[d] = {}, ~pending[d],
           Exists(d), file' = file, pending' = pending, Reply(d, p)
    PROVE  \/ tasks'[d] = {}
           \/ \E t : /\ tasks'[d] = {t} /\ Sendable(d, t, p)' /\ Built(d, t)' \in Message
                     /\ Says(Item(Built(d, t)', d, p), Holding(d, p))
<1> PICK t : t = [kind |-> "update", to |-> p, vector |-> {vv[d]}]
  OBVIOUS
<1> DEFINE m == [kind |-> "update", from |-> d, content |-> file[d].content,
                 mtime |-> file[d].mtime, vv |-> vv[d]]
<1>1. CASE p \in cooling[d]
  BY <1>1 DEF Reply
<1>2. CASE p \notin cooling[d]
  <2>1. tasks'[d] = {t}
    BY <1>2 DEF Reply, Queue, Parts, TasksSound
  <2>2. Sendable(d, t, p)'
    BY DEF Sendable, Exists
  <2>3. Built(d, t)' = m
    <3>1. t.kind = "update" /\ t.vector = {vv[d]} /\ t.vector # {}
      OBVIOUS
    <3>2. (CHOOSE v \in t.vector : TRUE) = vv[d]
      BY <3>1
    <3> QED BY <3>1, <3>2 DEF Built
  <2>4. vv[d] \in Vector /\ file[d].content \in Content /\ file[d].mtime \in Times
    BY DEF Parts, VaultsTyped, VectorsSound, SoundVector, Exists, Note
  <2>5. m \in Message
    BY <2>4 DEF Message, Update
  <2>6. LastChange(d) = file[d].mtime
    BY DEF LastChange
  <2>7. Says(Item(m, d, p), Holding(d, p))
    <3>1. Holding(d, p) = [c |-> file[d].content, t |-> LastChange(d), q |-> FALSE,
                           own |-> vv[d][d], other |-> vv[d][p]]
      BY IdleHolding
    <3>2. vv[d][d] \in Nat /\ vv[d][p] \in Nat /\ file[d].mtime \in Nat \ {0}
      BY <2>4 DEF Vector
    <3> QED BY <2>6, <3>1, <3>2 DEF Says, Item, IsSaid
  <2> HIDE DEF m
  <2> QED BY <2>1, <2>2, <2>3, <2>5, <2>7
<1> QED BY <1>1, <1>2

LEMMA VersionsTyped ==
    ASSUME Parts, NEW d \in Device, NEW m \in SoundMessage
    PROVE  /\ m.kind = "delete" \/ m.content \in Content => Offered(m) \in VersionInfo
           /\ Exists(d) => Held(d) \in VersionInfo
           /\ Deleted(d) \in VersionInfo
<1>1. m.vv \in Vector /\ m.mtime \in Nat /\ m.from \in Device /\ m.kind \in {"update", "delete"}
  BY MessageFacts
<1>2. vv[d] \in Vector
  BY DEF Parts, VectorsSound, SoundVector
<1>3. \A c \in Content : HashOf[c] \in Nat
  OBVIOUS
<1>4. m.kind = "delete" \/ m.content \in Content => Offered(m) \in VersionInfo
  BY <1>1, <1>3 DEF Offered, VersionInfo
<1>5. Exists(d) => file[d].content \in Content /\ file[d].mtime \in Nat
  BY DEF Parts, VaultsTyped, Exists, Note
<1>6. Exists(d) => Held(d) \in VersionInfo
  BY <1>2, <1>3, <1>5 DEF Held, VersionInfo
<1>7. tomb[d] \in Nat
  <2>1. tomb[d] = 0 \/ tomb[d] \in Times
    BY DEF Parts, VaultsTyped
  <2>2. CASE tomb[d] = 0
    BY <2>2
  <2>3. CASE tomb[d] \in Times
    BY <2>3
  <2> QED BY <2>1, <2>2, <2>3
<1>8. Deleted(d) \in VersionInfo
  BY <1>2, <1>7 DEF Deleted, VersionInfo
<1> QED BY <1>4, <1>6, <1>8

\* The three ways a message is applied: applyFileDelete, ...
LEMMA DeletionHeard ==
    ASSUME Benign, Parts, NEW d \in Device, NEW p \in Device, d # p, Device = {d, p},
           NEW m \in SoundMessage, m.kind = "delete", ReadyFor(d, p, m), pending' = pending,
           ApplyDelete(d, m)
    PROVE  Hearkens(d, p, m)
<1> DEFINE x == Holding(d, p)  z == Holding(d, p)'  s == Item(m, p, d)
<1>1. /\ vv[d] \in Vector /\ m.vv \in Vector /\ vv[d][d] \in Nat /\ vv[d][p] \in Nat
      /\ m.vv[d] \in Nat /\ m.vv[p] \in Nat /\ m.mtime \in Nat /\ m.mtime # 0
      /\ Lower(d, p) \in BOOLEAN /\ Lower(p, d) \in BOOLEAN /\ (~Lower(d, p)) = Lower(p, d)
  BY VectorFacts
<1>2. x = [c |-> file[d].content, t |-> LastChange(d), q |-> FALSE, own |-> vv[d][d], other |-> vv[d][p]]
  BY IdleHolding DEF ReadyFor
<1>3. busy' = busy /\ busy'[d] = {}
  BY DEF ApplyDelete, ReadyFor
<1>4. z = [c |-> file'[d].content, t |-> LastChange(d)', q |-> FALSE,
           own |-> vv'[d][d], other |-> vv'[d][p]]
  BY <1>3, IdleHoldingNext DEF ReadyFor
<1>5. AdoptMerged(d, m)
  BY DEF ApplyDelete, Benign
<1>6. vv'[d][d] = vv[d][d] /\ vv'[d][p] = m.vv[p] /\ waiting'[d] = {}
  BY <1>5, AdoptNext
<1>7. m.content = {} /\ s = [c |-> {}, t |-> m.mtime, own |-> m.vv[p], other |-> m.vv[d]]
  BY DEF SoundMessage, Message, Update, Deletion, Item
<1>8. vv[d][p] <= m.vv[p]
  BY DEF ReadyFor
<1>9. CASE ~Exists(d)
  <2>1. file' = file /\ tasks' = tasks /\ ~Exists(d)' /\ file[d].content = {}
    BY <1>9 DEF ApplyDelete, Exists, NoFile
  <2>2. tomb'[d] = IF tomb[d] = 0 THEN m.mtime ELSE tomb[d]
    BY <1>9 DEF ApplyDelete, Parts, VaultsTyped
  <2>3. LastChange(d) = tomb[d] /\ LastChange(d)' = tomb'[d] /\ LastChange(d) \in Nat
    BY <1>9, <2>1, NoteTimes DEF LastChange
  <2>4. z.t \in Nat /\ z.t # 0 /\ (z.t = x.t \/ (x.t = 0 /\ z.t = s.t))
    BY <1>1, <1>2, <1>4, <1>7, <2>2, <2>3
  <2>5. s.c = x.c /\ z.c = x.c
    BY <1>2, <1>4, <1>7, <2>1
  <2>6. /\ ~x.q /\ z.q = FALSE /\ z.own = x.own /\ z.other = s.own /\ x.own \in Nat
        /\ x.other \in Nat /\ s.own \in Nat /\ x.other <= s.own
    BY <1>1, <1>2, <1>4, <1>6, <1>7, <1>8
  <2> HIDE DEF x, z, s
  <2>7. Heard(x, s, z, Lower(d, p))
    <3>1. Joins(x, s, z)
      BY <2>4, <2>6 DEF Joins
    <3> QED BY <2>4, <2>5, <3>1, HeardSame
  <2>8. tomb'[d] # 0
    BY <1>1, <2>2
  <2>9. \A e : MayLose(e, x, s, z)
    BY <2>5 DEF MayLose
  <2> QED BY <1>3, <1>6, <2>1, <2>7, <2>8, <2>9 DEF Hearkens, ReadyFor, x, z, s
<1>10. CASE Exists(d)
  <2>1. LastChange(d) = file[d].mtime /\ file[d].content # {} /\ file[d].mtime \in Nat /\ file[d].mtime # 0
    BY <1>10, NoteTimes DEF LastChange
  <2>2. Offered(m) \in VersionInfo /\ Held(d) \in VersionInfo
    BY <1>10, VersionsTyped
  <2>3. /\ Offered(m).vv = m.vv /\ Held(d).vv = vv[d] /\ Offered(m).mtime = m.mtime
        /\ Held(d).mtime = file[d].mtime
    BY DEF Offered, Held
  <2>4. m.vv # vv[d] /\ m.vv[d] <= vv[d][d]
    BY <1>7, <2>1 DEF ReadyFor
  <2>5. PickIsFirst(Offered(m), Held(d))
        <=> m.vv[p] > vv[d][p] /\ (m.vv[d] = vv[d][d] \/ Beats(m.mtime, file[d].mtime, Lower(p, d)))
    BY <1>8, <2>2, <2>3, <2>4, ChoiceOfTwo
  <2>6. Takes(x, s, Lower(p, d)) <=> PickIsFirst(Offered(m), Held(d))
    BY <1>2, <1>7, <2>1, <2>5 DEF Takes, News
  <2>7. /\ ~x.q /\ z.q = FALSE /\ z.own = x.own /\ z.other = s.own /\ x.own \in Nat
        /\ x.other \in Nat /\ s.own \in Nat /\ x.other <= s.own /\ s.c # x.c
    BY <1>1, <1>2, <1>4, <1>6, <1>7, <1>8, <2>1
  <2>8. CASE PickIsFirst(Offered(m), Held(d))
    <3>1. /\ file' = [file EXCEPT ![d] = NoFile] /\ tomb' = [tomb EXCEPT ![d] = m.mtime]
          /\ tasks' = tasks
      BY <1>10, <2>8 DEF ApplyDelete, Benign
    <3>2. file'[d] = NoFile /\ tomb'[d] = m.mtime /\ tasks'[d] = {}
      BY <3>1 DEF Parts, VaultsTyped, ReadyFor
    <3>3. ~Exists(d)' /\ LastChange(d)' = m.mtime /\ file'[d].content = {}
      BY <3>2 DEF Exists, LastChange, NoFile
    <3>4. z.c = s.c /\ z.t = s.t /\ z.t \in Nat /\ z.t # 0
      BY <1>1, <1>4, <1>7, <3>3
    <3>5. \A e : e \in x.c => IsSaved(e)'
      <4>1. kept' = kept \cup file[d].content
        BY <1>10, <2>8 DEF ApplyDelete, Benign
      <4> QED BY <1>2, <4>1 DEF IsSaved
    <3>6. \A e : IsSaved(e)' \/ MayLose(e, x, s, z)
      BY <3>5 DEF MayLose
    <3> HIDE DEF x, z, s
    <3>7. Heard(x, s, z, Lower(d, p))
      <4>1. Joins(x, s, z)
        BY <2>7, <3>4 DEF Joins
      <4>2. Takes(x, s, Lower(p, d))
        BY <2>6, <2>8
      <4> QED BY <3>4, <4>1, <4>2, HeardTaken
    <3> QED BY <1>1, <1>3, <1>6, <3>2, <3>7, <3>6 DEF Hearkens, ReadyFor, x, z, s
  <2>9. CASE ~PickIsFirst(Offered(m), Held(d))
    <3>1. Reply(d, p) /\ file' = file /\ tomb' = tomb
      BY <1>10, <2>9 DEF ApplyDelete, ReadyFor
    <3>2. Exists(d)' /\ LastChange(d)' = file[d].mtime
      BY <1>10, <3>1 DEF Exists, LastChange
    <3>3. z.c = x.c /\ z.t = x.t /\ z.t \in Nat /\ z.t # 0
      BY <1>2, <1>4, <2>1, <3>1, <3>2
    <3>4. \/ tasks'[d] = {}
          \/ \E t : /\ tasks'[d] = {t} /\ Sendable(d, t, p)' /\ Built(d, t)' \in Message
                    /\ Says(Item(Built(d, t)', d, p), Holding(d, p))
      BY <1>10, <3>1, ReplyNext DEF ReadyFor
    <3> HIDE DEF x, z, s
    <3>5. Heard(x, s, z, Lower(d, p))
      <4>1. Joins(x, s, z)
        BY <2>7, <3>3 DEF Joins
      <4>2. ~Takes(x, s, Lower(p, d))
        BY <2>6, <2>9
      <4> QED BY <2>7, <3>3, <4>1, <4>2, HeardKept
    <3>6. \A e : MayLose(e, x, s, z)
      BY <3>3 DEF MayLose
    <3> QED BY <1>3, <1>6, <3>2, <3>4, <3>5, <3>6 DEF Hearkens, x, z, s
  <2> QED BY <2>8, <2>9
<1> QED BY <1>9, <1>10


\* ... an update of a note that is not there, ...
LEMMA NothingHeard ==
    ASSUME Parts, NEW d \in Device, NEW p \in Device, d # p, Device = {d, p},
           NEW m \in SoundMessage, m.kind = "update", ~Exists(d), ReadyFor(d, p, m),
           pending' = pending, ApplyToNothing(d, m)
    PROVE  Hearkens(d, p, m)
<1> DEFINE x == Holding(d, p)  z == Holding(d, p)'  s == Item(m, p, d)
<1>1. /\ vv[d] \in Vector /\ m.vv \in Vector /\ vv[d][d] \in Nat /\ vv[d][p] \in Nat
      /\ m.vv[d] \in Nat /\ m.vv[p] \in Nat /\ m.mtime \in Nat /\ m.mtime # 0
      /\ Lower(d, p) \in BOOLEAN /\ Lower(p, d) \in BOOLEAN /\ (~Lower(d, p)) = Lower(p, d)
  BY VectorFacts
<1>2. file[d].content = {} /\ LastChange(d) = tomb[d] /\ tomb[d] \in Nat
  BY NoteTimes DEF LastChange
<1>3. x = [c |-> {}, t |-> tomb[d], q |-> FALSE, own |-> vv[d][d], other |-> vv[d][p]]
  BY <1>2, IdleHolding DEF ReadyFor
<1>4. busy' = busy /\ busy'[d] = {} /\ AdoptMerged(d, m)
  BY DEF ApplyToNothing, ReadyFor
<1>5. z = [c |-> file'[d].content, t |-> LastChange(d)', q |-> FALSE,
           own |-> vv'[d][d], other |-> vv'[d][p]]
  BY <1>4, IdleHoldingNext DEF ReadyFor
<1>6. vv'[d][d] = vv[d][d] /\ vv'[d][p] = m.vv[p] /\ waiting'[d] = {}
  BY <1>4, AdoptNext
<1>7. /\ m.content \in Content /\ m.content # {} /\ m.mtime \in Times /\ m.from = p
      /\ s = [c |-> m.content, t |-> m.mtime, own |-> m.vv[p], other |-> m.vv[d]]
  BY MessageFacts DEF Item, Content, ReadyFor
<1>8. vv[d][p] <= m.vv[p] /\ m.vv[d] <= vv[d][d] /\ m.vv # vv[d]
      /\ (tomb[d] = 0 => vv[d][d] = 0 /\ vv[d][p] = 0)
  BY <1>2, <1>7 DEF ReadyFor
<1>9. /\ ~x.q /\ z.q = FALSE /\ z.own = x.own /\ z.other = s.own /\ x.own \in Nat
      /\ x.other \in Nat /\ s.own \in Nat /\ x.other <= s.own /\ s.c # x.c
  BY <1>1, <1>3, <1>5, <1>6, <1>7, <1>8
<1>10. Offered(m) \in VersionInfo /\ Deleted(d) \in VersionInfo
  BY <1>7, VersionsTyped
<1>11. /\ Offered(m).vv = m.vv /\ Deleted(d).vv = vv[d] /\ Offered(m).mtime = m.mtime
       /\ Deleted(d).mtime = tomb[d] /\ Offered(m).device = p /\ Deleted(d).device = d
  BY <1>7 DEF Offered, Deleted
<1>12. PickIsFirst(Offered(m), Deleted(d))
       <=> m.vv[p] > vv[d][p] /\ (m.vv[d] = vv[d][d] \/ Beats(m.mtime, tomb[d], Lower(p, d)))
  BY <1>8, <1>10, <1>11, ChoiceOfTwo
<1>13. PickIsFirst(Deleted(d), Offered(m)) <=> ~PickIsFirst(Offered(m), Deleted(d))
  <2>1. Deleted(d).device # 0 /\ Offered(m).device # 0 /\ Deleted(d).device # Offered(m).device
    BY <1>11, DeviceAssumption
  <2> QED BY <1>10, <2>1, PickMirrors
<1>14. Takes(x, s, Lower(p, d)) <=> PickIsFirst(Offered(m), Deleted(d))
  BY <1>3, <1>7, <1>12 DEF Takes, News
<1>15. \A e : MayLose(e, x, s, z)
  BY <1>3 DEF MayLose
<1>16. CASE tomb[d] # 0 /\ PickIsFirst(Deleted(d), Offered(m))
  <2>1. /\ tasks' = [tasks EXCEPT ![d] = {SendDelete(p)}]
        /\ file' = file /\ tomb' = tomb
    BY <1>7, <1>16 DEF ApplyToNothing, Queue, ReadyFor
  <2>2. /\ tasks'[d] = {SendDelete(p)} /\ ~Exists(d)' /\ LastChange(d)' = tomb[d]
        /\ tomb'[d] # 0 /\ file'[d].content = {}
    BY <1>2, <1>16, <2>1 DEF Parts, TasksSound, Exists, LastChange
  <2>3. Sendable(d, SendDelete(p), p)'
    BY <2>2 DEF Sendable, SendDelete
  <2>4. vv'[d] \in Vector
    BY <1>1, <1>4 DEF AdoptMerged, AdoptVector, MergeVectors, Vector, Parts, VectorsSound
  <2>5. Built(d, SendDelete(p))'
          = [kind |-> "delete", from |-> d, content |-> {}, mtime |-> tomb[d], vv |-> vv'[d]]
    BY <2>1 DEF Built, SendDelete
  <2>6. tomb[d] \in Times
    BY <1>16 DEF Parts, VaultsTyped
  <2>7. Built(d, SendDelete(p))' \in Message
    BY <2>4, <2>5, <2>6 DEF Message, Deletion
  <2>8. z.c = x.c /\ z.t = x.t /\ z.t \in Nat /\ z.t # 0
    BY <1>2, <1>3, <1>5, <1>16, <2>2
  <2>9. Says(Item(Built(d, SendDelete(p))', d, p), z)
    <3>1. z = [c |-> {}, t |-> tomb[d], q |-> FALSE, own |-> vv'[d][d], other |-> vv'[d][p]]
      BY <1>5, <2>2
    <3> HIDE DEF z
    <3> QED BY <1>1, <1>2, <1>6, <1>16, <2>5, <3>1 DEF Says, Item, IsSaid
  <2> HIDE DEF x, z, s
  <2>10. Heard(x, s, z, Lower(d, p))
    <3>1. Joins(x, s, z)
      BY <1>9, <2>8 DEF Joins
    <3>2. ~Takes(x, s, Lower(p, d))
      BY <1>13, <1>14, <1>16
    <3> QED BY <1>9, <2>8, <3>1, <3>2, HeardKept
  <2> QED BY <1>4, <1>6, <1>15, <2>2, <2>3, <2>7, <2>9, <2>10 DEF Hearkens, x, z, s
<1>17. CASE ~(tomb[d] # 0 /\ PickIsFirst(Deleted(d), Offered(m)))
  <2>1. /\ file' = [file EXCEPT ![d] = [content |-> m.content, mtime |-> m.mtime]]
        /\ tasks' = tasks
    BY <1>17 DEF ApplyToNothing
  <2>2. file'[d] = [content |-> m.content, mtime |-> m.mtime] /\ tasks'[d] = {}
    BY <2>1 DEF Parts, VaultsTyped, ReadyFor
  <2>3. Exists(d)' /\ LastChange(d)' = m.mtime
    BY <1>7, <2>2 DEF Exists, LastChange, NoFile
  <2>4. z.c = s.c /\ z.t = s.t /\ z.t \in Nat /\ z.t # 0
    BY <1>1, <1>5, <1>7, <2>2, <2>3
  <2>5. PickIsFirst(Offered(m), Deleted(d))
    <3>1. CASE tomb[d] = 0
      <4>1. m.vv[d] = 0 /\ vv[d][d] = 0 /\ vv[d][p] = 0
        BY <1>1, <1>8, <3>1
      <4>2. m.vv[p] # vv[d][p]
        BY <1>1, <1>8, <4>1 DEF Vector
      <4> QED BY <1>1, <1>8, <1>12, <4>1, <4>2
    <3>2. CASE tomb[d] # 0
      BY <1>13, <1>17, <3>2
    <3> QED BY <3>1, <3>2
  <2> HIDE DEF x, z, s
  <2>6. Heard(x, s, z, Lower(d, p))
    <3>1. Takes(x, s, Lower(p, d))
      BY <1>14, <2>5
    <3>2. Joins(x, s, z)
      BY <1>9, <2>4 DEF Joins
    <3> QED BY <2>4, <3>1, <3>2, HeardTaken
  <2> QED BY <1>4, <1>6, <1>15, <2>2, <2>3, <2>6 DEF Hearkens, x, z, s
<1> QED BY <1>16, <1>17

\* ... and one of a note that is (handleFileModification).
LEMMA FileHeard ==
    ASSUME Parts, NEW d \in Device, NEW p \in Device, d # p, Device = {d, p},
           NEW m \in SoundMessage, m.kind = "update", Exists(d), ReadyFor(d, p, m),
           pending' = pending, ApplyToFile(d, m)
    PROVE  Hearkens(d, p, m)
<1> DEFINE x == Holding(d, p)  z == Holding(d, p)'  s == Item(m, p, d)
           wins == Takes(x, s, Lower(p, d))
<1>1. /\ vv[d] \in Vector /\ m.vv \in Vector /\ vv[d][d] \in Nat /\ vv[d][p] \in Nat
      /\ m.vv[d] \in Nat /\ m.vv[p] \in Nat /\ m.mtime \in Nat /\ m.mtime # 0
      /\ Lower(d, p) \in BOOLEAN /\ Lower(p, d) \in BOOLEAN /\ (~Lower(d, p)) = Lower(p, d)
  BY VectorFacts
<1>2. /\ file[d].content # {} /\ LastChange(d) = file[d].mtime
      /\ file[d].mtime \in Nat /\ file[d].mtime # 0
  BY NoteTimes DEF LastChange
<1>3. x = [c |-> file[d].content, t |-> file[d].mtime, q |-> FALSE,
           own |-> vv[d][d], other |-> vv[d][p]]
  BY <1>2, IdleHolding DEF ReadyFor
<1>4. /\ file' = file /\ tomb' = tomb /\ Exists(d)' /\ LastChange(d)' = file[d].mtime
      /\ busy[d] = {} /\ tasks[d] = {} /\ ~pending[d] /\ waiting[d] = {} /\ m.from = p
  BY <1>2 DEF ApplyToFile, ReadyFor, Exists, LastChange
<1>5. busy'[d] = {} => z = [c |-> file[d].content, t |-> file[d].mtime, q |-> FALSE,
                            own |-> vv'[d][d], other |-> vv'[d][p]]
  BY <1>4, IdleHoldingNext
<1>6. s = [c |-> m.content, t |-> m.mtime, own |-> m.vv[p], other |-> m.vv[d]]
  BY DEF Item
<1>7. vv[d][p] <= m.vv[p] /\ m.vv[d] <= vv[d][d] /\ (m.vv = vv[d] => m.content = file[d].content)
  BY DEF ReadyFor
<1>8. ~x.q /\ x.own \in Nat /\ x.other \in Nat /\ s.own \in Nat /\ x.other <= s.own
  BY <1>1, <1>3, <1>6, <1>7
<1>9. CASE m.content = file[d].content
  <2>1. AdoptMerged(d, m) /\ busy' = busy /\ tasks' = tasks
    BY <1>4, <1>9 DEF ApplyToFile
  <2>2. vv'[d][d] = vv[d][d] /\ vv'[d][p] = m.vv[p] /\ waiting'[d] = {}
    BY <2>1, AdoptNext
  <2>3. /\ z.q = FALSE /\ z.own = x.own /\ z.other = s.own /\ z.t \in Nat /\ z.t # 0
        /\ s.c = x.c /\ z.c = x.c /\ z.t = x.t
    BY <1>2, <1>3, <1>4, <1>5, <1>6, <1>9, <2>1, <2>2
  <2> HIDE DEF x, z, s
  <2>4. Heard(x, s, z, Lower(d, p))
    <3>1. Joins(x, s, z)
      BY <1>8, <2>3 DEF Joins
    <3> QED BY <2>3, <3>1, HeardSame
  <2>5. \A e : MayLose(e, x, s, z)
    BY <2>3 DEF MayLose
  <2> QED BY <1>4, <2>1, <2>2, <2>4, <2>5 DEF Hearkens, x, z, s
<1>10. CASE m.content # file[d].content
  <2>1. Offered(m) \in VersionInfo /\ Held(d) \in VersionInfo
    BY MessageFacts, VersionsTyped
  <2>2. /\ Offered(m).vv = m.vv /\ Held(d).vv = vv[d] /\ Offered(m).mtime = m.mtime
        /\ Held(d).mtime = file[d].mtime
    BY DEF Offered, Held
  <2>3. /\ CompareVectors(m.vv, vv[d]) = "after" <=> m.vv[d] = vv[d][d]
        /\ CompareVectors(m.vv, vv[d]) = "before" <=> m.vv[p] = vv[d][p]
        /\ CompareVectors(m.vv, vv[d]) # "equal"
        /\ CompareVectors(m.vv, vv[d]) = "concurrent"
           => (NewerIsFirst(Offered(m), Held(d)) <=> Beats(m.mtime, file[d].mtime, Lower(p, d)))
    BY <1>7, <1>10, <2>1, <2>2, ChoiceOfTwo
  <2>4. wins <=> m.vv[p] > vv[d][p] /\ (m.vv[d] = vv[d][d] \/ Beats(m.mtime, file[d].mtime, Lower(p, d)))
    BY <1>3, <1>6 DEF Takes, News
  <2>5. s.c # x.c
    BY <1>3, <1>6, <1>10
  <2>6. ASSUME NEW copy, DecideToWrite(d, m, copy), wins,
               m.vv[d] = vv[d][d] \/ copy = file[d].content
        PROVE  Hearkens(d, p, m)
    <3>1. /\ tasks' = tasks /\ waiting' = waiting /\ vv' = vv
          /\ busy' = [busy EXCEPT ![d] =
                        {[msg |-> m, merged |-> MergeVectors(vv[d], m.vv), copy |-> copy]}]
      BY <2>6 DEF DecideToWrite
    <3> PICK w : w = [msg |-> m, merged |-> MergeVectors(vv[d], m.vv), copy |-> copy]
      OBVIOUS
    <3>2. busy'[d] = {w} /\ w.msg = m
      BY <3>1 DEF Parts, BusySound
    <3>3. w.merged[d] = vv[d][d] /\ w.merged[p] = m.vv[p]
      <4>1. w.merged = MergeVectors(vv[d], m.vv)
        OBVIOUS
      <4>2. /\ w.merged[d] = IF vv[d][d] > m.vv[d] THEN vv[d][d] ELSE m.vv[d]
            /\ w.merged[p] = IF vv[d][p] > m.vv[p] THEN vv[d][p] ELSE m.vv[p]
        BY <4>1 DEF MergeVectors
      <4> QED BY <1>1, <1>7, <4>2
    <3>4. z = [c |-> m.content, t |-> m.mtime, q |-> FALSE, own |-> vv[d][d], other |-> m.vv[p]]
      BY <3>2, <3>3, DecidedHolding
    <3>5. /\ z.q = FALSE /\ z.own = x.own /\ z.other = s.own /\ z.t \in Nat /\ z.t # 0
          /\ z.c = s.c /\ z.t = s.t
      BY <1>1, <1>3, <1>6, <3>4
    <3>6. Takes(x, s, Lower(p, d))
      BY <2>6
    <3>7. \A e : IsSaved(e)' \/ MayLose(e, x, s, z)
      <4>1. CASE m.vv[d] = vv[d][d]
        BY <1>3, <1>6, <4>1 DEF MayLose
      <4>2. CASE copy = file[d].content
        <5>1. w \in busy'[d] /\ w.copy = x.c
          BY <1>3, <3>2, <4>2
        <5>2. \A e : e \in x.c => IsSaved(e)'
          BY <5>1 DEF IsSaved
        <5> QED BY <5>2 DEF MayLose
      <4> QED BY <2>6, <4>1, <4>2
    <3> HIDE DEF x, z, s, wins
    <3>8. Heard(x, s, z, Lower(d, p))
      <4>1. Joins(x, s, z)
        BY <1>8, <3>5 DEF Joins
      <4> QED BY <3>5, <3>6, <4>1, HeardTaken
    <3> QED BY <1>4, <3>1, <3>2, <3>7, <3>8 DEF Hearkens, x, z, s
  <2>7. ASSUME Reply(d, p), busy' = busy, ~wins, waiting'[d] = {},
               vv'[d][d] = vv[d][d], vv'[d][p] = m.vv[p]
        PROVE  Hearkens(d, p, m)
    <3>1. \/ tasks'[d] = {}
          \/ \E t : /\ tasks'[d] = {t} /\ Sendable(d, t, p)' /\ Built(d, t)' \in Message
                    /\ Says(Item(Built(d, t)', d, p), Holding(d, p))
      BY <1>4, <2>7, ReplyNext
    <3>2. /\ z.q = FALSE /\ z.own = x.own /\ z.other = s.own /\ z.t \in Nat /\ z.t # 0
          /\ z.c = x.c /\ z.t = x.t
      BY <1>2, <1>3, <1>4, <1>5, <1>6, <2>7
    <3>3. ~Takes(x, s, Lower(p, d))
      BY <2>7
    <3> HIDE DEF x, z, s, wins
    <3>4. Heard(x, s, z, Lower(d, p))
      <4>1. Joins(x, s, z)
        BY <1>8, <3>2 DEF Joins
      <4> QED BY <2>5, <3>2, <3>3, <4>1, HeardKept
    <3>5. \A e : MayLose(e, x, s, z)
      BY <3>2 DEF MayLose
    <3> QED BY <1>4, <2>7, <3>1, <3>4, <3>5 DEF Hearkens, x, z, s
  <2>8. ASSUME AdoptMerged(d, m)
        PROVE  waiting'[d] = {} /\ vv'[d][d] = vv[d][d] /\ vv'[d][p] = m.vv[p]
    BY <2>8, AdoptNext
  <2> HIDE DEF wins
  <2>9. OrderOf(d, m) = CompareVectors(m.vv, vv[d])
    BY <1>4 DEF OrderOf
  <2>10. CASE OrderOf(d, m) = "after" /\ DecideToWrite(d, m, {})
    <3>1. m.vv[d] = vv[d][d] /\ m.vv[p] # vv[d][p]
      BY <2>3, <2>9, <2>10
    <3>2. m.vv[p] > vv[d][p]
      BY <1>1, <1>7, <3>1
    <3> QED BY <2>4, <2>6, <2>10, <3>1, <3>2
  <2>11. CASE OrderOf(d, m) = "before" /\ Reply(d, m.from) /\ UNCHANGED <<vv, waiting, busy>>
    <3>1. m.vv[p] = vv[d][p]
      BY <2>3, <2>9, <2>11
    <3>2. ~wins
      BY <1>1, <2>4, <3>1
    <3> QED BY <1>4, <2>7, <2>11, <3>1, <3>2
  <2>12. CASE OrderOf(d, m) \in {"equal", "concurrent"} /\ ResolveConflict(d, m)
    <3>1. /\ CompareVectors(m.vv, vv[d]) = "concurrent" /\ m.vv[d] # vv[d][d] /\ m.vv[p] # vv[d][p]
      BY <2>3, <2>9, <2>12
    <3>2. NewerIsFirst(Offered(m), Held(d)) <=> wins
      <4>1. m.vv[p] > vv[d][p]
        BY <1>1, <1>7, <3>1
      <4> QED BY <2>3, <2>4, <3>1, <4>1
    <3>3. CASE NewerIsFirst(Offered(m), Held(d))
      <4>1. vv[d][d] > m.vv[d]
        BY <1>1, <1>7, <3>1
      <4>2. DecideToWrite(d, m, file[d].content)
        BY <2>12, <3>3, <4>1 DEF ResolveConflict, KeepCopy, HasOwnUnseenEdit
      <4> QED BY <2>6, <3>2, <3>3, <4>2
    <3>4. CASE ~NewerIsFirst(Offered(m), Held(d))
      BY <1>4, <2>7, <2>8, <2>12, <3>2, <3>4 DEF ResolveConflict
    <3> QED BY <3>3, <3>4
  <2> QED BY <1>4, <1>10, <2>10, <2>11, <2>12 DEF ApplyToFile
<1> QED BY <1>9, <1>10


\* The invariant of the pair makes the first message one that is ready to be heard.
LEMMA FirstIsReady ==
    ASSUME Parts, NEW d \in Device, NEW p \in Device, d # p, PairInv(d, p),
           NEW m \in SoundMessage,
           Len(Flight(p, d)) > 0, Flight(p, d)[1] = Item(m, p, d), m.from = p,
           busy[d] = {}, tasks[d] = {}, ~pending[d]
    PROVE  ReadyFor(d, p, m)
<1> DEFINE x == Holding(d, p)  y == Holding(p, d)  G == Flight(p, d)  s == Item(m, p, d)
<1>1. x = [c |-> file[d].content, t |-> LastChange(d), q |-> FALSE, own |-> vv[d][d], other |-> vv[d][p]]
  BY IdleHolding
<1>2. s = [c |-> m.content, t |-> m.mtime, own |-> m.vv[p], other |-> m.vv[d]]
  BY DEF Item
<1>3. Pair(Flight(d, p), G, x, y, Lower(d, p))
  BY DEF PairInv
<1> HIDE DEF x, y, G, s
<1>4. Fits(s, y, x, ~Lower(d, p)) /\ y.other <= x.own /\ IsSide(x) /\ IsSide(y) /\ IsSaid(s)
  <2>1. Halfway(G, y, x, ~Lower(d, p)) /\ y.other <= x.own /\ IsSide(x) /\ IsSide(y)
    BY <1>3 DEF Pair, Halfway
  <2>2. Len(G) > 0 /\ G[1] = s
    BY DEF G, s
  <2>3. 1 \in 1 .. Len(G)
    BY <2>1, <2>2 DEF Halfway
  <2> QED BY <2>1, <2>2, <2>3 DEF Halfway
<1>5. x.other <= s.own /\ s.other <= y.other
  BY <1>4 DEF Fits, SaidBefore
<1>6. s.own = x.other /\ s.other = x.own => s.c = x.c
  <2>1. ~x.q
    BY <1>1
  <2>2. IsKnown(s, x)
    BY <1>4 DEF Fits
  <2> QED BY <2>1, <2>2 DEF IsKnown
<1>7. /\ s.c = m.content /\ s.own = m.vv[p] /\ s.other = m.vv[d]
      /\ x.c = file[d].content /\ x.own = vv[d][d] /\ x.other = vv[d][p]
  BY <1>1, <1>2
<1>8. vv[d][p] <= m.vv[p] /\ m.vv[d] <= vv[d][d]
  <2>1. x.own \in Nat /\ y.other \in Nat /\ s.other \in Nat
    BY <1>4 DEF IsSide, IsSaid
  <2>2. s.other <= x.own
    BY <1>4, <1>5, <2>1
  <2> QED BY <1>5, <1>7, <2>2
<1>9. m.vv = vv[d] => m.content = file[d].content
  BY <1>6, <1>7
<1>10. Calm(d, p)
  BY DEF PairInv
<1> QED BY <1>8, <1>9, <1>10 DEF ReadyFor, Calm

LEMMA OthersStay ==
    ASSUME Parts, NEW d \in Device, NEW p \in Device, d # p, NEW m \in SoundMessage, Apply(d, m)
    PROVE  /\ file'[p] = file[p] /\ tomb'[p] = tomb[p] /\ echo'[p] = echo[p]
           /\ tasks'[p] = tasks[p] /\ waiting'[p] = waiting[p] /\ busy'[p] = busy[p]
           /\ vv'[p] = vv[p]
<1>1. VectorEffect(d, m) /\ QueueEffect(d, m) /\ DecisionEffect(d, m) /\ VaultEffect(d, m)
  BY ApplyEffects
<1>2. vv'[p] = vv[p] /\ waiting'[p] = waiting[p]
  BY <1>1 DEF VectorEffect, AdoptMerged, AdoptVector, Parts, VectorsSound, WaitingSound
<1>3. tasks'[p] = tasks[p]
  BY <1>1 DEF QueueEffect, Reply, Queue, Parts, TasksSound
<1>4. busy'[p] = busy[p]
  BY <1>1 DEF DecisionEffect, DecideToWrite, Parts, BusySound
<1>5. file'[p] = file[p] /\ tomb'[p] = tomb[p] /\ echo'[p] = echo[p]
  BY <1>1 DEF VaultEffect, ClearTombstone, Parts, VaultsTyped
<1> QED BY <1>2, <1>3, <1>4, <1>5

LEMMA DeliverTurns ==
    ASSUME Benign, Parts, NEW d \in Device, NEW p \in Device, d # p, Device = {d, p},
           PairInv(d, p), NEW from \in Device, NEW n \in DOMAIN net[<<from, d>>],
           Deliver(d, from, n)
    PROVE  Turn(d, p)
<1>1. from = p
  <2>1. net[<<d, d>>] = <<>>
    BY DEF PairInv, Calm
  <2>2. ~\E i : i \in DOMAIN <<>>
    OBVIOUS
  <2> QED BY <2>1, <2>2
<1> DEFINE m == net[<<p, d>>][1]
<1>2. /\ n = 1 /\ 1 \in DOMAIN net[<<p, d>>] /\ busy[d] = {} /\ tasks[d] = {} /\ ~pending[d]
      /\ net' = [net EXCEPT ![<<p, d>>] = RemoveAt(net[<<p, d>>], 1)]
      /\ Apply(d, m) /\ pending' = pending
  BY <1>1 DEF Deliver, Benign, Unhurried
<1>3. net[<<p, d>>] \in Seq(SoundMessage) /\ 1 \in 1 .. Len(net[<<p, d>>])
  <2>1. net[<<p, d>>] \in Seq(SoundMessage)
    BY DEF Parts, NetSound
  <2> QED BY <1>2, <2>1, LenProperties
<1>4. m \in SoundMessage /\ m.from = p
  <2>1. m \in SoundMessage
    BY <1>3, ElementOfSeq
  <2>2. m.from = p
    BY <1>3 DEF PairInv, Calm
  <2> QED BY <2>1, <2>2
<1> HIDE DEF m
<1>5. /\ file'[p] = file[p] /\ tomb'[p] = tomb[p] /\ echo'[p] = echo[p] /\ pending'[p] = pending[p]
      /\ tasks'[p] = tasks[p] /\ waiting'[p] = waiting[p] /\ busy'[p] = busy[p] /\ vv'[p] = vv[p]
  BY <1>2, <1>4, OthersStay
<1>6. Len(Flight(p, d)) > 0 /\ Flight(p, d)[1] = Item(m, p, d)
  <2>1. TheTask(p)' = TheTask(p) /\ Built(p, TheTask(p))' = Built(p, TheTask(p))
    BY <1>5, BystanderHolds
  <2>2. net'[<<p, d>>] = RemoveAt(net[<<p, d>>], 1)
    BY <1>2 DEF Parts, NetSound
  <2> QED BY <1>2, <1>5, <2>1, <2>2, FlightShifts DEF m
<1>7. ReadyFor(d, p, m)
  BY <1>2, <1>4, <1>6, FirstIsReady
<1>8. Hearkens(d, p, m)
  <2>1. m.kind \in {"update", "delete"}
    BY <1>4, MessageFacts
  <2>2. CASE m.kind = "delete"
    BY <1>2, <1>4, <1>7, <2>2, DeletionHeard DEF Apply
  <2>3. CASE m.kind = "update" /\ ~Exists(d)
    BY <1>2, <1>4, <1>7, <2>3, NothingHeard DEF Apply
  <2>4. CASE m.kind = "update" /\ Exists(d)
    BY <1>2, <1>4, <1>7, <2>4, FileHeard DEF Apply
  <2> QED BY <2>1, <2>2, <2>3, <2>4
<1>9. net'[<<d, d>>] = net[<<d, d>>] /\ net'[<<d, p>>] = net[<<d, p>>]
  BY <1>2 DEF Parts, NetSound
<1>10. Calm(d, p)'
  BY <1>8, <1>9 DEF Hearkens, Calm, PairInv
<1>11. /\ Heard(Holding(d, p), Item(m, p, d), Holding(d, p)', Lower(d, p))
       /\ \A e : IsSaved(e)' \/ MayLose(e, Holding(d, p), Item(m, p, d), Holding(d, p)')
  BY <1>8 DEF Hearkens
<1>12. \/ tasks'[d] = {}
       \/ \E t : /\ tasks'[d] = {t} /\ Built(d, t)' \in Message
                 /\ \/ Says(Item(Built(d, t)', d, p), Holding(d, p))
                    \/ Says(Item(Built(d, t)', d, p), Holding(d, p)')
  BY <1>8 DEF Hearkens
<1> QED BY <1>2, <1>5, <1>10, <1>11, <1>12, OutcomeTurns DEF m


-----------------------------------------------------------------------------
(* Any step of either device.                                              *)

LEMMA PairInvMirrorsNext ==
    ASSUME NEW d \in Device, NEW p \in Device, d # p, PairInv(d, p)'
    PROVE  PairInv(p, d)'
<1> DEFINE F == Flight(d, p)'  G == Flight(p, d)'  x == Holding(d, p)'  y == Holding(p, d)'
           low == Lower(d, p)  high == Lower(p, d)
<1>1. low \in BOOLEAN /\ (~low) = high
  BY DeviceAssumption DEF Lower
<1>2. Pair(F, G, x, y, low) /\ Calm(d, p)' /\ Calm(p, d)'
  BY DEF PairInv, Lower
<1> HIDE DEF F, G, x, y, low, high
<1>3. Pair(G, F, y, x, ~low)
  BY <1>2, PairMirrors
<1>4. Pair(G, F, y, x, high)
  BY <1>1, <1>3, Zenon
<1> QED BY <1>2, <1>4 DEF PairInv, F, G, x, y, high, Lower

LEMMA InitPairs ==
    ASSUME Init
    PROVE  Paired
<1> SUFFICES ASSUME NEW d \in Device, NEW p \in Device, d # p PROVE PairInv(d, p)
  BY DEF Paired
<1> DEFINE zero == [c |-> {}, t |-> 0, q |-> FALSE, own |-> 0, other |-> 0]
<1>1. ASSUME NEW e \in Device, NEW o \in Device
      PROVE  Holding(e, o) = zero /\ Flight(e, o) = <<>> /\ Calm(e, o)
  <2>1. /\ file[e] = NoFile /\ tomb[e] = 0 /\ pending[e] = FALSE /\ tasks[e] = {} /\ waiting[e] = {}
        /\ busy[e] = {} /\ net[<<e, o>>] = <<>> /\ net[<<e, e>>] = <<>> /\ vv[e] = ZeroVector
    BY Zenon DEF Init
  <2>2. ~Exists(e) /\ ZeroVector[e] = 0 /\ ZeroVector[o] = 0 /\ NoFile.content = {}
    BY <2>1 DEF Exists, ZeroVector, NoFile
  <2>3. LastChange(e) = 0 /\ Uncounted(e) = FALSE
    BY <2>1, <2>2 DEF LastChange, Uncounted
  <2>4. Holding(e, o) = zero
    BY <2>1, <2>2, <2>3 DEF Holding
  <2>5. Outgoing(e, o) = <<>>
    BY <2>1 DEF Outgoing
  <2>6. Flight(e, o) = <<>>
    BY <2>5 DEF Flight, Items
  <2>7. Calm(e, o)
    BY <2>1, <2>2 DEF Calm
  <2> QED BY <2>4, <2>6, <2>7
<1>2. Len(<<>>) = 0 /\ Lower(d, p) \in BOOLEAN
  BY DeviceAssumption DEF Lower
<1>3. IsSide(zero) /\ Even(zero, zero)
  BY DEF IsSide, Even
<1>4. Halfway(<<>>, zero, zero, Lower(d, p)) /\ Halfway(<<>>, zero, zero, ~Lower(d, p))
  BY DEF Halfway, NewsTravels
<1>5. Pair(<<>>, <<>>, zero, zero, Lower(d, p))
  BY <1>2, <1>3, <1>4 DEF Pair
<1> QED BY <1>1, <1>5 DEF PairInv

LEMMA StillTurns ==
    ASSUME NEW d \in Device, NEW p \in Device, PairInv(d, p),
           UNCHANGED <<file, vv, tomb, pending, echo, tasks, waiting, net, busy>>
    PROVE  Turn(d, p)
<1>1. Calm(d, p) /\ Calm(p, d)
  BY DEF PairInv
<1>2. Holding(p, d)' = Holding(p, d) /\ Flight(p, d)' = Flight(p, d) /\ Calm(p, d)'
  BY <1>1, Bystander
<1>3. Holding(d, p)' = Holding(d, p) /\ Flight(d, p)' = Flight(d, p) /\ Calm(d, p)'
  BY <1>1, Bystander
<1> QED BY <1>2, <1>3 DEF Turn, Rests

LEMMA ActorTurns ==
    ASSUME Benign, Parts, TombInv, NEW d \in Device, NEW p \in Device, d # p, Device = {d, p},
           PairInv(d, p),
           \/ \E t \in Times : Save(d, t) \/ Delete(d, t)
           \/ Flush(d)
           \/ MarkerExpires(d)
           \/ \E o \in Device : CooldownExpires(d, o)
           \/ \E t \in tasks[d] : Process(d, t)
           \/ \E w \in waiting[d] : Resend(d, w)
           \/ \E from \in Device : \E n \in DOMAIN net[<<from, d>>] : Deliver(d, from, n)
           \/ Write(d)
    PROVE  Turn(d, p)
<1>1. ASSUME NEW t \in Times, Save(d, t) PROVE Turn(d, p)
  BY <1>1, SaveTurns
<1>2. ASSUME NEW t \in Times, Delete(d, t) PROVE Turn(d, p)
  BY <1>2, DeleteTurns
<1>3. CASE Flush(d)
  BY <1>3, FlushTurns
<1>4. CASE MarkerExpires(d)
  BY <1>4, StillTurns DEF MarkerExpires
<1>5. ASSUME NEW o \in Device, CooldownExpires(d, o) PROVE Turn(d, p)
  BY <1>5, StillTurns DEF CooldownExpires
<1>6. ASSUME NEW t \in tasks[d], Process(d, t) PROVE Turn(d, p)
  BY <1>6, ProcessTurns
<1>7. ASSUME NEW w \in waiting[d] PROVE FALSE
  BY <1>7 DEF PairInv, Calm
<1>8. ASSUME NEW from \in Device, NEW n \in DOMAIN net[<<from, d>>], Deliver(d, from, n)
      PROVE  Turn(d, p)
  BY <1>8, DeliverTurns
<1>9. CASE Write(d)
  BY <1>9, WriteTurns
<1> QED BY <1>1, <1>2, <1>3, <1>4, <1>5, <1>6, <1>7, <1>8, <1>9

LEMMA NextTurns ==
    ASSUME Benign, Parts, TombInv, NEW d \in Device, NEW p \in Device, d # p, Device = {d, p},
           PairInv(d, p), PairInv(p, d), [Next]_vars
    PROVE  Turn(d, p) \/ Turn(p, d)
<1>1. CASE UNCHANGED vars
  BY <1>1, StillTurns DEF vars
<1>2. ASSUME Next PROVE Turn(d, p) \/ Turn(p, d)
  <2>1. PICK e \in Device :
          \/ \E t \in Times : Save(e, t) \/ Delete(e, t)
          \/ Flush(e)
          \/ MarkerExpires(e)
          \/ \E o \in Device : CooldownExpires(e, o)
          \/ \E t \in tasks[e] : Process(e, t)
          \/ \E w \in waiting[e] : Resend(e, w)
          \/ \E from \in Device : \E n \in DOMAIN net[<<from, e>>] : Deliver(e, from, n)
          \/ Write(e)
    BY <1>2, Zenon DEF Next
  <2>2. CASE e = d
    BY <2>1, <2>2, ActorTurns
  <2>3. CASE e = p
    <3>1. Device = {p, d}
      OBVIOUS
    <3> QED BY <2>1, <2>3, <3>1, ActorTurns
  <2> QED BY <2>1, <2>2, <2>3
<1> QED BY <1>1, <1>2

LEMMA NextPairs ==
    ASSUME Benign, NEW a, NEW b, Device = {a, b}, Parts, TombInv, Paired, [Next]_vars
    PROVE  Paired'
<1> SUFFICES ASSUME NEW d \in Device, NEW p \in Device, d # p PROVE PairInv(d, p)'
  BY DEF Paired
<1>1. Device = {d, p} /\ PairInv(d, p) /\ PairInv(p, d)
  BY DEF Paired
<1>2. Turn(d, p) \/ Turn(p, d)
  BY <1>1, NextTurns
<1> QED BY <1>1, <1>2, TurnPairs, PairInvMirrorsNext

LEMMA QuietPairsAgree ==
    ASSUME Quiet, NEW d \in Device, NEW p \in Device, PairInv(d, p)
    PROVE  file[d].content = file[p].content
<1>1. ASSUME NEW e \in Device, NEW o \in Device
      PROVE  /\ Holding(e, o).c = file[e].content /\ Holding(e, o).q = FALSE
             /\ Flight(e, o) = <<>>
  <2>1. busy[e] = {} /\ ~pending[e] /\ tasks[e] = {} /\ net[<<e, o>>] = <<>>
    BY DEF Quiet
  <2>2. Holding(e, o).c = file[e].content /\ Holding(e, o).q = FALSE
    BY <2>1, IdleHolding
  <2>3. Outgoing(e, o) = <<>>
    BY <2>1 DEF Outgoing
  <2> QED BY <2>2, <2>3 DEF Flight, Items
<1> DEFINE x == Holding(d, p)  y == Holding(p, d)
<1>2. Pair(<<>>, <<>>, x, y, Lower(d, p))
  BY <1>1 DEF PairInv
<1>3. ~x.q /\ ~y.q
  BY <1>1
<1> HIDE DEF x, y
<1>4. Len(<<>>) = 0
  OBVIOUS
<1>5. ~(y.other < x.own) /\ ~(x.other < y.own)
  BY <1>2, <1>4 DEF Pair, Halfway, NewsTravels
<1>6. y.other <= x.own /\ x.other <= y.own /\ IsSide(x) /\ IsSide(y) /\ Even(x, y)
  BY <1>2 DEF Pair, Halfway
<1>7. x.own = y.other /\ x.other = y.own
  BY <1>5, <1>6 DEF IsSide
<1>8. x.c = y.c
  BY <1>3, <1>6, <1>7 DEF Even
<1> QED BY <1>1, <1>8 DEF x, y

(* Two devices that have sent and applied everything hold the same note,   *)
(* or none does, after any number of edits and deletions, also at equal    *)
(* times, with any content hashes, and if a user saves while a write is    *)
(* decided (pickVersion: "the devices on both ends agree").  The messages  *)
(* arrive in order, no send fails, and each device's clock runs forward.   *)
THEOREM PairConverges ==
    ASSUME Benign, NEW a, NEW b, Device = {a, b}
    PROVE  Spec => []Converged
<1>1. Paired => Converged
  BY QuietPairsAgree DEF Paired, Converged
<1>2. Parts /\ TombInv /\ Paired /\ [Next]_vars => TombInv' /\ Paired'
  <2>1. ChangesAreHeard
    BY DEF Benign, ChangesAreHeard
  <2> QED BY <2>1, NextAgrees, NextPairs
<1> QED BY InitAgrees, InitPairs, PartsInvariant, <1>1, <1>2, PTL DEF Spec

-----------------------------------------------------------------------------
(***************************************************************************)
(* No edit is lost between two devices.                                    *)
(***************************************************************************)

\* What was kept or dropped stays so: a decided write leaves its copy.
LEMMA SavedStays ==
    ASSUME Parts, NEW e, IsSaved(e), [Next]_vars, \A d \in Device : \A w, v \in busy[d] : w = v
    PROVE  IsSaved(e)'
<1>1. CASE UNCHANGED vars
  BY <1>1 DEF vars, IsSaved
<1>2. ASSUME kept \subseteq kept', dropped \subseteq dropped',
             \A d \in Device : \A w \in busy[d] : w \in busy'[d] \/ w.copy \subseteq kept'
      PROVE  IsSaved(e)'
  BY <1>2 DEF IsSaved
<1>3. ASSUME kept \subseteq kept', dropped \subseteq dropped', busy' = busy PROVE IsSaved(e)'
  BY <1>3 DEF IsSaved
<1>4. ASSUME NEW d \in Device, NEW t \in Times, Save(d, t) \/ Delete(d, t) PROVE IsSaved(e)'
  BY <1>3, <1>4 DEF Save, Delete
<1>5. ASSUME NEW d \in Device, Flush(d) PROVE IsSaved(e)'
  BY <1>3, <1>5 DEF Flush
<1>6. ASSUME NEW d \in Device, \/ MarkerExpires(d)
                               \/ \E p \in Device : CooldownExpires(d, p)
                               \/ \E t \in tasks[d] : Process(d, t)
                               \/ \E p \in waiting[d] : Resend(d, p)
      PROVE  IsSaved(e)'
  BY <1>3, <1>6 DEF MarkerExpires, CooldownExpires, Process, Resend
<1>7. ASSUME NEW d \in Device, NEW from \in Device, NEW n \in DOMAIN net[<<from, d>>],
             Deliver(d, from, n)
      PROVE  IsSaved(e)'
  <2> DEFINE m == net[<<from, d>>][n]
  <2>1. m \in SoundMessage /\ Apply(d, m) /\ busy[d] = {} /\ dropped' = dropped
    <3>1. net[<<from, d>>] \in Seq(SoundMessage)
      BY DEF Parts, NetSound
    <3>2. n \in 1 .. Len(net[<<from, d>>])
      BY <3>1, LenProperties
    <3> QED BY <1>7, <3>1, <3>2, ElementOfSeq DEF Deliver
  <2>2. DecisionEffect(d, m) /\ VaultEffect(d, m)
    BY <2>1, ApplyEffects
  <2>3. kept \subseteq kept'
    BY <2>2 DEF VaultEffect
  <2>4. \A o \in Device : busy[o] \subseteq busy'[o]
    BY <2>1, <2>2 DEF DecisionEffect, DecideToWrite, Parts, BusySound
  <2> QED BY <1>2, <2>1, <2>3, <2>4
<1>8. ASSUME NEW d \in Device, Write(d) PROVE IsSaved(e)'
  <2>1. PICK w \in busy[d] : kept' = kept \cup w.copy
    BY <1>8 DEF Write
  <2>2. busy' = [busy EXCEPT ![d] = {}] /\ dropped' = dropped
    BY <1>8 DEF Write
  <2>3. \A o \in Device : \A v \in busy[o] : v \in busy'[o] \/ v.copy \subseteq kept'
    BY <2>1, <2>2 DEF Parts, BusySound
  <2> QED BY <1>2, <2>1, <2>2, <2>3
<1> QED BY <1>1, <1>4, <1>5, <1>6, <1>7, <1>8 DEF Next

\* A device leaves its note alone while it has decided to write, and keeps a copy of nothing
\* else.
DecisionRests(d) ==
    /\ busy'[d] # {} => file'[d] = file[d]
    /\ \A w \in busy'[d] : w \in busy[d] \/ w.copy \subseteq file[d].content

LEMMA DecisionsRest ==
    ASSUME Gentle, Parts, NEW d \in Device, [Next]_vars
    PROVE  DecisionRests(d)
<1>1. ASSUME file'[d] = file[d], busy'[d] = busy[d] PROVE DecisionRests(d)
  BY <1>1 DEF DecisionRests
<1>2. ASSUME busy'[d] = {} PROVE DecisionRests(d)
  BY <1>2 DEF DecisionRests
<1>3. CASE UNCHANGED vars
  BY <1>1, <1>3 DEF vars
<1>4. ASSUME NEW o \in Device, NEW t \in Times,
             Save(o, t) \/ Delete(o, t)
      PROVE  DecisionRests(d)
  <2>1. busy[o] = {} /\ busy' = busy
    BY <1>4 DEF Save, Delete, Gentle
  <2>2. o # d => file'[d] = file[d]
    BY <1>4 DEF Save, Delete, Parts, VaultsTyped
  <2> QED BY <1>1, <1>2, <2>1, <2>2
<1>5. ASSUME NEW o \in Device, \/ Flush(o)
                               \/ MarkerExpires(o)
                               \/ \E p \in Device : CooldownExpires(o, p)
                               \/ \E t \in tasks[o] : Process(o, t)
                               \/ \E p \in waiting[o] : Resend(o, p)
      PROVE  DecisionRests(d)
  <2>1. file' = file /\ busy' = busy
    BY <1>5 DEF Flush, MarkerExpires, CooldownExpires, Process, Resend
  <2> QED BY <1>1, <2>1
<1>6. ASSUME NEW o \in Device, NEW from \in Device, NEW n \in DOMAIN net[<<from, o>>],
             Deliver(o, from, n)
      PROVE  DecisionRests(d)
  <2> DEFINE m == net[<<from, o>>][n]
  <2>1. m \in SoundMessage /\ Apply(o, m) /\ busy[o] = {}
    <3>1. net[<<from, o>>] \in Seq(SoundMessage)
      BY DEF Parts, NetSound
    <3>2. n \in 1 .. Len(net[<<from, o>>])
      BY <3>1, LenProperties
    <3> QED BY <1>6, <3>1, <3>2, ElementOfSeq DEF Deliver
  <2>2. CASE o # d
    <3>1. file'[d] = file[d] /\ busy'[d] = busy[d]
      BY <2>1, <2>2, OthersStay
    <3> QED BY <1>1, <3>1
  <2>3. CASE o = d /\ ~ApplyToFile(o, m)
    <3>1. busy' = busy
      BY <2>1, <2>3 DEF Apply, ApplyDelete, ApplyToNothing
    <3> QED BY <1>2, <2>1, <2>3, <3>1
  <2>4. CASE o = d /\ ApplyToFile(o, m)
    <3>1. file' = file
      BY <2>4 DEF ApplyToFile
    <3>2. \/ busy' = busy
          \/ \E copy : DecideToWrite(d, m, copy) /\ copy \subseteq file[d].content
      BY <2>4 DEF ApplyToFile, ResolveConflict
    <3>3. \A w \in busy'[d] : w.copy \subseteq file[d].content
      BY <2>1, <2>4, <3>2 DEF DecideToWrite, Parts, BusySound
    <3> QED BY <3>1, <3>3 DEF DecisionRests
  <2> QED BY <2>2, <2>3, <2>4
<1>7. ASSUME NEW o \in Device, Write(o) PROVE DecisionRests(d)
  <2>1. o = d => busy'[d] = {}
    BY <1>7 DEF Write, Parts, BusySound
  <2>2. o # d => file'[d] = file[d] /\ busy'[d] = busy[d]
    BY <1>7 DEF Write, Parts, BusySound, VaultsTyped
  <2> QED BY <1>1, <1>2, <2>1, <2>2
<1> QED BY <1>3, <1>4, <1>5, <1>6, <1>7 DEF Next

\* Both directions of a pair after a step of either device.
LEMMA BothSpare ==
    ASSUME NEW d \in Device, NEW p \in Device, d # p, PairInv(d, p), PairInv(p, d),
           Turn(d, p) \/ Turn(p, d), Spares
    PROVE  /\ Timed(Flight(d, p)', Holding(d, p)', Holding(p, d)')
           /\ Timed(Flight(p, d)', Holding(p, d)', Holding(d, p)')
           /\ \A e \in Edit : ~IsSaved(e) /\ ~IsSaved(e)' =>
                /\ Spared(e, Flight(d, p)', Holding(d, p)', Holding(p, d)', Lower(d, p))
                /\ Spared(e, Flight(p, d)', Holding(p, d)', Holding(d, p)', Lower(p, d))
                /\ e \in Holding(d, p).c => e \in Holding(d, p)'.c
                /\ e \in Holding(p, d).c => e \in Holding(p, d)'.c
<1> DEFINE F == Flight(d, p)  G == Flight(p, d)  x == Holding(d, p)  y == Holding(p, d)
           low == Lower(d, p)  high == Lower(p, d)
<1>1. low \in BOOLEAN /\ high \in BOOLEAN /\ (~low) = high /\ (~high) = low
  BY DeviceAssumption DEF Lower
<1>2. OnTime(F, G, x, y) /\ OnTime(G, F, y, x)
  BY DEF Spares, OnTime
<1>3. ASSUME NEW e \in Edit, ~IsSaved(e)
      PROVE  Sparing(e, F, G, x, y, low) /\ Sparing(e, G, F, y, x, high)
  <2>1. Spared(e, F, x, y, low) /\ Spared(e, G, y, x, high)
    BY <1>3 DEF Spares, KeepsEdit
  <2> HIDE DEF F, G, x, y, low, high
  <2>2. Spared(e, G, y, x, ~low) /\ Spared(e, F, x, y, ~high)
    BY <1>1, <2>1, Zenon
  <2> QED BY <2>1, <2>2 DEF Sparing
<1>4. OnTime(F', G', x', y') \/ OnTime(G', F', y', x')
  BY <1>2, TurnOnTime
<1>5. ASSUME NEW e \in Edit, ~IsSaved(e), ~IsSaved(e)'
      PROVE  /\ Spared(e, F', x', y', low) /\ Spared(e, G', y', x', high)
             /\ e \in x.c => e \in x'.c
             /\ e \in y.c => e \in y'.c
  <2>1. Sparing(e, F, G, x, y, low) /\ Sparing(e, G, F, y, x, high)
    BY <1>3, <1>5
  <2>2. CASE Turn(d, p)
    <3>1. Sparing(e, F', G', x', y', low) /\ (e \in x.c => e \in x'.c)
      BY <1>2, <1>5, <2>1, <2>2, TurnSpares
    <3>2. y' = y
      BY <2>2 DEF Turn
    <3>3. Spared(e, G', y', x', ~low) /\ Spared(e, F', x', y', low)
      BY <3>1 DEF Sparing
    <3> HIDE DEF F, G, x, y, low, high
    <3>4. Spared(e, G', y', x', high)
      BY <1>1, <3>3, Zenon
    <3> QED BY <3>1, <3>2, <3>3, <3>4
  <2>3. CASE Turn(p, d)
    <3>1. Sparing(e, G', F', y', x', high) /\ (e \in y.c => e \in y'.c)
      BY <1>2, <1>5, <2>1, <2>3, TurnSpares
    <3>2. x' = x
      BY <2>3 DEF Turn
    <3>3. Spared(e, F', x', y', ~high) /\ Spared(e, G', y', x', high)
      BY <3>1 DEF Sparing
    <3> HIDE DEF F, G, x, y, low, high
    <3>4. Spared(e, F', x', y', low)
      BY <1>1, <3>3, Zenon
    <3> QED BY <3>1, <3>2, <3>3, <3>4
  <2> QED BY <2>2, <2>3
<1> QED BY <1>4, <1>5 DEF OnTime

LEMMA RestHolds ==
    ASSUME NEW d, NEW p
    PROVE  /\ busy[d] = {} => Holding(d, p).c = file[d].content
           /\ busy'[d] = {} => Holding(d, p)'.c = file'[d].content
BY DEF Holding

\* An edit that is not saved stays in the note it is in.
LEMMA NoteKeeps ==
    ASSUME NEW d \in Device, NEW p \in Device, DecisionRests(d), NEW e,
           e \in file[d].content => e \in Holding(d, p).c,
           e \in Holding(d, p).c => e \in Holding(d, p)'.c
    PROVE  /\ e \in file[d].content => e \in file'[d].content
           /\ e \in file'[d].content => e \in Holding(d, p)'.c
<1>1. CASE busy'[d] = {}
  BY <1>1, RestHolds
<1>2. CASE busy'[d] # {}
  BY <1>2 DEF DecisionRests
<1> QED BY <1>1, <1>2

LEMMA SparesNext ==
    ASSUME Gentle, NEW d \in Device, NEW p \in Device, d # p, Device = {d, p}, Parts, TombInv,
           Paired, Spares, [Next]_vars
    PROVE  /\ Timed(Flight(d, p)', Holding(d, p)', Holding(p, d)')
           /\ \A e \in Edit : ~IsSaved(e)' =>
                /\ KeepsEdit(e, d, p)'
                /\ e \in file[d].content => e \in file'[d].content
           /\ \A w \in busy'[d] : w.copy \subseteq file'[d].content
<1>1. PairInv(d, p) /\ PairInv(p, d)
  BY DEF Paired
<1>2. Turn(d, p) \/ Turn(p, d)
  BY <1>1, NextTurns DEF Gentle, Benign
<1>3. /\ Timed(Flight(d, p)', Holding(d, p)', Holding(p, d)')
      /\ \A e \in Edit : ~IsSaved(e) /\ ~IsSaved(e)' =>
           /\ Spared(e, Flight(d, p)', Holding(d, p)', Holding(p, d)', Lower(d, p))
           /\ e \in Holding(d, p).c => e \in Holding(d, p)'.c
  BY <1>1, <1>2, BothSpare
<1>4. DecisionRests(d)
  BY DecisionsRest
<1>5. \A o \in Device : \A w, v \in busy[o] : w = v
  <2> SUFFICES ASSUME NEW o \in Device PROVE \A w, v \in busy[o] : w = v
    OBVIOUS
  <2>1. busy[o] = {} \/ \E w \in busy[o] : busy[o] = {w}
    BY <1>1 DEF PairInv, Calm
  <2> QED BY <2>1
<1>6. ASSUME NEW e \in Edit, ~IsSaved(e)'
      PROVE  /\ KeepsEdit(e, d, p)'
             /\ e \in file[d].content => e \in file'[d].content
  <2>1. ~IsSaved(e)
    BY <1>5, <1>6, SavedStays
  <2>2. e \in file[d].content => e \in Holding(d, p).c
    BY <2>1 DEF Spares, KeepsEdit
  <2>3. /\ Spared(e, Flight(d, p)', Holding(d, p)', Holding(p, d)', Lower(d, p))
        /\ e \in Holding(d, p).c => e \in Holding(d, p)'.c
    BY <1>3, <1>6, <2>1
  <2>4. /\ e \in file[d].content => e \in file'[d].content
        /\ e \in file'[d].content => e \in Holding(d, p)'.c
    BY <1>4, <2>2, <2>3, NoteKeeps
  <2> QED BY <2>3, <2>4 DEF KeepsEdit, Lower
<1>7. ASSUME NEW w \in busy'[d] PROVE w.copy \subseteq file'[d].content
  <2>1. file'[d] = file[d]
    BY <1>4 DEF DecisionRests
  <2>2. w.copy \subseteq file[d].content
    BY <1>4 DEF DecisionRests, Spares
  <2> QED BY <2>1, <2>2
<1> QED BY <1>3, <1>6, <1>7

LEMMA InitSpares ==
    ASSUME Init
    PROVE  Spares /\ NoEditLost
<1>1. ASSUME NEW d \in Device, NEW p \in Device
      PROVE  /\ Holding(d, p).c = {} /\ Flight(d, p) = <<>> /\ file[d].content = {} /\ busy[d] = {}
  <2>1. /\ file[d] = NoFile /\ tasks[d] = {} /\ busy[d] = {} /\ net[<<d, p>>] = <<>>
    BY Zenon DEF Init
  <2>2. Outgoing(d, p) = <<>> /\ file[d].content = {}
    BY <2>1 DEF Outgoing, NoFile
  <2>3. Holding(d, p).c = {}
    BY <2>1, <2>2, RestHolds
  <2> QED BY <2>1, <2>2, <2>3 DEF Flight, Items
<1>2. Len(<<>>) = 0
  OBVIOUS
<1>3. \A d, p \in Device : Timed(Flight(d, p), Holding(d, p), Holding(p, d))
  BY <1>1, <1>2 DEF Timed
<1>4. \A d, p \in Device : \A e \in Edit : KeepsEdit(e, d, p)
  BY <1>1, <1>2 DEF KeepsEdit, Spared
<1>5. NoEditLost
  BY DEF Init, NoEditLost
<1> QED BY <1>1, <1>3, <1>4, <1>5 DEF Spares

LEMMA NextSpares ==
    ASSUME Gentle, NEW a, NEW b, Device = {a, b}, Parts, TombInv, Paired, Spares, [Next]_vars
    PROVE  Spares'
<1>1. ASSUME NEW d \in Device, NEW p \in Device, d # p
      PROVE  /\ Timed(Flight(d, p), Holding(d, p), Holding(p, d))'
             /\ \A e \in Edit : IsSaved(e)' \/ KeepsEdit(e, d, p)'
  <2>1. Device = {d, p}
    BY <1>1
  <2> QED BY <1>1, <2>1, SparesNext DEF Timed, IsOlder, IsStill, Drops, Yields, News
<1>2. ASSUME NEW d \in Device PROVE \A w \in busy'[d] : w.copy \subseteq file'[d].content
  <2>1. DecisionRests(d)
    BY DecisionsRest
  <2> QED BY <2>1 DEF DecisionRests, Spares
<1> QED BY <1>1, <1>2 DEF Spares

\* Only a save makes an edit, and the note it leaves has it.
LEMMA NewEditIsHeld ==
    ASSUME Parts, [Next]_vars, NEW e \in 1 .. made', e \notin 1 .. made
    PROVE  \E d \in Device : e \in file'[d].content
<1>1. made \in Nat
  BY DEF Parts, HistoryTyped
<1>2. made' # made
  BY <1>1
<1>3. PICK d \in Device, t \in Times : Save(d, t)
  <2>1. ~UNCHANGED vars
    BY <1>2 DEF vars
  <2>2. \A d \in Device :
          /\ \A t \in Times : ~Delete(d, t)
          /\ ~Flush(d) /\ ~MarkerExpires(d) /\ ~Write(d)
          /\ \A p \in Device : ~CooldownExpires(d, p)
          /\ \A t \in tasks[d] : ~Process(d, t)
          /\ \A p \in waiting[d] : ~Resend(d, p)
          /\ \A from \in Device : \A n \in DOMAIN net[<<from, d>>] : ~Deliver(d, from, n)
    BY <1>2 DEF Delete, Flush, MarkerExpires, Write, CooldownExpires, Process, Resend, Deliver
  <2> QED BY <2>1, <2>2, Zenon DEF Next
<1>4. /\ made' = made + 1
      /\ file' = [file EXCEPT ![d] = [content |-> @.content \cup {made + 1}, mtime |-> t]]
  BY <1>3 DEF Save
<1>5. e = made + 1
  BY <1>1, <1>4
<1>6. file'[d].content = file[d].content \cup {made + 1}
  BY <1>4 DEF Parts, VaultsTyped
<1> QED BY <1>5, <1>6

\* An edit somebody has, or saved: no step loses it, and a save adds one more.
LEMMA NextLosesNothing ==
    ASSUME Gentle, NEW a, NEW b, a # b, Device = {a, b}, Parts, TombInv, Paired, Spares,
           NoEditLost, [Next]_vars
    PROVE  NoEditLost'
<1> SUFFICES ASSUME NEW e \in 1 .. made', ~(e \in kept' \cup dropped')
             PROVE  \E d \in Device : e \in file'[d].content
  BY DEF NoEditLost
<1>1. CASE e \notin 1 .. made
  BY <1>1, NewEditIsHeld
<1>2. CASE e \in 1 .. made /\ IsSaved(e)'
  <2>1. PICK d \in Device : \E w \in busy'[d] : e \in w.copy
    BY <1>2 DEF IsSaved
  <2>2. PICK p \in Device : p # d /\ Device = {d, p}
    OBVIOUS
  <2>3. \A w \in busy'[d] : w.copy \subseteq file'[d].content
    BY <2>2, SparesNext
  <2> QED BY <2>1, <2>3
<1>3. CASE e \in 1 .. made /\ ~IsSaved(e)'
  <2>1. e \in Edit
    BY <1>3 DEF Parts, HistoryTyped, Edit, FileSyncAssumption
  <2>2. \A d \in Device : \A w, v \in busy[d] : w = v
    <3> SUFFICES ASSUME NEW d \in Device PROVE \A w, v \in busy[d] : w = v
      OBVIOUS
    <3>1. PICK p \in Device : d # p
      OBVIOUS
    <3>2. busy[d] = {} \/ \E w \in busy[d] : busy[d] = {w}
      BY <3>1 DEF Paired, PairInv, Calm
    <3> QED BY <3>2
  <2>3. ~IsSaved(e)
    BY <1>3, <2>2, SavedStays
  <2>4. PICK d \in Device : e \in file[d].content
    BY <1>3, <2>3 DEF NoEditLost, IsSaved
  <2>5. PICK p \in Device : d # p /\ Device = {d, p}
    OBVIOUS
  <2>6. e \in file'[d].content
    BY <1>3, <2>1, <2>4, <2>5, SparesNext
  <2> QED BY <2>6
<1> QED BY <1>1, <1>2, <1>3

LEMMA PairStays ==
    ASSUME Gentle, NEW a, NEW b, a # b, Device = {a, b}
    PROVE  Spec => [](PairIInv /\ NoEditLost)
<1>1. Parts /\ TombInv /\ Paired /\ Spares /\ NoEditLost /\ [Next]_vars
      => TombInv' /\ Paired' /\ Spares' /\ NoEditLost'
  <2>1. Benign /\ ChangesAreHeard
    BY DEF Gentle, Benign, ChangesAreHeard
  <2> QED BY <2>1, NextAgrees, NextPairs, NextSpares, NextLosesNothing
<1> QED BY InitAgrees, InitPairs, InitSpares, PartsInvariant, <1>1, PTL DEF Spec, PairIInv

(* What two devices hold and what is under way between them fit each       *)
(* other at every moment, so that no message, applied next, overwrites an  *)
(* edit without a copy (handleFileModification's "after" branch).          *)
THEOREM PairFits ==
    ASSUME Gentle, NEW a, NEW b, a # b, Device = {a, b}
    PROVE  Spec => []PairIInv
BY PairStays, PTL

(* Between two devices an edit is never lost, whatever the order of saves, *)
(* deletions, sends and deliveries and also when changes bear equal times: *)
(* it is in a note, in the copy resolveConflict keeps, in the trash        *)
(* applyFileDelete fills, or in a note its user deleted.  The messages     *)
(* arrive in order, no send fails, each device's clock runs forward and    *)
(* nobody saves between a decision and its write.                          *)
THEOREM EditsSurvive ==
    ASSUME Gentle, NEW a, NEW b, a # b, Device = {a, b}
    PROVE  Spec => []NoEditLost
BY PairStays, PTL
=============================================================================
