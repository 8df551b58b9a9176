----------------------------- MODULE MerkleProofs -----------------------------
(* Proofs about the cached Merkle tree (MerkleTree) and the exchange that  *)
(* uses it (Merkle).  First the tree, for any paths, contents, callers and *)
(* devices, and whatever changes while trees are built and folded: the     *)
(* type invariant, and that a tree declared fresh shows the vault.  Then   *)
(* the exchange of two devices works the tree as MerkleTree allows, so the *)
(* same holds of it, for any bounds.  Last, the exchange reconciles: a     *)
(* difference two devices connected with is carried to its end.            *)
EXTENDS Merkle, FiniteSetTheorems, TLAPS

(* What makes CacheCurrent inductive.  A build that no change disturbed    *)
(* has every file it has read, or that was not there, as it is now.        *)
BuildFaithful ==
    \A d \in Device : building[d] /\ ~moved[d] =>
        \A p \in Path : p \in unread[d] \/ built[d][p] = vault[d][p]

IInv == MerkleTypeOK /\ BuildFaithful /\ CacheCurrent

-----------------------------------------------------------------------------
(* The type invariant.                                                     *)

LEMMA WaitsTyped ==
    ASSUME NEW u \in Purpose, NEW at \in {"build", "fold", "served"}, NEW S \in SUBSET Path
    PROVE  Waits(u, at, S) \in Call
BY DEF Waits, Call, NoFiles, Leaves

LEMMA ReplacedTyped ==
    ASSUME MerkleTypeOK, NEW d \in Device, NEW c \in Call
    PROVE  Replaced(d, c) \in Call
<1>1. tree[d] \in Leaves
  BY DEF MerkleTypeOK
<1>2. QED
  BY <1>1 DEF Replaced, Call

LEMMA WithLeafTyped ==
    ASSUME MerkleTypeOK, NEW d \in Device, NEW l \in Leaves, NEW p \in Path
    PROVE  WithLeaf(d, l, p) \in Leaves
<1>1. vault[d] \in Leaves
  BY DEF MerkleTypeOK
<1>2. QED
  BY <1>1 DEF WithLeaf, Leaves

LEMMA FoldedTyped ==
    ASSUME MerkleTypeOK, NEW d \in Device, NEW c \in Call, NEW p \in Path
    PROVE  Folded(d, c, p) \in Call
<1>1. c.copy \in Leaves
  BY DEF Call
<1>2. WithLeaf(d, c.copy, p) \in Leaves
  BY <1>1, WithLeafTyped
<1>3. QED
  BY <1>1, <1>2 DEF Folded, Call

LEMMA EditTyped ==
    ASSUME MerkleTypeOK, NEW d \in Device, NEW p \in Path, NEW t \in Text \cup {Absent},
           Edit(d, p, t)
    PROVE  MerkleTypeOK'
<1>1. vault' \in [Device -> Leaves]
  BY DEF MerkleTypeOK, Edit, Change, Leaves
<1>2. KeepsTree(d) \in BOOLEAN
  BY DEF MerkleTypeOK, KeepsTree
<1>3. dirty' \in [Device -> SUBSET Path]
  BY DEF MerkleTypeOK, Edit, Change, Invalidate
<1>4. fresh' \in [Device -> BOOLEAN] /\ moved' \in [Device -> BOOLEAN]
  BY <1>2 DEF MerkleTypeOK, Edit, Change, Invalidate
<1>5. QED
  BY <1>1, <1>3, <1>4 DEF MerkleTypeOK, Edit, Change

LEMMA CallTyped ==
    ASSUME MerkleTypeOK, NEW d \in Device, NEW u \in Purpose, Call1(d, u)
    PROVE  MerkleTypeOK'
<1>1. CASE AskWhileFresh(d, u)
  <2>1. dirty[d] \in SUBSET Path
    BY DEF MerkleTypeOK
  <2>2. Waits(u, IF dirty[d] = {} THEN "served" ELSE "fold", dirty[d]) \in Call
    BY <2>1, WaitsTyped
  <2>3. calls' \in [Device -> SUBSET Call]
    BY <1>1, <2>2 DEF MerkleTypeOK, AskWhileFresh
  <2>4. dirty' \in [Device -> SUBSET Path]
    BY <1>1 DEF MerkleTypeOK, AskWhileFresh
  <2>5. QED
    BY <1>1, <2>3, <2>4 DEF MerkleTypeOK, AskWhileFresh, Call1
<1>2. CASE AskWhileStale(d, u)
  <2>1. Waits(u, "build", {}) \in Call
    BY WaitsTyped
  <2>2. calls' \in [Device -> SUBSET Call]
    BY <1>2, <2>1 DEF MerkleTypeOK, AskWhileStale
  <2>3. building' \in [Device -> BOOLEAN]
    BY <1>2 DEF MerkleTypeOK, AskWhileStale
  <2>4. NoFiles \in Leaves
    BY DEF NoFiles, Leaves
  <2>5. /\ unread' \in [Device -> SUBSET Path]
        /\ built' \in [Device -> Leaves]
        /\ moved' \in [Device -> BOOLEAN]
    <3>1. CASE building[d]
      BY <1>2, <3>1 DEF MerkleTypeOK, AskWhileStale
    <3>2. CASE ~building[d]
      <4>1. /\ unread' = [unread EXCEPT ![d] = {p \in Path : vault[d][p] # Absent}]
            /\ built' = [built EXCEPT ![d] = NoFiles]
            /\ moved' = [moved EXCEPT ![d] = FALSE]
        BY <1>2, <3>2 DEF AskWhileStale
      <4>2. {p \in Path : vault[d][p] # Absent} \in SUBSET Path
        OBVIOUS
      <4>3. QED
        BY <2>4, <4>1, <4>2 DEF MerkleTypeOK
    <3>3. QED
      BY <3>1, <3>2
  <2>6. QED
    BY <1>2, <2>2, <2>3, <2>5 DEF MerkleTypeOK, AskWhileStale, Call1
<1>3. QED
  BY <1>1, <1>2 DEF Call1, Ask

LEMMA WorkTyped ==
    ASSUME MerkleTypeOK, NEW d \in Device, Work(d)
    PROVE  MerkleTypeOK'
<1>1. CASE Hash(d)
  <2>1. unread' \in [Device -> SUBSET Path] /\ built' \in [Device -> Leaves]
    BY <1>1 DEF MerkleTypeOK, Hash, Leaves
  <2>2. QED
    BY <1>1, <2>1 DEF MerkleTypeOK, Hash
<1>2. CASE FinishBuild(d)
  <2>1. {Replaced(d, c) : c \in calls[d]} \in SUBSET Call
    BY ReplacedTyped DEF MerkleTypeOK
  <2>2. calls' \in [Device -> SUBSET Call]
    BY <1>2, <2>1 DEF MerkleTypeOK, FinishBuild
  <2>3. NoFiles \in Leaves
    BY DEF NoFiles, Leaves
  <2>4. tree' \in [Device -> Leaves] /\ built' \in [Device -> Leaves]
    BY <1>2, <2>3 DEF MerkleTypeOK, FinishBuild
  <2>5. /\ fresh' \in [Device -> BOOLEAN] /\ overtaken' \in [Device -> BOOLEAN]
        /\ building' \in [Device -> BOOLEAN] /\ moved' \in [Device -> BOOLEAN]
    BY <1>2 DEF MerkleTypeOK, FinishBuild
  <2>6. QED
    BY <1>2, <2>2, <2>4, <2>5 DEF MerkleTypeOK, FinishBuild
<1>3. CASE Fold(d)
  <2>1. PICK c \in calls[d] : c.at = "fold" /\ \E p \in c.todo : FoldStep(d, c, p)
    BY <1>3 DEF Fold
  <2>2. PICK p \in c.todo : FoldStep(d, c, p)
    BY <2>1
  <2>3. c \in Call /\ p \in Path
    BY <2>1, <2>2 DEF MerkleTypeOK, Call
  <2>4. Folded(d, c, p) \in Call
    BY <2>3, FoldedTyped
  <2>5. calls' \in [Device -> SUBSET Call]
    BY <2>2, <2>4 DEF MerkleTypeOK, FoldStep
  <2>6. WithLeaf(d, tree[d], p) \in Leaves
    BY <2>3, WithLeafTyped DEF MerkleTypeOK
  <2>7. tree' \in [Device -> Leaves]
    BY <2>2, <2>6 DEF MerkleTypeOK, FoldStep
  <2>8. fresh' \in [Device -> BOOLEAN] /\ overtaken' \in [Device -> BOOLEAN]
    BY <2>2 DEF MerkleTypeOK, FoldStep
  <2>9. QED
    BY <2>2, <2>5, <2>7, <2>8 DEF MerkleTypeOK, FoldStep
<1>4. QED
  BY <1>1, <1>2, <1>3 DEF Work

LEMMA StepTyped == MerkleTypeOK /\ [MerkleNext]_merkleVars => MerkleTypeOK'
<1> SUFFICES ASSUME MerkleTypeOK, [MerkleNext]_merkleVars PROVE MerkleTypeOK'
  OBVIOUS
<1>1. CASE UNCHANGED merkleVars
  BY <1>1 DEF merkleVars, MerkleTypeOK
<1>2. ASSUME NEW d \in Device, GoOn(d) PROVE MerkleTypeOK'
  <2>1. calls' \in [Device -> SUBSET Call]
    BY <1>2 DEF MerkleTypeOK, GoOn
  <2>2. QED
    BY <1>2, <2>1 DEF MerkleTypeOK, GoOn, treeVars
<1>3. QED
  BY <1>1, <1>2, EditTyped, CallTyped, WorkTyped DEF MerkleNext

LEMMA InitTyped == MerkleInit => MerkleTypeOK
BY DEF MerkleInit, MerkleTypeOK, NoFiles, Leaves

(* Every state of the cache is well typed (buildMerkleTree, getMerkleTree, *)
(* applyMerkleDirtyPaths, invalidateMerkleTree).                           *)
THEOREM TypeCorrect == MerkleSpec => []MerkleTypeOK
BY InitTyped, StepTyped, PTL DEF MerkleSpec

-----------------------------------------------------------------------------
(* A build that nobody disturbed is faithful.                              *)

LEMMA BuildStaysFaithful ==
    ASSUME MerkleTypeOK, BuildFaithful, [MerkleNext]_merkleVars
    PROVE  BuildFaithful'
<1>1. CASE UNCHANGED merkleVars
  BY <1>1 DEF merkleVars, BuildFaithful
<1>2. ASSUME NEW d \in Device, NEW p \in Path, NEW t \in Text \cup {Absent}, Edit(d, p, t)
      PROVE  BuildFaithful'
  <2>1. moved' = [moved EXCEPT ![d] = building[d]] /\ vault' = [vault EXCEPT ![d][p] = t]
    BY <1>2 DEF Edit, Change, Invalidate
  <2>2. QED
    BY <1>2, <2>1 DEF BuildFaithful, MerkleTypeOK, Edit, Change
<1>3. ASSUME NEW d \in Device, NEW u \in Purpose, Call1(d, u) PROVE BuildFaithful'
  <2>1. CASE AskWhileFresh(d, u)
    BY <1>3, <2>1 DEF BuildFaithful, Call1, AskWhileFresh
  <2>2. CASE AskWhileStale(d, u) /\ building[d]
    BY <1>3, <2>2 DEF BuildFaithful, MerkleTypeOK, Call1, AskWhileStale
  <2>3. CASE AskWhileStale(d, u) /\ ~building[d]
    <3>1. /\ unread' = [unread EXCEPT ![d] = {p \in Path : vault[d][p] # Absent}]
          /\ built' = [built EXCEPT ![d] = NoFiles]
      BY <2>3 DEF AskWhileStale
    <3>2. \A p \in Path : p \in unread'[d] \/ built'[d][p] = vault[d][p]
      BY <3>1 DEF MerkleTypeOK, NoFiles
    <3>3. QED
      BY <1>3, <2>3, <3>1, <3>2 DEF BuildFaithful, MerkleTypeOK, Call1, AskWhileStale
  <2>4. QED
    BY <1>3, <2>1, <2>2, <2>3 DEF Call1, Ask
<1>4. ASSUME NEW d \in Device, GoOn(d) PROVE BuildFaithful'
  BY <1>4 DEF BuildFaithful, GoOn, treeVars
<1>5. ASSUME NEW d \in Device, Hash(d) PROVE BuildFaithful'
  BY <1>5 DEF BuildFaithful, MerkleTypeOK, Leaves, Hash
<1>6. ASSUME NEW d \in Device, FinishBuild(d) PROVE BuildFaithful'
  BY <1>6 DEF BuildFaithful, MerkleTypeOK, FinishBuild
<1>7. ASSUME NEW d \in Device, Fold(d) PROVE BuildFaithful'
  BY <1>7 DEF BuildFaithful, Fold, FoldStep
<1>8. QED
  BY <1>1, <1>2, <1>3, <1>4, <1>5, <1>6, <1>7 DEF MerkleNext, Work

-----------------------------------------------------------------------------
(* The tree that may be served shows the vault.                            *)

LEMMA FoldedPaths ==
    ASSUME NEW d \in Device, NEW p
    PROVE  p \in BeingFolded(d) <=>
             \E c \in calls[d] : c.at = "fold" /\ ~c.replaced /\ p \in c.todo
BY DEF BeingFolded

LEMMA EditKeepsCurrent ==
    ASSUME MerkleTypeOK, CacheCurrent,
           NEW d \in Device, NEW p \in Path, NEW t \in Text \cup {Absent}, Edit(d, p, t)
    PROVE  CacheCurrent'
<1>1. BeingFolded(d)' = BeingFolded(d)
  BY DEF BeingFolded, Edit
<1> SUFFICES ASSUME NEW e \in Device, fresh'[e], ~overtaken'[e], NEW q \in Path
             PROVE  tree'[e][q] = vault'[e][q] \/ q \in dirty'[e] \cup BeingFolded(e)'
  BY DEF CacheCurrent
<1>2. tree' = tree /\ overtaken' = overtaken /\ calls' = calls
  BY DEF Edit, Change
<1>3. fresh[e] /\ dirty[e] \subseteq dirty'[e]
  BY DEF MerkleTypeOK, Edit, Change, Invalidate, KeepsTree
<1>4. tree[e][q] = vault[e][q] \/ q \in dirty[e] \cup BeingFolded(e)
  BY <1>2, <1>3 DEF CacheCurrent
<1>5. BeingFolded(e)' = BeingFolded(e)
  BY <1>2 DEF BeingFolded
<1>6. CASE e = d /\ q = p
  BY <1>6 DEF MerkleTypeOK, Edit, Change, Invalidate, KeepsTree
<1>7. CASE ~(e = d /\ q = p)
  <2>1. vault'[e][q] = vault[e][q]
    BY <1>7 DEF MerkleTypeOK, Leaves, Edit, Change
  <2>2. QED
    BY <1>2, <1>3, <1>4, <1>5, <2>1
<1>8. QED
  BY <1>6, <1>7

LEMMA CallKeepsCurrent ==
    ASSUME MerkleTypeOK, CacheCurrent, NEW d \in Device, NEW u \in Purpose, Call1(d, u)
    PROVE  CacheCurrent'
<1> SUFFICES ASSUME NEW e \in Device, fresh'[e], ~overtaken'[e], NEW q \in Path
             PROVE  tree'[e][q] = vault'[e][q] \/ q \in dirty'[e] \cup BeingFolded(e)'
  BY DEF CacheCurrent
<1>1. tree' = tree /\ vault' = vault /\ fresh' = fresh /\ overtaken' = overtaken
  BY DEF Call1, Ask, AskWhileFresh, AskWhileStale
<1>2. tree[e][q] = vault[e][q] \/ q \in dirty[e] \cup BeingFolded(e)
  BY <1>1 DEF CacheCurrent
<1>3. calls[e] \subseteq calls'[e]
  BY DEF MerkleTypeOK, Call1, Ask, AskWhileFresh, AskWhileStale
<1>4. BeingFolded(e) \subseteq BeingFolded(e)'
  BY <1>3 DEF BeingFolded
<1>5. CASE e = d /\ q \in dirty[d] /\ AskWhileFresh(d, u)
  <2> DEFINE c == Waits(u, "fold", dirty[d])
  <2>1. c \in calls'[d]
    BY <1>5 DEF MerkleTypeOK, AskWhileFresh
  <2>2. c.at = "fold" /\ ~c.replaced /\ q \in c.todo
    BY <1>5 DEF Waits
  <2>3. q \in BeingFolded(d)'
    BY <2>1, <2>2 DEF BeingFolded
  <2>4. QED
    BY <1>5, <2>3
<1>6. CASE e # d \/ AskWhileStale(d, u)
  <2>1. dirty'[e] = dirty[e]
    BY <1>6 DEF MerkleTypeOK, Call1, Ask, AskWhileFresh, AskWhileStale
  <2>2. QED
    BY <1>1, <1>2, <1>4, <2>1
<1>7. QED
  BY <1>1, <1>2, <1>4, <1>5, <1>6 DEF Call1, Ask

LEMMA FinishKeepsCurrent ==
    ASSUME MerkleTypeOK, BuildFaithful, CacheCurrent, NEW d \in Device, FinishBuild(d)
    PROVE  CacheCurrent'
<1> SUFFICES ASSUME NEW e \in Device, fresh'[e], ~overtaken'[e], NEW q \in Path
             PROVE  tree'[e][q] = vault'[e][q] \/ q \in dirty'[e] \cup BeingFolded(e)'
  BY DEF CacheCurrent
<1>1. CASE e = d
  <2>1. building[d] /\ ~moved[d] /\ unread[d] = {}
    BY <1>1 DEF MerkleTypeOK, FinishBuild
  <2>2. built[d][q] = vault[d][q]
    BY <2>1 DEF BuildFaithful
  <2>3. tree'[d] = built[d] /\ vault' = vault
    BY DEF MerkleTypeOK, FinishBuild
  <2>4. QED
    BY <1>1, <2>2, <2>3
<1>2. CASE e # d
  <2>1. /\ tree'[e] = tree[e] /\ vault' = vault /\ fresh'[e] = fresh[e]
        /\ overtaken'[e] = overtaken[e] /\ calls'[e] = calls[e] /\ dirty' = dirty
    BY <1>2 DEF MerkleTypeOK, FinishBuild
  <2>2. BeingFolded(e)' = BeingFolded(e)
    BY <2>1 DEF BeingFolded
  <2>3. QED
    BY <2>1, <2>2 DEF CacheCurrent
<1>3. QED
  BY <1>1, <1>2

LEMMA FoldKeepsCurrent ==
    ASSUME MerkleTypeOK, CacheCurrent, NEW d \in Device, Fold(d)
    PROVE  CacheCurrent'
<1>1. PICK c \in calls[d] : c.at = "fold" /\ \E p \in c.todo : FoldStep(d, c, p)
  BY DEF Fold
<1>2. PICK p \in c.todo : FoldStep(d, c, p)
  BY <1>1
<1>3. c \in Call /\ p \in Path /\ c.todo \subseteq Path
  BY <1>1, <1>2 DEF MerkleTypeOK, Call
<1> SUFFICES ASSUME NEW e \in Device, fresh'[e], ~overtaken'[e], NEW q \in Path
             PROVE  tree'[e][q] = vault'[e][q] \/ q \in dirty'[e] \cup BeingFolded(e)'
  BY DEF CacheCurrent
<1>4. vault' = vault /\ dirty' = dirty
  BY <1>2 DEF FoldStep
<1>5. fresh[e] /\ ~overtaken[e]
  BY <1>2 DEF MerkleTypeOK, FoldStep
<1>6. tree[e][q] = vault[e][q] \/ q \in dirty[e] \cup BeingFolded(e)
  BY <1>5 DEF CacheCurrent
<1>7. tree'[e][q] = tree[e][q] \/ tree'[e][q] = vault[e][q]
  BY <1>2, <1>3 DEF MerkleTypeOK, Leaves, FoldStep, WithLeaf
<1>8. CASE e = d /\ q \in BeingFolded(e)
  <2>1. PICK x \in calls[d] : x.at = "fold" /\ ~x.replaced /\ q \in x.todo
    BY <1>8 DEF BeingFolded
  <2>2. calls'[d] = (calls[d] \ {c}) \cup {Folded(d, c, p)}
    BY <1>2 DEF MerkleTypeOK, FoldStep
  <2>3. CASE x # c
    <3>1. x \in calls'[d]
      BY <2>2, <2>3
    <3>2. q \in BeingFolded(d)'
      BY <2>1, <3>1 DEF BeingFolded
    <3>3. QED
      BY <1>8, <3>2
  <2>4. CASE x = c /\ q # p
    <3> DEFINE y == Folded(d, c, p)
    <3>1. y.at = "fold" /\ ~y.replaced /\ q \in y.todo
      BY <1>3, <2>1, <2>4 DEF Folded, Call
    <3>2. y \in calls'[d]
      BY <2>2
    <3>3. q \in BeingFolded(d)'
      BY <3>1, <3>2 DEF BeingFolded
    <3>4. QED
      BY <1>8, <3>3
  <2>5. CASE x = c /\ q = p
    <3>1. tree'[d][p] = vault[d][p]
      BY <1>2, <1>3, <2>1, <2>5 DEF MerkleTypeOK, Leaves, FoldStep, WithLeaf
    <3>2. QED
      BY <1>4, <1>8, <2>5, <3>1
  <2>6. QED
    BY <2>3, <2>4, <2>5
<1>9. CASE e # d
  <2>1. calls'[e] = calls[e]
    BY <1>2, <1>9 DEF MerkleTypeOK, FoldStep
  <2>2. BeingFolded(e)' = BeingFolded(e)
    BY <2>1 DEF BeingFolded
  <2>3. QED
    BY <1>4, <1>6, <1>7, <2>2
<1>10. QED
  BY <1>4, <1>6, <1>7, <1>8, <1>9

LEMMA StaysCurrent ==
    ASSUME MerkleTypeOK, BuildFaithful, CacheCurrent, [MerkleNext]_merkleVars
    PROVE  CacheCurrent'
<1>1. CASE UNCHANGED merkleVars
  BY <1>1 DEF merkleVars, CacheCurrent, BeingFolded
<1>2. ASSUME NEW d \in Device, Hash(d) PROVE CacheCurrent'
  BY <1>2 DEF CacheCurrent, BeingFolded, Hash
<1>3. ASSUME NEW d \in Device, GoOn(d) PROVE CacheCurrent'
  <2>1. PICK s \in Served(d) : calls' = [calls EXCEPT ![d] = @ \ {s}]
    BY <1>3 DEF GoOn
  <2>2. s.at = "served"
    BY <2>1 DEF Served
  <2>3. \A e \in Device : BeingFolded(e)' = BeingFolded(e)
    BY <2>1, <2>2 DEF MerkleTypeOK, BeingFolded
  <2>4. QED
    BY <1>3, <2>3 DEF CacheCurrent, GoOn, treeVars
<1>4. QED
  BY <1>1, <1>2, <1>3, EditKeepsCurrent, CallKeepsCurrent, FinishKeepsCurrent, FoldKeepsCurrent
  DEF MerkleNext, Work

(* The hazard of a vault that changes under the build and the folds: a     *)
(* tree declared fresh shows every file as it is, but for the paths that   *)
(* are known to have changed, unless a fold outlived the invalidation of   *)
(* the whole tree.                                                         *)
THEOREM CacheIsCurrent == MerkleSpec => []CacheCurrent
<1>1. MerkleInit => IInv
  <2>1. MerkleInit => BuildFaithful /\ CacheCurrent
    BY DEF MerkleInit, BuildFaithful, CacheCurrent
  <2>2. QED
    BY <2>1, InitTyped DEF IInv
<1>2. IInv /\ [MerkleNext]_merkleVars => IInv'
  BY StepTyped, BuildStaysFaithful, StaysCurrent DEF IInv
<1>3. IInv => CacheCurrent
  BY DEF IInv
<1>4. QED
  BY <1>1, <1>2, <1>3, PTL DEF MerkleSpec

-----------------------------------------------------------------------------
(* The messages that may be on their way.                                  *)

Updates == [type : {"update"}, path : Path, text : Text \cup {Absent}, version : 1 .. MaxEdits]
Fine == MerkleMessage \cup {RequestFile(p) : p \in Path} \cup Updates

(* A device has a note by an edit; what it sends of a note has a version.  *)
Dated == \A d \in Device, p \in Path : vault[d][p] # Absent => version[d][p] > 0

NetFine ==
    /\ net \in [Device -> SUBSET Fine]
    /\ version \in [Device -> [Path -> 0 .. MaxEdits]]
    /\ edits \in 0 .. MaxEdits
    /\ Dated
    /\ \A d \in Device : net[d] # {} => online

MInv == MerkleTypeOK /\ NetFine

LEMMA OtherIs == \A d \in Device : Other(d) \in Device
BY MerkleAssumption DEF Other

LEMMA PathIs == \A p \in Path : p = <<p[1], p[2]>>
BY MerkleAssumption

LEMMA MerkleCases ==
    ASSUME NEW m \in MerkleMessage
    PROVE  \/ m.type = "merkle-root"
           \/ m.type = "merkle-node-request" /\ m.at \in Nodes
           \/ m.type = "merkle-node-response" /\ m.at \in Nodes
                /\ \E t \in Leaves : m.children = Children(t, m.at)
<1>1. CASE m \in {RootIs(t) : t \in Leaves}
  BY <1>1 DEF RootIs
<1>2. CASE m \in {NodeRequest(at) : at \in Nodes}
  BY <1>2 DEF NodeRequest
<1>3. CASE m \in {NodeResponse(at, t) : at \in Nodes, t \in Leaves}
  BY <1>3 DEF NodeResponse
<1>4. QED
  BY <1>1, <1>2, <1>3 DEF MerkleMessage

LEMMA FineCases ==
    ASSUME NEW m \in Fine
    PROVE  \/ m \in MerkleMessage /\ m.type \notin {"update", "request-file"}
           \/ m.type = "request-file" /\ m.path \in Path
           \/ /\ m.type = "update" /\ m.path \in Path
              /\ m.text \in Text \cup {Absent} /\ m.version \in 1 .. MaxEdits
<1>1. CASE m \in MerkleMessage
  BY <1>1, MerkleCases
<1>2. CASE m \in {RequestFile(p) : p \in Path}
  BY <1>2 DEF RequestFile
<1>3. CASE m \in Updates
  BY <1>3 DEF Updates
<1>4. QED
  BY <1>1, <1>2, <1>3 DEF Fine

LEMMA UpdateFine ==
    ASSUME MInv, NEW d \in Device, NEW p \in Path, version[d][p] > 0
    PROVE  Update(d, p) \in Fine
<1>1. vault[d][p] \in Text \cup {Absent} /\ version[d][p] \in 1 .. MaxEdits
  BY DEF MInv, MerkleTypeOK, NetFine, Leaves
<1>2. Update(d, p) \in Updates
  BY <1>1 DEF Update, Updates
<1>3. QED
  BY <1>2 DEF Fine

LEMMA RequestFine == \A p \in Path : RequestFile(p) \in Fine
BY DEF Fine

LEMMA ChildrenNames ==
    ASSUME NEW t \in Leaves, NEW at
    PROVE  /\ at = Root => DOMAIN Children(t, at) \subseteq Nodes
           /\ at # Root => \A n \in DOMAIN Children(t, at) : <<at, n>> \in Path
<1>1. CASE at = Root
  BY <1>1 DEF Children, Folders, Nodes
<1>2. CASE at # Root
  <2>1. DOMAIN Children(t, at) = NamesIn(t, at)
    BY <1>2 DEF Children
  <2>2. QED
    BY <1>2, <2>1, PathIs DEF NamesIn
<1>3. QED
  BY <1>1, <1>2

(* Whatever a caller wanted its tree for, it sends nothing odd.            *)
LEMMA AnswersFine ==
    ASSUME MInv, NEW d \in Device, NEW t \in Leaves, NEW m \in Wanted
    PROVE  Answers(d, t, m) \subseteq Fine
<1>1. Root \in Nodes
  BY DEF Nodes
<1>2. CASE m = Offer
  <2>1. Answers(d, t, m) = {RootIs(t)}
    BY <1>2 DEF Answers, Offer
  <2>2. QED
    BY <2>1 DEF Fine, MerkleMessage
<1>3. CASE m \in MerkleMessage /\ m.type = "merkle-root"
  <2>1. Answers(d, t, m) \subseteq {NodeRequest(Root)}
    BY <1>3 DEF Answers
  <2>2. QED
    BY <1>1, <2>1 DEF Fine, MerkleMessage
<1>4. CASE m \in MerkleMessage /\ m.type = "merkle-node-request"
  <2>1. m.at \in Nodes
    BY <1>4, MerkleCases
  <2>2. Answers(d, t, m) \subseteq {NodeResponse(m.at, t)}
    BY <1>4 DEF Answers
  <2>3. QED
    BY <2>1, <2>2 DEF Fine, MerkleMessage
<1>5. CASE m \in MerkleMessage /\ m.type = "merkle-node-response"
  <2> DEFINE mine == IF HasNode(t, m.at) THEN Children(t, m.at) ELSE <<>>
  <2>1. PICK u \in Leaves : m.children = Children(u, m.at)
    BY <1>5, MerkleCases
  <2>2. m.at \in Nodes
    BY <1>5, MerkleCases
  <2>3. DOMAIN mine \subseteq DOMAIN Children(t, m.at)
    OBVIOUS
  <2>4. /\ m.at = Root => DOMAIN mine \cup DOMAIN m.children \subseteq Nodes
        /\ m.at # Root => \A n \in DOMAIN mine \cup DOMAIN m.children : <<m.at, n>> \in Path
    BY <2>1, <2>3, ChildrenNames
  <2>5. Answers(d, t, m) =
          IF m.at = Root
          THEN {NodeRequest(f) : f \in Differing(mine, m.children)}
          ELSE UNION {Exchanged(d, m.at, mine, m.children, n) : n \in Differing(mine, m.children)}
    BY <1>5 DEF Answers
  <2> HIDE DEF mine
  <2>6. Differing(mine, m.children) \subseteq DOMAIN mine \cup DOMAIN m.children
    BY DEF Differing
  <2>7. CASE m.at = Root
    <3>1. \A f \in Nodes : NodeRequest(f) \in Fine
      BY DEF Fine, MerkleMessage
    <3>2. QED
      BY <2>4, <2>5, <2>6, <2>7, <3>1
  <2>8. CASE m.at # Root
    <3>1. ASSUME NEW n \in Differing(mine, m.children)
          PROVE  Exchanged(d, m.at, mine, m.children, n) \subseteq Fine
      <4>1. <<m.at, n>> \in Path
        BY <2>4, <2>6, <2>8
      <4>2. RequestFile(<<m.at, n>>) \in Fine
        BY <4>1, RequestFine
      <4>3. version[d][<<m.at, n>>] > 0 => Update(d, <<m.at, n>>) \in Fine
        BY <4>1, UpdateFine
      <4>4. vault[d][<<m.at, n>>] # Absent => version[d][<<m.at, n>>] > 0
        BY <4>1 DEF MInv, NetFine, Dated
      <4>5. QED
        BY <4>2, <4>3, <4>4 DEF Exchanged
    <3>2. QED
      BY <2>5, <2>8, <3>1
  <2>9. QED
    BY <2>7, <2>8
<1>6. QED
  BY <1>2, <1>3, <1>4, <1>5, MerkleCases DEF Wanted

LEMMA SendFine ==
    ASSUME NetFine, NEW d \in Device, NEW ms, ms \subseteq Fine, Send(d, ms)
    PROVE  net' \in [Device -> SUBSET Fine] /\ \A e \in Device : net'[e] # {} => online
BY OtherIs DEF Send, NetFine

LEMMA TakeFine ==
    ASSUME NetFine, NEW d \in Device, NEW m, Take(d, m)
    PROVE  net' \in [Device -> SUBSET Fine] /\ \A e \in Device : net'[e] # {} => online
BY DEF Take, NetFine

LEMMA TakeAndSendFine ==
    ASSUME NetFine, NEW d \in Device, NEW m \in net[d], NEW ms, ms \subseteq Fine, TakeAndSend(d, m, ms)
    PROVE  net' \in [Device -> SUBSET Fine] /\ \A e \in Device : net'[e] # {} => online
<1>1. online
  BY DEF NetFine
<1>2. QED
  BY <1>1, OtherIs DEF TakeAndSend, NetFine

-----------------------------------------------------------------------------
(* Each step of the exchange is a step of the tree, or none, and puts      *)
(* nothing odd on its way.                                                 *)

Maps == [MerkleNext]_merkleVars /\ NetFine'

LEMMA UserMaps ==
    ASSUME MInv, NEW d \in Device, UserEdits(d)
    PROVE  Maps
<1>1. PICK p \in Path, t \in Text \cup {Absent} : EditNote(d, p, t)
  BY DEF UserEdits
<1>2. Edit(d, p, t) /\ UNCHANGED online
  BY <1>1 DEF EditNote, Edit
<1>3. edits + 1 \in 1 .. MaxEdits
  BY <1>1, MerkleAssumption DEF EditNote, MInv, NetFine
<1>4. {[type |-> "update", path |-> p, text |-> t, version |-> edits + 1]} \subseteq Fine
  <2>1. [type |-> "update", path |-> p, text |-> t, version |-> edits + 1] \in Updates
    BY <1>3 DEF Updates
  <2>2. QED
    BY <2>1 DEF Fine
<1>5. net' \in [Device -> SUBSET Fine] /\ \A e \in Device : net'[e] # {} => online
  <2>1. Send(d, {[type |-> "update", path |-> p, text |-> t, version |-> edits + 1]})
    BY <1>1 DEF EditNote
  <2>2. QED
    BY <2>1, <1>4, SendFine DEF MInv
<1>6. version' \in [Device -> [Path -> 0 .. MaxEdits]] /\ edits' \in 0 .. MaxEdits
  BY <1>1, <1>3 DEF EditNote, MInv, NetFine
<1>7. Dated'
  <2>1. /\ vault' = [vault EXCEPT ![d][p] = t] /\ version' = [version EXCEPT ![d][p] = edits + 1]
        /\ edits + 1 > 0
    BY <1>1, <1>3 DEF EditNote, Change
  <2>2. QED
    BY <2>1 DEF MInv, MerkleTypeOK, Leaves, NetFine, Dated
<1>8. QED
  BY <1>2, <1>5, <1>6, <1>7 DEF Maps, MerkleNext, NetFine

LEMMA ConnectMaps ==
    ASSUME MInv, Connect
    PROVE  Maps
<1>1. Primary \in Device /\ Offer \in Purpose
  BY MerkleAssumption, PurposeAssumption DEF Primary, Wanted
<1>2. UNCHANGED <<vault, net, version, edits>> /\ FirstThings(Primary)
  BY DEF Connect
<1>3. UNCHANGED merkleVars \/ Call1(Primary, Offer)
  BY <1>2 DEF Connect, merkleVars, treeVars, Call1
<1>4. online'
  BY DEF Connect
<1>5. QED
  BY <1>1, <1>2, <1>3, <1>4 DEF Maps, MerkleNext, MInv, NetFine, Dated

LEMMA DisconnectMaps ==
    ASSUME MInv, Disconnect
    PROVE  Maps
<1>1. UNCHANGED <<merkleVars, version, edits>> /\ net' = [d \in Device |-> {}]
  BY DEF Disconnect, counts
<1>2. QED
  BY <1>1 DEF merkleVars, Maps, MInv, NetFine, Dated

LEMMA EndSyncMaps ==
    ASSUME MInv, NEW d \in Device, EndSync(d)
    PROVE  Maps
<1>1. Offer \in Purpose
  BY PurposeAssumption DEF Wanted
<1>2. UNCHANGED <<vault, net, version, edits, online>> /\ FirstThings(d)
  BY DEF EndSync, counts
<1>3. UNCHANGED merkleVars \/ Call1(d, Offer)
  BY <1>2 DEF EndSync, Rearm, merkleVars, treeVars, Call1
<1>4. QED
  BY <1>1, <1>2, <1>3 DEF Maps, MerkleNext, MInv, NetFine, Dated

LEMMA AnswerMaps ==
    ASSUME MInv, NEW d \in Device, Answer(d)
    PROVE  Maps
<1>1. PICK c \in Served(d) :
        /\ calls' = [calls EXCEPT ![d] = @ \ {c}]
        /\ Send(d, Answers(d, TreeOf(d, c), c.for))
        /\ UNCHANGED <<vault, treeVars, version, edits, online>>
  BY DEF Answer, counts
<1>2. c \in Call /\ tree[d] \in Leaves
  BY DEF Served, MInv, MerkleTypeOK
<1>3. TreeOf(d, c) \in Leaves /\ c.for \in Wanted
  BY <1>2, PurposeAssumption DEF TreeOf, Call
<1>4. Answers(d, TreeOf(d, c), c.for) \subseteq Fine
  BY <1>3, AnswersFine
<1>5. net' \in [Device -> SUBSET Fine] /\ \A e \in Device : net'[e] # {} => online
  BY <1>1, <1>4, SendFine DEF MInv
<1>6. GoOn(d)
  BY <1>1 DEF GoOn
<1>7. QED
  BY <1>1, <1>5, <1>6 DEF Maps, MerkleNext, MInv, NetFine, Dated

LEMMA ReceiveMerkleMaps ==
    ASSUME MInv, NEW d \in Device, ReceiveMerkle(d)
    PROVE  Maps
<1>1. PICK m \in net[d] :
        /\ m.type \in {"merkle-root", "merkle-node-request", "merkle-node-response"}
        /\ FirstThings(d) /\ Take(d, m)
        /\ UNCHANGED <<treeVars, calls>> \/ Ask(d, m)
        /\ UNCHANGED <<vault, version, edits, online>>
  BY DEF ReceiveMerkle, counts
<1>2. m \in Purpose
  <2>1. m \in Fine
    BY DEF MInv, NetFine
  <2>2. QED
    BY <1>1, <2>1, FineCases, PurposeAssumption DEF Wanted
<1>3. UNCHANGED merkleVars \/ Call1(d, m)
  BY <1>1 DEF merkleVars, treeVars, Call1
<1>4. net' \in [Device -> SUBSET Fine] /\ \A e \in Device : net'[e] # {} => online
  BY <1>1, TakeFine DEF MInv
<1>5. QED
  BY <1>1, <1>2, <1>3, <1>4 DEF Maps, MerkleNext, MInv, NetFine, Dated

LEMMA ReceiveRequestMaps ==
    ASSUME MInv, NEW d \in Device, ReceiveRequest(d)
    PROVE  Maps
<1>1. PICK m \in net[d] :
        /\ m.type = "request-file"
        /\ TakeAndSend(d, m, IF vault[d][m.path] = Absent THEN {} ELSE {Update(d, m.path)})
        /\ UNCHANGED <<merkleVars, version, edits, online>>
  BY DEF ReceiveRequest, counts
<1>2. m.path \in Path
  <2>1. m \in Fine
    BY DEF MInv, NetFine
  <2>2. QED
    BY <1>1, <2>1, FineCases, MerkleCases
<1>3. vault[d][m.path] # Absent => Update(d, m.path) \in Fine
  <2>1. vault[d][m.path] # Absent => version[d][m.path] > 0
    BY <1>2 DEF MInv, NetFine, Dated
  <2>2. QED
    BY <1>2, <2>1, UpdateFine
<1>4. net' \in [Device -> SUBSET Fine] /\ \A e \in Device : net'[e] # {} => online
  BY <1>1, <1>3, TakeAndSendFine DEF MInv
<1>5. QED
  BY <1>1, <1>4 DEF merkleVars, Maps, MInv, NetFine, Dated

LEMMA ReceiveUpdateMaps ==
    ASSUME MInv, NEW d \in Device, ReceiveUpdate(d)
    PROVE  Maps
<1>1. PICK m \in net[d] :
        /\ m.type = "update" /\ FirstThings(d)
        /\ \/ /\ version' = [version EXCEPT ![d][m.path] = m.version]
              /\ Take(d, m)
              /\ \/ m.text # vault[d][m.path] /\ Change(d, m.path, m.text)
                 \/ UNCHANGED <<vault, treeVars>>
           \/ /\ ~(m.version > version[d][m.path])
              /\ TakeAndSend(d, m, Refusal(d, m))
              /\ UNCHANGED <<vault, treeVars, version>>
        /\ UNCHANGED <<calls, edits, online>>
  BY DEF ReceiveUpdate, counts
<1>2. m.path \in Path /\ m.text \in Text \cup {Absent} /\ m.version \in 1 .. MaxEdits
  <2>1. m \in Fine
    BY DEF MInv, NetFine
  <2>2. QED
    BY <1>1, <2>1, FineCases, MerkleCases
<1>3. UNCHANGED merkleVars \/ Edit(d, m.path, m.text)
  BY <1>1 DEF merkleVars, treeVars, Edit
<1>4. ~(m.version > version[d][m.path]) => Refusal(d, m) \subseteq Fine
  <2>1. version[d][m.path] \in 0 .. MaxEdits
    BY <1>2 DEF MInv, NetFine
  <2>2. QED
    BY <1>2, <2>1, UpdateFine DEF Refusal
<1>5. net' \in [Device -> SUBSET Fine] /\ \A e \in Device : net'[e] # {} => online
  BY <1>1, <1>4, TakeFine, TakeAndSendFine DEF MInv
<1>6. version' \in [Device -> [Path -> 0 .. MaxEdits]]
  BY <1>1, <1>2 DEF MInv, NetFine
<1>7. Dated'
  <2>1. vault' = vault \/ vault' = [vault EXCEPT ![d][m.path] = m.text]
    BY <1>1 DEF Change
  <2>2. CASE UNCHANGED <<vault, version>>
    BY <2>2 DEF MInv, NetFine, Dated
  <2>3. CASE version' = [version EXCEPT ![d][m.path] = m.version]
    BY <1>2, <2>1, <2>3 DEF MInv, MerkleTypeOK, Leaves, NetFine, Dated
  <2>4. QED
    BY <1>1, <2>2, <2>3
<1>8. QED
  BY <1>1, <1>2, <1>3, <1>5, <1>6, <1>7 DEF Maps, MerkleNext, MInv, NetFine

LEMMA NextMaps ==
    ASSUME MInv, Next
    PROVE  Maps
<1>1. ASSUME NEW d \in Device, TreeWork(d) PROVE Maps
  <2>1. Work(d) /\ UNCHANGED <<version, net, edits, online>>
    BY <1>1 DEF TreeWork, counts
  <2>2. UNCHANGED vault
    BY <2>1 DEF Work, Hash, FinishBuild, Fold, FoldStep
  <2>3. QED
    BY <2>1, <2>2 DEF Maps, MerkleNext, MInv, NetFine, Dated
<1>2. QED
  BY <1>1, UserMaps, ConnectMaps, DisconnectMaps, EndSyncMaps, AnswerMaps, ReceiveMerkleMaps,
     ReceiveRequestMaps, ReceiveUpdateMaps DEF Next, Protocol

LEMMA StepMaps ==
    ASSUME MInv, [Next]_vars
    PROVE  Maps
<1>1. CASE UNCHANGED vars
  BY <1>1 DEF vars, merkleVars, counts, Maps, MInv, NetFine, Dated
<1>2. QED
  BY <1>1, NextMaps

(* The exchange of two devices is an environment of the cached tree: every *)
(* step is one of MerkleTree, or leaves the trees alone.                   *)
THEOREM ExchangeUsesTheTree == Spec => MerkleSpec
<1>1. Init => MerkleInit /\ MInv
  <2>1. Init => NetFine
    BY MerkleAssumption DEF Init, MerkleInit, NoFiles, NetFine, Dated
  <2>2. QED
    BY <2>1, InitTyped DEF Init, MInv
<1>2. MInv /\ [Next]_vars => [MerkleNext]_merkleVars /\ MInv'
  BY StepMaps, StepTyped DEF Maps, MInv
<1>3. QED
  BY <1>1, <1>2, PTL DEF Spec, MerkleSpec

-----------------------------------------------------------------------------
(* The type invariant of the exchange.                                     *)

CountsFine ==
    /\ online \in BOOLEAN
    /\ syncing \in [Device -> BOOLEAN]
    /\ links \in 0 .. MaxLinks
    /\ since \in [Device -> SUBSET Path]
    /\ excuses \subseteq {"stale", "ignored", "alike", "unanswered"}

LEMMA CountsFineNext ==
    ASSUME MInv, CountsFine, [Next]_vars
    PROVE  CountsFine'
<1>1. CASE UNCHANGED vars
  BY <1>1 DEF vars, counts, CountsFine
<1>2. CASE Connect
  BY <1>2, MerkleAssumption DEF Connect, CountsFine
<1>3. CASE Disconnect
  BY <1>3 DEF Disconnect, counts, CountsFine
<1>4. ASSUME NEW d \in Device, UserEdits(d) PROVE CountsFine'
  BY <1>4 DEF UserEdits, EditNote, CountsFine
<1>5. ASSUME NEW d \in Device, EndSync(d) PROVE CountsFine'
  BY <1>5 DEF EndSync, counts, CountsFine
<1>6. ASSUME NEW d \in Device, TreeWork(d) \/ ReceiveRequest(d) PROVE CountsFine'
  BY <1>6 DEF TreeWork, ReceiveRequest, counts, CountsFine
<1>7. ASSUME NEW d \in Device, ReceiveMerkle(d) PROVE CountsFine'
  BY <1>7 DEF ReceiveMerkle, counts, CountsFine
<1>8. ASSUME NEW d \in Device, Answer(d) PROVE CountsFine'
  <2>1. PICK t, m : excuses' = excuses \cup Missed(d, t, m)
    BY <1>8 DEF Answer
  <2>2. Missed(d, t, m) \subseteq {"stale", "alike", "unanswered"}
    BY DEF Missed
  <2>3. QED
    BY <1>8, <2>1, <2>2 DEF Answer, counts, CountsFine
<1>9. ASSUME NEW d \in Device, ReceiveUpdate(d) PROVE CountsFine'
  <2>1. PICK m \in net[d] :
          /\ m.type = "update"
          /\ since' = [since EXCEPT ![d] = @ \cup {m.path}] \/ UNCHANGED since
    BY <1>9 DEF ReceiveUpdate
  <2>2. m.path \in Path
    <3>1. m \in Fine
      BY DEF MInv, NetFine
    <3>2. QED
      BY <2>1, <3>1, FineCases, MerkleCases
  <2>3. QED
    BY <1>9, <2>1, <2>2 DEF ReceiveUpdate, counts, CountsFine
<1>10. QED
  BY <1>1, <1>2, <1>3, <1>4, <1>5, <1>6, <1>7, <1>8, <1>9 DEF Next, Protocol

LEMMA InitExchange ==
    ASSUME Init
    PROVE  MInv /\ CountsFine
<1>1. NetFine
  BY MerkleAssumption DEF Init, MerkleInit, NoFiles, NetFine, Dated
<1>2. since = [d \in Device |-> {}] /\ links = 0 /\ MaxLinks \in Nat
  BY MerkleAssumption DEF Init
<1>3. since \in [Device -> SUBSET Path] /\ links \in 0 .. MaxLinks
  BY <1>2
<1>4. online \in BOOLEAN /\ syncing \in [Device -> BOOLEAN] /\ excuses = {}
  BY DEF Init
<1>5. CountsFine
  BY <1>3, <1>4 DEF CountsFine
<1>6. QED
  BY <1>1, <1>5, InitTyped DEF Init, MInv

(* The variables of the exchange keep their types: what is on its way is   *)
(* a message of the protocol, an update has the number of an edit that was *)
(* made, and nothing is on its way between devices that are apart.         *)
THEOREM ExchangeTypeCorrect == Spec => []TypeOK
<1>1. Init => MInv /\ CountsFine
  BY InitExchange
<1>2. MInv /\ CountsFine /\ [Next]_vars => (MInv /\ CountsFine)'
  BY StepMaps, StepTyped, CountsFineNext DEF Maps, MInv
<1>3. MInv /\ CountsFine => TypeOK
  <2>1. Fine = MerkleMessage \cup FileMessage
    BY DEF Fine, FileMessage, Updates
  <2>2. QED
    BY <2>1 DEF MInv, NetFine, CountsFine, TypeOK
<1>4. QED
  BY <1>1, <1>2, <1>3, PTL DEF Spec

(* So whatever the two do, a tree one of them declares fresh shows its     *)
(* vault, but for the paths known to have changed.                         *)
THEOREM ExchangeCacheIsCurrent == Spec => []CacheCurrent
BY ExchangeUsesTheTree, CacheIsCurrent, PTL

-----------------------------------------------------------------------------
(* A folder's hash and the names of its children tell their hashes.        *)

Rank(S, x) == Cardinality({y \in S : y < x})

LEMMA RanksDiffer ==
    ASSUME NEW S, S \subseteq Nat, IsFiniteSet(S), NEW x \in S, NEW z \in S, x < z
    PROVE  Rank(S, x) \in Nat /\ Rank(S, z) \in Nat /\ Rank(S, x) < Rank(S, z)
<1> DEFINE A == {y \in S : y < x}
           B == {y \in S : y < z}
<1>1. IsFiniteSet(B) /\ Cardinality(B) \in Nat
  BY FS_Subset, FS_CardinalityType, B \in SUBSET S
<1>2. A \in SUBSET B
  <2>1. ASSUME NEW y \in S, y < x PROVE y < z
    <3>1. x \in Nat /\ y \in Nat /\ z \in Nat
      BY <2>1
    <3>2. QED
      BY <2>1, <3>1
  <2>2. QED
    BY <2>1
<1>3. IsFiniteSet(A) /\ Cardinality(A) \in Nat /\ Cardinality(A) <= Cardinality(B)
  BY <1>1, <1>2, FS_Subset, FS_CardinalityType
<1>4. x \in B /\ x \notin A
  OBVIOUS
<1>5. Cardinality(B) # Cardinality(A)
  BY <1>1, <1>2, <1>4, FS_Subset
<1>6. QED
  BY <1>1, <1>3, <1>5 DEF Rank

(* In order, a set is listed whole.                                        *)
LEMMA AllInOrder ==
    ASSUME NEW S, S \subseteq Nat, IsFiniteSet(S), NEW n \in S
    PROVE  \E i \in DOMAIN InOrder(S) : InOrder(S)[i] = n
<1> DEFINE A == {y \in S : y < n}
           i == Rank(S, n) + 1
<1>1. Cardinality(S) \in Nat
  BY FS_CardinalityType
<1>2. IsFiniteSet(A) /\ Cardinality(A) \in Nat /\ Cardinality(A) <= Cardinality(S)
  BY FS_Subset, FS_CardinalityType, A \in SUBSET S
<1>3. Cardinality(A) # Cardinality(S)
  BY FS_Subset, A \in SUBSET S, n \notin A
<1>4. Rank(S, n) = Cardinality(A)
  BY DEF Rank
<1>5. i \in 1 .. Cardinality(S) /\ i - 1 = Rank(S, n)
  BY <1>1, <1>2, <1>3, <1>4
<1>6. \A x \in S : Rank(S, x) = Rank(S, n) => x = n
  <2> SUFFICES ASSUME NEW x \in S, Rank(S, x) = Rank(S, n), x # n PROVE FALSE
    OBVIOUS
  <2>1. x \in Nat /\ n \in Nat
    BY S \subseteq Nat
  <2>2. x < n \/ n < x
    BY <2>1
  <2>3. Rank(S, n) \in Nat
    BY <1>2, <1>4
  <2>4. CASE x < n
    <3>1. Rank(S, x) < Rank(S, n)
      BY <2>4, RanksDiffer
    <3>2. QED
      BY <2>3, <3>1
  <2>5. CASE n < x
    <3>1. Rank(S, n) < Rank(S, x)
      BY <2>5, RanksDiffer
    <3>2. QED
      BY <2>3, <3>1
  <2>6. QED
    BY <2>2, <2>4, <2>5
<1>7. InOrder(S)[i] = CHOOSE x \in S : Rank(S, x) = i - 1
  BY <1>5 DEF InOrder, Rank
<1> HIDE DEF i
<1>8. (CHOOSE x \in S : Rank(S, x) = i - 1) = n
  BY <1>5, <1>6
<1>9. DOMAIN InOrder(S) = 1 .. Cardinality(S)
  BY DEF InOrder
<1>10. QED
  BY <1>5, <1>7, <1>8, <1>9

LEMMA NamesFinite ==
    ASSUME NEW t, NEW f
    PROVE  NamesIn(t, f) \subseteq Nat /\ IsFiniteSet(NamesIn(t, f))
<1> DEFINE Q == {q \in Path : q[1] = f /\ t[q] # Absent}
           name == [q \in Q |-> q[2]]
<1>1. IsFiniteSet(Q)
  BY MerkleTreeAssumption, FS_Subset, Q \in SUBSET Path
<1>2. NamesIn(t, f) = {q[2] : q \in Q}
  BY DEF NamesIn
<1>3. name \in Surjection(Q, NamesIn(t, f))
  BY <1>2 DEF Surjection
<1>4. IsFiniteSet(NamesIn(t, f))
  BY <1>1, <1>3, FS_Surjection
<1>5. \A q \in Path : q[2] \in Nat
  BY MerkleAssumption
<1>6. QED
  BY <1>2, <1>4, <1>5

LEMMA HashTells ==
    ASSUME NEW t \in Leaves, NEW u \in Leaves, NEW p \in Path,
           SameNames(t, u, p[1]), FolderHash(t, p[1]) = FolderHash(u, p[1])
    PROVE  t[p] = u[p]
<1> DEFINE f == p[1]
           S == NamesIn(t, f)
           names == InOrder(S)
<1>1. S = NamesIn(u, f)
  BY DEF SameNames
<1>2. p = <<f, p[2]>>
  BY PathIs
<1>3. CASE p[2] \in S
  <2>1. PICK i \in DOMAIN names : names[i] = p[2]
    BY <1>3, NamesFinite, AllInOrder
  <2>2. /\ FolderHash(t, f) = [j \in DOMAIN names |-> t[<<f, names[j]>>]]
        /\ FolderHash(u, f) = [j \in DOMAIN names |-> u[<<f, names[j]>>]]
    BY <1>1 DEF FolderHash
  <2>3. FolderHash(t, f) = FolderHash(u, f)
    OBVIOUS
  <2> HIDE DEF names
  <2>4. FolderHash(t, f)[i] = t[<<f, names[i]>>] /\ FolderHash(u, f)[i] = u[<<f, names[i]>>]
    BY <2>2
  <2>5. QED
    BY <1>2, <2>1, <2>3, <2>4
<1>4. CASE p[2] \notin S
  <2>1. t[p] = Absent
    BY <1>4 DEF NamesIn
  <2>2. u[p] = Absent
    BY <1>1, <1>4 DEF NamesIn
  <2>3. QED
    BY <2>1, <2>2
<1>5. QED
  BY <1>3, <1>4

-----------------------------------------------------------------------------
(* Versions and the updates that tell of them.  A device is behind at a    *)
(* path when the other has a newer version, and apart when nothing on its  *)
(* way brings it.                                                          *)

IsUpdate(m, p) == m.type = "update" /\ m.path = p
Behind(d, p) == version[d][p] < version[Other(d)][p]
Brings(m, d, p) == IsUpdate(m, p) /\ m.version = version[Other(d)][p]
CurrentComes(d, p) == \E m \in net[d] : Brings(m, d, p)
Apart(d, p) == Behind(d, p) /\ ~CurrentComes(d, p)

(* An update tells of a version its sender has or had; if it is news, so   *)
(* does one that tells of the sender's present version.                    *)
TrueTo(d, m) ==
    /\ m.version <= version[Other(d)][m.path]
    /\ m.version = version[Other(d)][m.path] => m.text = vault[Other(d)][m.path]
    /\ m.version > version[d][m.path] => CurrentComes(d, m.path)

Numbered ==
    /\ \A d \in Device, p \in Path : version[d][p] <= edits
    /\ \A d \in Device, p \in Path :
         version[d][p] = version[Other(d)][p] => vault[d][p] = vault[Other(d)][p]
    /\ \A d \in Device : \A m \in net[d] : m.type = "update" => TrueTo(d, m)

(* Most steps change no version: what they send tells of versions there    *)
(* are, and what they receive is no news.                                  *)
Talks ==
    /\ UNCHANGED <<vault, version, edits, online, since>>
    /\ \A d \in Device : \A m \in net'[d] \ net[d] :
         m.type = "update" => \E p \in Path : m = Update(Other(d), p)
    /\ \A d \in Device : \A m \in net[d] \ net'[d] :
         m.type = "update" => m.version <= version[d][m.path]

LEMMA Both ==
    /\ \A d \in Device : Other(d) \in Device /\ Other(d) # d /\ Other(Other(d)) = d
    /\ \A d, e \in Device : e = d \/ e = Other(d)
    /\ 1 \in Device /\ 2 \in Device /\ Other(1) = 2 /\ Other(2) = 1
BY MerkleAssumption DEF Other

LEMMA VersionsAre ==
    ASSUME MInv, NEW d \in Device, NEW p \in Path
    PROVE  version[d][p] \in Nat /\ version[Other(d)][p] \in Nat
<1>1. version \in [Device -> [Path -> 0 .. MaxEdits]]
  BY DEF MInv, NetFine
<1>2. \A e \in Device : version[e][p] \in 0 .. MaxEdits
  BY <1>1
<1>3. QED
  BY <1>2, Both

LEMMA UpdatesAre ==
    ASSUME MInv, NEW d \in Device, NEW m \in net[d], m.type = "update"
    PROVE  /\ m.path \in Path /\ m.version \in Nat /\ m.text \in Text \cup {Absent}
           /\ IsUpdate(m, m.path) /\ online
<1>1. m \in Fine /\ net[d] # {}
  BY DEF MInv, NetFine
<1>2. QED
  BY <1>1, FineCases, MerkleCases DEF IsUpdate, MInv, NetFine

LEMMA UpdateIs ==
    ASSUME NEW d \in Device, NEW p \in Path
    PROVE  /\ Update(d, p).type = "update" /\ Update(d, p).path = p
           /\ Update(d, p).text = vault[d][p] /\ Update(d, p).version = version[d][p]
           /\ Brings(Update(d, p), Other(d), p)
BY Both DEF Update, Brings, IsUpdate

LEMMA TalkKeepsNumbered ==
    ASSUME MInv, Numbered, Talks
    PROVE  Numbered'
<1>1. ASSUME NEW d \in Device, NEW p \in Path, NEW m \in net[d], IsUpdate(m, p),
             m.version > version[d][p]
      PROVE  CurrentComes(d, p)'
  <2>1. TrueTo(d, m)
    BY <1>1 DEF Numbered, IsUpdate
  <2>2. PICK n \in net[d] : Brings(n, d, p)
    BY <1>1, <2>1 DEF TrueTo, CurrentComes, IsUpdate
  <2>3. n.version >= m.version
    BY <1>1, <2>1, <2>2, VersionsAre DEF TrueTo, Brings, IsUpdate
  <2>4. m.version \in Nat
    BY <1>1, UpdatesAre DEF IsUpdate
  <2>5. ~(n.version <= version[d][p])
    BY <1>1, <2>2, <2>3, <2>4, VersionsAre DEF Brings
  <2>6. n \in net'[d]
    BY <2>2, <2>5 DEF Talks, Brings, IsUpdate
  <2>7. QED
    BY <2>2, <2>6 DEF Talks, CurrentComes, Brings, IsUpdate
<1>2. ASSUME NEW d \in Device, NEW m \in net'[d], m.type = "update"
      PROVE  TrueTo(d, m)'
  <2>1. CASE m \in net[d]
    <3>1. m.path \in Path /\ IsUpdate(m, m.path) /\ TrueTo(d, m)
      BY <1>2, <2>1, UpdatesAre DEF Numbered
    <3>2. m.version > version[d][m.path] => CurrentComes(d, m.path)'
      BY <1>1, <2>1, <3>1
    <3>3. QED
      BY <3>1, <3>2 DEF TrueTo, Talks
  <2>2. CASE m \notin net[d]
    <3>1. PICK p \in Path : m = Update(Other(d), p)
      BY <1>2, <2>2 DEF Talks
    <3>2. /\ m.path = p /\ m.text = vault[Other(d)][p] /\ m.version = version[Other(d)][p]
          /\ Brings(m, d, p)
      BY <3>1, Both, UpdateIs
    <3>3. CurrentComes(d, p)'
      BY <1>2, <3>2 DEF CurrentComes, Brings, IsUpdate, Talks
    <3>4. QED
      BY <3>2, <3>3, VersionsAre DEF TrueTo, Talks
  <2>3. QED
    BY <2>1, <2>2
<1>3. QED
  BY <1>2 DEF Numbered, Talks

(* Nor does talking set devices apart.                                     *)
Stays(d, p) ==
    /\ Apart(d, p)
    /\ \A e \in Device : vault'[e][p] = vault[e][p] /\ version'[e][p] = version[e][p]
    /\ \A e \in Device : p \in since'[e] => p \in since[e]

LEMMA TalkKeepsApart ==
    ASSUME MInv, Numbered, Talks, NEW d \in Device, NEW p \in Path, Apart(d, p)'
    PROVE  Stays(d, p)
<1>1. Behind(d, p)
  BY DEF Apart, Behind, Talks
<1>2. ASSUME NEW m \in net[d], Brings(m, d, p) PROVE FALSE
  <2>1. ~(m.version <= version[d][p])
    BY <1>1, <1>2, VersionsAre DEF Behind, Brings
  <2>2. m \in net'[d]
    BY <1>2, <2>1 DEF Talks, Brings, IsUpdate
  <2>3. CurrentComes(d, p)'
    BY <1>2, <2>2 DEF CurrentComes, Brings, IsUpdate, Talks
  <2>4. QED
    BY <2>3 DEF Apart
<1>3. QED
  BY <1>1, <1>2 DEF Stays, Apart, CurrentComes, Talks

-----------------------------------------------------------------------------
(* The steps that make a version, or adopt one.                            *)

Edits(d, p, t) ==
    /\ vault' = [vault EXCEPT ![d][p] = t]
    /\ version' = [version EXCEPT ![d][p] = edits + 1]
    /\ edits' = edits + 1
    /\ since' = [since EXCEPT ![d] = @ \cup {p}]
    /\ Send(d, {[type |-> "update", path |-> p, text |-> t, version |-> edits + 1]})
    /\ UNCHANGED <<calls, online, excuses, syncing>>

Adopts(d, m) ==
    /\ m \in net[d] /\ m.type = "update" /\ m.version > version[d][m.path]
    /\ vault' = [vault EXCEPT ![d][m.path] = m.text]
    /\ version' = [version EXCEPT ![d][m.path] = m.version]
    /\ since' = [since EXCEPT ![d] = @ \cup {m.path}]
    /\ Take(d, m)
    /\ UNCHANGED <<calls, edits, online, excuses, syncing>>

LEMMA EditsAre ==
    ASSUME MInv, NEW d \in Device, UserEdits(d)
    PROVE  \E p \in Path, t \in Text \cup {Absent} : Edits(d, p, t)
BY DEF UserEdits, EditNote, Change, Edits

LEMMA AdoptsAre ==
    ASSUME MInv, NEW d \in Device, NEW m \in net[d], m.type = "update",
           m.version > version[d][m.path],
           version' = [version EXCEPT ![d][m.path] = m.version],
           Take(d, m),
           since' = [since EXCEPT ![d] = @ \cup {m.path}],
           IF m.text # vault[d][m.path]
           THEN Change(d, m.path, m.text)
           ELSE UNCHANGED <<vault, treeVars>>,
           UNCHANGED <<calls, online, syncing, counts, excuses>>
    PROVE  Adopts(d, m)
<1>1. m.path \in Path /\ vault \in [Device -> Leaves]
  BY UpdatesAre DEF MInv, MerkleTypeOK
<1>2. vault' = [vault EXCEPT ![d][m.path] = m.text]
  <2>1. CASE m.text # vault[d][m.path]
    BY <2>1 DEF Change
  <2>2. CASE m.text = vault[d][m.path]
    BY <1>1, <2>2 DEF Leaves
  <2>3. QED
    BY <2>1, <2>2
<1>3. QED
  BY <1>2 DEF Adopts, counts

(* What changes where, and what is on its way then.                        *)
LEMMA EditsChange ==
    ASSUME MInv, NEW d \in Device, NEW p \in Path, NEW t \in Text \cup {Absent}, Edits(d, p, t)
    PROVE  /\ \A e \in Device, q \in Path : e # d \/ q # p =>
                /\ vault'[e][q] = vault[e][q] /\ version'[e][q] = version[e][q]
                /\ q \in since'[e] => q \in since[e]
           /\ vault'[d][p] = t /\ version'[d][p] = edits + 1 /\ edits' = edits + 1
           /\ net'[d] = net[d]
           /\ online => net'[Other(d)] = net[Other(d)] \cup
                {[type |-> "update", path |-> p, text |-> t, version |-> edits + 1]}
           /\ ~online => net'[Other(d)] = net[Other(d)]
<1>1. /\ vault \in [Device -> [Path -> Text \cup {Absent}]]
      /\ version \in [Device -> [Path -> 0 .. MaxEdits]]
      /\ net \in [Device -> SUBSET Fine]
  BY DEF MInv, MerkleTypeOK, Leaves, NetFine
<1>2. /\ vault'[d][p] = t /\ version'[d][p] = edits + 1
      /\ \A e \in Device, q \in Path : e # d \/ q # p =>
           vault'[e][q] = vault[e][q] /\ version'[e][q] = version[e][q]
  BY <1>1 DEF Edits
<1>3. since'[d] \subseteq since[d] \cup {p} /\ \A e \in Device : e # d => since'[e] = since[e]
  BY DEF Edits
<1>4. QED
  BY <1>1, <1>2, <1>3, Both DEF Edits, Send

LEMMA AdoptsChange ==
    ASSUME MInv, NEW d \in Device, NEW m, Adopts(d, m)
    PROVE  /\ \A e \in Device, q \in Path : e # d \/ q # m.path =>
                /\ vault'[e][q] = vault[e][q] /\ version'[e][q] = version[e][q]
                /\ q \in since'[e] => q \in since[e]
           /\ vault'[d][m.path] = m.text /\ version'[d][m.path] = m.version /\ edits' = edits
           /\ net'[d] = net[d] \ {m} /\ net'[Other(d)] = net[Other(d)]
           /\ m.path \in Path
<1>1. /\ vault \in [Device -> [Path -> Text \cup {Absent}]]
      /\ version \in [Device -> [Path -> 0 .. MaxEdits]]
      /\ net \in [Device -> SUBSET Fine] /\ m.path \in Path
  BY UpdatesAre DEF MInv, MerkleTypeOK, Leaves, NetFine, Adopts
<1>2. /\ vault'[d][m.path] = m.text /\ version'[d][m.path] = m.version
      /\ \A e \in Device, q \in Path : e # d \/ q # m.path =>
           vault'[e][q] = vault[e][q] /\ version'[e][q] = version[e][q]
  BY <1>1 DEF Adopts
<1>3. /\ since'[d] \subseteq since[d] \cup {m.path}
      /\ \A e \in Device : e # d => since'[e] = since[e]
  BY DEF Adopts
<1>4. QED
  BY <1>1, <1>2, <1>3, Both DEF Adopts, Take

LEMMA EditsKeepNumbered ==
    ASSUME MInv, Numbered, NEW d \in Device, NEW p \in Path, NEW t \in Text \cup {Absent},
           Edits(d, p, t)
    PROVE  Numbered'
<1> DEFINE new == [type |-> "update", path |-> p, text |-> t, version |-> edits + 1]
           o == Other(d)
<1>1. edits \in Nat /\ o \in Device /\ o # d /\ Other(o) = d
  BY Both, MerkleAssumption DEF MInv, NetFine
<1>2. \A e \in Device, q \in Path : version[e][q] \in Nat /\ version[e][q] <= edits
  BY VersionsAre DEF Numbered
<1>3. /\ \A e \in Device, q \in Path : e # d \/ q # p =>
           vault'[e][q] = vault[e][q] /\ version'[e][q] = version[e][q]
      /\ vault'[d][p] = t /\ version'[d][p] = edits + 1 /\ edits' = edits + 1
      /\ net'[d] = net[d]
  BY EditsChange
<1>4. online => net'[o] = net[o] \cup {new}
  BY EditsChange
<1>5. ~online => net'[o] = net[o]
  BY EditsChange
<1> HIDE DEF o
<1>6. \A e \in Device, q \in Path : version'[e][q] <= edits'
  BY <1>1, <1>2, <1>3
<1>7. ASSUME NEW e \in Device, NEW q \in Path, version'[e][q] = version'[Other(e)][q]
      PROVE  vault'[e][q] = vault'[Other(e)][q]
  <2>1. CASE q = p
    <3>1. version'[o][p] = version[o][p] /\ version[o][p] # edits + 1
      BY <1>1, <1>2, <1>3
    <3>2. version'[d][p] # version'[o][p]
      BY <1>3, <3>1
    <3>3. QED
      BY <1>1, <1>7, <2>1, <3>2, Both DEF o
  <2>2. CASE q # p
    BY <1>3, <1>7, <2>2, Both DEF Numbered
  <2>3. QED
    BY <2>1, <2>2
<1>8. online => CurrentComes(o, p)'
  <2>1. SUFFICES ASSUME online PROVE CurrentComes(o, p)'
    OBVIOUS
  <2>2. new \in net'[o] /\ new.type = "update" /\ new.path = p /\ new.version = version'[d][p]
    BY <1>3, <1>4, <2>1
  <2>3. QED
    BY <1>1, <2>2 DEF CurrentComes, Brings, IsUpdate
<1>9. ASSUME NEW e \in Device, NEW m \in net[e], m.type = "update", m.path # p
      PROVE  TrueTo(e, m)'
  <2>1. TrueTo(e, m) /\ m.path \in Path
    BY <1>9, UpdatesAre DEF Numbered
  <2>2. CurrentComes(e, m.path) => CurrentComes(e, m.path)'
    <3>1. SUFFICES ASSUME NEW n \in net[e], Brings(n, e, m.path) PROVE CurrentComes(e, m.path)'
      BY DEF CurrentComes
    <3>2. n \in net'[e]
      BY <1>3, <1>4, <1>5, Both DEF o
    <3>3. QED
      BY <1>3, <1>9, <2>1, <3>1, <3>2, Both DEF CurrentComes, Brings, IsUpdate
  <2>3. QED
    BY <1>3, <1>9, <2>1, <2>2, Both DEF TrueTo
<1>10. ASSUME NEW m \in net[o], m.type = "update", m.path = p
       PROVE  TrueTo(o, m)'
  <2>1. TrueTo(o, m) /\ m.version \in Nat /\ online
    BY <1>1, <1>10, UpdatesAre DEF Numbered
  <2>2. m.version <= edits
    BY <1>1, <1>2, <1>10, <2>1 DEF TrueTo
  <2>3. m.version < version'[Other(o)][p]
    BY <1>1, <1>3, <2>1, <2>2
  <2>4. QED
    BY <1>1, <1>3, <1>8, <1>10, <2>1, <2>3 DEF TrueTo
<1>11. ASSUME NEW m \in net[d], m.type = "update", m.path = p
       PROVE  TrueTo(d, m)'
  <2>1. TrueTo(d, m) /\ m.version \in Nat
    BY <1>11, UpdatesAre DEF Numbered
  <2>2. m.version <= version[o][p] /\ version[o][p] <= edits
    BY <1>1, <1>2, <1>11, <2>1 DEF TrueTo, o
  <2>3. ~(m.version > version'[d][p])
    BY <1>1, <1>2, <1>3, <2>1, <2>2
  <2>4. version'[o][p] = version[o][p] /\ vault'[o][p] = vault[o][p]
    BY <1>1, <1>3
  <2>5. QED
    BY <1>11, <2>1, <2>2, <2>3, <2>4 DEF TrueTo, o
<1>12. ASSUME NEW m, m = new, online PROVE TrueTo(o, m)'
  <2>1. m.path = p /\ m.text = t /\ m.version = edits + 1 /\ edits + 1 \in Nat
    BY <1>1, <1>12
  <2>2. QED
    BY <1>1, <1>3, <1>8, <1>12, <2>1 DEF TrueTo
<1>13. ASSUME NEW e \in Device, NEW m \in net'[e], m.type = "update"
       PROVE  TrueTo(e, m)'
  <2>1. m \in net[e] \/ (online /\ e = o /\ m = new)
    BY <1>3, <1>4, <1>5, Both DEF o
  <2>2. e = d \/ e = o
    BY Both DEF o
  <2> HIDE DEF new
  <2>3. CASE m \in net[e]
    BY <1>9, <1>10, <1>11, <1>13, <2>2, <2>3
  <2>4. QED
    BY <1>12, <2>1, <2>3
<1>14. QED
  BY <1>6, <1>7, <1>13 DEF Numbered

LEMMA EditsKeepApart ==
    ASSUME MInv, Numbered, online, NEW d \in Device, NEW p \in Path, NEW t \in Text \cup {Absent},
           Edits(d, p, t), NEW e \in Device, NEW q \in Path, Apart(e, q)'
    PROVE  Stays(e, q)
<1> DEFINE new == [type |-> "update", path |-> p, text |-> t, version |-> edits + 1]
           o == Other(d)
<1>1. /\ \A a \in Device, b \in Path : a # d \/ b # p =>
           /\ vault'[a][b] = vault[a][b] /\ version'[a][b] = version[a][b]
           /\ b \in since'[a] => b \in since[a]
      /\ version'[d][p] = edits + 1 /\ net'[d] = net[d] /\ net'[o] = net[o] \cup {new}
  BY EditsChange
<1>2. q # p
  <2> SUFFICES ASSUME q = p PROVE FALSE
    OBVIOUS
  <2>1. version[o][p] \in Nat /\ version[o][p] <= edits /\ edits \in Nat
    BY Both, VersionsAre, MerkleAssumption DEF Numbered, MInv, NetFine
  <2>2. e # d
    BY <1>1, <2>1, Both DEF Apart, Behind
  <2>3. e = o /\ Other(o) = d
    BY <2>2, Both
  <2>4. new \in net'[e] /\ new.type = "update" /\ new.path = p /\ new.version = version'[d][p]
    BY <1>1, <2>3
  <2>5. CurrentComes(e, p)'
    BY <2>3, <2>4 DEF CurrentComes, Brings, IsUpdate
  <2>6. QED
    BY <2>5 DEF Apart
<1>3. \A m \in net[e] : Brings(m, e, q) => CurrentComes(e, q)'
  <2> SUFFICES ASSUME NEW m \in net[e], Brings(m, e, q) PROVE CurrentComes(e, q)'
    OBVIOUS
  <2>1. m \in net'[e]
    BY <1>1, Both
  <2>2. version'[Other(e)][q] = version[Other(e)][q]
    BY <1>1, <1>2, Both
  <2>3. QED
    BY <2>1, <2>2 DEF CurrentComes, Brings, IsUpdate
<1>4. Behind(e, q)
  BY <1>1, <1>2, Both DEF Apart, Behind
<1>5. Apart(e, q)
  BY <1>3, <1>4 DEF Apart, CurrentComes
<1>6. QED
  BY <1>1, <1>2, <1>5 DEF Stays

LEMMA AdoptsKeepNumbered ==
    ASSUME MInv, Numbered, NEW d \in Device, NEW m, Adopts(d, m)
    PROVE  Numbered'
<1> DEFINE o == Other(d)
           p == m.path
<1>1. o \in Device /\ o # d /\ Other(o) = d
  BY Both
<1>2. /\ \A e \in Device, q \in Path : e # d \/ q # p =>
           vault'[e][q] = vault[e][q] /\ version'[e][q] = version[e][q]
      /\ vault'[d][p] = m.text /\ version'[d][p] = m.version /\ edits' = edits
      /\ net'[d] = net[d] \ {m} /\ net'[o] = net[o] /\ p \in Path
  BY AdoptsChange
<1>3. m \in net[d] /\ m.type = "update" /\ m.version > version[d][p] /\ m.version \in Nat
  BY UpdatesAre DEF Adopts
<1>4. TrueTo(d, m)
  BY <1>3 DEF Numbered
<1>5. /\ m.version <= version[o][p]
      /\ m.version = version[o][p] => m.text = vault[o][p]
  BY <1>4 DEF TrueTo
<1>6. version[o][p] \in Nat /\ version[d][p] \in Nat /\ version[o][p] <= edits /\ edits \in Nat
  BY <1>1, <1>2, VersionsAre, MerkleAssumption DEF Numbered, MInv, NetFine
<1> HIDE DEF o, p
<1>7. \A e \in Device, q \in Path : version'[e][q] <= edits'
  <2>1. version'[d][p] <= edits
    BY <1>2, <1>3, <1>5, <1>6
  <2>2. QED
    BY <1>2, <2>1 DEF Numbered
<1>8. ASSUME NEW e \in Device, NEW q \in Path, version'[e][q] = version'[Other(e)][q]
      PROVE  vault'[e][q] = vault'[Other(e)][q]
  <2>1. CASE q = p
    <3>1. version'[d][p] = version'[o][p]
      BY <1>1, <1>8, <2>1, Both DEF o
    <3>2. vault'[d][p] = vault'[o][p]
      BY <1>1, <1>2, <1>5, <3>1
    <3>3. QED
      BY <1>1, <2>1, <3>2, Both DEF o
  <2>2. CASE q # p
    BY <1>2, <1>8, <2>2, Both DEF Numbered
  <2>3. QED
    BY <2>1, <2>2
<1>9. ASSUME NEW e \in Device, NEW n \in net'[e], n.type = "update", n.path # p
      PROVE  TrueTo(e, n)'
  <2>1. n \in net[e]
    BY <1>1, <1>2, Both DEF o
  <2>2. TrueTo(e, n) /\ n.path \in Path
    BY <1>9, <2>1, UpdatesAre DEF Numbered
  <2>3. CurrentComes(e, n.path) => CurrentComes(e, n.path)'
    <3>1. SUFFICES ASSUME NEW k \in net[e], Brings(k, e, n.path) PROVE CurrentComes(e, n.path)'
      BY DEF CurrentComes
    <3>2. k \in net'[e]
      BY <1>1, <1>2, <1>9, <3>1, Both DEF o, p, Brings, IsUpdate
    <3>3. QED
      BY <1>2, <1>9, <2>2, <3>1, <3>2, Both DEF CurrentComes, Brings, IsUpdate
  <2>4. QED
    BY <1>2, <1>9, <2>2, <2>3, Both DEF TrueTo
<1>10. ASSUME NEW n \in net'[d], n.type = "update", n.path = p
       PROVE  TrueTo(d, n)'
  <2>1. n \in net[d] /\ n # m
    BY <1>2
  <2>2. TrueTo(d, n) /\ n.version \in Nat
    BY <1>10, <2>1, UpdatesAre DEF Numbered
  <2>3. ASSUME n.version > version'[d][p] PROVE CurrentComes(d, p)'
    <3>1. n.version > version[d][p]
      BY <1>2, <1>3, <1>6, <2>2, <2>3
    <3>2. PICK k \in net[d] : Brings(k, d, p)
      BY <1>10, <2>2, <3>1 DEF TrueTo, CurrentComes
    <3>3. k.version = version[o][p] /\ n.version <= version[o][p]
      BY <1>10, <2>2, <3>2 DEF TrueTo, Brings, o
    <3>4. k # m
      BY <1>2, <1>3, <1>6, <2>2, <2>3, <3>3
    <3>5. k \in net'[d]
      BY <1>2, <3>2, <3>4
    <3>6. QED
      BY <1>1, <1>2, <3>2, <3>5 DEF CurrentComes, Brings, IsUpdate, o
  <2>4. version'[o][p] = version[o][p] /\ vault'[o][p] = vault[o][p]
    BY <1>1, <1>2
  <2>5. QED
    BY <1>10, <2>2, <2>3, <2>4 DEF TrueTo, o
<1>11. ASSUME NEW n \in net'[o], n.type = "update", n.path = p
       PROVE  TrueTo(o, n)'
  <2>1. n \in net[o]
    BY <1>2
  <2>2. TrueTo(o, n) /\ n.version \in Nat
    BY <1>1, <1>11, <2>1, UpdatesAre DEF Numbered
  <2>3. n.version <= version[d][p]
    BY <1>1, <1>11, <2>2 DEF TrueTo
  <2>4. n.version < version'[d][p] /\ ~(n.version > version'[o][p])
    BY <1>1, <1>2, <1>3, <1>5, <1>6, <2>2, <2>3
  <2>5. version'[d][p] \in Nat
    BY <1>2, <1>3
  <2>6. QED
    BY <1>1, <1>11, <2>2, <2>4, <2>5 DEF TrueTo
<1>12. \A e \in Device : \A n \in net'[e] : n.type = "update" => TrueTo(e, n)'
  <2>1. \A e \in Device : e = d \/ e = o
    BY Both DEF o
  <2>2. QED
    BY <1>9, <1>10, <1>11, <2>1
<1>13. QED
  BY <1>7, <1>8, <1>12 DEF Numbered

LEMMA AdoptsKeepApart ==
    ASSUME MInv, Numbered, NEW d \in Device, NEW m, Adopts(d, m),
           NEW e \in Device, NEW q \in Path, Apart(e, q)'
    PROVE  Stays(e, q)
<1> DEFINE o == Other(d)
           p == m.path
<1>1. /\ \A a \in Device, b \in Path : a # d \/ b # p =>
           /\ vault'[a][b] = vault[a][b] /\ version'[a][b] = version[a][b]
           /\ b \in since'[a] => b \in since[a]
      /\ version'[d][p] = m.version /\ net'[d] = net[d] \ {m} /\ net'[o] = net[o] /\ p \in Path
  BY AdoptsChange
<1>2. m \in net[d] /\ m.type = "update" /\ m.version > version[d][p] /\ m.version \in Nat
  BY UpdatesAre DEF Adopts
<1>3. o \in Device /\ o # d /\ Other(o) = d
  BY Both
<1>4. version[o][p] \in Nat /\ version[d][p] \in Nat
  BY <1>1, <1>3, VersionsAre
<1>5. m.version <= version[o][p] /\ CurrentComes(d, p)
  BY <1>2 DEF Numbered, TrueTo
<1>6. q # p
  <2> SUFFICES ASSUME q = p PROVE FALSE
    OBVIOUS
  <2>1. version'[o][p] = version[o][p]
    BY <1>1, <1>3
  <2>2. Behind(e, p)'
    BY DEF Apart
  <2>3. e = d
    BY <1>1, <1>2, <1>3, <1>4, <1>5, <2>1, <2>2, Both DEF Behind
  <2>4. m.version < version[o][p]
    BY <1>1, <2>1, <2>2, <2>3 DEF Behind
  <2>5. PICK k \in net[d] : Brings(k, d, p)
    BY <1>5 DEF CurrentComes
  <2>6. k \in net'[d]
    BY <1>1, <1>2, <1>4, <2>4, <2>5 DEF Brings
  <2>7. CurrentComes(d, p)'
    BY <2>1, <2>5, <2>6 DEF CurrentComes, Brings, IsUpdate
  <2>8. QED
    BY <2>3, <2>7 DEF Apart
<1>7. \A k \in net[e] : Brings(k, e, q) => CurrentComes(e, q)'
  <2> SUFFICES ASSUME NEW k \in net[e], Brings(k, e, q) PROVE CurrentComes(e, q)'
    OBVIOUS
  <2>1. k \in net'[e]
    BY <1>1, <1>6, Both DEF Brings, IsUpdate
  <2>2. version'[Other(e)][q] = version[Other(e)][q]
    BY <1>1, <1>6, Both
  <2>3. QED
    BY <2>1, <2>2 DEF CurrentComes, Brings, IsUpdate
<1>8. Behind(e, q)
  BY <1>1, <1>6, Both DEF Apart, Behind
<1>9. Apart(e, q)
  BY <1>7, <1>8 DEF Apart, CurrentComes
<1>10. QED
  BY <1>1, <1>6, <1>9 DEF Stays

-----------------------------------------------------------------------------
(* What is wanted of a tree, on its way or asked for, is not lost: it is   *)
(* asked for when it arrives, and answered when the tree is there.         *)

Pending(d, w) == \E c \in calls[d] : c.for = w
Comes(d, w) == w \in net[d] \/ Pending(d, w)
AnsweredBy(d, t, w) ==
    /\ Answers(d, t, w) \subseteq net'[Other(d)]
    /\ Missed(d, t, w) \subseteq excuses'

LEMMA AskKeepsCalls ==
    ASSUME MInv, NEW e \in Device, NEW u, Ask(e, u)
    PROVE  /\ \A d \in Device : \A w : Pending(d, w) => Pending(d, w)'
           /\ Pending(e, u)'
<1>1. PICK at, todo : calls' = [calls EXCEPT ![e] = @ \cup {Waits(u, at, todo)}]
  BY DEF Ask, AskWhileFresh, AskWhileStale
<1>2. calls \in [Device -> SUBSET Call]
  BY DEF MInv, MerkleTypeOK
<1>3. Waits(u, at, todo).for = u
  BY DEF Waits
<1>4. QED
  BY <1>1, <1>2, <1>3 DEF Pending

LEMMA WorkKeepsCalls ==
    ASSUME MInv, NEW e \in Device, Work(e), NEW d \in Device, NEW w, Pending(d, w)
    PROVE  Pending(d, w)'
<1>1. PICK c \in calls[d] : c.for = w
  BY DEF Pending
<1>2. calls \in [Device -> SUBSET Call] /\ c \in Call
  BY DEF MInv, MerkleTypeOK
<1>3. CASE Hash(e)
  BY <1>1, <1>3 DEF Hash, Pending
<1>4. CASE FinishBuild(e)
  <2>1. calls' = [calls EXCEPT ![e] = {Replaced(e, x) : x \in calls[e]}]
    BY <1>4 DEF FinishBuild
  <2>2. Replaced(e, c).for = w
    BY <1>1, <1>2 DEF Replaced, Call
  <2>3. c \in calls'[d] \/ Replaced(e, c) \in calls'[d]
    BY <1>1, <1>2, <2>1
  <2>4. QED
    BY <1>1, <2>2, <2>3 DEF Pending
<1>5. CASE Fold(e)
  <2>1. PICK x \in calls[e] : \E p \in x.todo : FoldStep(e, x, p)
    BY <1>5 DEF Fold
  <2>2. PICK p \in x.todo : FoldStep(e, x, p)
    BY <2>1
  <2>3. calls' = [calls EXCEPT ![e] = (calls[e] \ {x}) \cup {Folded(e, x, p)}]
    BY <2>2 DEF FoldStep
  <2>4. Folded(e, c, p).for = w
    BY <1>1, <1>2 DEF Folded, Call
  <2>5. c \in calls'[d] \/ Folded(e, c, p) \in calls'[d]
    BY <1>1, <1>2, <2>3
  <2>6. QED
    BY <1>1, <2>4, <2>5 DEF Pending
<1>6. QED
  BY <1>3, <1>4, <1>5 DEF Work

LEMMA WantedTypes ==
    ASSUME NEW w \in Wanted
    PROVE  w.type \notin {"update", "request-file"}
BY MerkleCases DEF Wanted, Offer

LEMMA AnswerKeeps ==
    ASSUME MInv, online, NEW e \in Device, Answer(e), NEW d \in Device, NEW w \in Wanted, Comes(d, w)
    PROVE  Comes(d, w)' \/ \E t \in Leaves : AnsweredBy(d, t, w)
<1>1. PICK c \in Served(e) :
        /\ calls' = [calls EXCEPT ![e] = @ \ {c}]
        /\ Send(e, Answers(e, TreeOf(e, c), c.for))
        /\ excuses' = excuses \cup Missed(e, TreeOf(e, c), c.for)
  BY DEF Answer
<1>2. /\ calls \in [Device -> SUBSET Call] /\ net \in [Device -> SUBSET Fine]
      /\ c \in calls[e] /\ c \in Call /\ tree[e] \in Leaves
  BY DEF MInv, MerkleTypeOK, NetFine, Served
<1>3. TreeOf(e, c) \in Leaves
  BY <1>2 DEF TreeOf, Call
<1>4. net'[Other(e)] = net[Other(e)] \cup Answers(e, TreeOf(e, c), c.for)
  BY <1>1, <1>2, Both DEF Send
<1>5. \A a \in Device : net[a] \subseteq net'[a]
  BY <1>1, <1>2, Both DEF Send
<1>6. CASE w \in net[d]
  BY <1>5, <1>6 DEF Comes
<1>7. CASE Pending(d, w)
  <2>1. PICK x \in calls[d] : x.for = w
    BY <1>7 DEF Pending
  <2>2. CASE d = e /\ x = c
    <3>1. AnsweredBy(e, TreeOf(e, c), w)
      BY <1>1, <1>4, <2>1, <2>2 DEF AnsweredBy
    <3>2. QED
      BY <1>3, <2>2, <3>1
  <2>3. CASE ~(d = e /\ x = c)
    <3>1. x \in calls'[d]
      BY <1>1, <1>2, <2>1, <2>3
    <3>2. QED
      BY <2>1, <3>1 DEF Comes, Pending
  <2>4. QED
    BY <2>2, <2>3
<1>8. QED
  BY <1>6, <1>7 DEF Comes

LEMMA ReceiveMerkleKeeps ==
    ASSUME MInv, NEW e \in Device, ReceiveMerkle(e), excuses' = {},
           NEW d \in Device, NEW w \in Wanted, Comes(d, w)
    PROVE  Comes(d, w)'
<1>1. PICK m \in net[e] :
        /\ Take(e, m)
        /\ Ask(e, m)
  BY DEF ReceiveMerkle
<1>2. net \in [Device -> SUBSET Fine]
  BY DEF MInv, NetFine
<1>3. CASE Pending(d, w)
  BY <1>1, <1>3, AskKeepsCalls DEF Comes
<1>4. CASE w \in net[d] /\ ~(d = e /\ w = m)
  <2>1. w \in net'[d]
    BY <1>1, <1>2, <1>4 DEF Take
  <2>2. QED
    BY <2>1 DEF Comes
<1>5. CASE d = e /\ w = m
  BY <1>1, <1>5, AskKeepsCalls DEF Comes
<1>6. QED
  BY <1>3, <1>4, <1>5 DEF Comes

(* What no step but Connect and Disconnect does: lose what is wanted, a    *)
(* request or an update without doing what it is for.                      *)
NothingLost ==
    \A d \in Device, w \in Wanted : Comes(d, w) =>
        Comes(d, w)' \/ \E t \in Leaves : AnsweredBy(d, t, w)

RequestsServed ==
    \A d \in Device, p \in Path : RequestFile(p) \in net[d] =>
        \/ RequestFile(p) \in net'[d]
        \/ (vault[d][p] # Absent => Update(d, p) \in net'[Other(d)])

UpdatesServed ==
    \A d \in Device : \A m \in net[d] : m.type = "update" =>
        \/ m \in net'[d]
        \/ m.version >= version[d][m.path]
        \/ Update(d, m.path) \in net'[Other(d)]

Flows ==
    /\ online' = online /\ excuses \subseteq excuses'
    /\ (online /\ excuses' = {}) => NothingLost
    /\ syncing[1] => (syncing'[1] \/ ~online \/ Pending(1, Offer)')
    /\ RequestsServed /\ UpdatesServed

Moves ==
    \/ Talks
    \/ \E d \in Device, p \in Path, t \in Text \cup {Absent} : Edits(d, p, t)
    \/ \E d \in Device : \E m : Adopts(d, m)

LEMMA PendingSame ==
    ASSUME UNCHANGED calls, NEW d, NEW w, Pending(d, w)
    PROVE  Pending(d, w)'
BY DEF Pending

(* Messages only join those on their way, and callers stay.                *)
LEMMA GrowingFlows ==
    ASSUME MInv, \A d \in Device : net[d] \subseteq net'[d]
    PROVE  /\ RequestsServed /\ UpdatesServed
           /\ (\A d \in Device : \A w : Pending(d, w) => Pending(d, w)') => NothingLost
<1>1. (\A d \in Device : \A w : Pending(d, w) => Pending(d, w)') => NothingLost
  BY DEF NothingLost, Comes
<1>2. QED
  BY <1>1 DEF RequestsServed, UpdatesServed

LEMMA StillFlows ==
    ASSUME MInv, UNCHANGED vars
    PROVE  Flows /\ Moves
<1>1. \A d \in Device : \A w : Pending(d, w) => Pending(d, w)'
  BY PendingSame DEF vars, merkleVars
<1>2. RequestsServed /\ UpdatesServed /\ NothingLost
  BY <1>1, GrowingFlows DEF vars
<1>3. Talks
  BY DEF vars, merkleVars, counts, Talks
<1>4. QED
  BY <1>2, <1>3 DEF vars, Flows, Moves

LEMMA UserFlows ==
    ASSUME MInv, NEW d \in Device, UserEdits(d)
    PROVE  Flows /\ Moves
<1>1. PICK p \in Path, t \in Text \cup {Absent} : Edits(d, p, t)
  BY EditsAre
<1>2. \A e \in Device : net[e] \subseteq net'[e]
  BY <1>1, EditsChange, Both
<1>3. \A e \in Device : \A w : Pending(e, w) => Pending(e, w)'
  BY <1>1, PendingSame DEF Edits
<1>4. RequestsServed /\ UpdatesServed /\ NothingLost
  BY <1>2, <1>3, GrowingFlows
<1>5. QED
  BY <1>1, <1>4 DEF Edits, Flows, Moves

LEMMA EndSyncFlows ==
    ASSUME MInv, CountsFine, NEW d \in Device, EndSync(d)
    PROVE  Flows /\ Moves
<1>1. UNCHANGED <<vault, version, online, net, edits, since, excuses>>
  BY DEF EndSync, counts
<1>2. CASE online /\ d = 1
  <2>1. Ask(1, Offer)
    BY <1>2 DEF EndSync, Rearm, Primary
  <2>2. Pending(1, Offer)' /\ \A e \in Device : \A w : Pending(e, w) => Pending(e, w)'
    BY <2>1, Both, AskKeepsCalls
  <2>3. RequestsServed /\ UpdatesServed /\ NothingLost
    BY <1>1, <2>2, GrowingFlows
  <2>4. QED
    BY <1>1, <2>2, <2>3 DEF Flows, Moves, Talks
<1>3. CASE ~(online /\ d = 1)
  <2>1. UNCHANGED calls /\ (d # 1 => syncing'[1] = syncing[1])
    BY <1>3, Both DEF EndSync, Rearm, Primary, CountsFine
  <2>2. \A e \in Device : \A w : Pending(e, w) => Pending(e, w)'
    BY <2>1, PendingSame
  <2>3. RequestsServed /\ UpdatesServed /\ NothingLost
    BY <1>1, <2>2, GrowingFlows
  <2>4. QED
    BY <1>1, <1>3, <2>1, <2>3 DEF Flows, Moves, Talks
<1>4. QED
  BY <1>2, <1>3

LEMMA TreeWorkFlows ==
    ASSUME MInv, NEW d \in Device, TreeWork(d)
    PROVE  Flows /\ Moves
<1>1. Work(d) /\ UNCHANGED <<version, online, net, syncing, edits, since, excuses>>
  BY DEF TreeWork, counts
<1>2. UNCHANGED vault
  BY <1>1 DEF Work, Hash, FinishBuild, Fold, FoldStep
<1>3. \A e \in Device : \A w : Pending(e, w) => Pending(e, w)'
  BY <1>1, WorkKeepsCalls
<1>4. RequestsServed /\ UpdatesServed /\ NothingLost
  BY <1>1, <1>3, GrowingFlows
<1>5. QED
  BY <1>1, <1>2, <1>4 DEF Flows, Moves, Talks

LEMMA ReceiveMerkleFlows ==
    ASSUME MInv, NEW d \in Device, ReceiveMerkle(d)
    PROVE  Flows /\ Moves
<1>1. PICK m \in net[d] :
        /\ m.type \in {"merkle-root", "merkle-node-request", "merkle-node-response"}
        /\ Take(d, m)
        /\ UNCHANGED <<vault, version, edits, online, since, syncing>>
        /\ excuses \subseteq excuses'
  BY DEF ReceiveMerkle, counts
<1>2. /\ \A e \in Device : net'[e] \subseteq net[e]
      /\ \A e \in Device : \A n \in net[e] : n \in net'[e] \/ n = m
  BY <1>1 DEF Take, MInv, NetFine
<1>3. Talks
  BY <1>1, <1>2 DEF Talks
<1>4. RequestsServed /\ UpdatesServed
  BY <1>1, <1>2 DEF RequestsServed, UpdatesServed, RequestFile
<1>5. excuses' = {} => NothingLost
  BY ReceiveMerkleKeeps DEF NothingLost
<1>6. QED
  BY <1>1, <1>3, <1>4, <1>5 DEF Flows, Moves

(* Of notes, an answer tells what the device has.                          *)
LEMMA AnswersTrue ==
    ASSUME MInv, NEW d \in Device, NEW t \in Leaves, NEW w \in Wanted,
           NEW n \in Answers(d, t, w), n.type = "update"
    PROVE  \E p \in Path : n = Update(d, p)
<1>1. CASE w = Offer
  BY <1>1 DEF Answers, Offer, RootIs
<1>2. CASE w \in MerkleMessage /\ w.type = "merkle-root"
  BY <1>2 DEF Answers, NodeRequest
<1>3. CASE w \in MerkleMessage /\ w.type = "merkle-node-request"
  BY <1>3 DEF Answers, NodeResponse
<1>4. CASE w \in MerkleMessage /\ w.type = "merkle-node-response"
  <2> DEFINE mine == IF HasNode(t, w.at) THEN Children(t, w.at) ELSE <<>>
  <2>1. PICK u \in Leaves : w.children = Children(u, w.at)
    BY <1>4, MerkleCases
  <2>2. w.at # Root => \A k \in DOMAIN mine \cup DOMAIN w.children : <<w.at, k>> \in Path
    BY <1>4, <2>1, MerkleCases, ChildrenNames
  <2>3. Answers(d, t, w) =
          IF w.at = Root
          THEN {NodeRequest(f) : f \in Differing(mine, w.children)}
          ELSE UNION {Exchanged(d, w.at, mine, w.children, k) : k \in Differing(mine, w.children)}
    BY <1>4 DEF Answers
  <2> HIDE DEF mine
  <2>4. w.at # Root
    BY <2>3 DEF NodeRequest
  <2>5. PICK k \in Differing(mine, w.children) : n \in Exchanged(d, w.at, mine, w.children, k)
    BY <2>3, <2>4
  <2>6. <<w.at, k>> \in Path
    BY <2>2, <2>4, <2>5 DEF Differing
  <2>7. n = Update(d, <<w.at, k>>)
    BY <2>5 DEF Exchanged, RequestFile
  <2>8. QED
    BY <2>6, <2>7
<1>5. QED
  BY <1>1, <1>2, <1>3, <1>4, MerkleCases DEF Wanted

LEMMA AnswerFlows ==
    ASSUME MInv, CountsFine, NEW d \in Device, Answer(d)
    PROVE  Flows /\ Moves
<1>1. PICK c \in Served(d) :
        /\ Send(d, Answers(d, TreeOf(d, c), c.for))
        /\ UNCHANGED <<vault, version, edits, online, since, syncing>>
        /\ excuses \subseteq excuses'
  BY DEF Answer, counts
<1>2. TreeOf(d, c) \in Leaves /\ c.for \in Wanted
  <2>1. c \in Call /\ tree[d] \in Leaves
    BY DEF Served, MInv, MerkleTypeOK
  <2>2. QED
    BY <2>1, PurposeAssumption DEF TreeOf, Call
<1>3. /\ \A e \in Device : net[e] \subseteq net'[e]
      /\ \A e \in Device : \A n \in net'[e] \ net[e] :
           e = Other(d) /\ n \in Answers(d, TreeOf(d, c), c.for)
  BY <1>1, Both DEF Send, MInv, NetFine
<1>4. Talks
  <2>1. ASSUME NEW e \in Device, NEW n \in net'[e] \ net[e], n.type = "update"
        PROVE  \E p \in Path : n = Update(Other(e), p)
    BY <1>2, <1>3, <2>1, AnswersTrue, Both
  <2>2. QED
    BY <1>1, <1>3, <2>1 DEF Talks
<1>5. RequestsServed /\ UpdatesServed
  BY <1>3, GrowingFlows
<1>6. online => NothingLost
  BY AnswerKeeps DEF NothingLost
<1>7. QED
  BY <1>1, <1>4, <1>5, <1>6 DEF Flows, Moves

(* A message about a note is taken and answered.                           *)
LEMMA TakeFlows ==
    ASSUME MInv, NEW d \in Device, NEW m \in net[d], NEW ms,
           m.type \in {"update", "request-file"},
           TakeAndSend(d, m, ms) \/ (Take(d, m) /\ ms = {})
    PROVE  /\ \A e \in Device : \A n \in net[e] : n \in net'[e] \/ (e = d /\ n = m)
           /\ \A e \in Device : \A n \in net'[e] : n \in net[e] \/ (e = Other(d) /\ n \in ms)
           /\ ms \subseteq net'[Other(d)]
           /\ UNCHANGED calls => NothingLost
<1>1. /\ \A e \in Device : \A n \in net[e] : n \in net'[e] \/ (e = d /\ n = m)
      /\ \A e \in Device : \A n \in net'[e] : n \in net[e] \/ (e = Other(d) /\ n \in ms)
      /\ ms \subseteq net'[Other(d)]
  BY Both DEF Take, TakeAndSend, MInv, NetFine
<1>2. ASSUME NEW e \in Device, NEW w \in Wanted, Comes(e, w), UNCHANGED calls
      PROVE  Comes(e, w)'
  <2>1. w # m
    BY WantedTypes
  <2>2. QED
    BY <1>1, <1>2, <2>1, PendingSame DEF Comes
<1>3. QED
  BY <1>1, <1>2 DEF NothingLost

LEMMA ReceiveRequestFlows ==
    ASSUME MInv, NEW d \in Device, ReceiveRequest(d)
    PROVE  Flows /\ Moves
<1>1. PICK m \in net[d] :
        /\ m.type = "request-file"
        /\ TakeAndSend(d, m, IF vault[d][m.path] = Absent THEN {} ELSE {Update(d, m.path)})
        /\ UNCHANGED <<vault, version, edits, online, since, syncing, excuses, calls>>
  BY DEF ReceiveRequest, counts, merkleVars
<1>2. m.path \in Path
  <2>1. m \in Fine
    BY DEF MInv, NetFine
  <2>2. QED
    BY <1>1, <2>1, FineCases, MerkleCases
<1> DEFINE ms == IF vault[d][m.path] = Absent THEN {} ELSE {Update(d, m.path)}
<1>3. /\ \A e \in Device : \A n \in net[e] : n \in net'[e] \/ (e = d /\ n = m)
      /\ \A e \in Device : \A n \in net'[e] : n \in net[e] \/ (e = Other(d) /\ n \in ms)
      /\ ms \subseteq net'[Other(d)]
      /\ NothingLost
  BY <1>1, TakeFlows
<1>4. Talks
  BY <1>1, <1>2, <1>3, Both DEF Talks
<1>5. RequestsServed /\ UpdatesServed
  BY <1>1, <1>3 DEF RequestsServed, UpdatesServed, RequestFile
<1>6. QED
  BY <1>1, <1>3, <1>4, <1>5 DEF Flows, Moves

LEMMA ReceiveUpdateFlows ==
    ASSUME MInv, NEW d \in Device, ReceiveUpdate(d)
    PROVE  Flows /\ Moves
<1>1. PICK m \in net[d] :
        /\ m.type = "update"
        /\ IF m.version > version[d][m.path]
           THEN /\ version' = [version EXCEPT ![d][m.path] = m.version]
                /\ Take(d, m)
                /\ since' = [since EXCEPT ![d] = @ \cup {m.path}]
                /\ IF m.text # vault[d][m.path]
                   THEN Change(d, m.path, m.text)
                   ELSE UNCHANGED <<vault, treeVars>>
           ELSE /\ TakeAndSend(d, m, Refusal(d, m))
                /\ UNCHANGED <<vault, version, since>>
        /\ UNCHANGED <<calls, online, syncing, counts, excuses>>
  BY DEF ReceiveUpdate
<1>2. m.path \in Path /\ m.version \in Nat /\ version[d][m.path] \in Nat
  BY <1>1, UpdatesAre, VersionsAre
<1>3. CASE m.version > version[d][m.path]
  <2>1. Adopts(d, m)
    BY <1>1, <1>3, AdoptsAre
  <2>2. /\ \A e \in Device : \A n \in net[e] : n \in net'[e] \/ (e = d /\ n = m)
        /\ NothingLost
    <3> DEFINE ms == {}
    <3>1. TakeAndSend(d, m, ms) \/ (Take(d, m) /\ ms = {})
      BY <1>1, <1>3
    <3>2. UNCHANGED calls /\ m.type \in {"update", "request-file"}
      BY <1>1
    <3> HIDE DEF ms
    <3>3. QED
      BY <3>1, <3>2, TakeFlows
  <2>3. RequestsServed /\ UpdatesServed
    BY <1>1, <1>2, <1>3, <2>2 DEF RequestsServed, UpdatesServed, RequestFile
  <2>4. QED
    BY <1>1, <2>1, <2>2, <2>3 DEF Flows, Moves
<1>4. CASE ~(m.version > version[d][m.path])
  <2>1. /\ \A e \in Device : \A n \in net[e] : n \in net'[e] \/ (e = d /\ n = m)
        /\ \A e \in Device : \A n \in net'[e] : n \in net[e] \/ (e = Other(d) /\ n \in Refusal(d, m))
        /\ Refusal(d, m) \subseteq net'[Other(d)]
        /\ NothingLost
    BY <1>1, <1>4, TakeFlows
  <2>2. Refusal(d, m) = IF m.version = version[d][m.path] THEN {} ELSE {Update(d, m.path)}
    BY DEF Refusal
  <2>3. Talks
    BY <1>1, <1>2, <1>4, <2>1, <2>2, Both DEF Talks, counts
  <2>4. RequestsServed
    BY <1>1, <2>1 DEF RequestsServed, RequestFile
  <2>5. UpdatesServed
    BY <1>1, <1>2, <2>1, <2>2 DEF UpdatesServed
  <2>6. QED
    BY <1>1, <1>4, <2>1, <2>3, <2>4, <2>5 DEF Flows, Moves
<1>5. QED
  BY <1>3, <1>4

LEMMA StepFlows ==
    ASSUME MInv, CountsFine, [Next]_vars
    PROVE  (Flows /\ Moves) \/ Connect \/ Disconnect
BY StillFlows, UserFlows, EndSyncFlows, TreeWorkFlows, ReceiveMerkleFlows, AnswerFlows,
   ReceiveRequestFlows, ReceiveUpdateFlows DEF Next, Protocol

-----------------------------------------------------------------------------
(* A difference the two connected with is being carried: the exchange will *)
(* come to it, or an update that the newer version answers is under way.   *)

Shows(t, p) == t[p] = vault[1][p]
Told(p) == \E d \in Device : ~Behind(d, p) /\ CurrentComes(d, p)
Named(p) == \E d \in Device : RequestFile(p) \in net[d] /\ vault[d][p] # Absent
Carried(p) ==
    \/ syncing[1] \/ Comes(1, Offer)
    \/ \E t \in Leaves : Shows(t, p) /\ Comes(2, RootIs(t))
    \/ Comes(1, NodeRequest(Root))
    \/ \E t \in Leaves : Shows(t, p) /\ Comes(2, NodeResponse(Root, t))
    \/ Comes(1, NodeRequest(p[1]))
    \/ \E t \in Leaves : Shows(t, p) /\ Comes(2, NodeResponse(p[1], t))
    \/ Named(p) \/ Told(p)

Differs(p) == vault[1][p] # vault[2][p]
Old == online => \A d \in Device, p \in Path : Apart(d, p) => \A e \in Device : p \notin since[e]
AllCarried == online /\ excuses = {} =>
    \A d \in Device, p \in Path : Apart(d, p) /\ Differs(p) => Carried(p)

(* In a step, a difference d still has with the other at p.                *)
Lasts(d, p) ==
    /\ Stays(d, p) /\ Apart(d, p)' /\ Differs(p) /\ Differs(p)'
    /\ \A e \in Device : p \notin since[e]
    /\ excuses' = {}

LEMMA UpdateCarries ==
    ASSUME MInv, NEW d \in Device, NEW p \in Path, Lasts(d, p),
           NEW e \in Device, Update(e, p) \in net'[Other(e)]
    PROVE  Told(p)'
<1>1. version'[e][p] = version[e][p] /\ Brings(Update(e, p), Other(e), p)
  BY UpdateIs DEF Lasts, Stays
<1>2. CurrentComes(Other(e), p)'
  BY <1>1, Both DEF CurrentComes, Brings, IsUpdate
<1>3. Other(e) # d
  BY <1>2 DEF Lasts, Apart
<1>4. d = e /\ Other(Other(e)) = e
  BY <1>3, Both
<1>5. Behind(d, p)' /\ Behind(d, p)
  BY DEF Lasts, Apart, Stays
<1>6. version[d][p] \in Nat /\ version[Other(d)][p] \in Nat
  BY VersionsAre
<1>7. ~Behind(Other(d), p)
  BY <1>4, <1>5, <1>6 DEF Behind
<1>8. ~Behind(Other(d), p)'
  BY <1>4, <1>7, Both DEF Behind, Lasts, Stays
<1>9. QED
  BY <1>2, <1>4, <1>8, Both DEF Told

LEMMA NamedFlows ==
    ASSUME MInv, NEW d \in Device, NEW p \in Path, Lasts(d, p), RequestsServed, Named(p)
    PROVE  Named(p)' \/ Told(p)'
<1>1. PICK e \in Device : RequestFile(p) \in net[e] /\ vault[e][p] # Absent
  BY DEF Named
<1>2. vault'[e][p] # Absent
  BY <1>1 DEF Lasts, Stays
<1>3. CASE RequestFile(p) \in net'[e]
  BY <1>2, <1>3 DEF Named, RequestFile
<1>4. CASE Update(e, p) \in net'[Other(e)]
  BY <1>4, UpdateCarries
<1>5. QED
  BY <1>1, <1>3, <1>4 DEF RequestsServed

LEMMA ToldFlows ==
    ASSUME MInv, NEW d \in Device, NEW p \in Path, Lasts(d, p), UpdatesServed, Told(p)
    PROVE  Told(p)'
<1>1. PICK e \in Device : ~Behind(e, p) /\ CurrentComes(e, p)
  BY DEF Told
<1>2. PICK m \in net[e] : Brings(m, e, p)
  BY <1>1 DEF CurrentComes
<1>3. version[e][p] \in Nat /\ version[Other(e)][p] \in Nat /\ Other(Other(e)) = e
  BY VersionsAre, Both
<1>4. Behind(d, p) /\ e = Other(d) /\ d = Other(e)
  BY <1>1, Both DEF Lasts, Apart, Stays
<1>5. m.version < version[e][p]
  BY <1>2, <1>3, <1>4 DEF Behind, Brings
<1>6. CASE m \in net'[e]
  <2>1. CurrentComes(e, p)'
    BY <1>2, <1>6, Both DEF CurrentComes, Brings, IsUpdate, Lasts, Stays
  <2>2. ~Behind(e, p)'
    BY <1>1, Both DEF Behind, Lasts, Stays
  <2>3. QED
    BY <2>1, <2>2 DEF Told
<1>7. CASE Update(e, p) \in net'[Other(e)]
  BY <1>7, UpdateCarries
<1>8. ~(m.version >= version[e][p])
  BY <1>2, <1>3, <1>5 DEF Brings
<1>9. QED
  BY <1>2, <1>6, <1>7, <1>8 DEF UpdatesServed, Brings, IsUpdate

(* The exchange, message by message: whoever answers has a tree that shows *)
(* its own note at p.                                                      *)
Hop(a, p, d, t, w) == Lasts(a, p) /\ AnsweredBy(d, t, w)

LEMMA NotStale ==
    ASSUME NEW a \in Device, NEW p \in Path, NEW d \in Device, NEW t, NEW w, Hop(a, p, d, t, w)
    PROVE  /\ t[p] = vault[d][p] /\ vault'[d][p] = vault[d][p]
           /\ Missed(d, t, w) = {} /\ Answers(d, t, w) \subseteq net'[Other(d)]
<1>1. Missed(d, t, w) = {} /\ p \notin since[d] /\ Answers(d, t, w) \subseteq net'[Other(d)]
  BY DEF Hop, Lasts, AnsweredBy
<1>2. t[p] = vault[d][p]
  <2>1. ~ \E q \in Path \ since[d] : t[q] # vault[d][q]
    BY <1>1 DEF Missed
  <2>2. QED
    BY <1>1, <2>1
<1>3. QED
  BY <1>1, <1>2 DEF Hop, Lasts, Stays

LEMMA OfferHop ==
    ASSUME NEW a \in Device, NEW p \in Path, NEW t \in Leaves, Hop(a, p, 1, t, Offer)
    PROVE  RootIs(t) \in net'[2] /\ Shows(t, p)'
<1>1. t[p] = vault[1][p] /\ vault'[1][p] = vault[1][p] /\ Answers(1, t, Offer) \subseteq net'[2]
  BY NotStale, Both
<1>2. Answers(1, t, Offer) = {RootIs(t)}
  BY DEF Answers, Offer
<1>3. QED
  BY <1>1, <1>2 DEF Shows

LEMMA RootHop ==
    ASSUME MInv, NEW a \in Device, NEW p \in Path, NEW t \in Leaves, NEW u \in Leaves, Shows(u, p),
           Hop(a, p, 2, t, RootIs(u))
    PROVE  NodeRequest(Root) \in net'[1]
<1>1. /\ t[p] = vault[2][p] /\ Missed(2, t, RootIs(u)) = {}
      /\ Answers(2, t, RootIs(u)) \subseteq net'[1]
  BY NotStale, Both
<1>2. u # t
  BY <1>1 DEF Shows, Hop, Lasts, Differs
<1>3. RootIs(u).type = "merkle-root" /\ RootIs(u).hash = RootHash(u) /\ RootIs(u).of = u
  BY DEF RootIs
<1>4. RootHash(t) # RootHash(u)
  BY <1>1, <1>2, <1>3 DEF Missed
<1>5. Answers(2, t, RootIs(u)) = {NodeRequest(Root)}
  BY <1>3, <1>4 DEF Answers
<1>6. QED
  BY <1>1, <1>5

LEMMA RequestHop ==
    ASSUME NEW a \in Device, NEW p \in Path, NEW t \in Leaves, NEW at \in Nodes,
           Hop(a, p, 1, t, NodeRequest(at))
    PROVE  NodeResponse(at, t) \in net'[2] /\ Shows(t, p)'
<1>1. /\ t[p] = vault[1][p] /\ vault'[1][p] = vault[1][p] /\ Missed(1, t, NodeRequest(at)) = {}
      /\ Answers(1, t, NodeRequest(at)) \subseteq net'[2]
  BY NotStale, Both
<1>2. NodeRequest(at).type = "merkle-node-request" /\ NodeRequest(at).at = at
  BY DEF NodeRequest
<1>3. HasNode(t, at)
  BY <1>1, <1>2 DEF Missed
<1>4. Answers(1, t, NodeRequest(at)) = {NodeResponse(at, t)}
  BY <1>2, <1>3 DEF Answers
<1>5. QED
  BY <1>1, <1>4 DEF Shows

LEMMA ResponseIs ==
    ASSUME NEW at, NEW u
    PROVE  /\ NodeResponse(at, u).type = "merkle-node-response" /\ NodeResponse(at, u).at = at
           /\ NodeResponse(at, u).children = Children(u, at) /\ NodeResponse(at, u).of = u
BY DEF NodeResponse

LEMMA FoldersOf ==
    ASSUME NEW t, NEW p \in Path
    PROVE  /\ p[1] # Root /\ p[1] \in Nodes
           /\ t[p] # Absent => p[1] \in Folders(t)
           /\ p[2] \in NamesIn(t, p[1]) <=> t[p] # Absent
<1>1. p[1] \in Nat \ {0}
  BY MerkleAssumption
<1>2. t[p] # Absent => p[1] \in Folders(t) /\ p[2] \in NamesIn(t, p[1])
  BY DEF Folders, NamesIn
<1>3. ASSUME p[2] \in NamesIn(t, p[1]) PROVE t[p] # Absent
  <2>1. PICK q \in Path : q[1] = p[1] /\ t[q] # Absent /\ q[2] = p[2]
    BY <1>3 DEF NamesIn
  <2>2. q = p
    BY <2>1, PathIs
  <2>3. QED
    BY <2>1, <2>2
<1>4. QED
  BY <1>1, <1>2, <1>3 DEF Root, Nodes

LEMMA RootResponseHop ==
    ASSUME MInv, NEW a \in Device, NEW p \in Path, NEW t \in Leaves, NEW u \in Leaves, Shows(u, p),
           Hop(a, p, 2, t, NodeResponse(Root, u))
    PROVE  NodeRequest(p[1]) \in net'[1]
<1> DEFINE m == NodeResponse(Root, u)
           f == p[1]
<1>1. t[p] = vault[2][p] /\ Missed(2, t, m) = {} /\ Answers(2, t, m) \subseteq net'[1]
  BY NotStale, Both
<1>2. m.type = "merkle-node-response" /\ m.at = Root /\ m.children = Children(u, Root) /\ m.of = u
  BY ResponseIs
<1> HIDE DEF m
<1>3. t[p] # u[p]
  BY <1>1 DEF Shows, Hop, Lasts, Differs
<1>4. ~(f \in Folders(t) \cap Folders(u) /\ FolderHash(t, f) = FolderHash(u, f))
  <2> SUFFICES ASSUME f \in Folders(t) \cap Folders(u), FolderHash(t, f) = FolderHash(u, f) PROVE FALSE
    OBVIOUS
  <2>1. SameNames(t, u, f)
    BY <1>1, <1>2 DEF Missed
  <2>2. QED
    BY <1>3, <2>1, HashTells
<1>5. /\ Children(t, Root) = [g \in Folders(t) |-> FolderHash(t, g)]
      /\ Children(u, Root) = [g \in Folders(u) |-> FolderHash(u, g)]
  BY DEF Children
<1>6. f \in Folders(t) \cup Folders(u)
  BY <1>3, FoldersOf DEF Leaves
<1>7. f \in Differing(Children(t, Root), Children(u, Root))
  BY <1>4, <1>5, <1>6 DEF Differing
<1>8. Answers(2, t, m) = {NodeRequest(g) : g \in Differing(Children(t, Root), Children(u, Root))}
  BY <1>2 DEF Answers, HasNode
<1>9. QED
  BY <1>1, <1>7, <1>8

LEMMA FolderResponseHop ==
    ASSUME MInv, NEW a \in Device, NEW p \in Path, NEW t \in Leaves, NEW u \in Leaves, Shows(u, p),
           Hop(a, p, 2, t, NodeResponse(p[1], u))
    PROVE  Named(p)' \/ Update(2, p) \in net'[1]
<1> DEFINE f == p[1]
           n == p[2]
           m == NodeResponse(f, u)
           mine == IF HasNode(t, f) THEN Children(t, f) ELSE <<>>
           theirs == Children(u, f)
<1>1. t[p] = vault[2][p] /\ Missed(2, t, m) = {} /\ Answers(2, t, m) \subseteq net'[1]
  BY NotStale, Both
<1>2. /\ m.type = "merkle-node-response" /\ m.at = f /\ m.children = theirs
      /\ f # Root /\ p = <<f, n>>
  BY ResponseIs, FoldersOf, PathIs
<1>3. t[p] # u[p] /\ u[p] = vault[1][p] /\ vault'[1][p] = vault[1][p]
  BY <1>1, Both DEF Shows, Hop, Lasts, Stays, Differs
<1>4. theirs = [k \in NamesIn(u, f) |-> u[<<f, k>>]]
  BY <1>2 DEF Children
<1>5. n \in DOMAIN theirs <=> u[p] # Absent
  BY <1>4, FoldersOf
<1>6. CASE t[p] = Absent
  <2>1. n \notin DOMAIN mine
    <3>1. CASE HasNode(t, f)
      <4>1. mine = [k \in NamesIn(t, f) |-> t[<<f, k>>]]
        BY <1>2, <3>1 DEF Children
      <4>2. QED
        BY <1>6, <4>1, FoldersOf
    <3>2. CASE ~HasNode(t, f)
      BY <3>2
    <3>3. QED
      BY <3>1, <3>2
  <2>2. n \in Differing(mine, theirs)
    BY <1>3, <1>5, <1>6, <2>1 DEF Differing
  <2>3. Answers(2, t, m) = UNION {Exchanged(2, f, mine, theirs, k) : k \in Differing(mine, theirs)}
    BY <1>2 DEF Answers
  <2> HIDE DEF mine, theirs, f, n, m
  <2>4. Exchanged(2, f, mine, theirs, n) \subseteq net'[1]
    BY <1>1, <2>2, <2>3
  <2>5. RequestFile(p) \in net'[1] \/ Update(2, p) \in net'[1]
    BY <1>2, <2>1, <2>4 DEF Exchanged
  <2>6. vault'[1][p] # Absent
    BY <1>3, <1>6
  <2>7. QED
    BY <2>5, <2>6, Both DEF Named, RequestFile
<1>7. CASE t[p] # Absent
  <2>1. HasNode(t, f)
    BY <1>7, FoldersOf DEF HasNode
  <2>2. mine = [k \in NamesIn(t, f) |-> t[<<f, k>>]]
    BY <1>2, <2>1 DEF Children
  <2>3. n \in DOMAIN mine /\ mine[n] = t[p]
    BY <1>2, <1>7, <2>2, FoldersOf
  <2>4. n \in DOMAIN theirs => theirs[n] = u[p]
    BY <1>2, <1>4
  <2>5. n \in Differing(mine, theirs)
    BY <1>3, <2>3, <2>4 DEF Differing
  <2>6. Answers(2, t, m) = UNION {Exchanged(2, f, mine, theirs, k) : k \in Differing(mine, theirs)}
    BY <1>2 DEF Answers
  <2> HIDE DEF mine, theirs, f, n, m
  <2>7. Exchanged(2, f, mine, theirs, n) \subseteq net'[1]
    BY <1>1, <2>5, <2>6
  <2>8. Update(2, p) \in Exchanged(2, f, mine, theirs, n)
    BY <1>1, <1>2, <1>7, <2>3 DEF Exchanged
  <2>9. QED
    BY <2>7, <2>8
<1>8. QED
  BY <1>6, <1>7

LEMMA MessagesWanted ==
    /\ Offer \in Wanted /\ \A t \in Leaves : RootIs(t) \in Wanted
    /\ \A at \in Nodes : NodeRequest(at) \in Wanted
    /\ \A at \in Nodes, t \in Leaves : NodeResponse(at, t) \in Wanted
    /\ Root \in Nodes /\ \A p \in Path : p[1] \in Nodes
BY DEF Wanted, MerkleMessage, Nodes

LEMMA CarriedOn ==
    ASSUME MInv, online, NEW a \in Device, NEW p \in Path, Lasts(a, p), Flows, Carried(p)
    PROVE  Carried(p)'
<1>1. NothingLost /\ RequestsServed /\ UpdatesServed
  BY DEF Flows, Lasts
<1>2. ASSUME NEW d \in Device, NEW w \in Wanted, Comes(d, w)
      PROVE  Comes(d, w)' \/ \E t \in Leaves : Hop(a, p, d, t, w)
  BY <1>1, <1>2 DEF NothingLost, Hop
<1>3. \A t : Shows(t, p) => Shows(t, p)'
  BY Both DEF Shows, Lasts, Stays
<1>4. CASE syncing[1]
  <2>1. syncing'[1] \/ Comes(1, Offer)'
    BY <1>4 DEF Flows, Comes
  <2>2. QED
    BY <2>1 DEF Carried
<1>5. CASE Comes(1, Offer)
  <2>1. CASE Comes(1, Offer)'
    BY <2>1 DEF Carried
  <2>2. ASSUME NEW t \in Leaves, Hop(a, p, 1, t, Offer) PROVE Carried(p)'
    BY <2>2, OfferHop DEF Carried, Comes
  <2>3. QED
    BY <1>2, <1>5, <2>1, <2>2, Both, MessagesWanted
<1>6. ASSUME NEW u \in Leaves, Shows(u, p), Comes(2, RootIs(u)) PROVE Carried(p)'
  <2>1. CASE Comes(2, RootIs(u))'
    BY <1>3, <1>6, <2>1 DEF Carried
  <2>2. ASSUME NEW t \in Leaves, Hop(a, p, 2, t, RootIs(u)) PROVE Carried(p)'
    BY <1>6, <2>2, RootHop DEF Carried, Comes
  <2>3. QED
    BY <1>2, <1>6, <2>1, <2>2, Both, MessagesWanted
<1>7. CASE Comes(1, NodeRequest(Root))
  <2>1. CASE Comes(1, NodeRequest(Root))'
    BY <2>1 DEF Carried
  <2>2. ASSUME NEW t \in Leaves, Hop(a, p, 1, t, NodeRequest(Root)) PROVE Carried(p)'
    BY <2>2, RequestHop, MessagesWanted DEF Carried, Comes
  <2>3. QED
    BY <1>2, <1>7, <2>1, <2>2, Both, MessagesWanted
<1>8. ASSUME NEW u \in Leaves, Shows(u, p), Comes(2, NodeResponse(Root, u)) PROVE Carried(p)'
  <2>1. CASE Comes(2, NodeResponse(Root, u))'
    BY <1>3, <1>8, <2>1 DEF Carried
  <2>2. ASSUME NEW t \in Leaves, Hop(a, p, 2, t, NodeResponse(Root, u)) PROVE Carried(p)'
    BY <1>8, <2>2, RootResponseHop DEF Carried, Comes
  <2>3. QED
    BY <1>2, <1>8, <2>1, <2>2, Both, MessagesWanted
<1>9. CASE Comes(1, NodeRequest(p[1]))
  <2>1. CASE Comes(1, NodeRequest(p[1]))'
    BY <2>1 DEF Carried
  <2>2. ASSUME NEW t \in Leaves, Hop(a, p, 1, t, NodeRequest(p[1])) PROVE Carried(p)'
    BY <2>2, RequestHop, MessagesWanted DEF Carried, Comes
  <2>3. QED
    BY <1>2, <1>9, <2>1, <2>2, Both, MessagesWanted
<1>10. ASSUME NEW u \in Leaves, Shows(u, p), Comes(2, NodeResponse(p[1], u)) PROVE Carried(p)'
  <2>1. CASE Comes(2, NodeResponse(p[1], u))'
    BY <1>3, <1>10, <2>1 DEF Carried
  <2>2. ASSUME NEW t \in Leaves, Hop(a, p, 2, t, NodeResponse(p[1], u)) PROVE Carried(p)'
    <3>1. Named(p)' \/ Update(2, p) \in net'[Other(2)]
      BY <1>10, <2>2, FolderResponseHop, Both
    <3>2. Named(p)' \/ Told(p)'
      BY <3>1, UpdateCarries, Both
    <3>3. QED
      BY <3>2 DEF Carried
  <2>3. QED
    BY <1>2, <1>10, <2>1, <2>2, Both, MessagesWanted
<1>11. CASE Named(p)
  BY <1>1, <1>11, NamedFlows DEF Carried
<1>12. CASE Told(p)
  BY <1>1, <1>12, ToldFlows DEF Carried
<1>13. QED
  BY <1>4, <1>5, <1>6, <1>7, <1>8, <1>9, <1>10, <1>11, <1>12 DEF Carried

-----------------------------------------------------------------------------
(* The exchange reconciles.                                                *)

RInv == MInv /\ CountsFine /\ Numbered /\ Old /\ AllCarried

LEMMA MovesKeep ==
    ASSUME MInv, Numbered, Moves
    PROVE  /\ Numbered'
           /\ online => \A d \in Device, p \in Path : Apart(d, p)' => Stays(d, p)
BY TalkKeepsNumbered, TalkKeepsApart, EditsKeepNumbered, EditsKeepApart,
   AdoptsKeepNumbered, AdoptsKeepApart DEF Moves

LEMMA FlowsKeep ==
    ASSUME RInv, Flows, Moves
    PROVE  Numbered' /\ Old' /\ AllCarried'
<1>1. Numbered'
  BY MovesKeep DEF RInv
<1>2. online' = online
  BY DEF Flows
<1>3. ASSUME online, NEW d \in Device, NEW p \in Path, Apart(d, p)'
      PROVE  Stays(d, p) /\ \A e \in Device : p \notin since[e] /\ p \notin since'[e]
  <2>1. Stays(d, p)
    BY <1>3, MovesKeep DEF RInv
  <2>2. QED
    BY <1>3, <2>1 DEF RInv, Old, Stays
<1>4. Old'
  BY <1>2, <1>3 DEF Old
<1>5. ASSUME online, excuses' = {}, NEW d \in Device, NEW p \in Path, Apart(d, p)', Differs(p)'
      PROVE  Carried(p)'
  <2>1. Stays(d, p) /\ \A e \in Device : p \notin since[e]
    BY <1>3, <1>5
  <2>2. Differs(p)
    BY <1>5, <2>1, Both DEF Differs, Stays
  <2>3. Lasts(d, p)
    BY <1>5, <2>1, <2>2 DEF Lasts
  <2>4. Carried(p)
    BY <1>5, <2>1, <2>2 DEF Flows, RInv, AllCarried, Stays
  <2>5. QED
    BY <1>5, <2>3, <2>4, CarriedOn DEF RInv
<1>6. AllCarried'
  BY <1>2, <1>5 DEF AllCarried
<1>7. QED
  BY <1>1, <1>4, <1>6

LEMMA ConnectKeeps ==
    ASSUME RInv, Connect
    PROVE  Numbered' /\ Old' /\ AllCarried'
<1>1. UNCHANGED <<vault, version, net, edits>> /\ ~online /\ since' = [d \in Device |-> {}]
  BY DEF Connect
<1>2. \A d \in Device : net[d] = {}
  BY <1>1 DEF RInv, MInv, NetFine
<1>3. Numbered'
  BY <1>1, <1>2 DEF RInv, Numbered
<1>4. syncing'[1] \/ Comes(1, Offer)'
  <2>1. CASE syncing[1]
    BY <2>1 DEF Connect
  <2>2. CASE ~syncing[1]
    <3>1. Ask(1, Offer)
      BY <2>2 DEF Connect, Primary
    <3>2. QED
      BY <3>1, AskKeepsCalls, Both DEF Comes, RInv
  <2>3. QED
    BY <2>1, <2>2
<1>5. QED
  BY <1>1, <1>3, <1>4 DEF Old, AllCarried, Carried

LEMMA DisconnectKeeps ==
    ASSUME RInv, Disconnect
    PROVE  Numbered' /\ Old' /\ AllCarried'
<1>1. /\ UNCHANGED <<vault, version, edits>> /\ ~online'
      /\ \A d \in Device : net'[d] = {}
  BY DEF Disconnect, merkleVars, counts
<1>2. QED
  BY <1>1 DEF RInv, Numbered, Old, AllCarried

LEMMA RInvKept == RInv /\ [Next]_vars => RInv'
<1> SUFFICES ASSUME RInv, [Next]_vars PROVE RInv'
  OBVIOUS
<1>1. MInv' /\ CountsFine'
  BY StepMaps, StepTyped, CountsFineNext DEF RInv, Maps, MInv
<1>2. Numbered' /\ Old' /\ AllCarried'
  BY StepFlows, FlowsKeep, ConnectKeeps, DisconnectKeeps DEF RInv
<1>3. QED
  BY <1>1, <1>2 DEF RInv

LEMMA RInvReconciles == RInv => Reconciled
<1> SUFFICES ASSUME RInv, Quiet, excuses = {} PROVE Same
  BY DEF Reconciled
<1>1. \A d \in Device : net[d] = {} /\ calls[d] = {} /\ ~syncing[d]
  BY DEF Quiet
<1>2. \A d \in Device, p \in Path : ~CurrentComes(d, p)
  BY <1>1 DEF CurrentComes
<1>3. \A p \in Path : ~Carried(p)
  BY <1>1, <1>2, Both DEF Carried, Comes, Pending, Named, Told
<1>4. ASSUME NEW p \in Path PROVE vault[1][p] = vault[2][p]
  <2>1. ASSUME NEW d \in Device, Behind(d, p) PROVE vault[1][p] = vault[2][p]
    BY <1>2, <1>3, <2>1 DEF Apart, RInv, AllCarried, Quiet, Differs
  <2>2. version[1][p] \in Nat /\ version[2][p] \in Nat
    BY VersionsAre, Both DEF RInv
  <2>3. CASE version[1][p] = version[2][p]
    BY <2>3, Both DEF RInv, Numbered
  <2>4. CASE version[1][p] # version[2][p]
    <3>1. Behind(1, p) \/ Behind(2, p)
      BY <2>2, <2>4, Both DEF Behind
    <3>2. QED
      BY <2>1, <3>1, Both
  <2>5. QED
    BY <2>3, <2>4
<1>5. vault[1] \in [Path -> Text \cup {Absent}] /\ vault[2] \in [Path -> Text \cup {Absent}]
  BY Both DEF RInv, MInv, MerkleTypeOK, Leaves
<1>6. QED
  BY <1>4, <1>5 DEF Same

(* When an exchange is over and none of its known blind spots hid a        *)
(* difference, the vaults are the same, however much was changed on either *)
(* device before and meanwhile, and in whatever order messages arrived.    *)
THEOREM ExchangeReconciles == Spec => []Reconciled
<1>1. Init => RInv
  <2> SUFFICES ASSUME Init PROVE RInv
    OBVIOUS
  <2>1. MInv /\ CountsFine
    BY InitExchange
  <2>2. ~online /\ \A d \in Device : net[d] = {}
    BY DEF Init
  <2>3. /\ \A d \in Device, p \in Path : version[d][p] = 0 /\ vault[d][p] = Absent
        /\ edits = 0
    BY DEF Init, MerkleInit, NoFiles
  <2>4. Numbered
    BY <2>2, <2>3, Both DEF Numbered
  <2>5. QED
    BY <2>1, <2>2, <2>4 DEF RInv, Old, AllCarried
<1>2. QED
  BY <1>1, RInvKept, RInvReconciles, PTL DEF Spec
=============================================================================
