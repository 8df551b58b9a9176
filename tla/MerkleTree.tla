------------------------------ MODULE MerkleTree ------------------------------
(***************************************************************************)
(* The cached Merkle tree of each device (main.ts): built by reading the   *)
(* whole vault, then kept up to date by folding in the paths that changed. *)
(* Building and folding await the reading and hashing of each file, and    *)
(* the vault changes meanwhile.                                            *)
(*                                                                         *)
(* A tree is what its leaves are: the hash of each file's content.  A leaf *)
(* and the folders above it change in one step, and so do the answer to a  *)
(* caller and what the caller does with it (FirstThings): both are runs of *)
(* microtasks.                                                             *)
(***************************************************************************)
EXTENDS Naturals, FiniteSets

CONSTANTS Device,
          Path,       \* the syncable paths
          Text,       \* contents, told apart by their hashes
          Purpose,    \* what a caller wants the tree for
          DirtyLimit  \* from how many changed paths a new build is cheaper

Absent == 0

ASSUME MerkleTreeAssumption ==
    /\ IsFiniteSet(Path)
    /\ Absent \notin Text
    /\ DirtyLimit \in Nat

VARIABLES
    vault,     \* the content of each path, or Absent
    tree,      \* merkleTreeRoot: the hash of each path, or Absent
    fresh,     \* merkleTreeBuiltAt > 0: the tree may be served
    dirty,     \* merkleDirtyPaths: changed since the tree was brought up to date
    building,  \* merkleBuildInFlight
    unread,    \* files the build has yet to hash
    built,     \* the tree under construction
    moved,     \* merkleGeneration is not what it was when the build started
    calls,     \* the callers of getMerkleTree that wait
    overtaken  \* history: a fold declared fresh a tree that was invalidated wholly meanwhile

treeVars == <<tree, fresh, dirty, building, unread, built, moved, overtaken>>
vaultVars == <<vault, calls>>
merkleVars == <<vault, tree, fresh, dirty, building, unread, built, moved, calls, overtaken>>

Leaves == [Path -> Text \cup {Absent}]
NoFiles == [p \in Path |-> Absent]

(* A caller waits for the build, folds the paths that were dirty when it   *)
(* asked, or has its tree.  A tree that a build replaces meanwhile is a    *)
(* copy of the caller's own from then on.                                  *)
Call == [for : Purpose, at : {"build", "fold", "served"}, todo : SUBSET Path,
         replaced : BOOLEAN, copy : Leaves]
Waits(u, at, todo) == [for |-> u, at |-> at, todo |-> todo, replaced |-> FALSE, copy |-> NoFiles]

MerkleTypeOK ==
    /\ vault \in [Device -> Leaves]
    /\ tree \in [Device -> Leaves]
    /\ fresh \in [Device -> BOOLEAN]
    /\ dirty \in [Device -> SUBSET Path]
    /\ building \in [Device -> BOOLEAN]
    /\ unread \in [Device -> SUBSET Path]
    /\ built \in [Device -> Leaves]
    /\ moved \in [Device -> BOOLEAN]
    /\ calls \in [Device -> SUBSET Call]
    /\ overtaken \in [Device -> BOOLEAN]

MerkleInit ==
    /\ vault = [d \in Device |-> NoFiles]
    /\ tree = [d \in Device |-> NoFiles]
    /\ fresh = [d \in Device |-> FALSE]
    /\ dirty = [d \in Device |-> {}]
    /\ building = [d \in Device |-> FALSE]
    /\ unread = [d \in Device |-> {}]
    /\ built = [d \in Device |-> NoFiles]
    /\ moved = [d \in Device |-> FALSE]
    /\ calls = [d \in Device |-> {}]
    /\ overtaken = [d \in Device |-> FALSE]

-----------------------------------------------------------------------------

(* Callers that have their tree go on before anything else happens.        *)
Served(d) == {c \in calls[d] : c.at = "served"}
FirstThings(d) == Served(d) = {}

(* The tree a caller is served, which folds of others may be half way      *)
(* through.                                                                *)
TreeOf(d, c) == IF c.replaced THEN c.copy ELSE tree[d]

(* invalidateMerkleTree, at the vault event of a changed path.             *)
KeepsTree(d) == fresh[d] /\ Cardinality(dirty[d]) < DirtyLimit

InvalidateBuildUnaware(d, p) ==                                      \* mutant
    /\ dirty' = [dirty EXCEPT ![d] = IF KeepsTree(d) THEN @ \cup {p} ELSE {}]
    /\ fresh' = [fresh EXCEPT ![d] = KeepsTree(d)]
    /\ UNCHANGED moved

Invalidate(d, p) ==
    /\ dirty' = [dirty EXCEPT ![d] = IF KeepsTree(d) THEN @ \cup {p} ELSE {}]
    /\ fresh' = [fresh EXCEPT ![d] = KeepsTree(d)]
    /\ moved' = [moved EXCEPT ![d] = building[d]]

(* A file is written, by the user or with what a peer sent, or removed.    *)
Change(d, p, t) ==
    /\ vault' = [vault EXCEPT ![d][p] = t]
    /\ Invalidate(d, p)
    /\ UNCHANGED <<tree, building, unread, built, overtaken>>

(* getMerkleTree: the cached tree, with the dirty paths folded in first;   *)
(* or a build, one for all who wait.  buildMerkleTree lists the files.     *)
AskWhileFresh(d, u) ==
    /\ fresh[d]
    /\ calls' = [calls EXCEPT ![d] =
         @ \cup {Waits(u, IF dirty[d] = {} THEN "served" ELSE "fold", dirty[d])}]
    /\ dirty' = [dirty EXCEPT ![d] = {}]
    /\ UNCHANGED <<tree, fresh, building, unread, built, moved, overtaken>>

AskWhileStale(d, u) ==
    /\ ~fresh[d]
    /\ calls' = [calls EXCEPT ![d] = @ \cup {Waits(u, "build", {})}]
    /\ building' = [building EXCEPT ![d] = TRUE]
    /\ IF building[d]
       THEN UNCHANGED <<unread, built, moved>>
       ELSE /\ unread' = [unread EXCEPT ![d] = {p \in Path : vault[d][p] # Absent}]
            /\ built' = [built EXCEPT ![d] = NoFiles]
            /\ moved' = [moved EXCEPT ![d] = FALSE]
    /\ UNCHANGED <<tree, fresh, dirty, overtaken>>

Ask(d, u) == AskWhileFresh(d, u) \/ AskWhileStale(d, u)

(* The build hashes a file, if it is still there.                          *)
Hash(d) ==
    /\ FirstThings(d)
    /\ building[d]
    /\ \E p \in unread[d] :
         /\ unread' = [unread EXCEPT ![d] = @ \ {p}]
         /\ built' = [built EXCEPT ![d][p] = vault[d][p]]
    /\ UNCHANGED <<vault, tree, fresh, dirty, building, moved, calls, overtaken>>

(* The tree is in place, current unless a path changed under the build;    *)
(* who waited for it has it.                                               *)
Replaced(d, c) ==
    IF c.at = "fold" /\ ~c.replaced
    THEN [c EXCEPT !.replaced = TRUE, !.copy = tree[d]]
    ELSE IF c.at = "build" THEN [c EXCEPT !.at = "served"] ELSE c

FinishBuild(d) ==
    /\ FirstThings(d)
    /\ building[d] /\ unread[d] = {}
    /\ tree' = [tree EXCEPT ![d] = built[d]]
    /\ fresh' = [fresh EXCEPT ![d] = ~moved[d]]
    /\ overtaken' = [overtaken EXCEPT ![d] = FALSE]
    /\ building' = [building EXCEPT ![d] = FALSE]
    /\ calls' = [calls EXCEPT ![d] = {Replaced(d, c) : c \in @}]
    /\ built' = [built EXCEPT ![d] = NoFiles]
    /\ moved' = [moved EXCEPT ![d] = FALSE]
    /\ UNCHANGED <<vault, dirty, unread>>

(* applyMerkleDirtyPaths: the leaf of a path as it is now.  After the last *)
(* one the tree is declared fresh, whatever happened to it meanwhile.      *)
WithLeaf(d, leaves, p) == [leaves EXCEPT ![p] = vault[d][p]]
Folded(d, c, p) ==
    [c EXCEPT !.todo = @ \ {p}, !.at = IF c.todo = {p} THEN "served" ELSE "fold",
              !.copy = IF c.replaced THEN WithLeaf(d, @, p) ELSE @]

FoldStep(d, c, p) ==
    /\ tree' = IF c.replaced THEN tree ELSE [tree EXCEPT ![d] = WithLeaf(d, @, p)]
    /\ calls' = [calls EXCEPT ![d] = (@ \ {c}) \cup {Folded(d, c, p)}]
    /\ fresh' = [fresh EXCEPT ![d] = @ \/ c.todo = {p}]
    /\ overtaken' = [overtaken EXCEPT ![d] = @ \/ (c.todo = {p} /\ ~fresh[d])]
    /\ UNCHANGED <<vault, dirty, building, unread, built, moved>>

Fold(d) ==
    /\ FirstThings(d)
    /\ \E c \in calls[d] : c.at = "fold" /\ \E p \in c.todo : FoldStep(d, c, p)

Work(d) == Hash(d) \/ FinishBuild(d) \/ Fold(d)

-----------------------------------------------------------------------------
(* Any user and any callers.                                               *)
Edit(d, p, t) == FirstThings(d) /\ vault[d][p] # t /\ Change(d, p, t) /\ UNCHANGED calls
Call1(d, u) == FirstThings(d) /\ Ask(d, u) /\ UNCHANGED vault
GoOn(d) == \E c \in Served(d) : calls' = [calls EXCEPT ![d] = @ \ {c}] /\ UNCHANGED <<vault, treeVars>>

MerkleNext == \E d \in Device :
    \/ \E p \in Path, t \in Text \cup {Absent} : Edit(d, p, t)
    \/ \E u \in Purpose : Call1(d, u)
    \/ GoOn(d)
    \/ Work(d)

MerkleSpec == MerkleInit /\ [][MerkleNext]_merkleVars

(* A tree that may be served shows every file as it is, but for the paths  *)
(* known to have changed: those in the dirty set and those a fold still    *)
(* has to look at.  (The exception: a fold that outlives the invalidation  *)
(* of the whole tree declares it current again; main.ts:829.)              *)
BeingFolded(d) == UNION {c.todo : c \in {x \in calls[d] : x.at = "fold" /\ ~x.replaced}}
CacheCurrent == \A d \in Device : fresh[d] /\ ~overtaken[d] =>
    \A p \in Path : tree[d][p] = vault[d][p] \/ p \in dirty[d] \cup BeingFolded(d)
=============================================================================
