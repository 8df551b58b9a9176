-------------------------------- MODULE Merkle --------------------------------
(***************************************************************************)
(* Reconciliation of two devices that were apart (main.ts): when they      *)
(* connect, the primary offers the root hash of its Merkle tree; if it is  *)
(* not the root of the other's tree, the other walks down the primary's    *)
(* tree, asks for what it lacks and sends what the primary lacks.          *)
(*                                                                         *)
(* A path is a note in a folder.  The newer of two versions of a note wins *)
(* and an older one that arrives is answered with it (module FileSync has  *)
(* the whole of that).  A version is the number of the edit that made it;  *)
(* a deleted note keeps it in its tombstone.  Messages may overtake each   *)
(* other, because files wait in the send queue and control messages do     *)
(* not.  A full sync here is one with a third device, which lets a device  *)
(* take no part in reconciliation.                                         *)
(***************************************************************************)
EXTENDS MerkleTree

CONSTANTS MaxEdits,  \* bound: saves and deletions
          MaxLinks,  \* bound: connections
          Syncing    \* the devices in a full sync with a third one at the start

ASSUME MerkleAssumption ==
    /\ Device = {1, 2}
    /\ Path \subseteq (Nat \ {0}) \X (Nat \ {0})
    /\ Text \subseteq Nat
    /\ MaxEdits \in Nat /\ MaxLinks \in Nat /\ Syncing \subseteq Device

Other(d) == 3 - d
Primary == 1   \* getMyRole: the device with the lower id
Root == 0

VARIABLES
    version,  \* the edit that made each note or removed it
    online,   \* the two are connected
    net,      \* messages on their way to each device
    syncing,  \* syncState.isSyncing
    edits, links,  \* how many there were
    since,    \* history: the paths that changed since the two connected
    excuses   \* history: what the exchange of this connection is known to have missed

vars == <<merkleVars, version, online, net, syncing, edits, links, since, excuses>>
counts == <<edits, links>>

-----------------------------------------------------------------------------
(* Hashes.  A folder's hash is made of those of its children in the order  *)
(* of their names, and of nothing else.                                    *)

Folders(t) == {p[1] : p \in {q \in Path : t[q] # Absent}}
NamesIn(t, f) == {p[2] : p \in {q \in Path : q[1] = f /\ t[q] # Absent}}
InOrder(S) == [i \in 1 .. Cardinality(S) |->
    CHOOSE x \in S : Cardinality({y \in S : y < x}) = i - 1]

FolderHash(t, f) == LET names == InOrder(NamesIn(t, f)) IN
    [i \in DOMAIN names |-> t[<<f, names[i]>>]]
RootHash(t) == LET folders == InOrder(Folders(t)) IN
    [i \in DOMAIN folders |-> FolderHash(t, folders[i])]

(* merkleNodeAt, and the children told of a node: name and hash.           *)
HasNode(t, at) == at = Root \/ at \in Folders(t)
Children(t, at) ==
    IF at = Root THEN [f \in Folders(t) |-> FolderHash(t, f)]
                 ELSE [n \in NamesIn(t, at) |-> t[<<at, n>>]]

-----------------------------------------------------------------------------
(* Messages.                                                               *)

Offer == [type |-> "offer"]
(* "of" is history: the whole tree, of which hash and children tell.       *)
RootIs(t) == [type |-> "merkle-root", hash |-> RootHash(t), of |-> t]
NodeRequest(at) == [type |-> "merkle-node-request", at |-> at]
NodeResponse(at, t) ==
    [type |-> "merkle-node-response", at |-> at, children |-> Children(t, at), of |-> t]
RequestFile(p) == [type |-> "request-file", path |-> p]
Update(d, p) == [type |-> "update", path |-> p, text |-> vault[d][p], version |-> version[d][p]]

Nodes == {Root} \cup {p[1] : p \in Path}
MerkleMessage == {RootIs(t) : t \in Leaves} \cup {NodeRequest(at) : at \in Nodes}
    \cup {NodeResponse(at, t) : at \in Nodes, t \in Leaves}
FileMessage == {RequestFile(p) : p \in Path} \cup
    [type : {"update"}, path : Path, text : Text \cup {Absent}, version : 1 .. MaxEdits]

(* What a tree is wanted for: the handshake's offer, or a message.         *)
Wanted == {Offer} \cup MerkleMessage

ASSUME PurposeAssumption == Purpose = Wanted

SendUnasked(d, ms) == net' = [net EXCEPT ![Other(d)] = @ \cup ms]    \* mutant

(* sendData finds no connection when there is none.                        *)
Send(d, ms) == net' = [net EXCEPT ![Other(d)] = IF online THEN @ \cup ms ELSE @]
Take(d, m) == net' = [net EXCEPT ![d] = @ \ {m}]
TakeAndSend(d, m, ms) == net' = [net EXCEPT ![d] = @ \ {m}, ![Other(d)] = @ \cup ms]

TypeOK ==
    /\ MerkleTypeOK
    /\ version \in [Device -> [Path -> 0 .. MaxEdits]]
    /\ online \in BOOLEAN
    /\ \A d \in Device : net[d] \subseteq MerkleMessage \cup FileMessage
    /\ syncing \in [Device -> BOOLEAN]
    /\ edits \in 0 .. MaxEdits /\ links \in 0 .. MaxLinks
    /\ since \in [Device -> SUBSET Path]
    /\ excuses \subseteq {"stale", "ignored", "alike", "unanswered"}
    /\ online \/ \A d \in Device : net[d] = {}

Init ==
    /\ MerkleInit
    /\ version = [d \in Device |-> [p \in Path |-> 0]]
    /\ online = FALSE
    /\ net = [d \in Device |-> {}]
    /\ syncing \in [Device -> BOOLEAN] /\ \A d \in Device : syncing[d] => d \in Syncing
    /\ edits = 0 /\ links = 0
    /\ since = [d \in Device |-> {}]
    /\ excuses = {}

-----------------------------------------------------------------------------
(* The users, the link and full syncs.                                     *)

(* A change made while connected is sent, one made apart is not.           *)
EditNote(d, p, t) ==
    /\ edits < MaxEdits
    /\ FirstThings(d) /\ vault[d][p] # t
    /\ Change(d, p, t)
    /\ version' = [version EXCEPT ![d][p] = edits + 1]
    /\ edits' = edits + 1
    /\ since' = [since EXCEPT ![d] = @ \cup {p}]
    /\ Send(d, {[type |-> "update", path |-> p, text |-> t, version |-> edits + 1]})
    /\ UNCHANGED <<calls, online, syncing, links, excuses>>

UserEdits(d) == \E p \in Path, t \in Text \cup {Absent} : EditNote(d, p, t)

(* The handshake: the primary offers its root.                             *)
Connect ==
    /\ ~online /\ links < MaxLinks
    /\ FirstThings(Primary)
    /\ online' = TRUE
    /\ links' = links + 1
    /\ IF syncing[Primary] THEN UNCHANGED <<treeVars, calls>> ELSE Ask(Primary, Offer)
    /\ since' = [d \in Device |-> {}]
    /\ excuses' = {}
    /\ UNCHANGED <<vault, version, net, syncing, edits>>

(* Messages under way are lost.                                            *)
Disconnect ==
    /\ online /\ links < MaxLinks
    /\ online' = FALSE
    /\ net' = [d \in Device |-> {}]
    /\ UNCHANGED <<merkleVars, version, syncing, counts, since, excuses>>

(* rearmReconciliation: the primary of an open link offers its root again. *)
RearmNothing(d) == UNCHANGED <<treeVars, calls>>                     \* mutant
Rearm(d) ==
    IF online /\ d = Primary THEN Ask(d, Offer) ELSE UNCHANGED <<treeVars, calls>>

EndSync(d) ==
    /\ syncing[d] /\ FirstThings(d)
    /\ syncing' = [syncing EXCEPT ![d] = FALSE]
    /\ Rearm(d)
    /\ UNCHANGED <<vault, version, online, net, counts, since, excuses>>

-----------------------------------------------------------------------------
(* What a caller does with the tree it was served.                         *)

(* The notes of a folder that differ: what a device sends and asks for.    *)
Differing(mine, theirs) == {k \in DOMAIN mine \cup DOMAIN theirs :
    (k \in DOMAIN mine /\ k \in DOMAIN theirs) => mine[k] # theirs[k]}

Exchanged(d, f, mine, theirs, n) == LET p == <<f, n>> IN
    IF n \notin DOMAIN mine
    THEN IF vault[d][p] = Absent /\ version[d][p] > 0
         THEN {Update(d, p)}                    \* deleted here: the tombstone decides
         ELSE {RequestFile(p)}
    ELSE IF vault[d][p] = Absent
    THEN {}
    ELSE {Update(d, p)} \cup (IF n \in DOMAIN theirs THEN {RequestFile(p)} ELSE {})

Answers(d, t, m) ==
    CASE m.type = "offer" -> {RootIs(t)}
      [] m.type = "merkle-root" -> IF RootHash(t) = m.hash THEN {} ELSE {NodeRequest(Root)}
      [] m.type = "merkle-node-request" ->
           IF HasNode(t, m.at) THEN {NodeResponse(m.at, t)} ELSE {}
      [] m.type = "merkle-node-response" ->
           LET mine == IF HasNode(t, m.at) THEN Children(t, m.at) ELSE <<>>
               differing == Differing(mine, m.children)
           IN  IF m.at = Root
               THEN {NodeRequest(f) : f \in differing}
               ELSE UNION {Exchanged(d, m.at, mine, m.children, n) : n \in differing}

(* What goes unnoticed.  The tree lacks a change made before the two       *)
(* connected; equal hashes of unequal names; a folder the primary has not, *)
(* which is asked for in vain.                                             *)
SameNames(t, u, f) == NamesIn(t, f) = NamesIn(u, f)
Missed(d, t, m) ==
    (IF \E p \in Path \ since[d] : t[p] # vault[d][p] THEN {"stale"} ELSE {})
    \cup
    (IF \/ m.type = "merkle-root" /\ m.hash = RootHash(t) /\ m.of # t
        \/ /\ m.type = "merkle-node-response" /\ m.at = Root
           /\ \E f \in Folders(t) \cap Folders(m.of) :
                FolderHash(t, f) = FolderHash(m.of, f) /\ ~SameNames(t, m.of, f)
     THEN {"alike"} ELSE {})
    \cup
    (IF m.type = "merkle-node-request" /\ ~HasNode(t, m.at) THEN {"unanswered"} ELSE {})

Answer(d) == \E c \in Served(d) : LET t == TreeOf(d, c) IN
    /\ calls' = [calls EXCEPT ![d] = @ \ {c}]
    /\ Send(d, Answers(d, t, c.for))
    /\ excuses' = excuses \cup Missed(d, t, c.for)
    /\ UNCHANGED <<vault, treeVars, version, online, syncing, counts, since>>

-----------------------------------------------------------------------------
(* Messages received.                                                      *)

(* handleMerkleRoot does nothing during a full sync.                       *)
ReceiveMerkle(d) == \E m \in net[d] :
    /\ m.type \in {"merkle-root", "merkle-node-request", "merkle-node-response"}
    /\ FirstThings(d)
    /\ Take(d, m)
    /\ IF m.type = "merkle-root" /\ syncing[d]
       THEN excuses' = excuses \cup {"ignored"} /\ UNCHANGED <<treeVars, calls>>
       ELSE Ask(d, m) /\ UNCHANGED excuses
    /\ UNCHANGED <<vault, version, online, syncing, counts, since>>

(* handleRequestFile: the file, if there is one.                           *)
ReceiveRequest(d) == \E m \in net[d] :
    /\ m.type = "request-file"
    /\ FirstThings(d)
    /\ TakeAndSend(d, m, IF vault[d][m.path] = Absent THEN {} ELSE {Update(d, m.path)})
    /\ UNCHANGED <<merkleVars, version, online, syncing, counts, since, excuses>>

(* An older version is answered with ours, also when ours is a deletion.   *)
AnswerAlways(d, m) == {Update(d, m.path)}                            \* mutant
Refusal(d, m) == IF m.version = version[d][m.path] THEN {} ELSE {Update(d, m.path)}

ReceiveUpdate(d) == \E m \in net[d] : LET p == m.path IN
    /\ m.type = "update"
    /\ FirstThings(d)
    /\ IF m.version > version[d][p]
       THEN /\ version' = [version EXCEPT ![d][p] = m.version]
            /\ Take(d, m)
            /\ since' = [since EXCEPT ![d] = @ \cup {p}]
            /\ IF m.text # vault[d][p]
               THEN Change(d, p, m.text)
               ELSE UNCHANGED <<vault, treeVars>>
       ELSE /\ TakeAndSend(d, m, Refusal(d, m))
            /\ UNCHANGED <<vault, treeVars, version, since>>
    /\ UNCHANGED <<calls, online, syncing, counts, excuses>>

TreeWork(d) == Work(d) /\ UNCHANGED <<version, online, net, syncing, counts, since, excuses>>

Protocol(d) == ReceiveMerkle(d) \/ ReceiveRequest(d) \/ ReceiveUpdate(d) \/ TreeWork(d) \/ Answer(d)

Next ==
    \/ Connect \/ Disconnect
    \/ \E d \in Device : UserEdits(d) \/ EndSync(d) \/ Protocol(d)

Spec == Init /\ [][Next]_vars

(* Messages arrive, reads end, and a full sync ends.                       *)
Fairness == \A d \in Device : WF_vars(Protocol(d)) /\ WF_vars(EndSync(d))
FairSpec == Spec /\ Fairness

-----------------------------------------------------------------------------

Quiet == /\ online
         /\ \A d \in Device : net[d] = {} /\ calls[d] = {} /\ ~syncing[d]

(* Once the exchange is over, whatever was changed where and when, the two *)
(* vaults are the same, unless one of the known blind spots of this        *)
(* exchange hid a difference.                                              *)
Same == vault[1] = vault[2]
Reconciled == Quiet /\ excuses = {} => Same

(* The exchange ends: versions sent and sent back settle, no request       *)
(* begets requests for ever.                                               *)
ExchangeEnds == <>[]Quiet \/ <>[]~online
=============================================================================
