------------------------------ MODULE Versions ------------------------------
(***************************************************************************)
(* Deciding between two versions of a file (utils/versions.ts).  A version *)
(* vector counts, per device, the edits a version includes; an absent key  *)
(* counts zero.  Device IDs are ordered, as the strings they stand for.    *)
(***************************************************************************)
EXTENDS Naturals

CONSTANT Device

ASSUME DeviceAssumption == Device \subseteq Nat \ {0}

Vector == [Device -> Nat]
ZeroVector == [d \in Device |-> 0]

(* a includes every edit b includes.                                       *)
Includes(a, b) == \A d \in Device : b[d] <= a[d]

CompareVectors(a, b) ==
    IF Includes(a, b)
    THEN IF Includes(b, a) THEN "equal" ELSE "after"
    ELSE IF Includes(b, a) THEN "before" ELSE "concurrent"

MergeTakesSecond(a, b) == b                   \* mutant
MergeVectors(a, b) == [d \in Device |-> IF a[d] > b[d] THEN a[d] ELSE b[d]]

(* Devices with an edit counted in a that b has not seen.                  *)
UnseenEdits(a, b) == {d \in Device : a[d] > b[d]}

(* mine includes an edit made on d that theirs has not seen.               *)
HasOwnUnseenEdit(mine, theirs, d) == mine[d] > theirs[d]

(* What a decision is made from: when the version was changed, its vector, *)
(* its content hash and the device that holds it.  0 stands for an unknown *)
(* hash or device.                                                         *)
VersionInfo == [mtime : Nat, vv : Vector, hash : Nat, device : Device \cup {0}]

(* The lowest ID of s comes before the lowest ID of t; an empty set comes  *)
(* last.                                                                   *)
LowerFirst(s, t) == \E d \in s : \A e \in t : d < e

(* newerVersion(a, b) = 'a': a is the more recent change.  Ties go to the  *)
(* lowest device whose edit the other lacks, then to the smaller hash,     *)
(* then to the lower holder.                                               *)
NewerByTie(a, b) ==
    IF a.hash # 0 /\ b.hash # 0 /\ a.hash # b.hash
    THEN a.hash < b.hash
    ELSE a.device # 0 /\ b.device # 0 => a.device <= b.device

NewerStrictly(a, b) == a.mtime > b.mtime      \* mutant: no tie-break
NewerIsFirst(a, b) ==
    IF a.mtime # b.mtime THEN a.mtime > b.mtime
    ELSE IF a.vv = b.vv THEN NewerByTie(a, b)
    ELSE LowerFirst(UnseenEdits(a.vv, b.vv), UnseenEdits(b.vv, a.vv))

(* pickVersion(a, b) = 'a': the vectors decide when they can, the more     *)
(* recent change otherwise.                                                *)
PickIsFirst(a, b) ==
    \/ CompareVectors(a.vv, b.vv) = "after"
    \/ CompareVectors(a.vv, b.vv) \in {"equal", "concurrent"} /\ NewerIsFirst(a, b)
=============================================================================
