----------------------------- MODULE Persistence -----------------------------
(***************************************************************************)
(* What a device remembers across restarts (main.ts): version vectors and  *)
(* tombstones change in memory, are written to state.json after a debounce *)
(* and at unload, and are read back by the next instance of the plugin.    *)
(* A write goes to state.json.tmp, state.json becomes state.json.bak, and  *)
(* the .tmp becomes state.json; each file operation is one step and the    *)
(* device may lose power between two of them, or in the middle of a write. *)
(*                                                                         *)
(* The state is the set of the changes recorded in it.  The debounce also  *)
(* stands for the longer interval between saves during a full sync.        *)
(***************************************************************************)
EXTENDS Naturals, FiniteSets

CONSTANTS MaxChanges,  \* bound: changes recorded
          MaxWriters,  \* bound: saves under way at once
          MaxCrashes,  \* bound: crashes
          MaxReloads,  \* bound: times the plugin is disabled
          MaxFailures, \* bound: file operations that fail
          Patient      \* a new instance starts when the old one's last save is done

ASSUME PersistenceAssumption ==
    /\ {MaxChanges, MaxWriters, MaxCrashes, MaxReloads, MaxFailures} \subseteq Nat
    /\ Patient \in BOOLEAN

VARIABLES
    running,  \* an instance of the plugin runs
    mem,      \* the state in its memory
    dirty,    \* stateDirty
    timer,    \* the debounced save is scheduled
    writers,  \* calls of writeJsonAtomic under way, of this instance or an earlier one
    disk,     \* state.json, state.json.tmp and state.json.bak
    clock,    \* the number of files written
    changes, crashes, reloads, failures,  \* how many there were
    saved,    \* history: what a completed save holds
    unsaved   \* history: a save gave up

vars == <<running, mem, dirty, timer, writers, disk, clock, changes, crashes, reloads,
          failures, saved, unsaved>>
counts == <<changes, crashes, reloads, failures>>

State == SUBSET (1 .. MaxChanges)
Name == {"json", "tmp", "bak"}

(* A file is missing, torn by a crash, or holds a state.                   *)
Missing == [at |-> 0, whole |-> FALSE, state |-> {}]
Whole(s) == [at |-> clock + 1, whole |-> TRUE, state |-> s]
Torn == [at |-> clock + 1, whole |-> FALSE, state |-> {}]
Exists(n) == disk[n].at > 0

(* The next operation of a save.                                           *)
Step == {"writeTmp", "check", "removeBak", "rotate", "place", "writeJson", "removeTmp"}
Writer == [state : State, began : Nat, next : Step]

TypeOK ==
    /\ running \in BOOLEAN /\ dirty \in BOOLEAN /\ timer \in BOOLEAN /\ unsaved \in BOOLEAN
    /\ mem \in State /\ saved \in State
    /\ writers \subseteq Writer
    /\ disk \in [Name -> [at : 0 .. clock, whole : BOOLEAN, state : State]]
    /\ {clock, changes, crashes, reloads, failures} \subseteq Nat
    /\ timer => running /\ dirty

Init ==
    /\ running = TRUE /\ dirty = FALSE /\ timer = FALSE /\ unsaved = FALSE
    /\ mem = {} /\ saved = {} /\ writers = {}
    /\ disk = [n \in Name |-> Missing]
    /\ clock = 0 /\ changes = 0 /\ crashes = 0 /\ reloads = 0 /\ failures = 0

-----------------------------------------------------------------------------

RecordDuringSave ==                                                  \* mutant
    /\ running /\ changes < MaxChanges
    /\ changes' = changes + 1
    /\ mem' = mem \cup {changes + 1}
    /\ dirty' = (dirty \/ writers = {}) /\ timer' = (timer \/ writers = {})
    /\ UNCHANGED <<running, writers, disk, clock, crashes, reloads, failures, saved, unsaved>>

(* A local edit is counted, a deletion recorded, a vector adopted.         *)
Record ==
    /\ running /\ changes < MaxChanges
    /\ changes' = changes + 1
    /\ mem' = mem \cup {changes + 1}
    /\ dirty' = TRUE /\ timer' = TRUE
    /\ UNCHANGED <<running, writers, disk, clock, crashes, reloads, failures, saved, unsaved>>

(* saveState: the state as it is now is written; nothing waits for a save  *)
(* that is still under way.                                                *)
StartWriting == writers' = writers \cup {[state |-> mem, began |-> clock, next |-> "writeTmp"]}

TimerFires ==
    /\ timer
    /\ Cardinality(writers) < MaxWriters
    /\ timer' = FALSE /\ dirty' = FALSE
    /\ StartWriting
    /\ UNCHANGED <<running, mem, disk, clock, counts, saved, unsaved>>

(* onunload saves whatever the debounce, and does not wait for the save.   *)
UnloadLeavesItToTheTimer ==                                          \* mutant
    /\ running /\ reloads < MaxReloads
    /\ Cardinality(writers) < MaxWriters
    /\ reloads' = reloads + 1
    /\ running' = FALSE /\ timer' = FALSE /\ dirty' = FALSE /\ mem' = {}
    /\ UNCHANGED <<writers, disk, clock, changes, crashes, failures, saved, unsaved>>

UnloadLeavesTheTimer ==                                              \* mutant
    /\ running /\ reloads < MaxReloads
    /\ Cardinality(writers) < MaxWriters
    /\ reloads' = reloads + 1
    /\ running' = FALSE /\ mem' = {}
    /\ StartWriting
    /\ UNCHANGED <<dirty, timer, disk, clock, changes, crashes, failures, saved, unsaved>>

Unload ==
    /\ running /\ reloads < MaxReloads
    /\ Cardinality(writers) < MaxWriters
    /\ reloads' = reloads + 1
    /\ running' = FALSE /\ timer' = FALSE /\ dirty' = FALSE /\ mem' = {}
    /\ StartWriting
    /\ UNCHANGED <<disk, clock, changes, crashes, failures, saved, unsaved>>

(* readBestJson: state.json, or else the newer readable one of the .tmp    *)
(* and the .bak.                                                           *)
BestOfJsonAndBak ==                                                  \* mutant
    IF disk["json"].whole THEN disk["json"].state
    ELSE IF disk["bak"].whole THEN disk["bak"].state ELSE {}

Readable == {n \in Name : disk[n].whole}
Best ==
    IF "json" \in Readable THEN disk["json"].state
    ELSE IF Readable = {} THEN {}
    ELSE LET best == CHOOSE n \in Readable : \A k \in Readable : disk[n].at >= disk[k].at
         IN  disk[best].state

Load ==
    /\ ~running
    /\ Patient => writers = {}
    /\ running' = TRUE
    /\ mem' = Best
    /\ UNCHANGED <<dirty, timer, writers, disk, clock, counts, saved, unsaved>>

(* The device loses power, perhaps in the middle of a write.               *)
Tearable == {"tmp" : w \in {x \in writers : x.next = "writeTmp"}}
       \cup {"json" : w \in {x \in writers : x.next = "writeJson"}}

Crash == \E torn \in SUBSET Tearable :
    /\ crashes < MaxCrashes
    /\ crashes' = crashes + 1
    /\ running' = FALSE /\ timer' = FALSE /\ dirty' = FALSE /\ mem' = {}
    /\ writers' = {}
    /\ disk' = [n \in Name |-> IF n \in torn THEN Torn ELSE disk[n]]
    /\ clock' = clock + Cardinality(torn)
    /\ UNCHANGED <<changes, reloads, failures, saved, unsaved>>

-----------------------------------------------------------------------------
(* writeJsonAtomic, one file operation at a time.                          *)

Goes(w, step) == writers' = (writers \ {w}) \cup {[w EXCEPT !.next = step]}
Ends(w) == writers' = writers \ {w}
Holds(w) == saved' = saved \cup w.state

Puts(n, file) == disk' = [disk EXCEPT ![n] = file]
Renames(a, b) == disk' = [disk EXCEPT ![a] = Missing, ![b] = disk[a]]

WriteTmp(w) ==
    /\ w.next = "writeTmp"
    /\ Puts("tmp", Whole(w.state))
    /\ clock' = clock + 1
    /\ Goes(w, "check")
    /\ UNCHANGED <<failures, saved, unsaved>>

(* A state.json younger than this save is another save's: give up.         *)
Check(w) ==
    /\ w.next = "check"
    /\ IF Exists("json") /\ disk["json"].at > w.began
       THEN /\ Puts("tmp", Missing)
            /\ Ends(w)
            /\ unsaved' = TRUE
       ELSE /\ Goes(w, IF Exists("json") THEN "removeBak" ELSE "place")
            /\ UNCHANGED <<disk, unsaved>>
    /\ UNCHANGED <<clock, failures, saved>>

RemoveBak(w) ==
    /\ w.next = "removeBak"
    /\ Puts("bak", Missing)
    /\ Goes(w, "rotate")
    /\ UNCHANGED <<clock, failures, saved, unsaved>>

(* A rename fails when its source is gone, its target exists or the        *)
(* platform refuses it.                                                    *)
CanRename(a, b) == Exists(a) /\ ~Exists(b)
Refused(a, b) == /\ ~CanRename(a, b) \/ failures < MaxFailures
                 /\ failures' = IF CanRename(a, b) THEN failures + 1 ELSE failures

Rotate(w) ==
    /\ w.next = "rotate"
    /\ Goes(w, "place")
    /\ \/ CanRename("json", "bak") /\ Renames("json", "bak") /\ UNCHANGED failures
       \/ Refused("json", "bak") /\ UNCHANGED disk
    /\ UNCHANGED <<clock, saved, unsaved>>

Place(w) ==
    /\ w.next = "place"
    /\ \/ CanRename("tmp", "json") /\ Renames("tmp", "json") /\ Ends(w) /\ Holds(w)
          /\ UNCHANGED failures
       \/ Refused("tmp", "json") /\ Goes(w, "writeJson") /\ UNCHANGED <<disk, saved>>
    /\ UNCHANGED <<clock, unsaved>>

WriteJson(w) ==
    /\ w.next = "writeJson"
    /\ Puts("json", Whole(w.state))
    /\ clock' = clock + 1
    /\ Goes(w, "removeTmp")
    /\ Holds(w)
    /\ UNCHANGED <<failures, unsaved>>

RemoveTmp(w) ==
    /\ w.next = "removeTmp"
    /\ Puts("tmp", Missing)
    /\ Ends(w)
    /\ UNCHANGED <<clock, failures, saved, unsaved>>

(* A write fails: the error is logged, the save is over.                   *)
WriteFails(w) ==
    /\ w.next \in {"writeTmp", "writeJson"} /\ failures < MaxFailures
    /\ failures' = failures + 1
    /\ Ends(w)
    /\ unsaved' = TRUE
    /\ UNCHANGED <<disk, clock, saved>>

Write(w) == WriteTmp(w) \/ Check(w) \/ RemoveBak(w) \/ Rotate(w) \/ Place(w)
            \/ WriteJson(w) \/ RemoveTmp(w) \/ WriteFails(w)

Writes == /\ \E w \in writers : Write(w)
          /\ UNCHANGED <<running, mem, dirty, timer, changes, crashes, reloads>>

Next == Record \/ TimerFires \/ Unload \/ Load \/ Crash \/ Writes

Spec == Init /\ [][Next]_vars

(* Timers fire, file operations return, and the plugin is enabled again.   *)
Fairness == WF_vars(TimerFires) /\ WF_vars(Load) /\ WF_vars(Writes)
FairSpec == Spec /\ Fairness

-----------------------------------------------------------------------------

(* Whatever happens, what one completed save wrote can be read back, at    *)
(* every moment, also after later saves were cut short or failed.          *)
SavedIsReadable == saved \subseteq Best

(* A device that goes on running gets what it has in memory on the disk,   *)
(* unless a save gave up: a failed save is not repeated.                   *)
ChangesAreSaved == (running /\ ~unsaved) ~> (mem \subseteq Best \/ ~running \/ unsaved)

(* Over a clean unload nothing is forgotten, saved or not: an instance     *)
(* knows all that was recorded but for what a crash or a failure lost.     *)
CleanUnloadKeepsAll ==
    running /\ crashes = 0 /\ ~unsaved => mem = 1 .. changes
=============================================================================
