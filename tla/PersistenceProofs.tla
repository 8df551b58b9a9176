--------------------------- MODULE PersistenceProofs ---------------------------
(***************************************************************************)
(* Proofs about what a device remembers (Persistence).  The type invariant *)
(* holds for every value of the constants.  The other two are about saves  *)
(* that do not overlap: one at a time, and a new instance that starts when *)
(* the last save of the old one is done.                                   *)
(***************************************************************************)
EXTENDS Persistence, FiniteSetTheorems, TLAPS

-----------------------------------------------------------------------------
(* Type correctness.                                                       *)

(* What a crash can tear: the two files a save writes into.                *)
LEMMA TornFiles ==
    ASSUME NEW torn \in SUBSET Tearable
    PROVE  /\ torn \subseteq {"tmp", "json"}
           /\ Cardinality(torn) \in Nat
           /\ torn # {} => Cardinality(torn) >= 1
  <1>1. torn \subseteq {"tmp", "json"}
    <2> DEFINE A == {x \in writers : x.next = "writeTmp"}
               B == {x \in writers : x.next = "writeJson"}
    <2>1. \A n \in {"tmp" : w \in A} : n = "tmp"
      OBVIOUS
    <2>2. \A n \in {"json" : w \in B} : n = "json"
      OBVIOUS
    <2> QED
      BY <2>1, <2>2 DEF Tearable
  <1>2. IsFiniteSet({"tmp", "json"})
    <2>1. IsFiniteSet({"json"})
      BY FS_Singleton
    <2>2. {"tmp", "json"} = {"json"} \cup {"tmp"}
      OBVIOUS
    <2> QED
      BY <2>1, <2>2, FS_AddElement
  <1>3. IsFiniteSet(torn)
    BY <1>1, <1>2, FS_Subset
  <1>4. Cardinality(torn) \in Nat
    BY <1>3, FS_CardinalityType
  <1>5. torn # {} => Cardinality(torn) # 0
    BY <1>3, FS_EmptySet
  <1> QED
    BY <1>1, <1>4, <1>5

(* Reading back gives a state.                                             *)
LEMMA BestIsAState ==
    ASSUME disk \in [Name -> [at : 0 .. clock, whole : BOOLEAN, state : State]], clock \in Nat
    PROVE  Best \in State
  <1>1. CASE "json" \in Readable
    BY <1>1 DEF Best, Readable, Name
  <1>2. CASE Readable = {}
    BY <1>2 DEF Best, State
  <1>3. CASE "json" \notin Readable /\ Readable # {}
    <2> DEFINE best == CHOOSE n \in Readable : \A k \in Readable : disk[n].at >= disk[k].at
    <2>1. \E n \in Readable : \A k \in Readable : disk[n].at >= disk[k].at
      <3>1. Readable \subseteq Name
        BY DEF Readable
      <3>2. disk["tmp"].at \in Nat /\ disk["bak"].at \in Nat
        BY DEF Name
      <3>3. Readable \subseteq {"tmp", "bak"}
        BY <1>3, <3>1 DEF Name
      <3>4. CASE Readable = {"tmp", "bak"}
        BY <3>2, <3>4
      <3>5. CASE Readable = {"tmp"} \/ Readable = {"bak"}
        BY <3>2, <3>5
      <3> QED
        BY <1>3, <3>3, <3>4, <3>5
    <2>2. best \in Readable
      BY <2>1
    <2>3. disk[best].state \in State
      BY <2>2 DEF Readable
    <2> QED
      BY <1>3, <2>3 DEF Best
  <1> QED
    BY <1>1, <1>2, <1>3

(* One step of a save keeps the types.                                     *)
LEMMA WriteType ==
    ASSUME TypeOK, NEW w \in writers, Write(w)
    PROVE  /\ saved' \in State /\ unsaved' \in BOOLEAN
           /\ writers' \subseteq Writer
           /\ disk' \in [Name -> [at : 0 .. clock', whole : BOOLEAN, state : State]]
           /\ {clock', failures'} \subseteq Nat
  <1> DEFINE File(c) == [at : 0 .. c, whole : BOOLEAN, state : State]
  <1>1. /\ w \in Writer /\ w.state \in State
        /\ clock \in Nat /\ failures \in Nat /\ saved \in State /\ unsaved \in BOOLEAN
        /\ writers \subseteq Writer /\ disk \in [Name -> File(clock)]
    BY DEF TypeOK, Writer
  <1>2. \A s \in Step : [w EXCEPT !.next = s] \in Writer
    BY <1>1 DEF Writer
  <1>3. \A s \in Step : Goes(w, s) => writers' \subseteq Writer
    BY <1>1, <1>2 DEF Goes
  <1>4. Ends(w) => writers' \subseteq Writer
    BY <1>1 DEF Ends
  <1>5. Holds(w) => saved' \in State
    BY <1>1 DEF Holds, State
  <1>6. Missing \in File(clock) /\ Whole(w.state) \in File(clock + 1)
    BY <1>1 DEF Missing, Whole, State
  <1>7. \A n \in Name : Puts(n, Missing) => disk' \in [Name -> File(clock)]
    BY <1>1, <1>6 DEF Puts
  <1>8. \A n \in Name : Puts(n, Whole(w.state)) => disk' \in [Name -> File(clock + 1)]
    <2>1. File(clock) \subseteq File(clock + 1)
      BY <1>1
    <2>2. disk \in [Name -> File(clock + 1)]
      BY <1>1, <2>1
    <2> HIDE DEF File
    <2> QED
      BY <2>2, <1>6 DEF Puts
  <1>9. \A a, b \in Name : Renames(a, b) => disk' \in [Name -> File(clock)]
    BY <1>1, <1>6 DEF Renames
  <1> SUFFICES /\ saved' \in State /\ unsaved' \in BOOLEAN
               /\ writers' \subseteq Writer
               /\ disk' \in [Name -> File(clock')]
               /\ {clock', failures'} \subseteq Nat
    OBVIOUS
  <1> HIDE DEF File
  <1>10. CASE WriteTmp(w)
    BY <1>1, <1>3, <1>8, <1>10 DEF WriteTmp, Step, Name
  <1>11. CASE Check(w)
    BY <1>1, <1>3, <1>4, <1>7, <1>11 DEF Check, Step, Name
  <1>12. CASE RemoveBak(w)
    BY <1>1, <1>3, <1>7, <1>12 DEF RemoveBak, Step, Name
  <1>13. CASE Rotate(w)
    BY <1>1, <1>3, <1>9, <1>13 DEF Rotate, Refused, Step, Name
  <1>14. CASE Place(w)
    BY <1>1, <1>3, <1>4, <1>5, <1>9, <1>14 DEF Place, Refused, Step, Name
  <1>15. CASE WriteJson(w)
    BY <1>1, <1>3, <1>5, <1>8, <1>15 DEF WriteJson, Step, Name
  <1>16. CASE RemoveTmp(w)
    BY <1>1, <1>4, <1>7, <1>16 DEF RemoveTmp, Name
  <1>17. CASE WriteFails(w)
    BY <1>1, <1>4, <1>17 DEF WriteFails
  <1> QED
    BY <1>10, <1>11, <1>12, <1>13, <1>14, <1>15, <1>16, <1>17 DEF Write

LEMMA NothingIsAState == {} \in State
  BY DEF State

LEMMA TypeInit == Init => TypeOK
  <1> SUFFICES ASSUME Init PROVE TypeOK
    OBVIOUS
  <1>1. Missing \in [at : 0 .. clock, whole : BOOLEAN, state : State]
    BY NothingIsAState DEF Init, Missing
  <1>2. disk \in [Name -> [at : 0 .. clock, whole : BOOLEAN, state : State]]
    BY <1>1 DEF Init
  <1>3. mem \in State /\ saved \in State /\ writers \subseteq Writer
    BY NothingIsAState DEF Init
  <1>4. {clock, changes, crashes, reloads, failures} \subseteq Nat
    BY DEF Init
  <1>5. /\ running \in BOOLEAN /\ dirty \in BOOLEAN /\ timer \in BOOLEAN /\ unsaved \in BOOLEAN
        /\ timer => running /\ dirty
    BY DEF Init
  <1> QED
    BY <1>2, <1>3, <1>4, <1>5 DEF TypeOK

LEMMA TypeNext == TypeOK /\ [Next]_vars => TypeOK'
  <1> SUFFICES ASSUME TypeOK, [Next]_vars PROVE TypeOK'
    OBVIOUS
  <1> USE PersistenceAssumption
  <1>1. CASE Record
    <2>1. changes + 1 \in 1 .. MaxChanges /\ changes + 1 \in Nat
      BY <1>1 DEF Record, TypeOK
    <2>2. mem' \in State
      BY <1>1, <2>1 DEF Record, TypeOK, State
    <2> QED
      BY <1>1, <2>1, <2>2 DEF Record, TypeOK
  <1>2. StartWriting => writers' \subseteq Writer
    BY DEF StartWriting, TypeOK, Writer, Step
  <1>3. CASE TimerFires
    BY <1>2, <1>3 DEF TimerFires, TypeOK, counts
  <1>4. CASE Unload
    <2>1. mem' \in State
      BY <1>4, NothingIsAState DEF Unload
    <2>2. /\ running' \in BOOLEAN /\ dirty' \in BOOLEAN /\ timer' \in BOOLEAN
          /\ timer' => running' /\ dirty'
      BY <1>4 DEF Unload
    <2>3. {clock', changes', crashes', reloads', failures'} \subseteq Nat
      BY <1>4 DEF Unload, TypeOK
    <2>4. /\ saved' \in State /\ unsaved' \in BOOLEAN /\ writers' \subseteq Writer
          /\ disk' \in [Name -> [at : 0 .. clock', whole : BOOLEAN, state : State]]
      BY <1>2, <1>4 DEF Unload, TypeOK
    <2> QED
      BY <2>1, <2>2, <2>3, <2>4 DEF TypeOK
  <1>5. CASE Load
    <2>1. Best \in State
      BY BestIsAState DEF TypeOK
    <2> QED
      BY <1>5, <2>1 DEF Load, TypeOK, counts
  <1>6. CASE Crash
    <2>1. PICK torn \in SUBSET Tearable :
             /\ crashes' = crashes + 1
             /\ running' = FALSE /\ timer' = FALSE /\ dirty' = FALSE /\ mem' = {}
             /\ writers' = {}
             /\ disk' = [n \in Name |-> IF n \in torn THEN Torn ELSE disk[n]]
             /\ clock' = clock + Cardinality(torn)
             /\ UNCHANGED <<changes, reloads, failures, saved, unsaved>>
      BY <1>6 DEF Crash
    <2>2. /\ Cardinality(torn) \in Nat
          /\ torn # {} => Cardinality(torn) >= 1
      BY TornFiles
    <2>3. clock \in Nat /\ clock' \in Nat /\ clock <= clock'
      BY <2>1, <2>2 DEF TypeOK
    <2>4. torn # {} => Torn \in [at : 0 .. clock', whole : BOOLEAN, state : State]
      BY <2>1, <2>2, <2>3 DEF Torn, State
    <2>5. \A n \in Name : disk[n] \in [at : 0 .. clock', whole : BOOLEAN, state : State]
      BY <2>3 DEF TypeOK
    <2>6. disk' \in [Name -> [at : 0 .. clock', whole : BOOLEAN, state : State]]
      BY <2>1, <2>4, <2>5
    <2>7. mem' \in State
      BY <2>1, NothingIsAState
    <2>8. /\ running' \in BOOLEAN /\ dirty' \in BOOLEAN /\ timer' \in BOOLEAN
          /\ timer' => running' /\ dirty'
      BY <2>1
    <2>9. /\ {clock', changes', crashes', reloads', failures'} \subseteq Nat
          /\ saved' \in State /\ unsaved' \in BOOLEAN /\ writers' \subseteq Writer
      BY <2>1, <2>3 DEF TypeOK
    <2> QED
      BY <2>6, <2>7, <2>8, <2>9 DEF TypeOK
  <1>7. CASE Writes
    <2>1. PICK w \in writers : Write(w)
      BY <1>7 DEF Writes
    <2> QED
      BY <1>7, <2>1, WriteType DEF Writes, TypeOK
  <1>8. CASE UNCHANGED vars
    BY <1>8 DEF vars, counts, TypeOK
  <1> QED
    BY <1>1, <1>3, <1>4, <1>5, <1>6, <1>7, <1>8 DEF Next

(* The variables keep their types, and the debounced save is scheduled     *)
(* only in a running instance with changes to save.                        *)
THEOREM TypeCorrect == Spec => []TypeOK
  BY TypeInit, TypeNext, PTL DEF Spec

-----------------------------------------------------------------------------
(* Saves that do not overlap.                                              *)

OneSave == MaxWriters = 1 /\ Patient

(* How far the save has come, seen from the files: all of them are older   *)
(* than it until it writes the .tmp, which then is the newest, holds what  *)
(* is saved, and stays until state.json holds it too.                      *)
Started(w) == \A n \in Name : disk[n].at <= w.began
TmpIsWritten(w) ==
    /\ disk["tmp"].whole /\ disk["tmp"].at > w.began /\ disk["tmp"].state = w.state
    /\ disk["json"].at <= w.began /\ disk["bak"].at <= w.began
JsonIsWritten(w) == disk["json"].whole /\ disk["json"].at > 0 /\ disk["json"].state = w.state

Progress(w) ==
    /\ w.began <= clock
    /\ w.next = "writeTmp" => Started(w)
    /\ w.next \in {"check", "removeBak", "rotate", "place", "writeJson"} => TmpIsWritten(w)
    /\ w.next = "removeBak" => Exists("json")
    /\ w.next = "rotate" => Exists("json") /\ ~Exists("bak")
    /\ w.next = "place" => ~Exists("json") \/ failures > 0
    /\ w.next = "writeJson" => failures > 0
    /\ w.next = "removeTmp" => JsonIsWritten(w)

AtMostOne == \A w, x \in writers : w = x

WholeExists == \A n \in Name : disk[n].whole => Exists(n)

(* What is saved survives a torn .tmp as long as no state.json was ever    *)
(* torn; that takes a refused rename and a crash.                          *)
WithoutTmp ==
    /\ saved \subseteq BestOfJsonAndBak
    /\ Exists("json") => disk["json"].whole

SparesOne == crashes <= 1 \/ failures = 0
SparesTmp == crashes = 0 \/ failures = 0

Kept ==
    /\ saved \subseteq Best
    /\ running => saved \subseteq mem
    /\ \A w \in writers : saved \subseteq w.state

Saves ==
    /\ AtMostOne
    /\ WholeExists
    /\ \A w \in writers : Progress(w) /\ (running => w.state \subseteq mem)
    /\ SparesTmp => WithoutTmp
    /\ SparesOne => Kept

(* What an instance that was unloaded leaves to the next one.              *)
Inherited ==
    crashes = 0 /\ ~unsaved =>
        /\ running => mem = 1 .. changes
        /\ ~running => \/ \E w \in writers : w.state = 1 .. changes
                       \/ writers = {} /\ disk["json"].whole /\ disk["json"].state = 1 .. changes

(* What is read back, as a function of the three files.                    *)
ReadBack(f) ==
    LET readable == {n \in Name : f[n].whole} IN
    IF "json" \in readable THEN f["json"].state
    ELSE IF readable = {} THEN {}
    ELSE f[CHOOSE n \in readable : \A k \in readable : f[n].at >= f[k].at].state

LEMMA BestIsReadBack == Best = ReadBack(disk) /\ Best' = ReadBack(disk')
  BY DEF Best, Readable, ReadBack

LEMMA ReadBackJson ==
    ASSUME NEW f, f["json"].whole
    PROVE  ReadBack(f) = f["json"].state
  BY DEF ReadBack, Name

LEMMA ReadBackTmp ==
    ASSUME NEW f, ~f["json"].whole, f["tmp"].whole,
           f["tmp"].at \in Nat, f["bak"].at \in Nat, f["tmp"].at > f["bak"].at
    PROVE  ReadBack(f) = f["tmp"].state
  <1> DEFINE readable == {n \in Name : f[n].whole}
             Newest(n) == \A k \in readable : f[n].at >= f[k].at
  <1>1. /\ "tmp" \in readable /\ "json" \notin readable
        /\ \A n \in readable : n = "tmp" \/ n = "bak"
    BY DEF Name
  <1>2. \A n \in readable : Newest(n) <=> n = "tmp"
    BY <1>1
  <1>3. (CHOOSE n \in readable : Newest(n)) = "tmp"
    BY <1>1, <1>2
  <1> QED
    BY <1>1, <1>3 DEF ReadBack

LEMMA ReadBackBak ==
    ASSUME NEW f, ~f["json"].whole, ~f["tmp"].whole, f["bak"].at \in Nat
    PROVE  ReadBack(f) = IF f["bak"].whole THEN f["bak"].state ELSE {}
  <1> DEFINE readable == {n \in Name : f[n].whole}
             Newest(n) == \A k \in readable : f[n].at >= f[k].at
             best == CHOOSE n \in readable : Newest(n)
  <1>1. ReadBack(f) = IF readable = {} THEN {} ELSE f[best].state
    BY DEF ReadBack, Name
  <1>2. readable \subseteq {"bak"} /\ (readable # {} <=> f["bak"].whole)
    BY DEF Name
  <1>3. readable # {} => best = "bak"
    <2>1. \A n \in readable : n = "bak" /\ Newest(n)
      BY <1>2
    <2> QED
      BY <2>1
  <1> QED
    BY <1>1, <1>2, <1>3

-----------------------------------------------------------------------------
(* The steps of one save.                                                  *)

(* The facts about the files a step of a save starts from.                 *)
LEMMA FilesTyped ==
    ASSUME TypeOK
    PROVE  /\ disk["json"].at \in Nat /\ disk["json"].at <= clock /\ disk["json"].whole \in BOOLEAN
           /\ disk["tmp"].at \in Nat /\ disk["tmp"].at <= clock /\ disk["tmp"].whole \in BOOLEAN
           /\ disk["bak"].at \in Nat /\ disk["bak"].at <= clock /\ disk["bak"].whole \in BOOLEAN
           /\ DOMAIN disk = Name /\ clock \in Nat /\ failures \in Nat /\ crashes \in Nat
           /\ \A w \in writers : w \in Writer /\ w.began \in Nat
  BY DEF TypeOK, Writer, Name

(* Only one save is under way, so the files it leaves to the next are its  *)
(* own.                                                                    *)
LEMMA GoesAlone ==
    ASSUME AtMostOne, TypeOK, NEW w \in writers, NEW s \in Step, Goes(w, s)
    PROVE  \A x \in writers' : /\ x = [w EXCEPT !.next = s]
                               /\ x.state = w.state /\ x.began = w.began /\ x.next = s
  <1>1. writers = {w}
    BY DEF AtMostOne
  <1>2. w \in Writer
    BY DEF TypeOK
  <1>3. writers' = {[w EXCEPT !.next = s]}
    BY <1>1 DEF Goes
  <1> QED
    BY <1>2, <1>3 DEF Writer

LEMMA EndsAlone ==
    ASSUME AtMostOne, NEW w \in writers, Ends(w)
    PROVE  writers' = {}
  BY DEF AtMostOne, Ends

LEMMA PutsFile ==
    ASSUME TypeOK, NEW n \in Name, NEW file, Puts(n, file)
    PROVE  disk'[n] = file /\ \A m \in Name : m # n => disk'[m] = disk[m]
  BY FilesTyped DEF Puts

LEMMA RenamesFile ==
    ASSUME TypeOK, NEW a \in Name, NEW b \in Name, a # b, Renames(a, b)
    PROVE  /\ disk'[a] = Missing /\ disk'[b] = disk[a]
           /\ \A m \in Name : m # a /\ m # b => disk'[m] = disk[m]
  BY FilesTyped DEF Renames

LEMMA FileKinds ==
    ASSUME TypeOK, NEW s
    PROVE  /\ Missing.at = 0 /\ Missing.whole = FALSE
           /\ Whole(s).at = clock + 1 /\ Whole(s).whole = TRUE /\ Whole(s).state = s
           /\ Torn.at = clock + 1 /\ Torn.whole = FALSE
  BY DEF Missing, Whole, Torn

(* A step that only changes how much is saved must not lose it: what is    *)
(* left to show of a step once its files are known.                        *)
LEMMA KeptAfter ==
    ASSUME Saves, UNCHANGED <<running, mem, crashes>>,
           NEW w \in writers,
           failures' >= failures, failures \in Nat, failures' \in Nat,
           \A x \in writers' : x.state = w.state,
           saved' = saved \/ saved' = saved \cup w.state,
           SparesOne => saved' \subseteq Best'
    PROVE  SparesOne' => Kept'
  BY DEF Saves, Kept, SparesOne

LEMMA WriteTmpKeeps ==
    ASSUME TypeOK, Saves, NEW w \in writers, WriteTmp(w), UNCHANGED <<running, mem, crashes>>
    PROVE  Saves'
  <1>1. "check" \in Step /\ Goes(w, "check") /\ Puts("tmp", Whole(w.state))
    BY DEF WriteTmp, Step
  <1>2. \A x \in writers' : x = [w EXCEPT !.next = "check"] /\ x.state = w.state /\ x.began = w.began /\ x.next = "check"
    BY <1>1, GoesAlone DEF Saves
  <1>3. disk'["tmp"] = Whole(w.state) /\ disk'["json"] = disk["json"] /\ disk'["bak"] = disk["bak"]
    BY <1>1, PutsFile DEF Name
  <1>4. Progress(w) /\ w.next = "writeTmp" /\ clock' = clock + 1
    BY DEF Saves, WriteTmp
  <1>5. Started(w) /\ w.began <= clock
    BY <1>4 DEF Progress
  <1> DEFINE json == disk["json"]
             bak == disk["bak"]
  <1>a. /\ json.at \in Nat /\ bak.at \in Nat /\ clock \in Nat /\ w.began \in Nat
        /\ json.at <= w.began /\ bak.at <= w.began /\ bak.at <= clock
        /\ json.whole \in BOOLEAN
    BY <1>5, FilesTyped DEF Started, Name
  <1>b. disk'["tmp"].at = clock + 1 /\ disk'["tmp"].whole = TRUE /\ disk'["tmp"].state = w.state
    BY <1>3, FileKinds
  <1>6. \A x \in writers' : Progress(x)' /\ (running' => x.state \subseteq mem')
    BY <1>2, <1>3, <1>4, <1>a, <1>b DEF Progress, TmpIsWritten, Saves
  <1>7. AtMostOne' 
    BY <1>2 DEF AtMostOne
  <1>8. WholeExists'
    BY <1>3, <1>a, <1>b DEF WholeExists, Exists, Saves, Name
  <1>9. saved' = saved /\ failures' = failures
    BY DEF WriteTmp
  <1>10. (SparesTmp => WithoutTmp)'
    BY <1>3, <1>9 DEF Saves, SparesTmp, WithoutTmp, BestOfJsonAndBak, Exists
  <1>11. SparesOne => saved \subseteq Best'
    <2> SUFFICES ASSUME SparesOne PROVE saved \subseteq ReadBack(disk')
      BY BestIsReadBack
    <2>1. saved \subseteq ReadBack(disk) /\ saved \subseteq w.state
      BY BestIsReadBack DEF Saves, Kept
    <2>2. CASE disk["json"].whole
      BY <1>3, <2>1, <2>2, ReadBackJson
    <2>3. CASE ~disk["json"].whole
      BY <1>3, <1>a, <1>b, <2>1, <2>3, ReadBackTmp
    <2> QED
      BY <2>2, <2>3
  <1>12. (SparesOne => Kept)'
    BY <1>2, <1>9, <1>11, FilesTyped, KeptAfter
  <1> QED
    BY <1>6, <1>7, <1>8, <1>10, <1>12 DEF Saves

(* Between writing the .tmp and removing it, its content is the newest.    *)
LEMMA TmpIsNewest ==
    ASSUME TypeOK, Saves, NEW w \in writers,
           w.next \in {"check", "removeBak", "rotate", "place", "writeJson"}
    PROVE  /\ disk["tmp"].whole = TRUE /\ disk["tmp"].state = w.state /\ Exists("tmp")
           /\ disk["json"].at <= w.began /\ disk["bak"].at <= w.began
           /\ disk["tmp"].at > w.began /\ disk["tmp"].at > disk["bak"].at
           /\ w.began \in Nat /\ w.began <= clock /\ w \in Writer
  <1>1. Progress(w)
    BY DEF Saves
  <1>2. TmpIsWritten(w) /\ w.began <= clock
    BY <1>1 DEF Progress
  <1> QED
    BY <1>2, FilesTyped DEF TmpIsWritten, Exists

(* What is saved is in the state being written.                            *)
LEMMA WriterHoldsSaved ==
    ASSUME Saves, SparesOne, NEW w \in writers
    PROVE  saved \subseteq w.state /\ saved \subseteq ReadBack(disk)
  BY BestIsReadBack DEF Saves, Kept

LEMMA CheckKeeps ==
    ASSUME TypeOK, Saves, NEW w \in writers, Check(w), UNCHANGED <<running, mem, crashes>>
    PROVE  Saves'
  <1>1. w.next = "check"
    BY DEF Check
  <1>2. ~(disk["json"].at > w.began)
    <2>1. disk["json"].at <= w.began /\ w.began \in Nat
      BY <1>1, TmpIsNewest
    <2> QED
      BY <2>1, FilesTyped
  <1>3. UNCHANGED <<disk, clock, failures, saved>>
    BY <1>2 DEF Check
  <1> DEFINE next == IF Exists("json") THEN "removeBak" ELSE "place"
  <1>4. next \in Step /\ Goes(w, next)
    BY <1>2 DEF Check, Step
  <1>5. \A x \in writers' : /\ x = [w EXCEPT !.next = next]
                            /\ x.state = w.state /\ x.began = w.began /\ x.next = next
    BY <1>4, GoesAlone DEF Saves
  <1>6. AtMostOne'
    BY <1>5 DEF AtMostOne
  <1>7. TmpIsWritten(w) /\ w.began <= clock
    BY <1>1 DEF Saves, Progress
  <1>8. \A x \in writers' : Progress(x)' /\ (running' => x.state \subseteq mem')
    BY <1>3, <1>5, <1>7 DEF Progress, TmpIsWritten, Exists, Saves
  <1>9. WholeExists' /\ (SparesTmp => WithoutTmp)'
    BY <1>3 DEF WholeExists, Exists, Saves, SparesTmp, WithoutTmp, BestOfJsonAndBak
  <1>10. SparesOne => saved' \subseteq Best'
    BY <1>3, BestIsReadBack DEF Saves, Kept
  <1>11. (SparesOne => Kept)'
    BY <1>3, <1>5, <1>10, FilesTyped, KeptAfter
  <1> QED
    BY <1>6, <1>8, <1>9, <1>11 DEF Saves

LEMMA RemoveBakKeeps ==
    ASSUME TypeOK, Saves, NEW w \in writers, RemoveBak(w), UNCHANGED <<running, mem, crashes>>
    PROVE  Saves'
  <1>1. w.next = "removeBak" /\ Goes(w, "rotate") /\ "rotate" \in Step
    BY DEF RemoveBak, Step
  <1>2. /\ disk'["bak"] = Missing /\ disk'["json"] = disk["json"] /\ disk'["tmp"] = disk["tmp"]
        /\ UNCHANGED <<clock, failures, saved>>
    BY PutsFile DEF RemoveBak, Name
  <1>3. \A x \in writers' : /\ x = [w EXCEPT !.next = "rotate"]
                            /\ x.state = w.state /\ x.began = w.began /\ x.next = "rotate"
    BY <1>1, GoesAlone DEF Saves
  <1>4. AtMostOne'
    BY <1>3 DEF AtMostOne
  <1>5. TmpIsWritten(w) /\ w.began <= clock /\ Exists("json")
    BY <1>1 DEF Saves, Progress
  <1>6. Missing.at = 0 /\ Missing.whole = FALSE /\ w.began \in Nat /\ clock \in Nat
    BY FilesTyped DEF Missing
  <1>7. \A x \in writers' : Progress(x)' /\ (running' => x.state \subseteq mem')
    BY <1>2, <1>3, <1>5, <1>6 DEF Progress, TmpIsWritten, Exists, Saves
  <1>8. WholeExists'
    BY <1>2, <1>6 DEF WholeExists, Exists, Saves, Name
  <1>9. (SparesTmp => WithoutTmp)'
    BY <1>2, <1>5 DEF Saves, SparesTmp, WithoutTmp, BestOfJsonAndBak, Exists
  <1>10. SparesOne => saved' \subseteq Best'
    <2> SUFFICES ASSUME SparesOne PROVE saved \subseteq ReadBack(disk')
      BY <1>2, BestIsReadBack
    <2>1. saved \subseteq w.state /\ saved \subseteq ReadBack(disk)
      BY WriterHoldsSaved
    <2>2. CASE disk["json"].whole
      BY <1>2, <2>1, <2>2, ReadBackJson
    <2>3. CASE ~disk["json"].whole
      <3>1. disk["tmp"].whole /\ disk["tmp"].at > w.began /\ disk["tmp"].state = w.state
        BY <1>1, TmpIsNewest
      <3>2. disk'["tmp"].at \in Nat /\ disk'["bak"].at = 0
        BY <1>2, <1>6, FilesTyped
      <3> QED
        BY <1>2, <1>6, <2>1, <2>3, <3>1, <3>2, ReadBackTmp
    <2> QED
      BY <2>2, <2>3
  <1>11. (SparesOne => Kept)'
    BY <1>2, <1>3, <1>10, FilesTyped, KeptAfter
  <1> QED
    BY <1>4, <1>7, <1>8, <1>9, <1>11 DEF Saves

LEMMA RotateKeeps ==
    ASSUME TypeOK, Saves, NEW w \in writers, Rotate(w), UNCHANGED <<running, mem, crashes>>
    PROVE  Saves'
  <1>1. w.next = "rotate" /\ Goes(w, "place") /\ "place" \in Step /\ UNCHANGED <<clock, saved>>
    BY DEF Rotate, Step
  <1>2. \A x \in writers' : /\ x = [w EXCEPT !.next = "place"]
                            /\ x.state = w.state /\ x.began = w.began /\ x.next = "place"
    BY <1>1, GoesAlone DEF Saves
  <1>3. AtMostOne'
    BY <1>2 DEF AtMostOne
  <1>4. TmpIsWritten(w) /\ w.began <= clock /\ Exists("json") /\ ~Exists("bak")
    BY <1>1 DEF Saves, Progress
  <1>5. Missing.at = 0 /\ Missing.whole = FALSE /\ w.began \in Nat /\ clock \in Nat /\ failures \in Nat
    BY FilesTyped DEF Missing
  <1>6. CASE Renames("json", "bak") /\ UNCHANGED failures
    <2>1. disk'["json"] = Missing /\ disk'["bak"] = disk["json"] /\ disk'["tmp"] = disk["tmp"]
      BY <1>6, RenamesFile DEF Name
    <2>2. \A x \in writers' : Progress(x)' /\ (running' => x.state \subseteq mem')
      BY <1>1, <1>2, <1>4, <1>5, <2>1 DEF Progress, TmpIsWritten, Exists, Saves
    <2>3. WholeExists'
      BY <2>1, <1>5 DEF WholeExists, Exists, Saves, Name
    <2>4. (SparesTmp => WithoutTmp)'
      BY <1>1, <1>4, <1>5, <1>6, <2>1 DEF Saves, SparesTmp, WithoutTmp, BestOfJsonAndBak, Exists
    <2>5. SparesOne => saved' \subseteq Best'
      <3> SUFFICES ASSUME SparesOne PROVE saved \subseteq ReadBack(disk')
        BY <1>1, BestIsReadBack
      <3>1. saved \subseteq w.state
        BY WriterHoldsSaved
      <3>2. /\ disk["tmp"].whole /\ disk["tmp"].at > w.began /\ disk["tmp"].state = w.state
            /\ disk["json"].at <= w.began /\ disk["json"].at \in Nat /\ disk["tmp"].at \in Nat
        BY <1>1, TmpIsNewest, FilesTyped
      <3>3. /\ disk'["tmp"].whole /\ disk'["tmp"].at > disk'["bak"].at /\ disk'["tmp"].state = w.state
            /\ ~disk'["json"].whole
        BY <1>5, <2>1, <3>2
      <3> QED
        BY <2>1, <3>1, <3>2, <3>3, ReadBackTmp
    <2>6. (SparesOne => Kept)'
      BY <1>1, <1>2, <1>6, <2>5, FilesTyped, KeptAfter
    <2> QED
      BY <1>3, <2>2, <2>3, <2>4, <2>6 DEF Saves
  <1>7. CASE Refused("json", "bak") /\ UNCHANGED disk
    <2>1. CanRename("json", "bak") /\ failures' = failures + 1
      BY <1>4, <1>7 DEF CanRename, Refused
    <2>2. \A x \in writers' : Progress(x)' /\ (running' => x.state \subseteq mem')
      BY <1>1, <1>2, <1>4, <1>5, <1>7, <2>1 DEF Progress, TmpIsWritten, Exists, Saves
    <2>3. WholeExists'
      BY <1>7 DEF WholeExists, Exists, Saves
    <2>4. (SparesTmp => WithoutTmp)'
      BY <1>1, <1>5, <1>7, <2>1 DEF Saves, SparesTmp, WithoutTmp, BestOfJsonAndBak, Exists
    <2>5. SparesOne => saved' \subseteq Best'
      BY <1>1, <1>7, BestIsReadBack DEF Saves, Kept
    <2>6. (SparesOne => Kept)'
      BY <1>1, <1>2, <1>5, <2>1, <2>5, KeptAfter
    <2> QED
      BY <1>3, <2>2, <2>3, <2>4, <2>6 DEF Saves
  <1> QED
    BY <1>6, <1>7 DEF Rotate

LEMMA PlaceKeeps ==
    ASSUME TypeOK, Saves, NEW w \in writers, Place(w), UNCHANGED <<running, mem, crashes>>
    PROVE  Saves'
  <1>1. w.next = "place" /\ UNCHANGED clock
    BY DEF Place
  <1>2. TmpIsWritten(w) /\ w.began <= clock /\ (~Exists("json") \/ failures > 0)
    BY <1>1 DEF Saves, Progress
  <1>3. Missing.at = 0 /\ Missing.whole = FALSE /\ failures \in Nat /\ Exists("tmp")
    BY <1>1, FilesTyped, TmpIsNewest DEF Missing
  <1>4. running => w.state \subseteq mem
    BY DEF Saves
  <1>5. CASE CanRename("tmp", "json") /\ Renames("tmp", "json") /\ Ends(w) /\ Holds(w) /\ UNCHANGED failures
    <2>1. disk'["tmp"] = Missing /\ disk'["json"] = disk["tmp"] /\ disk'["bak"] = disk["bak"]
      BY <1>5, RenamesFile DEF Name
    <2>2. writers' = {}
      BY <1>5, EndsAlone DEF Saves
    <2>3. disk'["json"].whole = TRUE /\ disk'["json"].state = w.state /\ disk'["json"].at > 0
      BY <1>1, <1>3, <2>1, TmpIsNewest, FilesTyped DEF Exists
    <2>4. WholeExists'
      BY <1>3, <2>1, <2>3 DEF WholeExists, Exists, Saves, Name
    <2>5. SparesOne => saved' \subseteq w.state
      BY <1>5, WriterHoldsSaved DEF Holds
    <2>6. (SparesTmp => WithoutTmp)'
      BY <1>5, <2>3, <2>5 DEF SparesTmp, SparesOne, WithoutTmp, BestOfJsonAndBak
    <2>7. Best' = w.state
      BY <2>3, ReadBackJson, BestIsReadBack
    <2>8. (SparesOne => Kept)'
      BY <1>4, <1>5, <2>2, <2>5, <2>7 DEF SparesOne, Kept
    <2> QED
      BY <2>2, <2>4, <2>6, <2>8 DEF Saves, AtMostOne
  <1>6. CASE Refused("tmp", "json") /\ Goes(w, "writeJson") /\ UNCHANGED <<disk, saved>>
    <2>1. "writeJson" \in Step
      BY DEF Step
    <2>2. \A x \in writers' : /\ x = [w EXCEPT !.next = "writeJson"]
                              /\ x.state = w.state /\ x.began = w.began /\ x.next = "writeJson"
      BY <1>6, <2>1, GoesAlone DEF Saves
    <2>3. failures' > 0 /\ failures' >= failures /\ failures' \in Nat
      BY <1>2, <1>3, <1>6 DEF Refused, CanRename
    <2>4. \A x \in writers' : Progress(x)' /\ (running' => x.state \subseteq mem')
      BY <1>1, <1>2, <1>4, <1>6, <2>2, <2>3 DEF Progress, TmpIsWritten
    <2>5. WholeExists'
      BY <1>6 DEF WholeExists, Exists, Saves
    <2>6. (SparesTmp => WithoutTmp)'
      BY <1>3, <1>6, <2>3 DEF Saves, SparesTmp, WithoutTmp, BestOfJsonAndBak, Exists
    <2>7. SparesOne => saved' \subseteq Best'
      BY <1>6, BestIsReadBack DEF Saves, Kept
    <2>8. (SparesOne => Kept)'
      BY <1>3, <1>6, <2>2, <2>3, <2>7, KeptAfter
    <2> QED
      BY <2>2, <2>4, <2>5, <2>6, <2>8 DEF Saves, AtMostOne
  <1> QED
    BY <1>5, <1>6 DEF Place

LEMMA WriteJsonKeeps ==
    ASSUME TypeOK, Saves, NEW w \in writers, WriteJson(w), UNCHANGED <<running, mem, crashes>>
    PROVE  Saves'
  <1>1. /\ w.next = "writeJson" /\ Goes(w, "removeTmp") /\ "removeTmp" \in Step
        /\ clock' = clock + 1 /\ failures' = failures /\ saved' = saved \cup w.state
    BY DEF WriteJson, Holds, Step
  <1>2. disk'["json"] = Whole(w.state) /\ disk'["tmp"] = disk["tmp"] /\ disk'["bak"] = disk["bak"]
    BY PutsFile DEF WriteJson, Name
  <1>3. \A x \in writers' : /\ x = [w EXCEPT !.next = "removeTmp"]
                            /\ x.state = w.state /\ x.began = w.began /\ x.next = "removeTmp"
    BY <1>1, GoesAlone DEF Saves
  <1>4. w.began <= clock /\ w.began \in Nat /\ clock \in Nat /\ (running => w.state \subseteq mem)
    BY FilesTyped DEF Saves, Progress
  <1>5. disk'["json"].whole = TRUE /\ disk'["json"].state = w.state /\ disk'["json"].at = clock + 1
    BY <1>2, FileKinds
  <1>6. \A x \in writers' : Progress(x)' /\ (running' => x.state \subseteq mem')
    BY <1>1, <1>3, <1>4, <1>5 DEF Progress, JsonIsWritten
  <1>7. WholeExists'
    BY <1>2, <1>4, <1>5 DEF WholeExists, Exists, Saves, Name
  <1>8. SparesOne => saved' \subseteq w.state
    BY <1>1, WriterHoldsSaved
  <1>9. (SparesTmp => WithoutTmp)'
    BY <1>1, <1>5, <1>8 DEF SparesTmp, SparesOne, WithoutTmp, BestOfJsonAndBak
  <1>10. Best' = w.state
    BY <1>5, ReadBackJson, BestIsReadBack
  <1>11. (SparesOne => Kept)'
    BY <1>1, <1>3, <1>4, <1>8, <1>10 DEF SparesOne, Kept
  <1> QED
    BY <1>3, <1>6, <1>7, <1>9, <1>11 DEF Saves, AtMostOne

LEMMA RemoveTmpKeeps ==
    ASSUME TypeOK, Saves, NEW w \in writers, RemoveTmp(w), UNCHANGED <<running, mem, crashes>>
    PROVE  Saves'
  <1>1. w.next = "removeTmp" /\ Ends(w) /\ UNCHANGED <<clock, failures, saved>>
    BY DEF RemoveTmp
  <1>2. disk'["tmp"] = Missing /\ disk'["json"] = disk["json"] /\ disk'["bak"] = disk["bak"]
    BY PutsFile DEF RemoveTmp, Name
  <1>3. JsonIsWritten(w)
    BY <1>1 DEF Saves, Progress
  <1>4. writers' = {}
    BY <1>1, EndsAlone DEF Saves
  <1>5. WholeExists'
    BY <1>2 DEF WholeExists, Exists, Saves, Name, Missing
  <1>6. (SparesTmp => WithoutTmp)'
    BY <1>1, <1>2 DEF Saves, SparesTmp, WithoutTmp, BestOfJsonAndBak, Exists
  <1>7. Best' = w.state
    BY <1>2, <1>3, ReadBackJson, BestIsReadBack DEF JsonIsWritten
  <1>8. (SparesOne => Kept)'
    BY <1>1, <1>4, <1>7 DEF SparesOne, Kept, Saves
  <1> QED
    BY <1>4, <1>5, <1>6, <1>8 DEF Saves, AtMostOne

LEMMA WriteFailsKeeps ==
    ASSUME TypeOK, Saves, NEW w \in writers, WriteFails(w), UNCHANGED <<running, mem, crashes>>
    PROVE  Saves'
  <1>1. Ends(w) /\ UNCHANGED <<disk, clock, saved>> /\ failures' = failures + 1 /\ failures \in Nat
    BY FilesTyped DEF WriteFails
  <1>2. writers' = {}
    BY <1>1, EndsAlone DEF Saves
  <1>3. WholeExists' /\ (SparesTmp => WithoutTmp)'
    BY <1>1 DEF WholeExists, Exists, Saves, SparesTmp, WithoutTmp, BestOfJsonAndBak
  <1>4. SparesOne' => SparesOne
    BY <1>1 DEF SparesOne
  <1>5. (SparesOne => Kept)'
    BY <1>1, <1>2, <1>4, BestIsReadBack DEF Kept, Saves
  <1> QED
    BY <1>2, <1>3, <1>5 DEF Saves, AtMostOne

LEMMA WriteKeeps ==
    ASSUME TypeOK, Saves, NEW w \in writers, Write(w), UNCHANGED <<running, mem, crashes>>
    PROVE  Saves'
  BY WriteTmpKeeps, CheckKeeps, RemoveBakKeeps, RotateKeeps, PlaceKeeps, WriteJsonKeeps,
     RemoveTmpKeeps, WriteFailsKeeps DEF Write

-----------------------------------------------------------------------------
(* The other steps.                                                        *)

(* One save at a time: another one starts when none is under way.          *)
LEMMA NoneUnderWay ==
    ASSUME OneSave, AtMostOne, Cardinality(writers) < MaxWriters
    PROVE  writers = {}
  <1> SUFFICES ASSUME NEW w \in writers PROVE FALSE
    OBVIOUS
  <1>1. writers = {w}
    BY DEF AtMostOne
  <1>2. Cardinality({w}) = 1
    BY FS_Singleton
  <1> QED
    BY <1>1, <1>2 DEF OneSave

LEMMA FirstStep ==
    ASSUME TypeOK, writers = {}, StartWriting
    PROVE  /\ writers' = {[state |-> mem, began |-> clock, next |-> "writeTmp"]}
           /\ \A w \in writers' : w.state = mem /\ w.began = clock /\ w.next = "writeTmp"
  BY DEF StartWriting

(* A save starts, in an instance that goes on or one that is unloaded.     *)
LEMMA StartKeeps ==
    ASSUME TypeOK, Saves, OneSave, Cardinality(writers) < MaxWriters, StartWriting, running,
           UNCHANGED <<disk, clock, failures, crashes, saved>>,
           running' => mem' = mem
    PROVE  Saves'
  <1>1. writers = {}
    BY NoneUnderWay DEF Saves
  <1>2. /\ AtMostOne'
        /\ \A w \in writers' : w.state = mem /\ w.began = clock /\ w.next = "writeTmp"
    BY <1>1, FirstStep DEF AtMostOne
  <1>3. \A n \in Name : disk'[n].at <= clock'
    BY FilesTyped DEF Name
  <1>4. clock \in Nat
    BY FilesTyped
  <1>5. \A w \in writers' : Progress(w)' /\ (running' => w.state \subseteq mem')
    BY <1>2, <1>3, <1>4 DEF Progress, Started
  <1>6. WholeExists' /\ (SparesTmp => WithoutTmp)'
    BY DEF WholeExists, Exists, Saves, SparesTmp, WithoutTmp, BestOfJsonAndBak
  <1>7. (SparesOne => Kept)'
    BY <1>2, BestIsReadBack DEF Saves, SparesOne, Kept
  <1> QED
    BY <1>2, <1>5, <1>6, <1>7 DEF Saves

LEMMA RecordKeeps ==
    ASSUME TypeOK, Saves, Record
    PROVE  Saves'
  <1>1. UNCHANGED <<running, writers, disk, clock, crashes, failures, saved>> /\ mem \subseteq mem'
    BY DEF Record
  <1>2. \A w \in writers' : Progress(w)' /\ (running' => w.state \subseteq mem')
    BY <1>1 DEF Saves, Progress, Started, TmpIsWritten, JsonIsWritten, Exists
  <1>3. AtMostOne' /\ WholeExists' /\ (SparesTmp => WithoutTmp)'
    BY <1>1 DEF AtMostOne, WholeExists, Exists, Saves, SparesTmp, WithoutTmp, BestOfJsonAndBak
  <1>4. (SparesOne => Kept)'
    BY <1>1, BestIsReadBack DEF Saves, SparesOne, Kept
  <1> QED
    BY <1>2, <1>3, <1>4 DEF Saves

LEMMA LoadKeeps ==
    ASSUME TypeOK, Saves, OneSave, Load
    PROVE  Saves'
  <1>1. /\ writers = {} /\ mem' = Best
        /\ UNCHANGED <<writers, disk, clock, crashes, failures, saved>>
    BY DEF OneSave, Load, counts
  <1>2. AtMostOne' /\ WholeExists' /\ (SparesTmp => WithoutTmp)'
    BY <1>1 DEF AtMostOne, WholeExists, Exists, Saves, SparesTmp, WithoutTmp, BestOfJsonAndBak
  <1>3. (SparesOne => Kept)'
    BY <1>1, BestIsReadBack DEF Saves, SparesOne, Kept
  <1> QED
    BY <1>1, <1>2, <1>3 DEF Saves

(* The .tmp is torn before it is written, when state.json or the .bak has  *)
(* what was saved, and state.json afterwards, when the .tmp has it.        *)
LEMMA CrashKeeps ==
    ASSUME TypeOK, Saves, Crash
    PROVE  Saves'
  <1>1. PICK torn \in SUBSET Tearable :
           /\ crashes' = crashes + 1 /\ running' = FALSE /\ writers' = {}
           /\ disk' = [n \in Name |-> IF n \in torn THEN Torn ELSE disk[n]]
           /\ UNCHANGED <<failures, saved>>
    BY DEF Crash
  <1>2. \A n \in Name : disk'[n] = IF n \in torn THEN Torn ELSE disk[n]
    BY <1>1
  <1>3. torn \subseteq {"tmp", "json"}
    BY TornFiles
  <1>4. crashes \in Nat /\ failures \in Nat /\ clock \in Nat
    BY FilesTyped
  <1>5. /\ "tmp" \in torn => \E w \in writers : w.next = "writeTmp"
        /\ "json" \in torn => \E w \in writers : w.next = "writeJson"
    <2> DEFINE A == {x \in writers : x.next = "writeTmp"}
               B == {x \in writers : x.next = "writeJson"}
    <2>1. /\ "tmp" \in Tearable => A # {}
          /\ "json" \in Tearable => B # {}
      BY DEF Tearable
    <2> QED
      BY <2>1
  <1>6. WholeExists'
    BY <1>2, FileKinds DEF WholeExists, Exists, Saves
  <1>7. /\ disk'["bak"] = disk["bak"]
        /\ "json" \notin torn => disk'["json"] = disk["json"]
        /\ "tmp" \notin torn => disk'["tmp"] = disk["tmp"]
    BY <1>2, <1>3 DEF Name
  <1>8. "tmp" \in torn => disk'["tmp"].whole = FALSE
    BY <1>2, FileKinds DEF Name
  <1>9. "json" \in torn => disk'["json"].whole = FALSE
    BY <1>2, FileKinds DEF Name
  <1>10. "json" \in torn => failures > 0
    BY <1>5 DEF Saves, Progress
  <1>11. (SparesTmp => WithoutTmp)'
    BY <1>1, <1>4, <1>7, <1>10 DEF Saves, SparesTmp, WithoutTmp, BestOfJsonAndBak, Exists
  <1>12. SparesOne' => SparesOne /\ SparesTmp
    BY <1>1, <1>4 DEF SparesOne, SparesTmp
  <1>13. ASSUME SparesOne, SparesTmp PROVE saved \subseteq ReadBack(disk')
    <2>1. saved \subseteq ReadBack(disk) /\ WithoutTmp
      BY <1>13, BestIsReadBack DEF Saves, Kept
    <2>2. CASE torn = {}
      <3>1. \A n \in Name : disk'[n] = disk[n]
        BY <1>2, <2>2
      <3>2. disk' = disk
        BY <1>1, <3>1, FilesTyped DEF TypeOK
      <3> QED
        BY <2>1, <3>2
    <2>3. CASE "json" \in torn
      <3>1. PICK w \in writers : w.next = "writeJson"
        BY <1>5, <2>3
      <3>2. "tmp" \notin torn
        BY <1>5, <3>1 DEF Saves, AtMostOne
      <3>3. /\ disk["tmp"].whole = TRUE /\ disk["tmp"].state = w.state
            /\ disk["tmp"].at > disk["bak"].at
        BY <3>1, TmpIsNewest
      <3>4. saved \subseteq w.state
        BY <1>13 DEF Saves, Kept
      <3>5. ReadBack(disk') = w.state
        BY <1>7, <1>9, <2>3, <3>2, <3>3, ReadBackTmp, FilesTyped
      <3> QED
        BY <3>4, <3>5
    <2>4. CASE "tmp" \in torn /\ "json" \notin torn
      <3>1. CASE disk["json"].whole
        BY <1>7, <2>1, <2>4, <3>1, ReadBackJson DEF WithoutTmp, BestOfJsonAndBak
      <3>2. CASE ~disk["json"].whole
        <4>1. ReadBack(disk') = IF disk["bak"].whole THEN disk["bak"].state ELSE {}
          BY <1>7, <1>8, <2>4, <3>2, ReadBackBak, FilesTyped
        <4> QED
          BY <2>1, <3>2, <4>1 DEF WithoutTmp, BestOfJsonAndBak
      <3> QED
        BY <3>1, <3>2
    <2> QED
      BY <1>3, <2>2, <2>3, <2>4
  <1>14. (SparesOne => Kept)'
    BY <1>1, <1>12, <1>13, BestIsReadBack DEF Kept
  <1> QED
    BY <1>1, <1>6, <1>11, <1>14 DEF Saves, AtMostOne

LEMMA SavesInit == Init => Saves
  <1> SUFFICES ASSUME Init PROVE Saves
    OBVIOUS
  <1>1. /\ writers = {} /\ saved = {}
        /\ \A n \in Name : disk[n].whole = FALSE /\ disk[n].at = 0
    BY DEF Init, Missing
  <1>2. WholeExists /\ WithoutTmp
    BY <1>1 DEF WholeExists, WithoutTmp, Exists, Name
  <1> QED
    BY <1>1, <1>2 DEF Saves, AtMostOne, Kept

LEMMA SavesNext == TypeOK /\ Saves /\ OneSave /\ [Next]_vars => Saves'
  <1> SUFFICES ASSUME TypeOK, Saves, OneSave, [Next]_vars PROVE Saves'
    OBVIOUS
  <1>1. CASE Record
    BY <1>1, RecordKeeps
  <1>2. CASE TimerFires
    <2>1. running /\ UNCHANGED <<running, mem, disk, clock, failures, crashes, saved>>
      BY <1>2 DEF TimerFires, TypeOK, counts
    <2> QED
      BY <1>2, <2>1, StartKeeps DEF TimerFires
  <1>3. CASE Unload
    BY <1>3, StartKeeps DEF Unload
  <1>4. CASE Load
    BY <1>4, LoadKeeps
  <1>5. CASE Crash
    BY <1>5, CrashKeeps
  <1>6. CASE Writes
    BY <1>6, WriteKeeps DEF Writes
  <1>7. CASE UNCHANGED vars
    BY <1>7, BestIsReadBack
       DEF vars, Saves, AtMostOne, WholeExists, Exists, Progress, Started, TmpIsWritten,
           JsonIsWritten, SparesTmp, SparesOne, WithoutTmp, BestOfJsonAndBak, Kept
  <1> QED
    BY <1>1, <1>2, <1>3, <1>4, <1>5, <1>6, <1>7 DEF Next

(* What one completed save wrote can be read back at every moment, also    *)
(* after saves that were cut short or failed, until a second crash: two    *)
(* crashes and a refused rename can tear state.json and then the .tmp,     *)
(* while the .bak is gone (writeJsonAtomic, readBestJson).                 *)
THEOREM SavedSurvives ==
    ASSUME OneSave
    PROVE  Spec => []((crashes <= 1 \/ failures = 0) => SavedIsReadable)
  <1>1. TypeOK /\ Saves => ((crashes <= 1 \/ failures = 0) => SavedIsReadable)
    BY DEF Saves, SparesOne, Kept, SavedIsReadable
  <1>2. TypeOK /\ Saves /\ [Next]_vars => Saves'
    BY SavesNext
  <1> QED
    BY <1>1, <1>2, SavesInit, TypeCorrect, PTL DEF Spec

-----------------------------------------------------------------------------
(* A clean unload.                                                         *)

LEMMA InheritedNext ==
    TypeOK /\ Saves /\ OneSave /\ Inherited /\ [Next]_vars => Inherited'
  <1> SUFFICES ASSUME TypeOK, Saves, OneSave, Inherited, [Next]_vars,
                      crashes' = 0, unsaved' = FALSE
               PROVE  /\ running' => mem' = 1 .. changes'
                      /\ ~running' =>
                            \/ \E w \in writers' : w.state = 1 .. changes'
                            \/ writers' = {} /\ disk'["json"].whole /\ disk'["json"].state = 1 .. changes'
    BY TypeNext DEF Inherited, TypeOK
  <1>1. CASE Record
    <2>1. mem = 1 .. changes /\ changes \in Nat
      BY <1>1 DEF Record, Inherited, TypeOK
    <2> QED
      BY <1>1, <2>1 DEF Record
  <1>2. CASE TimerFires
    BY <1>2 DEF TimerFires, Inherited, TypeOK, counts
  <1>3. CASE Unload
    <2>1. mem = 1 .. changes
      BY <1>3 DEF Unload, Inherited
    <2>2. writers = {}
      BY <1>3, NoneUnderWay DEF Unload, Saves
    <2> QED
      BY <1>3, <2>1, <2>2, FirstStep DEF Unload, StartWriting
  <1>4. CASE Load
    <2>1. writers = {} /\ disk["json"].whole /\ disk["json"].state = 1 .. changes
      BY <1>4 DEF Load, OneSave, Inherited, counts
    <2>2. Best = 1 .. changes
      BY <2>1, BestIsReadBack, ReadBackJson
    <2> QED
      BY <1>4, <2>2 DEF Load, counts
  <1>5. CASE Crash
    BY <1>5, FilesTyped DEF Crash
  <1>6. CASE Writes
    <2>1. PICK w \in writers : Write(w)
      BY <1>6 DEF Writes
    <2>2. UNCHANGED <<running, mem, changes, crashes>> /\ writers = {w} /\ AtMostOne /\ w \in Writer
      BY <1>6, <2>1 DEF Writes, Saves, AtMostOne, TypeOK
    <2>3. unsaved = FALSE
      BY <2>1 DEF Write, WriteTmp, Check, RemoveBak, Rotate, Place, WriteJson, RemoveTmp, WriteFails, TypeOK
    <2>4. running => mem' = 1 .. changes'
      BY <2>2, <2>3 DEF Inherited
    <2>5. ASSUME ~running PROVE w.state = 1 .. changes
      BY <2>2, <2>3, <2>5 DEF Inherited
    <2>6. ASSUME NEW s \in Step, Goes(w, s) PROVE \E x \in writers' : x.state = w.state
      <3>1. [w EXCEPT !.next = s] \in writers'
        BY <2>6 DEF Goes
      <3>2. [w EXCEPT !.next = s].state = w.state
        BY <2>2 DEF Writer
      <3> QED
        BY <3>1, <3>2
    <2>7. \/ \E s \in Step : Goes(w, s)
          \/ Ends(w) /\ disk'["json"].whole /\ disk'["json"].state = w.state
      <3>1. CASE Place(w) /\ ~(\E s \in Step : Goes(w, s))
        <4>1. Renames("tmp", "json") /\ Ends(w)
          BY <3>1 DEF Place, Step
        <4>2. disk'["json"] = disk["tmp"]
          BY <4>1, RenamesFile DEF Name
        <4>3. disk["tmp"].whole = TRUE /\ disk["tmp"].state = w.state
          BY <3>1, TmpIsNewest DEF Place
        <4> QED
          BY <4>1, <4>2, <4>3
      <3>2. CASE RemoveTmp(w)
        <4>1. disk'["json"] = disk["json"] /\ Ends(w)
          BY <3>2, PutsFile DEF RemoveTmp, Name
        <4>2. JsonIsWritten(w)
          BY <3>2 DEF RemoveTmp, Saves, Progress
        <4> QED
          BY <4>1, <4>2 DEF JsonIsWritten
      <3>3. CASE WriteTmp(w) \/ RemoveBak(w) \/ Rotate(w) \/ WriteJson(w)
        BY <3>3 DEF WriteTmp, RemoveBak, Rotate, WriteJson, Step
      <3>4. CASE Check(w)
        BY <3>4 DEF Check, Step
      <3>5. ~WriteFails(w)
        BY DEF WriteFails
      <3> QED
        BY <2>1, <3>1, <3>2, <3>3, <3>4, <3>5 DEF Write
    <2>8. Ends(w) => writers' = {}
      BY <2>2 DEF Ends
    <2> QED
      BY <2>2, <2>4, <2>5, <2>6, <2>7, <2>8
  <1>7. CASE UNCHANGED vars
    BY <1>7 DEF vars, counts, Inherited
  <1> QED
    BY <1>1, <1>2, <1>3, <1>4, <1>5, <1>6, <1>7 DEF Next

(* Over a clean unload nothing is forgotten: an instance knows all that    *)
(* was recorded, saved or not, but for what a crash or a failure lost      *)
(* (onunload saves whatever the debounce, loadState reads it back).        *)
THEOREM NothingForgotten ==
    ASSUME OneSave
    PROVE  Spec => []CleanUnloadKeepsAll
  <1>1. Init => Inherited
    BY DEF Init, Inherited
  <1>2. TypeOK /\ Saves /\ Inherited /\ [Next]_vars => Inherited'
    BY InheritedNext
  <1>3. TypeOK /\ Saves /\ [Next]_vars => Saves'
    BY SavesNext
  <1>4. Inherited => CleanUnloadKeepsAll
    BY DEF Inherited, CleanUnloadKeepsAll
  <1> QED
    BY <1>1, <1>2, <1>3, <1>4, SavesInit, TypeCorrect, PTL DEF Spec
=============================================================================
