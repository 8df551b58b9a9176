------------------------------ MODULE Delivery ------------------------------
(***************************************************************************)
(* What sending a file to a peer promises, however it is done.  Somebody   *)
(* asks for the newest version of a file to be sent: from then on the file *)
(* is owed, until the peer holds that version or the debt is written off   *)
(* for a reason somebody can name.  The peer only ever gets newer          *)
(* versions, and only ones that were asked for.                            *)
(***************************************************************************)
EXTENDS Naturals

CONSTANT Task       \* a file and the peer it is sent to

VARIABLES asked,    \* the newest version somebody asked to send
          held,     \* the newest version the peer got
          owed,     \* the tasks somebody still works on
          lost      \* the tasks written off since they were last asked for

vars == <<asked, held, owed, lost>>

Init ==
    /\ asked = [t \in Task |-> 0] /\ held = [t \in Task |-> 0]
    /\ owed = {} /\ lost = {}

Ask(t) ==
    /\ asked'[t] > asked[t]
    /\ asked' = [asked EXCEPT ![t] = asked'[t]]
    /\ owed' = owed \cup {t}
    /\ lost' = lost \ {t}
    /\ UNCHANGED held

Arrive(t) ==
    /\ \E v \in held[t] + 1 .. asked[t] : held' = [held EXCEPT ![t] = v]
    /\ UNCHANGED <<asked, owed, lost>>

(* Debts are paid, written off, or taken up again: to send once more what  *)
(* the peer has does no harm.                                              *)
Settle ==
    /\ lost \subseteq lost'
    /\ \A t \in owed \ owed' : held[t] = asked[t] \/ t \in lost'
    /\ owed' \subseteq Task /\ lost' \subseteq Task
    /\ UNCHANGED <<asked, held>>

Next == (\E t \in Task : Ask(t) \/ Arrive(t)) \/ Settle

Spec == Init /\ [][Next]_vars
=============================================================================
