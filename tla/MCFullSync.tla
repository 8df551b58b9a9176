----------------------------- MODULE MCFullSync -----------------------------
(* Full syncs of two paths between two devices. *)
EXTENDS FullSync

CONSTANTS d1, d2, f, g

MCDevice == {d1, d2}
MCPath == {f, g}

(* Each path is pulled by either side, deleted by either side or left.     *)
MCPlans == {plan \in Plan :
              \A p \in Path : Cardinality({side \in DOMAIN plan : p \in plan[side]}) <= 1}

(* The plans that delete nothing: with deletions a side may say that it    *)
(* wants nothing more before it has set its pulls.                         *)
MCPullPlans == {plan \in MCPlans : plan.initiatorDeletes \cup plan.responderDeletes = {}}
=============================================================================
