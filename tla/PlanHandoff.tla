---------------------------- MODULE PlanHandoff ----------------------------
(***************************************************************************)
(* What HybridController promises to the MPPI controller it wraps: at any  *)
(* time MPPI tracks either the newest global plan it was handed or a local *)
(* guide, and the guides it is given never go back, neither to an earlier  *)
(* guide nor to an earlier plan.  Nothing is said about who computes the   *)
(* guides or when.                                                         *)
(***************************************************************************)
EXTENDS Naturals

VARIABLES
    plan,     \* number of the newest global plan
    tracked,  \* what MPPI tracks: plan gen itself if id = 0, else guide id
    adopted   \* the guide most recently adopted, or [gen |-> 0, id |-> 0]

Nothing == [gen |-> 0, id |-> 0]

Init ==
    /\ plan = 0
    /\ tracked = Nothing
    /\ adopted = Nothing

\* The server announces a new global plan.
NewPlan ==
    /\ plan' = plan + 1
    /\ UNCHANGED <<tracked, adopted>>

\* MPPI is given the newest global plan.
Track ==
    /\ tracked' = [gen |-> plan, id |-> 0]
    /\ UNCHANGED <<plan, adopted>>

\* MPPI is given a guide of some plan announced so far, no older than the last.
Adopt ==
    /\ tracked' \in [gen : adopted.gen .. plan, id : Nat \ {0}]
    /\ adopted.id <= tracked'.id
    /\ adopted' = tracked'
    /\ UNCHANGED plan

\* The plugin is destroyed.
Destroy ==
    /\ tracked' = Nothing
    /\ adopted' = Nothing
    /\ UNCHANGED plan

Next == NewPlan \/ Track \/ Adopt \/ Destroy

Spec == Init /\ [][Next]_<<plan, tracked, adopted>>
=============================================================================
