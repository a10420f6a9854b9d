---------------------------- MODULE ScalerBinding ----------------------------
(***************************************************************************)
(* What the users of a ScaleIn or ScaleOut are promised: one object that   *)
(* every controller sees and changes at once. It is marked as created,     *)
(* then owned by one job, and its conditions are only added to until it    *)
(* has ended. ScalerOwner implements this specification with copies that   *)
(* may be old and writes that may be refused.                              *)
(***************************************************************************)
EXTENDS Naturals, Functions

CONSTANTS Scalers, NoJob, Jobs

VARIABLE bound      \* the scalers that exist, with their owner and conditions

Progress == {"Scaling", "ScriptExecuted", "ScaleSucceeded", "ScaleFailed"}

Ended(s) == {"ScaleSucceeded", "ScaleFailed"} \cap bound[s].conds # {}

Init == DOMAIN bound = {}

Submit(s) ==
    /\ s \notin DOMAIN bound
    /\ bound' = [r \in DOMAIN bound \cup {s} |->
                   IF r = s THEN [owner |-> NoJob, conds |-> {}] ELSE bound[r]]

Mark(s) ==
    /\ s \in DOMAIN bound /\ ~Ended(s) /\ bound[s].owner = NoJob
    /\ bound' = [bound EXCEPT ![s].conds = @ \cup {"Created"}]

Own(s, u) ==
    /\ s \in DOMAIN bound /\ ~Ended(s) /\ bound[s].owner = NoJob
    /\ "Created" \in bound[s].conds
    /\ bound' = [bound EXCEPT ![s].owner = u]

Execute(s, added) ==
    /\ s \in DOMAIN bound /\ ~Ended(s)
    /\ bound' = [bound EXCEPT ![s].conds = @ \cup added]

Remove(s) ==
    /\ s \in DOMAIN bound
    /\ bound' = Restrict(bound, DOMAIN bound \ {s})

Next ==
    \E s \in Scalers :
        \/ Submit(s) \/ Mark(s) \/ Remove(s)
        \/ \E u \in Jobs : Own(s, u)
        \/ \E added \in SUBSET Progress : Execute(s, added)

Spec == Init /\ [][Next]_bound
=============================================================================
