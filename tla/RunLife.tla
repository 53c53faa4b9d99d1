------------------------------ MODULE RunLife -------------------------------
(***************************************************************************)
(* What a CI run promises whoever waits for it, the merge queue above all. *)
(*                                                                         *)
(* A run is pending until it is written down as ended.  A canceled run is  *)
(* "stopping" while a job of it is still in somebody's hands, and only     *)
(* then may another result be written over it: once it is plainly canceled *)
(* it stays so, and a run that failed never turns green by itself.         *)
(***************************************************************************)
CONSTANT Runs       \* everything that can be run
VARIABLE run        \* what somebody who looks at a run is told

Outcomes == {"success", "failed"}
Results  == {"none", "pending", "stopping", "canceled"} \union Outcomes

Starts(p)  == run[p] = "none" /\ run'[p] = "pending"
Reports(p) == run[p] \in {"pending", "stopping"} /\ run'[p] \in Outcomes
Cancels(p) == run[p] \in {"pending"} \union Outcomes /\ run'[p] \in {"stopping", "canceled"}
Stops(p)   == run[p] = "stopping" /\ run'[p] = "canceled"

Step(p) == Starts(p) \/ Reports(p) \/ Cancels(p) \/ Stops(p)

Init == run = [p \in Runs |-> "none"]
Next == /\ run' \in [Runs -> Results]
        /\ \A p \in Runs : run'[p] # run[p] => Step(p)
Spec == Init /\ [][Next]_run
=============================================================================
