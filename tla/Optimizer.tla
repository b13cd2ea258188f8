----------------------------- MODULE Optimizer ------------------------------
(***************************************************************************)
(* The passes with everybody who runs them: a driver by itself (mode       *)
(* "alone"), the promotion of loads (Promotion) and extract_vjcc_targets   *)
(* ("vjcc").                                                               *)
(***************************************************************************)
EXTENDS Promotion, VjccTargets

NoScan == /\ safe = {} /\ memory = <<>> /\ todo = <<>>
          /\ round = 1 /\ promoted = FALSE

NoQuestion == question = <<>> /\ targets = <<>>

OptimizerInit ==
    \/ mode = "alone" /\ Init /\ NoScan /\ NoQuestion
    \/ mode = "vjcc" /\ VjccInit /\ NoScan
    \/ PromotionInit /\ NoQuestion

OptimizerNext ==
    \/ mode = "alone" /\ Next /\ UNCHANGED <<scanVars, question, targets>>
    \/ mode = "vjcc" /\ VjccNext /\ UNCHANGED scanVars
    \/ mode \in DOMAIN More /\ PromotionNext /\ UNCHANGED <<question, targets>>

OptimizerSpec ==
    OptimizerInit /\ [][OptimizerNext]_<<promotionVars, question, targets>>
=============================================================================
