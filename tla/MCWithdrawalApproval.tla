----------------------- MODULE MCWithdrawalApproval -----------------------
(* Instances of WithdrawalApproval for TLC.                                *)
EXTENDS WithdrawalApproval, TLC

CONSTANTS a1, a2, a3, w1, w2

UnitAmount == [w \in Withdrawals |-> 1]

(* The thresholds of DEFAULT_THRESHOLDS divided by 1000, and variants of   *)
(* them that put a withdrawal of 10 in each of the three tiers.            *)
LargeUsd == [w \in Withdrawals |-> 10]
Limits(auto, single, n) ==
    [autoApproveLimit |-> auto, singleApprovalLimit |-> single, requiredApprovals |-> n]
DefaultThresholds == {Limits(1, 10, 2)}
VaryingThresholds == {Limits(1, 10, 2), Limits(5, 10, 3), Limits(1, 20, 2), Limits(11, 20, 2)}

(* a1 and a2 are alike: neither may override.                              *)
AdminSymmetry == Permutations({a1, a2})
=============================================================================
