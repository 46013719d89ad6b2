-------------------------- MODULE MCWithdrawalSystem --------------------------
(* Instances of WithdrawalSystem for TLC.                                  *)
EXTENDS WithdrawalSystem, TLC

CONSTANTS a1, a2, w1, w2

UnitAmount == [w \in Withdrawals |-> 1]
LargeUsd == [w \in Withdrawals |-> 10]
(* DEFAULT_THRESHOLDS divided by 1000: a withdrawal of 10 needs two.       *)
DefaultThresholds ==
    {[autoApproveLimit |-> 1, singleApprovalLimit |-> 10, requiredApprovals |-> 2]}
=============================================================================
