--------------------------- MODULE MCPaymentMonitor ---------------------------
(* Instances of PaymentMonitor for TLC.                                    *)
EXTENDS PaymentMonitor, TLC

CONSTANTS p1, p2, s1, s2, s3

(* The slots of the calls being served are alike.                          *)
SlotSymmetry == Permutations(Slots)
=============================================================================
