------------------------- MODULE MCWithdrawalPayout -------------------------
(* Instances of WithdrawalPayout for TLC.                                  *)
EXTENDS WithdrawalPayout, TLC

CONSTANTS w1, w2, w3

(* Three requests compete for a balance that covers two of them.           *)
ScarceAmount == (w1 :> 1) @@ (w2 :> 2) @@ (w3 :> 2)

(* Processes die and calls fail while a credit pushes auto-withdraw items; *)
(* or the processes live and the database answers, but transactions fail,  *)
(* and replies get lost and the Redis client may push an item twice, or    *)
(* auto-withdraw is on.                                                    *)
RoughAndCalm == {{"crash", "sendFails", "dbFails", "autoWithdraw"},
                 {"sendFails", "replyLost", "afterSend", "duplicate"},
                 {"sendFails", "autoWithdraw"}}
=============================================================================
