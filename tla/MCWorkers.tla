------------------------------- MODULE MCWorkers -------------------------------
(* Small instances of the worker process for TLC.                          *)
EXTENDS Workers, TLC

(* Two jobs for one payment: the transaction they name is the right one,   *)
(* or one that pays somebody else or too little.                           *)
OnePayment == (1 :> 1) @@ (2 :> 1)
RightAndWrong == (1 :> {"matching"}) @@ (2 :> {"mismatch", "underpaid"})

AllScenarios ==
    {<<"payment", {"stalls", "redis"}>>, <<"payment", {"dies", "redis"}>>,
     <<"payment", {"db", "underpays"}>>, <<"payment", {"redis", "underpays"}>>,
     <<"withdrawal", {"dies", "stalls", "redis", "db", "node"}>>, <<"withdrawal", {"node"}>>,
     <<"webhook", {"dies", "stalls"}>>, <<"webhook", {"dies", "redis", "db"}>>,
     <<"conversion", {"dies"}>>, <<"conversion", {"db"}>>,
     <<"conversion", {"redis", "node"}>>}
=============================================================================
