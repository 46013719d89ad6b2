------------------------------ MODULE MCServices -------------------------------
(* Small instances of the services for TLC.                                *)
EXTENDS Services, TLC

CONSTANTS w1, w2, m1, m2, none

(* Two events for one webhook, or one event for two webhooks.              *)
SomeSubscriptions == {{<<1, w1>>, <<2, w1>>}, {<<1, w1>>, <<1, w2>>}}

(* Three payments of one merchant and one of another.                      *)
MostOfOne == (1 :> m1) @@ (2 :> m1) @@ (3 :> m1) @@ (4 :> m2)

(* They all pay in one currency, or the third and the fourth in another    *)
(* one with the same path, in which the merchant of the third has no       *)
(* wallet.                                                                 *)
SomeCurrencies == {(1 :> "ETH") @@ (2 :> "ETH") @@ (3 :> c) @@ (4 :> c) : c \in {"ETH", "BNB"}}
EvmPath == ("ETH" :> "m/44'/60'") @@ ("BNB" :> "m/44'/60'")

(* The random numbers of two requests are the same.                        *)
SomeTags == (1 :> 1) @@ (2 :> 2) @@ (3 :> 2)

(* Of the merges of the last two, one is valid only after the first one.   *)
SomePatches == (1 :> <<"upper", 4>>) @@ (2 :> <<"lower", 3>>) @@ (3 :> <<"upper", 2>>)

AllScenarios ==
    {<<"breaker", {}>>,
     <<"delivery", {}>>, <<"delivery", {"db"}>>, <<"delivery", {"dies", "redis"}>>,
     <<"delivery", {"deletes"}>>,
     <<"address", {"loses"}>>, <<"address", {"db"}>>,
     <<"refund", {"dies"}>>, <<"refund", {"db", "redis"}>>, <<"refund", {"overlaps"}>>,
     <<"wallet", {}>>, <<"wallet", {"db", "node"}>>,
     <<"limiter", {"redis"}>>,
     <<"rates", {"redis"}>>,
     <<"settings", {}>>, <<"settings", {"overlaps"}>>, <<"settings", {"redis", "db", "dies"}>>,
     <<"whatsapp", {}>>, <<"whatsapp", {"admin"}>>, <<"whatsapp", {"logout", "keys", "stops"}>>,
     <<"lifecycle", {}>>, <<"lifecycle", {"db", "redis"}>>}

QuietAddresses == {<<"address", {}>>}
=============================================================================
