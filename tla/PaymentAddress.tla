---------------------------- MODULE PaymentAddress -----------------------------
(***************************************************************************)
(* The deposit address of a new payment                                    *)
(* (src/backend/src/services/wallet.service.ts: getOrCreateWallet,         *)
(* generatePaymentAddress).  It is derived from the path of the currency,  *)
(* which several currencies share, the index of the merchant's wallet,     *)
(* the number of wallets there were in that currency, and an index of the  *)
(* payment, a counter in Redis that is seeded from the database when it is *)
(* new.  Several API requests run at once.                                 *)
(***************************************************************************)
EXTENDS Integers, FiniteSets

CONSTANTS
    Merchants,
    Requests,     \* bound: calls of createPayment()
    MerchantOf,   \* the merchant of a request
    Cryptos,
    Currencies,   \* bound: the choices of a currency for each request
    PathOf        \* the derivation path of a currency, of config/crypto.ts

NoWallet == -1

(* What the composing module assumes of the constants.                     *)
AddressConstants ==
    /\ MerchantOf \in [Requests -> Merchants]
    /\ Currencies \subseteq [Requests -> Cryptos]

VARIABLES
    faults,           \* what may go wrong; never changes
    currency,         \* request -> currency of the payment; never changes
    walletCrypto,     \* merchant -> currency of its wallet, "" while it has none
    derivationIndex,  \* merchant -> index of its wallet
    paymentIndex,     \* merchant -> the counter in Redis; 0 when it is missing
    request,          \* request -> [at, index]
    address,          \* payment row -> path and indices its address is derived from
    overlapped        \* history: a wallet was created, or a counter seeded,
                      \* while another request was under way

addressVars == <<walletCrypto, derivationIndex, paymentIndex, request, address, overlapped>>

AddressTypeOK ==
    /\ currency \in Currencies
    /\ walletCrypto \in [Merchants -> Cryptos \cup {""}]
    /\ derivationIndex \in [Merchants -> Int]
    /\ paymentIndex \in [Merchants -> Nat]
    /\ request \in [Requests -> [at : {"no", "count", "create", "incr", "seed", "set", "pay",
                                       "done", "failed"}, index : Nat]]
    /\ \A r \in DOMAIN address :
          r \in Requests /\ address[r] \in {PathOf[c] : c \in Cryptos} \X Nat \X Nat
    /\ overlapped \in BOOLEAN

AddressInit ==
    /\ currency \in Currencies
    /\ walletCrypto = [m \in Merchants |-> ""]
    /\ derivationIndex = [m \in Merchants |-> NoWallet]
    /\ paymentIndex = [m \in Merchants |-> 0]
    /\ request = [r \in Requests |-> [at |-> "no", index |-> 0]]
    /\ address = [r \in {} |-> <<>>]
    /\ overlapped = FALSE

GoTo(r, step) == request' = [request EXCEPT ![r].at = step]
GoToWith(r, step, i) == request' = [request EXCEPT ![r] = [at |-> step, index |-> i]]

---------------------------------------------------------------------------
(* getOrCreateWallet()                                                     *)

Wallets(c) == {m \in Merchants : derivationIndex[m] # NoWallet /\ walletCrypto[m] = c}

FindWallet(r) ==
    /\ request[r].at = "no"
    /\ GoTo(r, IF MerchantOf[r] \in Wallets(currency[r]) THEN "incr" ELSE "count")
    /\ UNCHANGED <<walletCrypto, derivationIndex, paymentIndex, address>>

CountWallets(r) ==
    /\ request[r].at = "count"
    /\ GoToWith(r, "create", Cardinality(Wallets(currency[r])))
    /\ UNCHANGED <<walletCrypto, derivationIndex, paymentIndex, address>>

(* A second wallet for the merchant breaks a unique constraint, in its     *)
(* currency or in another one: network and token are left at their         *)
(* defaults, and unique for a merchant.                                    *)
CreateWallet(r) ==
    /\ request[r].at = "create"
    /\ LET m == MerchantOf[r] IN
       IF derivationIndex[m] = NoWallet
       THEN /\ derivationIndex' = [derivationIndex EXCEPT ![m] = request[r].index]
            /\ walletCrypto' = [walletCrypto EXCEPT ![m] = currency[r]]
            /\ GoTo(r, "incr")
       ELSE GoTo(r, "failed") /\ UNCHANGED <<walletCrypto, derivationIndex>>
    /\ UNCHANGED <<paymentIndex, address>>

---------------------------------------------------------------------------
(* generatePaymentAddress()                                                *)

IncrementIndex(r) ==
    /\ request[r].at = "incr"
    /\ LET m == MerchantOf[r]
           i == paymentIndex[m] + 1
       IN  /\ paymentIndex' = [paymentIndex EXCEPT ![m] = i]
           /\ GoToWith(r, IF i = 1 THEN "seed" ELSE "pay", i)
    /\ UNCHANGED <<walletCrypto, derivationIndex, address>>

CountPayments(r) ==
    /\ request[r].at = "seed"
    /\ LET existing == Cardinality({p \in DOMAIN address :
              MerchantOf[p] = MerchantOf[r] /\ currency[p] = currency[r]}) IN
       IF existing > 0 THEN GoToWith(r, "set", existing + 1) ELSE GoTo(r, "pay")
    /\ UNCHANGED <<walletCrypto, derivationIndex, paymentIndex, address>>

(* Seeded fault: the counter is set to the number of payments.             *)
SetIndexToCount(r) ==
    /\ request[r].at = "set"
    /\ paymentIndex' = [paymentIndex EXCEPT ![MerchantOf[r]] = request[r].index - 1]
    /\ GoTo(r, "pay")
    /\ UNCHANGED <<walletCrypto, derivationIndex, address>>

SetIndex(r) ==
    /\ request[r].at = "set"
    /\ paymentIndex' = [paymentIndex EXCEPT ![MerchantOf[r]] = request[r].index]
    /\ GoTo(r, "pay")
    /\ UNCHANGED <<walletCrypto, derivationIndex, address>>

(* createPayment() writes the row with the address it was given.           *)
CreatePaymentRow(r) ==
    /\ request[r].at = "pay"
    /\ \/ /\ address' = [p \in DOMAIN address \cup {r} |->
                            IF p = r
                            THEN <<PathOf[currency[r]], derivationIndex[MerchantOf[r]],
                                   request[r].index>>
                            ELSE address[p]]
          /\ GoTo(r, "done")
       \/ "db" \in faults /\ GoTo(r, "failed") /\ UNCHANGED address
    /\ UNCHANGED <<walletCrypto, derivationIndex, paymentIndex>>

---------------------------------------------------------------------------
(* Redis loses the counter of a merchant.                                  *)
LoseCounter(m) ==
    /\ "loses" \in faults
    /\ paymentIndex' = [paymentIndex EXCEPT ![m] = 0]
    /\ UNCHANGED <<walletCrypto, derivationIndex, request, address>>

UnderWay(r) == request[r].at \notin {"no", "done", "failed"}
First(r) == request[r].at \in {"count", "create", "seed", "set"}
Overlap == \E r, s \in Requests : r # s /\ First(r) /\ UnderWay(s)

AddressStep(r) ==
    \/ FindWallet(r) \/ CountWallets(r) \/ CreateWallet(r)
    \/ IncrementIndex(r) \/ CountPayments(r) \/ SetIndex(r) \/ CreatePaymentRow(r)

AddressNext ==
    /\ \/ \E r \in Requests : AddressStep(r)
       \/ \E m \in Merchants : LoseCounter(m)
    /\ overlapped' = (overlapped \/ Overlap')
    /\ UNCHANGED <<faults, currency>>

---------------------------------------------------------------------------
(* Properties                                                              *)

Distinct ==
    \A p, q \in DOMAIN address :
        p # q /\ currency[p] = currency[q] => address[p] # address[q]

(* Two payments in one currency have different addresses, also when Redis  *)
(* loses a counter or payments are given up after they got their index,    *)
(* though not when both happen, and if no other request was under way      *)
(* while a wallet was created or a counter seeded.  Payments in two        *)
(* currencies that share a path may have the same address.                 *)
AddressesDistinct == ~overlapped /\ ~({"loses", "db"} \subseteq faults) => Distinct

(* wallet.service.ts:73: the counter in Redis guarantees unique payment    *)
(* indices even under concurrent requests: without any fault, no two       *)
(* payments of a merchant have the same address.                           *)
AddressesUnique ==
    faults = {} =>
        \A p, q \in DOMAIN address :
            p # q /\ MerchantOf[p] = MerchantOf[q] => address[p] # address[q]
=============================================================================
