------------------------------- MODULE HotWallet -------------------------------
(***************************************************************************)
(* Sweeps from the hot to the cold wallet of one currency (src/backend/    *)
(* src/services/wallet-management.service.ts): an administrator's          *)
(* requests and the automatic check, which run concurrently.  The chain is *)
(* external; only sweeps write the recorded balances.                      *)
(***************************************************************************)
EXTENDS Integers

CONSTANTS
    Sweeps,          \* bound: calls of sweepToCold()
    FirstBalance,    \* of the hot wallet, recorded and on chain
    HotMinAmount, HotMaxAmount

(* What the composing module assumes of the constants.                     *)
WalletConstants ==
    FirstBalance \in Nat /\ HotMinAmount \in Nat /\ HotMaxAmount \in Nat

VARIABLES
    faults,                  \* what may go wrong; never changes
    hotBalance, coldBalance, \* platformWallet.balance
    hotChain, coldChain,     \* the balances on chain
    sweep,                   \* call -> [at, amount, read]
    lost                     \* history: a sweep ended after it was sent and
                             \* before it was recorded

walletVars == <<hotBalance, coldBalance, hotChain, coldChain, sweep, lost>>

SweepSteps == {"no", "check", "read", "send", "hot", "cold", "ended"}

WalletTypeOK ==
    /\ {hotBalance, coldBalance} \subseteq Int
    /\ {hotChain, coldChain} \subseteq Nat
    /\ sweep \in [Sweeps -> [at : SweepSteps, amount : Nat, read : Int]]
    /\ lost \in BOOLEAN

WalletInit ==
    /\ hotBalance = FirstBalance /\ hotChain = FirstBalance
    /\ coldBalance = 0 /\ coldChain = 0
    /\ sweep = [s \in Sweeps |-> [at |-> "no", amount |-> 0, read |-> 0]]
    /\ lost = FALSE

SweepAt(s, step) == sweep' = [sweep EXCEPT ![s].at = step]

---------------------------------------------------------------------------
(* sweepToCold() is called by an administrator or by the check.            *)
StartSweep(s) ==
    /\ sweep[s].at = "no"
    /\ \E step \in {"check", "read"} : SweepAt(s, step)
    /\ UNCHANGED <<hotBalance, coldBalance, hotChain, coldChain, lost>>

(* autoSweepCheck(): the call reads the balance again.                     *)
AutoSweepCheck(s) ==
    /\ sweep[s].at = "check"
    /\ SweepAt(s, IF hotBalance > HotMaxAmount THEN "read" ELSE "ended")
    /\ UNCHANGED <<hotBalance, coldBalance, hotChain, coldChain, lost>>

(* The administrator's amount, or everything above the minimum.            *)
ReadBalance(s) ==
    /\ sweep[s].at = "read"
    /\ \/ \E amount \in (1..FirstBalance) \cup {hotBalance - HotMinAmount} :
             /\ amount > 0 /\ amount <= hotBalance
             /\ sweep' = [sweep EXCEPT ![s] =
                   [at |-> "send", amount |-> amount, read |-> hotBalance]]
       \/ SweepAt(s, "ended")
    /\ UNCHANGED <<hotBalance, coldBalance, hotChain, coldChain, lost>>

SendTransaction(s) ==
    /\ sweep[s].at = "send"
    /\ \/ /\ sweep[s].amount <= hotChain
          /\ hotChain' = hotChain - sweep[s].amount
          /\ coldChain' = coldChain + sweep[s].amount
          /\ \/ SweepAt(s, "hot") /\ UNCHANGED lost
             \/ "node" \in faults /\ SweepAt(s, "ended") /\ lost' = TRUE
       \/ /\ sweep[s].amount > hotChain \/ "node" \in faults
          /\ SweepAt(s, "ended")
          /\ UNCHANGED <<hotChain, coldChain, lost>>
    /\ UNCHANGED <<hotBalance, coldBalance>>

(* Seeded fault: the balance read before the transfer is written back.     *)
WriteHotBalance(s) ==
    /\ sweep[s].at = "hot"
    /\ hotBalance' = sweep[s].read - sweep[s].amount
    /\ SweepAt(s, "cold")
    /\ UNCHANGED <<coldBalance, hotChain, coldChain, lost>>

DecrementHot(s) ==
    /\ sweep[s].at = "hot"
    /\ hotBalance' = hotBalance - sweep[s].amount
    /\ SweepAt(s, "cold")
    /\ UNCHANGED <<coldBalance, hotChain, coldChain, lost>>

IncrementCold(s) ==
    /\ sweep[s].at = "cold"
    /\ coldBalance' = coldBalance + sweep[s].amount
    /\ SweepAt(s, "ended")
    /\ UNCHANGED <<hotBalance, hotChain, coldChain, lost>>

(* A database call throws or the process dies.                             *)
SweepFails(s) ==
    /\ faults \cap {"db", "dies"} # {}
    /\ sweep[s].at \notin {"no", "ended"}
    /\ SweepAt(s, "ended")
    /\ lost' = (lost \/ sweep[s].at \in {"hot", "cold"})
    /\ UNCHANGED <<hotBalance, coldBalance, hotChain, coldChain>>

(* Customers' coins arrive and withdrawals leave.                          *)
Traffic ==
    /\ hotChain' \in {hotChain - 1, hotChain + 1} \cap 0..FirstBalance + 1
    /\ UNCHANGED <<hotBalance, coldBalance, coldChain, sweep, lost>>

WalletNext ==
    /\ \/ \E s \in Sweeps :
             \/ StartSweep(s) \/ AutoSweepCheck(s) \/ ReadBalance(s) \/ SendTransaction(s)
             \/ DecrementHot(s) \/ IncrementCold(s) \/ SweepFails(s)
       \/ Traffic
    /\ UNCHANGED faults

---------------------------------------------------------------------------
(* Properties                                                              *)

Idle == \A s \in Sweeps : sweep[s].at \in {"no", "check", "read", "send", "ended"}

(* Sweeps that run at once and read the same balance still record exactly  *)
(* what reached the cold wallet, on both sides, once their updates are     *)
(* through, unless one of them failed after its transfer.                  *)
SweepsAreRecorded ==
    Idle /\ ~lost =>
        /\ coldBalance = coldChain
        /\ hotBalance = FirstBalance - coldChain
=============================================================================
