-------------------------------- MODULE Refunds --------------------------------
(***************************************************************************)
(* The refunds of one payment (src/backend/src/services/                   *)
(* refund.service.ts): requests that create a refund and requests that     *)
(* process one, in any order and in several API processes.                 *)
(***************************************************************************)
EXTENDS Integers, Functions

CONSTANTS
    RefundIds,       \* bound: calls of createRefund(), each making one refund
    Processings,     \* bound: calls of processRefund()
    PaymentAmount    \* payment.cryptoAmount

NoRefund == 0

(* What the composing module assumes of the constants.                     *)
RefundsConstants ==
    RefundIds \subseteq Nat \ {NoRefund} /\ PaymentAmount \in Nat \ {0}

VARIABLES
    faults,        \* what may go wrong; never changes
    paymentStatus, \* of the payment; it was PAID
    refunds,       \* id -> [status, amount, toAddress, debits], once created
    creation,      \* id -> where createRefund() is, and what it has read
    processing     \* call -> where processRefund() is

refundVars == <<paymentStatus, refunds, creation, processing>>

Amounts == 0..PaymentAmount

RefundsTypeOK ==
    /\ paymentStatus \in {"PAID", "REFUNDED"}
    /\ \A i \in DOMAIN refunds :
          /\ i \in RefundIds
          /\ refunds[i] \in [status : {"PENDING", "PROCESSING", "COMPLETED", "FAILED"},
                             amount : Amounts, toAddress : BOOLEAN, debits : Nat]
    /\ creation \in [RefundIds -> [at : {"no", "sum", "create", "mark", "ended"},
                                   amount : Amounts, full : BOOLEAN]]
    /\ processing \in [Processings -> [at : {"no", "mark", "complete", "debit", "notify", "fail",
                                             "ended"},
                                       refund : RefundIds \cup {NoRefund}]]

RefundsInit ==
    /\ paymentStatus = "PAID"
    /\ refunds = [i \in {} |-> 0]
    /\ creation = [i \in RefundIds |-> [at |-> "no", amount |-> 0, full |-> FALSE]]
    /\ processing = [p \in Processings |-> [at |-> "no", refund |-> NoRefund]]

(* Seeded fault: a refund being processed is overlooked.                   *)
CountedUnlessProcessed == {"PENDING", "COMPLETED"}

(* Existing refunds whose amount createRefund() adds up.                   *)
Counted == {"PENDING", "PROCESSING", "COMPLETED"}

TotalOf(statuses) ==
    SumFunctionOnSet([i \in DOMAIN refunds |-> refunds[i].amount],
                     {i \in DOMAIN refunds : refunds[i].status \in statuses})

CreationAt(i, step) == creation' = [creation EXCEPT ![i].at = step]
ProcessingAt(p, step) == processing' = [processing EXCEPT ![p].at = step]
Alone(others) == "overlaps" \in faults \/ \A o \in others : o.at \in {"no", "ended"}

---------------------------------------------------------------------------
(* createRefund()                                                          *)

FindPayment(i) ==
    /\ creation[i].at = "no" /\ Alone({creation[j] : j \in RefundIds})
    /\ CreationAt(i, IF paymentStatus = "PAID" THEN "sum" ELSE "ended")
    /\ UNCHANGED <<paymentStatus, refunds, processing>>

(* The amount is the caller's, or what is left.                            *)
SumRefunds(i) ==
    /\ creation[i].at = "sum"
    /\ LET total == TotalOf(Counted) IN
       \/ \E amount \in (1..PaymentAmount) \cup {PaymentAmount - total} :
             /\ amount > 0 /\ total + amount <= PaymentAmount
             /\ creation' = [creation EXCEPT ![i] =
                   [at |-> "create", amount |-> amount, full |-> total + amount = PaymentAmount]]
       \/ CreationAt(i, "ended")
    /\ UNCHANGED <<paymentStatus, refunds, processing>>

CreateRefund(i) ==
    /\ creation[i].at = "create"
    /\ \E toAddress \in BOOLEAN :
          refunds' = [j \in DOMAIN refunds \cup {i} |->
              IF j = i
              THEN [status |-> "PENDING", amount |-> creation[i].amount,
                    toAddress |-> toAddress, debits |-> 0]
              ELSE refunds[j]]
    /\ CreationAt(i, "mark")
    /\ UNCHANGED <<paymentStatus, processing>>

(* The webhook that follows changes nothing here, whether it throws or not.*)
MarkRefunded(i) ==
    /\ creation[i].at = "mark"
    /\ paymentStatus' = IF creation[i].full THEN "REFUNDED" ELSE paymentStatus
    /\ CreationAt(i, "ended")
    /\ UNCHANGED <<refunds, processing>>

---------------------------------------------------------------------------
(* processRefund()                                                         *)

SetRefund(p, status) ==
    refunds' = [refunds EXCEPT ![processing[p].refund].status = status]

FindRefund(p) ==
    /\ processing[p].at = "no" /\ Alone({processing[q] : q \in Processings})
    /\ \E i \in DOMAIN refunds :
          processing' = [processing EXCEPT ![p] =
              [at |-> IF refunds[i].status = "PENDING" THEN "mark" ELSE "ended", refund |-> i]]
    /\ UNCHANGED <<paymentStatus, refunds, creation>>

(* Without an address the refund is left for somebody to pay by hand.      *)
MarkProcessing(p) ==
    /\ processing[p].at = "mark"
    /\ SetRefund(p, "PROCESSING")
    /\ ProcessingAt(p, IF refunds[processing[p].refund].toAddress THEN "complete" ELSE "ended")
    /\ UNCHANGED <<paymentStatus, creation>>

Complete(p) ==
    /\ processing[p].at = "complete"
    /\ SetRefund(p, "COMPLETED")
    /\ ProcessingAt(p, "debit")
    /\ UNCHANGED <<paymentStatus, creation>>

Debit(p) ==
    /\ processing[p].at = "debit"
    /\ refunds' = [refunds EXCEPT ![processing[p].refund].debits = @ + 1]
    /\ ProcessingAt(p, "notify")
    /\ UNCHANGED <<paymentStatus, creation>>

Notify(p) ==
    /\ processing[p].at = "notify"
    /\ \/ ProcessingAt(p, "ended")
       \/ faults \cap {"redis", "db"} # {} /\ ProcessingAt(p, "fail")
    /\ UNCHANGED <<paymentStatus, refunds, creation>>

(* The catch clause.                                                       *)
MarkFailed(p) ==
    /\ processing[p].at = "fail"
    /\ SetRefund(p, "FAILED")
    /\ ProcessingAt(p, "ended")
    /\ UNCHANGED <<paymentStatus, creation>>

---------------------------------------------------------------------------
DbThrows ==
    /\ "db" \in faults
    /\ \/ \E i \in RefundIds :
             /\ creation[i].at \in {"sum", "create", "mark"} /\ CreationAt(i, "ended")
             /\ UNCHANGED processing
       \/ \E p \in Processings :
             /\ \/ processing[p].at \in {"mark", "fail"} /\ ProcessingAt(p, "ended")
                \/ processing[p].at \in {"complete", "debit"} /\ ProcessingAt(p, "fail")
             /\ UNCHANGED creation
    /\ UNCHANGED <<paymentStatus, refunds>>

(* The process of a call dies between two awaits.                          *)
CallDies ==
    /\ "dies" \in faults
    /\ \/ \E i \in RefundIds :
             creation[i].at # "no" /\ CreationAt(i, "ended") /\ UNCHANGED processing
       \/ \E p \in Processings :
             processing[p].at # "no" /\ ProcessingAt(p, "ended") /\ UNCHANGED creation
    /\ UNCHANGED <<paymentStatus, refunds>>

RefundsNext ==
    /\ \/ \E i \in RefundIds :
             FindPayment(i) \/ SumRefunds(i) \/ CreateRefund(i) \/ MarkRefunded(i)
       \/ \E p \in Processings :
             FindRefund(p) \/ MarkProcessing(p) \/ Complete(p) \/ Debit(p) \/ Notify(p)
                \/ MarkFailed(p)
       \/ DbThrows \/ CallDies
    /\ UNCHANGED faults

---------------------------------------------------------------------------
(* Properties                                                              *)

Debited == SumFunction([i \in DOMAIN refunds |-> refunds[i].amount * refunds[i].debits])

(* While refunds are created one at a time and processed one at a time,    *)
(* whatever a creation and a processing do to each other, the refunds of a *)
(* payment that have not failed never exceed it.  Nor does what is taken   *)
(* from the merchant, as long as no call fails after the debit.            *)
RefundsWithinPayment ==
    "overlaps" \notin faults =>
        /\ TotalOf({"PENDING", "PROCESSING", "COMPLETED"}) <= PaymentAmount
        /\ faults \cap {"redis", "db"} = {} => Debited <= PaymentAmount
=============================================================================
