------------------------ MODULE WithdrawalPayout_proofs ------------------------
(***************************************************************************)
(* Proofs about WithdrawalPayout: its types, and, as long as every send is *)
(* known to have happened, that a withdrawal is settled at most once and   *)
(* that no more leaves the wallet than was in it.                          *)
(*                                                                         *)
(* What is inductive is who carries a withdrawal: a request, an item of    *)
(* the queue or a job, never two of them, and whoever carries it knows     *)
(* whether it was debited, sent or neither.                                *)
(***************************************************************************)
EXTENDS WithdrawalPayout, SequenceTheorems, FiniteLemmas, TLAPS

Untouched(w) == ~debited[w] /\ onchain[w] = 0 /\ credits[w] = 0
Reserved(w) == debited[w] /\ onchain[w] = 0 /\ credits[w] = 0
Sent(w) == debited[w] /\ onchain[w] = 1 /\ credits[w] = 0

(* A withdrawal without a row was not touched, and one that was not        *)
(* debited neither sent nor given back.                                    *)
Accounts ==
    \A w \in Withdrawals :
        /\ status[w] = "NONE" => Untouched(w)
        /\ ~debited[w] => Untouched(w)
        /\ onchain[w] + credits[w] <= 1

RequestsKnow ==
    \A r \in requests :
        /\ status[r.w] # "NONE"
        /\ r.at \in {"debit", "markFailed"} => Untouched(r.w)
        /\ r.at = "push" => Reserved(r.w)

(* What creditBalance pushes for auto-withdraw is about no withdrawal.     *)
ItemsKnow ==
    \A i \in DOMAIN queue :
        queue[i].id # NoId =>
            status[queue[i].id] # "NONE" /\ queue[i].complete /\ Reserved(queue[i].id)

JobsKnow ==
    \A j \in jobs :
        j.w # NoId =>
            /\ status[j.w] # "NONE" /\ j.complete
            /\ j.at \in {"start", "send", "fail", "refund"} => Reserved(j.w)
            /\ j.at \in {"complete", "notify"} => Sent(j.w)

RequestsApart ==
    \A r \in requests :
        /\ \A s \in requests : r.w = s.w => r = s
        /\ \A i \in DOMAIN queue : queue[i].id # r.w
        /\ \A j \in jobs : j.w # r.w

ItemsApart ==
    \A i \in DOMAIN queue : queue[i].id # NoId =>
        /\ \A k \in DOMAIN queue : queue[i].id = queue[k].id => i = k
        /\ \A j \in jobs : j.w # queue[i].id

JobsApart == \A j, k \in jobs : j.w # NoId /\ j.w = k.w => j = k

Carried ==
    /\ Accounts
    /\ RequestsKnow /\ ItemsKnow /\ JobsKnow
    /\ RequestsApart /\ ItemsApart /\ JobsApart

IInv == TypeOK /\ (SendsAreKnown => Carried)
---------------------------------------------------------------------------
(* The queue                                                               *)

(* LPUSH puts one item before the others.                                  *)
LEMMA PushShape ==
    ASSUME NEW w, NEW complete, [id |-> w, complete |-> complete] \in QueueItem,
           queue \in Seq(QueueItem), Lpush(w, complete)
    PROVE  /\ queue' \in Seq(QueueItem)
           /\ DOMAIN queue' = 1 .. Len(queue) + 1
           /\ queue'[1] = [id |-> w, complete |-> complete]
           /\ \A i \in 2 .. Len(queue) + 1 :
                  i - 1 \in DOMAIN queue /\ queue'[i] = queue[i - 1]
<1> DEFINE first == <<[id |-> w, complete |-> complete]>>
<1>1. first \in Seq(QueueItem) /\ Len(first) = 1 /\ first[1] = [id |-> w, complete |-> complete]
  OBVIOUS
<1>2. queue' = first \o queue
  BY DEF Lpush
<1> HIDE DEF first
<1>3. /\ first \o queue \in Seq(QueueItem)
      /\ Len(first \o queue) = Len(first) + Len(queue)
      /\ \A i \in 1 .. Len(first) + Len(queue) : (first \o queue)[i] =
             IF i <= Len(first) THEN first[i] ELSE queue[i - Len(first)]
  BY <1>1, ConcatProperties
<1>4. Len(queue) \in Nat /\ DOMAIN queue = 1 .. Len(queue)
  OBVIOUS
<1>5. DOMAIN queue' = 1 .. Len(queue) + 1
  BY <1>1, <1>2, <1>3, <1>4
<1>6. queue'[1] = [id |-> w, complete |-> complete]
  BY <1>1, <1>2, <1>3, <1>4
<1>7. ASSUME NEW i \in 2 .. Len(queue) + 1
      PROVE  i - 1 \in DOMAIN queue /\ queue'[i] = queue[i - 1]
  BY <1>1, <1>2, <1>3, <1>4
<1> QED BY <1>2, <1>3, <1>5, <1>6, <1>7

(* An LPUSH that was sent again still leaves a queue of items.             *)
LEMMA PushTwiceShape ==
    ASSUME NEW w, NEW complete, [id |-> w, complete |-> complete] \in QueueItem,
           queue \in Seq(QueueItem), LpushTwice(w, complete)
    PROVE  queue' \in Seq(QueueItem)
<1>1. <<[id |-> w, complete |-> complete], [id |-> w, complete |-> complete]>> \in Seq(QueueItem)
  OBVIOUS
<1>2. queue' = <<[id |-> w, complete |-> complete], [id |-> w, complete |-> complete]>> \o queue
  BY DEF LpushTwice
<1> QED BY <1>1, <1>2, ConcatProperties

(* RPOP takes the last item and leaves the others where they are.          *)
LEMMA PopShape ==
    ASSUME queue \in Seq(QueueItem), queue # <<>>,
           queue' = SubSeq(queue, 1, Len(queue) - 1)
    PROVE  /\ queue' \in Seq(QueueItem)
           /\ Len(queue) \in DOMAIN queue /\ queue[Len(queue)] \in QueueItem
           /\ DOMAIN queue' = 1 .. Len(queue) - 1
           /\ \A i \in DOMAIN queue' :
                  i \in DOMAIN queue /\ i # Len(queue) /\ queue'[i] = queue[i]
<1>1. Len(queue) \in Nat \ {0} /\ DOMAIN queue = 1 .. Len(queue)
  BY EmptySeq
<1>2. \A i \in 1 .. Len(queue) : queue[i] \in QueueItem
  OBVIOUS
<1>3. /\ SubSeq(queue, 1, Len(queue) - 1) \in Seq(QueueItem)
      /\ Len(SubSeq(queue, 1, Len(queue) - 1)) = Len(queue) - 1
      /\ \A i \in 1 .. Len(queue) - 1 :
             SubSeq(queue, 1, Len(queue) - 1)[i] = queue[i]
  <2>1. 1 \in Int /\ Len(queue) - 1 \in Int /\ \A i \in 1 .. Len(queue) - 1 : queue[i] \in QueueItem
    BY <1>1, <1>2
  <2>2. /\ SubSeq(queue, 1, Len(queue) - 1) \in Seq(QueueItem)
        /\ Len(SubSeq(queue, 1, Len(queue) - 1)) =
              IF 1 <= Len(queue) - 1 THEN Len(queue) - 1 - 1 + 1 ELSE 0
        /\ \A i \in 1 .. Len(queue) - 1 - 1 + 1 :
               SubSeq(queue, 1, Len(queue) - 1)[i] = queue[1 + i - 1]
    BY <2>1, SubSeqProperties
  <2> QED BY <1>1, <2>2
<1> QED BY <1>1, <1>2, <1>3

---------------------------------------------------------------------------
(* Types                                                                   *)

LEMMA TypeInit == Init => TypeOK
BY RecordsAssumption, PayoutAssumption
   DEF Init, PayoutInit, TypeOK, RecordsTypeOK, WithdrawalStatus

(* A step of a request keeps the types.                                    *)
LEMMA TypeRequest ==
    ASSUME TypeOK, NEW r \in requests, RequestStep(r) \/ RequestDies(r), UNCHANGED faults
    PROVE  TypeOK'
<1>1. r \in Request /\ r.w \in Withdrawals
  BY DEF TypeOK, Request
<1>2. \A step \in {"debit", "markFailed", "push"} : To(r, step) => requests' \subseteq Request
  BY <1>1 DEF TypeOK, To, Request
<1>3. CASE DebitBalance(r)
  <2>1. balance' \in Nat
    BY <1>1, <1>3, RecordsAssumption DEF DebitBalance, TypeOK, RecordsTypeOK
  <2>2. debited' \in [Withdrawals -> BOOLEAN]
    BY <1>1, <1>3 DEF DebitBalance, TypeOK, RecordsTypeOK
  <2> QED BY <1>2, <1>3, <2>1, <2>2 DEF DebitBalance, TypeOK, RecordsTypeOK
<1>4. CASE DebitThrows(r)
  BY <1>2, <1>4 DEF DebitThrows, TypeOK, RecordsTypeOK, recordVars
<1>5. CASE MarkDebitFailed(r)
  BY <1>1, <1>5 DEF MarkDebitFailed, SetStatus, WithdrawalStatus, TypeOK, RecordsTypeOK
<1>6. CASE PushRequest(r)
  <2>1. [id |-> r.w, complete |-> TRUE] \in QueueItem
    BY <1>1 DEF QueueItem
  <2>2. queue' \in Seq(QueueItem)
    BY <1>6, <2>1, PushShape, PushTwiceShape DEF PushRequest, TypeOK, RecordsTypeOK
  <2> QED BY <1>6, <2>2 DEF PushRequest, TypeOK, RecordsTypeOK
<1>7. CASE RequestDies(r)
  BY <1>7 DEF RequestDies, TypeOK, RecordsTypeOK, recordVars
<1> QED BY <1>3, <1>4, <1>5, <1>6, <1>7 DEF RequestStep

(* A step of a job keeps the types.                                        *)
LEMMA TypeJob ==
    ASSUME TypeOK, NEW j \in jobs, JobStep(j) \/ JobDies(j), UNCHANGED faults
    PROVE  TypeOK'
<1>1. /\ j \in Job /\ j.w \in Withdrawals \cup {NoId}
      /\ j.complete \/ j.at \in {"send", "complete", "notify", "autoWithdraw"} => j.w \in Withdrawals
  BY DEF TypeOK, Job
<1>2. /\ \A step \in {"start", "fail", "refund"} : Goto(j, step) => jobs' \subseteq Job
      /\ \A step \in {"send", "complete", "notify", "autoWithdraw"} :
             j.w \in Withdrawals /\ Goto(j, step) => jobs' \subseteq Job
  BY <1>1 DEF TypeOK, Goto, Job
<1>3. Done(j) => jobs' \subseteq Job
  BY DEF TypeOK, Done
<1>4. CASE StartExecution(j)
  <2>1. status' \in [Withdrawals -> WithdrawalStatus \cup {"NONE"}]
    BY <1>1, <1>4 DEF StartExecution, SetStatus, WithdrawalStatus, TypeOK, RecordsTypeOK
  <2>2. jobs' \subseteq Job
    BY <1>1, <1>2, <1>4 DEF StartExecution
  <2> QED BY <1>4, <2>1, <2>2 DEF StartExecution, TypeOK, RecordsTypeOK
<1>5. CASE SendTransaction(j)
  <2>1. onchain' \in [Withdrawals -> Nat]
    BY <1>1, <1>5 DEF SendTransaction, Broadcast, TypeOK
  <2>2. jobs' \subseteq Job
    BY <1>1, <1>2, <1>5 DEF SendTransaction
  <2> QED BY <1>5, <2>1, <2>2 DEF SendTransaction, TypeOK, RecordsTypeOK, recordVars
<1>6. CASE MarkCompleted(j)
  <2>1. status' \in [Withdrawals -> WithdrawalStatus \cup {"NONE"}]
    BY <1>1, <1>6 DEF MarkCompleted, SetStatus, WithdrawalStatus, TypeOK, RecordsTypeOK
  <2>2. jobs' \subseteq Job
    BY <1>1, <1>2, <1>6 DEF MarkCompleted
  <2> QED BY <1>6, <2>1, <2>2 DEF MarkCompleted, TypeOK, RecordsTypeOK
<1>7. CASE NotifyCompleted(j)
  <2>1. jobs' \subseteq Job
    BY <1>2, <1>3, <1>7 DEF NotifyCompleted
  <2> QED BY <1>7, <2>1 DEF NotifyCompleted, TypeOK, RecordsTypeOK, recordVars
<1>8. CASE MarkFailed(j)
  <2>1. status' \in [Withdrawals -> WithdrawalStatus \cup {"NONE"}]
    BY <1>8 DEF MarkFailed, WithdrawalStatus, TypeOK, RecordsTypeOK
  <2>2. jobs' \subseteq Job
    BY <1>2, <1>3, <1>8 DEF MarkFailed
  <2> QED BY <1>8, <2>1, <2>2 DEF MarkFailed, TypeOK, RecordsTypeOK
<1>9. CASE RefundFailed(j)
  <2>1. credits' \in [Withdrawals -> Nat] /\ balance' \in Nat
    <3>1. CASE j.complete /\ Credit(j.w)
      <4>1. j.w \in Withdrawals /\ Amount[j.w] \in Nat
        BY <1>1, <3>1, RecordsAssumption
      <4> QED BY <3>1, <4>1 DEF Credit, TypeOK, RecordsTypeOK
    <3>2. CASE UNCHANGED <<credits, balance>>
      BY <3>2 DEF TypeOK, RecordsTypeOK
    <3> QED BY <1>9, <3>1, <3>2 DEF RefundFailed
  <2>2. jobs' \subseteq Job
    BY <1>1, <1>2, <1>3, <1>9 DEF RefundFailed
  <2> QED BY <1>9, <2>1, <2>2 DEF RefundFailed, TypeOK, RecordsTypeOK
<1>10. CASE JobDies(j)
  BY <1>3, <1>10 DEF JobDies, TypeOK, RecordsTypeOK, recordVars
<1>11. CASE AutoWithdraw(j)
  <2>1. [id |-> NoId, complete |-> FALSE] \in QueueItem
    BY DEF QueueItem
  <2>2. queue' \in Seq(QueueItem)
    BY <1>11, <2>1, PushShape, PushTwiceShape DEF AutoWithdraw, TypeOK, RecordsTypeOK
  <2> QED BY <1>3, <1>11, <2>2 DEF AutoWithdraw, TypeOK, RecordsTypeOK
<1> QED BY <1>4, <1>5, <1>6, <1>7, <1>8, <1>9, <1>10, <1>11 DEF JobStep

LEMMA TypeNext == TypeOK /\ [Next]_vars => TypeOK'
<1> SUFFICES ASSUME TypeOK, [Next]_vars PROVE TypeOK'
  OBVIOUS
<1>1. ASSUME NEW w \in Withdrawals, RequestWithdrawal(w), UNCHANGED faults PROVE TypeOK'
  <2>1. status' \in [Withdrawals -> WithdrawalStatus \cup {"NONE"}]
    BY <1>1 DEF RequestWithdrawal, SetStatus, WithdrawalStatus, TypeOK, RecordsTypeOK
  <2>2. requests' \subseteq Request
    BY <1>1 DEF RequestWithdrawal, Request, TypeOK
  <2> QED BY <1>1, <2>1, <2>2 DEF RequestWithdrawal, TypeOK, RecordsTypeOK
<1>2. ASSUME NEW i \in 1 .. MaxJobs, PopQueue(i), UNCHANGED faults PROVE TypeOK'
  <2>1. queue' \in Seq(QueueItem) /\ queue[Len(queue)] \in QueueItem
    BY <1>2, PopShape DEF PopQueue, TypeOK, RecordsTypeOK
  <2>2. jobs' \subseteq Job
    <3> DEFINE item == queue[Len(queue)]
    <3> DEFINE new == [id |-> i, w |-> item.id, complete |-> item.complete, at |-> "start"]
    <3>1. new \in Job
      BY <2>1 DEF Job, QueueItem
    <3>2. jobs' = jobs \cup {new}
      BY <1>2 DEF PopQueue
    <3> QED BY <3>1, <3>2 DEF TypeOK
  <2> QED BY <1>2, <2>1, <2>2 DEF PopQueue, TypeOK, RecordsTypeOK
<1>3. CASE UNCHANGED vars
  BY <1>3 DEF vars, recordVars, payoutVars, TypeOK, RecordsTypeOK
<1> QED BY <1>1, <1>2, <1>3, TypeRequest, TypeJob DEF Next

(* The rows, the wallet, the queue, the requests and the executions keep   *)
(* their types: no status outside the enumeration is ever written, and the *)
(* balance never goes below zero.                                          *)
THEOREM TypeCorrect == Spec => []TypeOK
BY TypeInit, TypeNext, PTL DEF Spec

---------------------------------------------------------------------------
(* Who carries a withdrawal                                                *)

LEMMA CarriedInit == Init => Carried
BY DEF Init, PayoutInit, Carried, Accounts, RequestsKnow, ItemsKnow, JobsKnow,
       RequestsApart, ItemsApart, JobsApart, Untouched

(* What requests, items and jobs carry are withdrawals.                    *)
CarryRows ==
    /\ \A r \in requests : r.w \in Withdrawals /\ r.w # NoId
    /\ \A i \in DOMAIN queue : queue[i].id # NoId => queue[i].id \in Withdrawals
    /\ \A j \in jobs :
           /\ j.w # NoId => j.w \in Withdrawals
           /\ j.w = NoId => ~j.complete /\ j.at \in {"start", "fail", "refund"}

LEMMA CarriersTyped == TypeOK => CarryRows
<1> SUFFICES ASSUME TypeOK PROVE CarryRows
  OBVIOUS
<1>1. \A r \in requests : r.w \in Withdrawals /\ r.w # NoId
  BY RecordsAssumption DEF TypeOK, Request
<1>2. \A i \in DOMAIN queue : queue[i].id # NoId => queue[i].id \in Withdrawals
  <2>1. queue \in Seq(QueueItem)
    BY DEF TypeOK, RecordsTypeOK
  <2>2. \A i \in DOMAIN queue : queue[i] \in QueueItem
    BY <2>1
  <2> QED BY <2>2 DEF QueueItem
<1>3. \A j \in jobs :
          /\ j.w # NoId => j.w \in Withdrawals
          /\ j.w = NoId => ~j.complete /\ j.at \in {"start", "fail", "refund"}
  BY RecordsAssumption DEF TypeOK, Job
<1> QED BY <1>1, <1>2, <1>3 DEF CarryRows

(* A new row is carried by nobody else: whoever carries a withdrawal has   *)
(* its row.                                                                *)
LEMMA CarriedRequestWithdrawal ==
    ASSUME TypeOK, Carried, NEW w \in Withdrawals, RequestWithdrawal(w)
    PROVE  Carried'
<1> DEFINE new == [w |-> w, at |-> "debit"]
<1>1. /\ requests' = requests \cup {new} /\ status' = [status EXCEPT ![w] = "PENDING"]
      /\ UNCHANGED <<debited, credits, queue, jobs, onchain>> /\ status[w] = "NONE"
  BY DEF RequestWithdrawal, SetStatus
<1>2. /\ Untouched(w)
      /\ \A r \in requests : r.w # w
      /\ \A i \in DOMAIN queue : queue[i].id # w
      /\ \A j \in jobs : j.w # w
  BY <1>1, RecordsAssumption DEF Carried, Accounts, RequestsKnow, ItemsKnow, JobsKnow
<1>3. status'[w] = "PENDING" /\ \A v \in Withdrawals \ {w} : status'[v] = status[v]
  BY <1>1 DEF TypeOK, RecordsTypeOK
<1>4. CarryRows
  BY CarriersTyped
<1>5. Accounts'
  BY <1>1, <1>2, <1>3 DEF Carried, Accounts, Untouched
<1>6. RequestsKnow'
  BY <1>1, <1>2, <1>3, <1>4 DEF CarryRows, Carried, RequestsKnow, Untouched, Reserved
<1>7. ItemsKnow'
  BY <1>1, <1>2, <1>3, <1>4 DEF CarryRows, Carried, ItemsKnow, Reserved
<1>8. JobsKnow'
  BY <1>1, <1>2, <1>3, <1>4 DEF CarryRows, Carried, JobsKnow, Reserved, Sent
<1>9. RequestsApart'
  BY <1>1, <1>2 DEF Carried, RequestsApart
<1>10. ItemsApart' /\ JobsApart'
  BY <1>1 DEF Carried, ItemsApart, JobsApart
<1> QED BY <1>5, <1>6, <1>7, <1>8, <1>9, <1>10 DEF Carried

(* Only the row, the wallet and the transactions of w change.              *)
OnlyAt(w) ==
    /\ \A v \in Withdrawals \ {w} :
           /\ status'[v] = status[v] /\ debited'[v] = debited[v]
           /\ onchain'[v] = onchain[v] /\ credits'[v] = credits[v]
    /\ status[w] # "NONE" => status'[w] # "NONE"

(* A request that goes on, or ends, and changes only what it carries.      *)
LEMMA CarriedRequestMoves ==
    ASSUME TypeOK, Carried, NEW r \in requests, NEW next \in Request, next.w = r.w,
           requests' \subseteq (requests \ {r}) \cup {next}, OnlyAt(r.w),
           UNCHANGED <<queue, jobs>>,
           next.at \in {"debit", "markFailed"} => Untouched(r.w)',
           next.at = "push" => Reserved(r.w)'
    PROVE  Carried'
<1>1. CarryRows /\ r.w \in Withdrawals
  BY CarriersTyped DEF CarryRows
<1>2. /\ \A s \in requests \ {r} : s.w # r.w
      /\ \A i \in DOMAIN queue : queue[i].id # r.w
      /\ \A j \in jobs : j.w # r.w
      /\ status'[r.w] # "NONE"
  BY DEF Carried, RequestsApart, RequestsKnow, OnlyAt
<1>3. next.at \in {"debit", "markFailed", "push"}
  BY DEF Request
<1>4. Untouched(r.w)' \/ Reserved(r.w)'
  BY <1>3
<1>5. Accounts'
  BY <1>1, <1>2, <1>4 DEF Carried, Accounts, OnlyAt, Untouched, Reserved
<1>6. RequestsKnow'
  BY <1>1, <1>2 DEF Carried, CarryRows, RequestsKnow, OnlyAt, Untouched, Reserved
<1>7. ItemsKnow'
  BY <1>1, <1>2 DEF Carried, CarryRows, ItemsKnow, OnlyAt, Reserved
<1>8. JobsKnow'
  BY <1>1, <1>2 DEF Carried, CarryRows, JobsKnow, OnlyAt, Reserved, Sent
<1>9. RequestsApart'
  BY <1>2 DEF Carried, RequestsApart
<1>10. ItemsApart' /\ JobsApart'
  BY DEF Carried, ItemsApart, JobsApart
<1> QED BY <1>5, <1>6, <1>7, <1>8, <1>9, <1>10 DEF Carried

(* A job that goes on, or ends, and changes only what it carries.          *)
LEMMA CarriedJobMoves ==
    ASSUME TypeOK, Carried, NEW j \in jobs, j.w # NoId, NEW next \in Job, next.w = j.w,
           next.complete, jobs' \subseteq (jobs \ {j}) \cup {next}, OnlyAt(j.w), Accounts',
           UNCHANGED <<queue, requests>>,
           next \in jobs' =>
               /\ next.at \in {"start", "send", "fail", "refund"} => Reserved(j.w)'
               /\ next.at \in {"complete", "notify"} => Sent(j.w)'
    PROVE  Carried'
<1>1. CarryRows /\ j.w \in Withdrawals
  BY CarriersTyped DEF CarryRows
<1>2. /\ \A k \in jobs \ {j} : k.w # j.w
      /\ \A i \in DOMAIN queue : queue[i].id # j.w
      /\ \A r \in requests : r.w # j.w
      /\ status'[j.w] # "NONE"
  BY DEF Carried, RequestsApart, ItemsApart, JobsApart, JobsKnow, OnlyAt
<1>3. RequestsKnow'
  BY <1>1, <1>2 DEF Carried, CarryRows, RequestsKnow, OnlyAt, Untouched, Reserved
<1>4. ItemsKnow'
  BY <1>1, <1>2 DEF Carried, CarryRows, ItemsKnow, OnlyAt, Reserved
<1>5. JobsKnow'
  BY <1>1, <1>2 DEF Carried, CarryRows, JobsKnow, OnlyAt, Reserved, Sent
<1>6. RequestsApart'
  BY <1>2 DEF Carried, RequestsApart
<1>7. ItemsApart'
  BY <1>2 DEF Carried, ItemsApart
<1>8. JobsApart'
  BY <1>2 DEF Carried, JobsApart
<1> QED BY <1>3, <1>4, <1>5, <1>6, <1>7, <1>8 DEF Carried

(* An execution that names no withdrawal may mark any row FAILED, but      *)
(* neither makes a row nor moves money.                                    *)
LEMMA CarriedAutoJob ==
    ASSUME TypeOK, Carried, NEW j \in jobs, j.w = NoId, JobStep(j) \/ JobDies(j)
    PROVE  Carried'
<1> USE DEF Goto, Done
<1>1. CarryRows /\ j \in Job /\ ~j.complete /\ j.at \in {"start", "fail", "refund"}
  BY CarriersTyped DEF CarryRows, TypeOK
<1>2. \A step \in {"fail", "refund"} : [j EXCEPT !.at = step].w = NoId
  BY <1>1 DEF Job
<1>3. /\ UNCHANGED <<debited, credits, onchain, queue, requests>>
      /\ \A v \in Withdrawals : status'[v] = "NONE" <=> status[v] = "NONE"
      /\ \A k \in jobs' : k.w = NoId \/ k \in jobs
  <2>1. CASE StartExecution(j)
    BY <1>1, <1>2, <2>1 DEF StartExecution
  <2>2. CASE MarkFailed(j)
    <3>1. \/ status' = [w \in Withdrawals |-> IF w \in NotFailed(j) THEN "FAILED" ELSE status[w]]
          \/ UNCHANGED status
      BY <2>2 DEF MarkFailed
    <3>2. \A v \in Withdrawals : status'[v] = "NONE" <=> status[v] = "NONE"
      BY <3>1 DEF NotFailed
    <3> QED BY <1>2, <2>2, <3>2 DEF MarkFailed
  <2>3. CASE RefundFailed(j)
    BY <1>1, <2>3 DEF RefundFailed
  <2>4. CASE JobDies(j)
    BY <2>4 DEF JobDies, recordVars
  <2>5. ~SendTransaction(j) /\ ~MarkCompleted(j) /\ ~NotifyCompleted(j) /\ ~AutoWithdraw(j)
    BY <1>1 DEF SendTransaction, MarkCompleted, NotifyCompleted, AutoWithdraw
  <2> QED BY <2>1, <2>2, <2>3, <2>4, <2>5 DEF JobStep
<1>4. Accounts' /\ RequestsKnow' /\ ItemsKnow'
  BY <1>1, <1>3 DEF Carried, CarryRows, Accounts, RequestsKnow, ItemsKnow, Untouched, Reserved
<1>5. JobsKnow'
  BY <1>1, <1>3 DEF Carried, CarryRows, JobsKnow, Reserved, Sent
<1>6. RequestsApart'
  BY <1>1, <1>3 DEF Carried, CarryRows, RequestsApart
<1>7. ItemsApart' /\ JobsApart'
  BY <1>3 DEF Carried, ItemsApart, JobsApart
<1> QED BY <1>4, <1>5, <1>6, <1>7 DEF Carried

(* An auto-withdraw item before the others is about none of the            *)
(* withdrawals they carry.                                                 *)
LEMMA CarriedAutoPush ==
    ASSUME TypeOK, Carried, Lpush(NoId, FALSE), jobs' \subseteq jobs,
           UNCHANGED <<status, debited, credits, onchain, requests>>
    PROVE  Carried'
<1>1. CarryRows /\ queue \in Seq(QueueItem)
  BY CarriersTyped DEF TypeOK, RecordsTypeOK
<1>2. DOMAIN queue = 1 .. Len(queue) /\ Len(queue) \in Nat
  BY <1>1
<1>3. /\ DOMAIN queue' = 1 .. Len(queue) + 1 /\ queue'[1] = [id |-> NoId, complete |-> FALSE]
      /\ \A i \in 2 .. Len(queue) + 1 : i - 1 \in DOMAIN queue /\ queue'[i] = queue[i - 1]
  <2>1. [id |-> NoId, complete |-> FALSE] \in QueueItem
    BY DEF QueueItem
  <2> QED BY <1>1, <2>1, PushShape, Zenon
<1>4. \A i \in DOMAIN queue' : queue'[i].id # NoId =>
          i # 1 /\ i - 1 \in DOMAIN queue /\ queue'[i] = queue[i - 1]
  BY <1>2, <1>3
<1>5. Accounts' /\ RequestsKnow' /\ JobsKnow' /\ JobsApart'
  BY DEF Carried, Accounts, RequestsKnow, JobsKnow, JobsApart, Untouched, Reserved, Sent
<1>6. ItemsKnow'
  BY <1>4 DEF Carried, ItemsKnow, Reserved
<1>7. RequestsApart'
  BY <1>1, <1>4 DEF Carried, CarryRows, RequestsApart
<1>8. ItemsApart'
  <2>1. ASSUME NEW i \in DOMAIN queue', NEW k \in DOMAIN queue', queue'[i].id # NoId,
               queue'[i].id = queue'[k].id
        PROVE  i = k
    <3>1. i - 1 = k - 1
      BY <1>4, <2>1 DEF Carried, ItemsApart
    <3> QED BY <1>3, <3>1
  <2>2. ASSUME NEW i \in DOMAIN queue', queue'[i].id # NoId
        PROVE  \A j \in jobs' : j.w # queue'[i].id
    BY <1>4, <2>2 DEF Carried, ItemsApart
  <2> QED BY <2>1, <2>2 DEF ItemsApart
<1> QED BY <1>5, <1>6, <1>7, <1>8 DEF Carried

(* A step of a request; its funds are reserved before it pushes its item.  *)
LEMMA CarriedRequest ==
    ASSUME TypeOK, Carried, SendsAreKnown, NEW r \in requests, RequestStep(r) \/ RequestDies(r)
    PROVE  Carried'
<1> USE DEF To
<1>1. r \in Request /\ r.w \in Withdrawals
  BY DEF TypeOK, Request
<1>2. \A step \in {"debit", "markFailed", "push"} :
          [r EXCEPT !.at = step] \in Request /\ [r EXCEPT !.at = step].w = r.w
          /\ [r EXCEPT !.at = step].at = step
  BY <1>1 DEF Request
<1>3. /\ r.at \in {"debit", "markFailed"} => Untouched(r.w)
      /\ r.at = "push" => Reserved(r.w)
  BY DEF Carried, RequestsKnow
<1>4. CASE DebitBalance(r)
  <2>1. CASE balance >= Amount[r.w]
    <3>1. /\ debited' = [debited EXCEPT ![r.w] = TRUE]
          /\ requests' \subseteq (requests \ {r}) \cup {[r EXCEPT !.at = "push"]}
          /\ UNCHANGED <<status, credits, queue, jobs, onchain>>
      BY <1>4, <2>1 DEF DebitBalance
    <3>2. OnlyAt(r.w)
      BY <1>1, <3>1 DEF OnlyAt, TypeOK, RecordsTypeOK
    <3>3. Reserved(r.w)'
      BY <1>1, <1>3, <1>4, <3>1 DEF DebitBalance, Untouched, Reserved, TypeOK, RecordsTypeOK
    <3> QED BY <1>2, <3>1, <3>2, <3>3, CarriedRequestMoves
  <2>2. CASE ~(balance >= Amount[r.w])
    <3>1. /\ requests' \subseteq (requests \ {r}) \cup {[r EXCEPT !.at = "markFailed"]}
          /\ UNCHANGED <<status, debited, credits, queue, jobs, onchain>>
      BY <1>4, <2>2 DEF DebitBalance
    <3>2. OnlyAt(r.w) /\ Untouched(r.w)'
      BY <1>3, <1>4, <3>1 DEF DebitBalance, OnlyAt, Untouched
    <3> QED BY <1>2, <3>1, <3>2, CarriedRequestMoves
  <2> QED BY <2>1, <2>2
<1>5. CASE DebitThrows(r)
  <2>1. /\ requests' \subseteq (requests \ {r}) \cup {[r EXCEPT !.at = "markFailed"]}
        /\ UNCHANGED <<status, debited, credits, queue, jobs, onchain>>
    BY <1>5 DEF DebitThrows, recordVars
  <2>2. OnlyAt(r.w) /\ Untouched(r.w)'
    BY <1>3, <1>5, <2>1 DEF DebitThrows, OnlyAt, Untouched
  <2> QED BY <1>2, <2>1, <2>2, CarriedRequestMoves
<1>6. CASE MarkDebitFailed(r)
  <2>1. /\ requests' \subseteq (requests \ {r}) \cup {r}
        /\ status' = [status EXCEPT ![r.w] = "FAILED"]
        /\ UNCHANGED <<debited, credits, queue, jobs, onchain>> /\ r.at = "markFailed"
    BY <1>6 DEF MarkDebitFailed, SetStatus
  <2>2. OnlyAt(r.w) /\ Untouched(r.w)'
    BY <1>1, <1>3, <2>1 DEF OnlyAt, Untouched, TypeOK, RecordsTypeOK
  <2> QED BY <1>1, <2>1, <2>2, CarriedRequestMoves
<1>7. CASE RequestDies(r)
  <2>1. /\ requests' \subseteq (requests \ {r}) \cup {r}
        /\ UNCHANGED <<status, debited, credits, queue, jobs, onchain>>
    BY <1>7 DEF RequestDies, recordVars
  <2>2. /\ OnlyAt(r.w)
        /\ r.at \in {"debit", "markFailed"} => Untouched(r.w)'
        /\ r.at = "push" => Reserved(r.w)'
    BY <1>3, <2>1 DEF OnlyAt, Untouched, Reserved
  <2> QED BY <1>1, <2>1, <2>2, CarriedRequestMoves
<1>8. CASE PushRequest(r)
  <2>1. /\ Lpush(r.w, TRUE) /\ requests' = requests \ {r} /\ r.at = "push"
        /\ UNCHANGED <<status, debited, credits, jobs, onchain>>
    BY <1>8 DEF PushRequest, SendsAreKnown
  <2>2. /\ DOMAIN queue' = 1 .. Len(queue) + 1 /\ DOMAIN queue = 1 .. Len(queue)
        /\ Len(queue) \in Nat /\ queue'[1] = [id |-> r.w, complete |-> TRUE]
        /\ \A i \in 2 .. Len(queue) + 1 : i - 1 \in DOMAIN queue /\ queue'[i] = queue[i - 1]
    <3>1. queue \in Seq(QueueItem)
      BY DEF TypeOK, RecordsTypeOK
    <3>2. DOMAIN queue = 1 .. Len(queue) /\ Len(queue) \in Nat
      BY <3>1
    <3>3. [id |-> r.w, complete |-> TRUE] \in QueueItem
      BY <1>1 DEF QueueItem
    <3> QED BY <2>1, <3>1, <3>2, <3>3, PushShape, Zenon
  <2>3. /\ Reserved(r.w) /\ status[r.w] # "NONE"
        /\ \A s \in requests \ {r} : s.w # r.w
        /\ \A i \in DOMAIN queue : queue[i].id # r.w
        /\ \A j \in jobs : j.w # r.w
    BY <1>3, <2>1 DEF Carried, RequestsApart, RequestsKnow
  <2>4. Accounts' /\ RequestsKnow' /\ JobsKnow' /\ JobsApart'
    BY <2>1 DEF Carried, Accounts, RequestsKnow, JobsKnow, JobsApart, Untouched, Reserved, Sent
  <2>5. \A i \in DOMAIN queue' :
            \/ i = 1 /\ queue'[i].id = r.w /\ queue'[i].complete
            \/ i # 1 /\ i - 1 \in DOMAIN queue /\ queue'[i] = queue[i - 1]
    BY <2>2
  <2>6. ItemsKnow'
    BY <2>1, <2>3, <2>5 DEF Carried, ItemsKnow, Reserved
  <2>7. RequestsApart'
    BY <2>1, <2>3, <2>5 DEF Carried, RequestsApart
  <2>8. ItemsApart'
    <3>1. ASSUME NEW i \in DOMAIN queue', NEW k \in DOMAIN queue', queue'[i].id # NoId,
                 queue'[i].id = queue'[k].id
          PROVE  i = k
      <4>1. CASE i = 1 \/ k = 1
        BY <2>3, <2>5, <3>1, <4>1
      <4>2. CASE i # 1 /\ k # 1
        <5>1. i - 1 = k - 1
          BY <2>5, <3>1, <4>2 DEF Carried, ItemsApart
        <5> QED BY <2>2, <5>1
      <4> QED BY <4>1, <4>2
    <3>2. \A i \in DOMAIN queue' : queue'[i].id # NoId => \A j \in jobs' : j.w # queue'[i].id
      BY <2>1, <2>3, <2>5 DEF Carried, ItemsApart
    <3> QED BY <3>1, <3>2 DEF ItemsApart
  <2> QED BY <2>4, <2>6, <2>7, <2>8 DEF Carried
<1> QED BY <1>4, <1>5, <1>6, <1>7, <1>8 DEF RequestStep

(* An item popped by a timer is no longer in the queue.                    *)
LEMMA CarriedPopQueue ==
    ASSUME TypeOK, Carried, NEW i \in 1 .. MaxJobs, PopQueue(i)
    PROVE  Carried'
<1> DEFINE last == queue[Len(queue)]
<1> DEFINE new == [id |-> i, w |-> last.id, complete |-> last.complete, at |-> "start"]
<1>1. /\ jobs' = jobs \cup {new} /\ UNCHANGED <<status, debited, credits, requests, onchain>>
      /\ queue # <<>> /\ queue' = SubSeq(queue, 1, Len(queue) - 1)
  BY DEF PopQueue
<1>2. queue \in Seq(QueueItem)
  BY DEF TypeOK, RecordsTypeOK
<1>3. /\ Len(queue) \in DOMAIN queue
      /\ \A k \in DOMAIN queue' : k \in DOMAIN queue /\ k # Len(queue) /\ queue'[k] = queue[k]
  BY <1>1, <1>2, PopShape
<1>4. new.w = last.id /\ new.complete = last.complete /\ new.at = "start"
  OBVIOUS
<1>5. last.id # NoId => status[last.id] # "NONE" /\ last.complete /\ Reserved(last.id)
  BY <1>3 DEF Carried, ItemsKnow
<1>6. /\ \A r \in requests : r.w # last.id
      /\ last.id # NoId =>
             /\ \A j \in jobs : j.w # last.id
             /\ \A k \in DOMAIN queue' : queue'[k].id # last.id
  <2>1. \A r \in requests : r.w # last.id
    BY <1>3 DEF Carried, RequestsApart
  <2>2. last.id # NoId => \A j \in jobs : j.w # last.id
    BY <1>3 DEF Carried, ItemsApart
  <2>3. last.id # NoId => \A k \in DOMAIN queue' : queue'[k].id # last.id
    BY <1>3 DEF Carried, ItemsApart
  <2> QED BY <2>1, <2>2, <2>3
<1> HIDE DEF last, new
<1>7. Accounts' /\ RequestsKnow'
  BY <1>1 DEF Carried, Accounts, RequestsKnow, Untouched, Reserved
<1>8. ItemsKnow'
  BY <1>1, <1>3 DEF Carried, ItemsKnow, Reserved
<1>9. JobsKnow'
  BY <1>1, <1>4, <1>5 DEF Carried, JobsKnow, Reserved, Sent
<1>10. RequestsApart'
  BY <1>1, <1>3, <1>4, <1>6 DEF Carried, RequestsApart
<1>11. ItemsApart'
  BY <1>1, <1>3, <1>4, <1>6 DEF Carried, ItemsApart
<1>12. JobsApart'
  BY <1>1, <1>4, <1>6 DEF Carried, JobsApart
<1> QED BY <1>7, <1>8, <1>9, <1>10, <1>11, <1>12 DEF Carried

(* A step of a job.  Every send is known to its job, so that only a job    *)
(* that did not send reaches the refund.                                   *)
LEMMA CarriedJob ==
    ASSUME TypeOK, Carried, SendsAreKnown, NEW j \in jobs, JobStep(j) \/ JobDies(j)
    PROVE  Carried'
<1> USE DEF Goto, Done
<1> SUFFICES ASSUME j.w # NoId PROVE Carried'
  BY CarriedAutoJob
<1>1. j \in Job /\ j.w \in Withdrawals /\ j.complete /\ status[j.w] # "NONE"
  BY CarriersTyped DEF TypeOK, CarryRows, Carried, JobsKnow
<1>2. \A step \in {"start", "send", "complete", "notify", "fail", "refund", "autoWithdraw"} :
          /\ [j EXCEPT !.at = step] \in Job /\ [j EXCEPT !.at = step].w = j.w
          /\ [j EXCEPT !.at = step].complete /\ [j EXCEPT !.at = step].at = step
  BY <1>1 DEF Job
<1>3. /\ j.at \in {"start", "send", "fail", "refund"} => Reserved(j.w)
      /\ j.at \in {"complete", "notify"} => Sent(j.w)
  BY DEF Carried, JobsKnow
<1>4. \A s \in WithdrawalStatus :
          SetStatus(j.w, s) /\ UNCHANGED <<debited, credits, onchain>>
              => OnlyAt(j.w) /\ Accounts'
  <2> SUFFICES ASSUME NEW s \in WithdrawalStatus, SetStatus(j.w, s),
                      UNCHANGED <<debited, credits, onchain>>
               PROVE  OnlyAt(j.w) /\ Accounts'
    OBVIOUS
  <2>1. s # "NONE" /\ status' = [status EXCEPT ![j.w] = s]
    BY DEF WithdrawalStatus, SetStatus
  <2>2. OnlyAt(j.w)
    BY <1>1, <2>1 DEF OnlyAt, TypeOK, RecordsTypeOK
  <2>3. \A v \in Withdrawals : status'[v] = "NONE" => status[v] = "NONE"
    BY <1>1, <2>1 DEF TypeOK, RecordsTypeOK
  <2>4. Accounts'
    BY <2>3 DEF Carried, Accounts, Untouched
  <2> QED BY <2>2, <2>4
<1>5. UNCHANGED <<status, debited, credits, onchain>> => OnlyAt(j.w) /\ Accounts'
  BY DEF OnlyAt, Carried, Accounts, Untouched
<1>6. CASE StartExecution(j)
  <2>1. PICK step \in {"send", "fail"} : jobs' = (jobs \ {j}) \cup {[j EXCEPT !.at = step]}
    BY <1>6 DEF StartExecution
  <2>2. OnlyAt(j.w) /\ Accounts'
    BY <1>4, <1>5, <1>6 DEF StartExecution, WithdrawalStatus
  <2>3. Reserved(j.w)' /\ UNCHANGED <<queue, requests>>
    BY <1>3, <1>6 DEF StartExecution, Reserved
  <2> QED BY <1>2, <2>1, <2>2, <2>3, CarriedJobMoves
<1>7. CASE SendTransaction(j)
  <2>1. /\ Reserved(j.w) /\ UNCHANGED <<status, debited, credits, queue, requests>>
        /\ \/ onchain' = [onchain EXCEPT ![j.w] = @ + 1] /\ Goto(j, "complete")
           \/ UNCHANGED onchain /\ Goto(j, "fail")
    BY <1>3, <1>7 DEF SendTransaction, Broadcast, SendsAreKnown, recordVars
  <2>2. CASE onchain' = [onchain EXCEPT ![j.w] = @ + 1] /\ Goto(j, "complete")
    <3>1. /\ onchain'[j.w] = 1 /\ \A v \in Withdrawals \ {j.w} : onchain'[v] = onchain[v]
      BY <1>1, <2>1, <2>2 DEF Reserved, TypeOK
    <3>2. OnlyAt(j.w) /\ Sent(j.w)'
      BY <2>1, <3>1 DEF OnlyAt, Reserved, Sent
    <3>3. Accounts'
      BY <1>1, <2>1, <3>1 DEF Carried, Accounts, Untouched, Reserved
    <3> QED BY <1>2, <2>1, <2>2, <3>2, <3>3, CarriedJobMoves
  <2>3. CASE UNCHANGED onchain /\ Goto(j, "fail")
    <3>1. OnlyAt(j.w) /\ Accounts' /\ Reserved(j.w)'
      BY <1>5, <2>1, <2>3 DEF Reserved
    <3> QED BY <1>2, <2>1, <2>3, <3>1, CarriedJobMoves
  <2> QED BY <2>1, <2>2, <2>3
<1>8. CASE MarkCompleted(j)
  <2>1. /\ SetStatus(j.w, "COMPLETED") /\ Goto(j, "notify") /\ Sent(j.w)
        /\ UNCHANGED <<debited, credits, queue, requests, onchain>>
    BY <1>3, <1>8 DEF MarkCompleted, SendsAreKnown
  <2>2. OnlyAt(j.w) /\ Accounts' /\ Sent(j.w)'
    BY <1>4, <2>1 DEF WithdrawalStatus, Sent
  <2> QED BY <1>2, <2>1, <2>2, CarriedJobMoves
<1>9. ASSUME Done(j), UNCHANGED <<status, debited, credits, queue, requests, onchain>>
      PROVE  Carried'
  <2>1. OnlyAt(j.w) /\ Accounts'
    BY <1>5, <1>9
  <2> QED BY <1>1, <1>9, <2>1, CarriedJobMoves
<1>10. CASE NotifyCompleted(j)
  BY <1>9, <1>10 DEF NotifyCompleted, SendsAreKnown, recordVars
<1>11. CASE JobDies(j)
  BY <1>9, <1>11 DEF JobDies, recordVars
<1>12. CASE MarkFailed(j)
  <2>1. CASE /\ Goto(j, "refund")
             /\ status' = [w \in Withdrawals |-> IF w \in NotFailed(j) THEN "FAILED" ELSE status[w]]
    <3>1. /\ Reserved(j.w) /\ UNCHANGED <<debited, credits, queue, requests, onchain>>
      BY <1>3, <1>12 DEF MarkFailed
    <3>2. /\ status'[j.w] # "NONE"
          /\ \A v \in Withdrawals \ {j.w} : status'[v] = status[v]
      BY <1>1, <2>1 DEF NotFailed
    <3>3. OnlyAt(j.w) /\ Accounts' /\ Reserved(j.w)'
      BY <1>1, <3>1, <3>2 DEF OnlyAt, Carried, Accounts, Untouched, Reserved
    <3> QED BY <1>2, <2>1, <3>1, <3>3, CarriedJobMoves
  <2>2. CASE Done(j) /\ UNCHANGED status
    BY <1>9, <1>12, <2>2 DEF MarkFailed
  <2> QED BY <1>12, <2>1, <2>2 DEF MarkFailed
<1>13. CASE RefundFailed(j)
  <2>1. CASE UNCHANGED <<credits, balance>>
    <3>1. Done(j)
      <4>1. credits'[j.w] = credits[j.w] /\ credits[j.w] + 1 # credits[j.w]
        BY <1>1, <2>1 DEF TypeOK, RecordsTypeOK
      <4>2. ~Credit(j.w)
        BY <1>1, <4>1 DEF Credit, TypeOK, RecordsTypeOK
      <4> QED BY <1>13, <4>2 DEF RefundFailed
    <3> QED BY <1>9, <1>13, <2>1, <3>1 DEF RefundFailed
  <2>2. CASE Credit(j.w)
    <3>1. /\ Reserved(j.w) /\ credits' = [credits EXCEPT ![j.w] = @ + 1]
          /\ jobs' \subseteq (jobs \ {j}) \cup {[j EXCEPT !.at = "autoWithdraw"]}
          /\ UNCHANGED <<status, debited, queue, requests, onchain>>
      BY <1>3, <1>13, <2>2 DEF RefundFailed, Credit
    <3>2. credits'[j.w] = 1 /\ \A v \in Withdrawals \ {j.w} : credits'[v] = credits[v]
      BY <1>1, <3>1 DEF Reserved, TypeOK, RecordsTypeOK
    <3>3. OnlyAt(j.w)
      BY <3>1, <3>2 DEF OnlyAt
    <3>4. Accounts'
      BY <1>1, <3>1, <3>2 DEF Carried, Accounts, Untouched, Reserved
    <3> QED BY <1>1, <1>2, <3>1, <3>3, <3>4, CarriedJobMoves
  <2> QED BY <1>13, <2>1, <2>2 DEF RefundFailed
<1>14. CASE AutoWithdraw(j)
  <2>1. CASE UNCHANGED queue
    BY <1>9, <1>14, <2>1 DEF AutoWithdraw
  <2>2. CASE Lpush(NoId, FALSE)
    BY <1>14, <2>2, CarriedAutoPush DEF AutoWithdraw
  <2> QED BY <1>14, <2>1, <2>2 DEF AutoWithdraw, SendsAreKnown
<1> QED BY <1>6, <1>7, <1>8, <1>10, <1>11, <1>12, <1>13, <1>14 DEF JobStep

LEMMA InvarianceNext == IInv /\ [Next]_vars => IInv'
<1> SUFFICES ASSUME IInv, [Next]_vars PROVE IInv'
  OBVIOUS
<1>1. TypeOK' /\ TypeOK
  BY TypeNext DEF IInv
<1>2. faults' = faults
  BY DEF Next, vars
<1>3. SendsAreKnown' => SendsAreKnown
  BY <1>2 DEF SendsAreKnown
<1> SUFFICES ASSUME SendsAreKnown PROVE Carried'
  BY <1>1, <1>3 DEF IInv
<1>4. Carried
  BY DEF IInv
<1>5. CASE UNCHANGED vars
  BY <1>4, <1>5 DEF vars, recordVars, payoutVars, Carried, Accounts, RequestsKnow, ItemsKnow,
     JobsKnow, RequestsApart, ItemsApart, JobsApart, Untouched, Reserved, Sent
<1> QED BY <1>1, <1>4, <1>5, CarriedRequestWithdrawal, CarriedRequest, CarriedPopQueue,
           CarriedJob DEF Next

(* While every send is known to have happened, no withdrawal is both sent  *)
(* and given back, sent twice or given back twice, and none is settled     *)
(* without having been reserved, for any number of withdrawals, requests   *)
(* and executions.                                                         *)
THEOREM SettledTheorem == Spec => []SettledAtMostOnce
<1>1. Init => IInv
  BY TypeInit, CarriedInit DEF IInv
<1>2. IInv => SettledAtMostOnce
  <2> SUFFICES ASSUME IInv, SendsAreKnown, NEW w \in Withdrawals
               PROVE  onchain[w] + credits[w] <= (IF debited[w] THEN 1 ELSE 0)
    BY DEF SettledAtMostOnce
  <2>1. CASE debited[w]
    BY <2>1 DEF IInv, Carried, Accounts
  <2>2. CASE ~debited[w]
    BY <2>2 DEF IInv, Carried, Accounts, Untouched
  <2> QED BY <2>1, <2>2
<1> QED BY <1>1, <1>2, InvarianceNext, PTL DEF Spec

---------------------------------------------------------------------------
(* The merchant's money                                                    *)

(* What the wallet has lost to the withdrawals.                            *)
Taken == [w \in Withdrawals |-> IF debited[w] /\ credits[w] = 0 THEN Amount[w] ELSE 0]
Conserved == balance + Sum(Taken, Withdrawals) = InitialBalance

LEMMA TakenNat ==
    ASSUME IsFiniteSet(Withdrawals)
    PROVE  (\A w \in Withdrawals : Taken[w] \in Nat) /\ Sum(Taken, Withdrawals) \in Nat
<1>1. \A w \in Withdrawals : Taken[w] \in Nat
  BY RecordsAssumption DEF Taken
<1> QED BY <1>1, SumNat

LEMMA ConservedInit == ASSUME IsFiniteSet(Withdrawals), Init PROVE Conserved
<1>1. \A w \in Withdrawals : Taken[w] = 0
  BY DEF Init, PayoutInit, Taken
<1>2. Sum(Taken, Withdrawals) = 0
  BY <1>1, SumZero
<1> QED BY <1>2, RecordsAssumption DEF Init, PayoutInit, Conserved

(* The wallet loses what one withdrawal takes, or gets back what it took.  *)
LEMMA TakenChanges ==
    ASSUME TypeOK, IsFiniteSet(Withdrawals), Conserved, NEW w \in Withdrawals,
           \A v \in Withdrawals \ {w} : debited'[v] = debited[v] /\ credits'[v] = credits[v],
           balance' + Taken'[w] = balance + Taken[w], balance' \in Nat
    PROVE  Conserved'
<1>1. \A v \in Withdrawals : Taken[v] \in Nat /\ Taken'[v] \in Nat
  BY RecordsAssumption DEF Taken
<1>2. \A v \in Withdrawals \ {w} : Taken[v] = Taken'[v]
  BY DEF Taken
<1>3. Sum(Taken', Withdrawals) = Sum(Taken, Withdrawals) + Taken'[w] - Taken[w]
  BY <1>1, <1>2, SumChange
<1>4. Sum(Taken, Withdrawals) \in Nat /\ balance \in Nat
  BY TakenNat DEF TypeOK, RecordsTypeOK
<1> QED BY <1>1, <1>3, <1>4 DEF Conserved

LEMMA ConservedNext ==
    ASSUME IsFiniteSet(Withdrawals), IInv, SendsAreKnown, Conserved, [Next]_vars
    PROVE  Conserved'
<1>1. TypeOK /\ Carried /\ CarryRows /\ TypeOK'
  BY TypeNext, CarriersTyped DEF IInv
<1>2. ASSUME UNCHANGED <<debited, credits, balance>> PROVE Conserved'
  <2>1. Taken' = Taken
    BY <1>2 DEF Taken
  <2> QED BY <1>2, <2>1 DEF Conserved
<1>3. ASSUME NEW r \in requests, DebitBalance(r) PROVE Conserved'
  <2>1. CASE UNCHANGED <<balance, debited>>
    BY <1>2, <1>3, <2>1 DEF DebitBalance
  <2>2. CASE /\ balance >= Amount[r.w] /\ balance' = balance - Amount[r.w]
             /\ debited' = [debited EXCEPT ![r.w] = TRUE]
    <3>1. Untouched(r.w) /\ r.w \in Withdrawals /\ credits' = credits
      BY <1>1, <1>3 DEF Carried, RequestsKnow, CarryRows, DebitBalance
    <3>2. debited'[r.w] /\ \A v \in Withdrawals \ {r.w} : debited'[v] = debited[v]
      BY <1>1, <2>2, <3>1 DEF TypeOK, RecordsTypeOK
    <3>3. Taken[r.w] = 0 /\ Taken'[r.w] = Amount[r.w] /\ Amount[r.w] \in Nat
      BY <3>1, <3>2, RecordsAssumption DEF Taken, Untouched
    <3>4. balance \in Nat /\ balance' \in Nat
      BY <1>1 DEF TypeOK, RecordsTypeOK
    <3>5. balance' + Taken'[r.w] = balance + Taken[r.w]
      BY <2>2, <3>3, <3>4
    <3> QED BY <1>1, <3>1, <3>2, <3>4, <3>5, TakenChanges
  <2> QED BY <1>3, <2>1, <2>2 DEF DebitBalance
<1>4. ASSUME NEW j \in jobs, RefundFailed(j) PROVE Conserved'
  <2>1. CASE UNCHANGED <<credits, balance>>
    BY <1>2, <1>4, <2>1 DEF RefundFailed
  <2>2. CASE j.complete /\ Credit(j.w)
    <3>1. Reserved(j.w) /\ j.w \in Withdrawals /\ debited' = debited
      <4>1. j.w # NoId
        BY <1>1, <2>2 DEF CarryRows
      <4> QED BY <1>1, <1>4, <4>1 DEF Carried, JobsKnow, CarryRows, RefundFailed
    <3>2. credits'[j.w] = 1 /\ \A v \in Withdrawals \ {j.w} : credits'[v] = credits[v]
      BY <1>1, <2>2, <3>1 DEF Credit, Reserved, TypeOK, RecordsTypeOK
    <3>3. Taken[j.w] = Amount[j.w] /\ Taken'[j.w] = 0 /\ Amount[j.w] \in Nat
      BY <3>1, <3>2, RecordsAssumption DEF Taken, Reserved
    <3>4. balance \in Nat /\ balance' \in Nat /\ balance' = balance + Amount[j.w]
      BY <1>1, <2>2 DEF TypeOK, RecordsTypeOK, Credit
    <3>5. balance' + Taken'[j.w] = balance + Taken[j.w]
      BY <3>3, <3>4
    <3> QED BY <1>1, <3>1, <3>2, <3>4, <3>5, TakenChanges
  <2> QED BY <1>4, <2>1, <2>2 DEF RefundFailed
<1>5. ASSUME NEW w \in Withdrawals, RequestWithdrawal(w) PROVE Conserved'
  BY <1>2, <1>5 DEF RequestWithdrawal
<1>6. ASSUME NEW r \in requests,
             DebitThrows(r) \/ MarkDebitFailed(r) \/ PushRequest(r) \/ RequestDies(r)
      PROVE  Conserved'
  BY <1>2, <1>6 DEF DebitThrows, MarkDebitFailed, PushRequest, RequestDies, recordVars
<1>7. ASSUME NEW i \in 1 .. MaxJobs, PopQueue(i) PROVE Conserved'
  BY <1>2, <1>7 DEF PopQueue
<1>8. ASSUME NEW j \in jobs,
             \/ StartExecution(j) \/ SendTransaction(j) \/ MarkCompleted(j)
             \/ NotifyCompleted(j) \/ MarkFailed(j) \/ AutoWithdraw(j) \/ JobDies(j)
      PROVE  Conserved'
  BY <1>2, <1>8
     DEF StartExecution, SendTransaction, MarkCompleted, NotifyCompleted, MarkFailed,
         AutoWithdraw, JobDies, recordVars
<1>9. CASE UNCHANGED vars
  BY <1>2, <1>9 DEF vars, recordVars
<1> QED BY <1>3, <1>4, <1>5, <1>6, <1>7, <1>8, <1>9 DEF Next, RequestStep, JobStep

(* The withdrawals of a finite table never send more than the merchant's   *)
(* wallet has lost: with what is left in it, at most what it held at the   *)
(* start.                                                                  *)
THEOREM SolventTheorem ==
    ASSUME IsFiniteSet(Withdrawals)
    PROVE  Spec => []Solvent
<1> DEFINE Inv == IInv /\ (SendsAreKnown => Conserved)
<1>1. Init => Inv
  BY TypeInit, CarriedInit, ConservedInit DEF IInv
<1>2. Inv /\ [Next]_vars => Inv'
  <2> SUFFICES ASSUME Inv, [Next]_vars PROVE Inv'
    OBVIOUS
  <2>1. SendsAreKnown' => SendsAreKnown
    BY DEF Next, vars, SendsAreKnown
  <2> QED BY <2>1, InvarianceNext, ConservedNext
<1>3. Inv => Solvent
  <2> SUFFICES ASSUME IInv, Conserved, SendsAreKnown
               PROVE  balance + SumFunction([w \in Withdrawals |-> onchain[w] * Amount[w]])
                        <= InitialBalance
    BY DEF Solvent
  <2> DEFINE f == [w \in Withdrawals |-> onchain[w] * Amount[w]]
  <2>1. TypeOK /\ Accounts
    BY DEF IInv, Carried
  <2>2. ASSUME NEW w \in Withdrawals
        PROVE  onchain[w] * Amount[w] \in Nat /\ onchain[w] * Amount[w] <= Taken[w]
    <3>1. /\ onchain[w] \in Nat /\ credits[w] \in Nat /\ Amount[w] \in Nat
          /\ onchain[w] + credits[w] <= 1 /\ (~debited[w] => onchain[w] = 0)
      BY <2>1, RecordsAssumption DEF TypeOK, RecordsTypeOK, Accounts, Untouched
    <3>2. CASE onchain[w] = 0
      <4>1. onchain[w] * Amount[w] = 0
        BY <3>1, <3>2
      <4> QED BY <4>1, TakenNat
    <3>3. CASE onchain[w] = 1
      <4>1. onchain[w] * Amount[w] = Amount[w]
        BY <3>1, <3>3
      <4>2. debited[w] /\ credits[w] = 0
        BY <3>1, <3>3
      <4>3. Taken[w] = Amount[w]
        BY <4>2 DEF Taken
      <4>4. Amount[w] \in Nat /\ Amount[w] <= Taken[w]
        BY <3>1, <4>3
      <4> QED BY <4>1, <4>4
    <3>4. onchain[w] = 0 \/ onchain[w] = 1
      BY <3>1
    <3> QED BY <3>2, <3>3, <3>4
  <2>3. DOMAIN f = Withdrawals /\ \A w \in Withdrawals : f[w] \in Nat /\ f[w] <= Taken[w]
    BY <2>2
  <2> HIDE DEF f
  <2>4. SumFunction(f) = Sum(f, Withdrawals)
    BY <2>3, LibrarySum DEF SumFunction
  <2>5. Sum(f, Withdrawals) <= Sum(Taken, Withdrawals) /\ Sum(f, Withdrawals) \in Nat
    BY <2>3, TakenNat, SumBelow, SumNat
  <2>6. balance \in Nat /\ Sum(Taken, Withdrawals) \in Nat /\ InitialBalance \in Nat
    BY <2>1, TakenNat, RecordsAssumption DEF TypeOK, RecordsTypeOK
  <2> QED BY <2>4, <2>5, <2>6 DEF Conserved, f
<1> QED BY <1>1, <1>2, <1>3, PTL DEF Spec
=============================================================================
