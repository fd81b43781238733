------------------------------ MODULE Refunds ------------------------------
(* Refunds of one-time charges (refunds.service.ts).  A refund reads its     *)
(* charge and the refunds that have succeeded, inserts its row under the     *)
(* caller's key, asks the gateway and books what the gateway answers.        *)
(* Requests overlap; the gateway, the transaction and the process can fail.  *)
(* The gateway is Stripe's: it refuses what exceeds the payment, and what it *)
(* accepts may be pending in its answer, and fail there and then or later.   *)
EXTENDS OneTimeCharges

CONSTANTS
  RefundKey, \* idempotency keys of refunds
  Refunder,  \* concurrent refund requests
  NoRefund,  \* the key of no request
  Price      \* cents of every charge; refunds are of 1 to Price cents

ASSUME RefundAssumption == NoRefund \notin RefundKey /\ Price \in Nat \ {0}

VARIABLES
  refund,     \* refund row of each key
  accepted,   \* cents of the refund the gateway has of each key
  outcome,    \* what has become of it there
  refundBook, \* ledger entries of reference type refund, in order
  asking      \* control state of each request

refundVars == <<refund, accepted, outcome, refundBook, asking>>

Silent == [pc |-> "idle", refund |-> NoRefund, of |-> NoKey, amount |-> 0]
NoRow == [status |-> "none", of |-> NoKey, amount |-> 0]

RefundTypeOK ==
  /\ refund \in [RefundKey ->
       [status: {"none", "pending", "processing", "succeeded", "failed"},
        of: Key \cup {NoKey}, amount: 0..Price]]
  /\ accepted \in [RefundKey -> 0..Price]
  /\ outcome \in [RefundKey -> {"none", "pending", "succeeded", "failed"}]
  /\ refundBook \in Seq([refund: RefundKey, of: Key, amount: 1..Price])
  /\ asking \in [Refunder ->
       [pc: {"idle", "check", "insert", "start", "ask", "book", "fail"},
        refund: RefundKey \cup {NoRefund}, of: Key \cup {NoKey}, amount: 0..Price]]

RefundInit ==
  /\ refund = [r \in RefundKey |-> NoRow]
  /\ accepted = [r \in RefundKey |-> 0]
  /\ outcome = [r \in RefundKey |-> "none"]
  /\ refundBook = <<>>
  /\ asking = [c \in Refunder |-> Silent]

\* Cents of the rows of charge k that are in a status.
RefundTotal(k, status) ==
  SumFunctionOnSet([r \in RefundKey |-> refund[r].amount],
          {r \in RefundKey : refund[r].of = k /\ refund[r].status = status})

\* Refunds of charge k that the gateway has given back or is about to.
Standing(k) == {r \in RefundKey : refund[r].of = k /\ outcome[r] \in {"pending", "succeeded"}}

GivenBack(k) == SumFunctionOnSet(accepted, Standing(k))

atGateway == <<accepted, outcome>>

Continue(c, pc) == asking' = [asking EXCEPT ![c].pc = pc]
Stop(c) == asking' = [asking EXCEPT ![c] = Silent]

-----------------------------------------------------------------------------

\* The charge is read: it must have succeeded and name its intent.
BeginRefund(c, r, k, amount) ==
  /\ asking[c].pc = "idle"
  /\ charge[k].status = "succeeded" /\ charge[k].known
  /\ asking' = [asking EXCEPT ![c] =
                  [pc |-> "check", refund |-> r, of |-> k, amount |-> amount]]
  /\ UNCHANGED <<refund, atGateway, refundBook>>

\* Only refunds that have succeeded count against the charge.
WithinCharge(c) ==
  RefundTotal(asking[c].of, "succeeded") + asking[c].amount <= Price

CheckAmount(c) ==
  /\ asking[c].pc = "check"
  /\ IF WithinCharge(c) THEN Continue(c, "insert") ELSE Stop(c)
  /\ UNCHANGED <<refund, atGateway, refundBook>>

\* The index on the key: createWithIdempotency returns the row that is there.
KeyTaken(r) == refund[r].status # "none"

\* The row of a key is written once; a request that finds it returns it.
InsertRefund(c) ==
  LET a == asking[c] IN
  /\ a.pc = "insert"
  /\ \/ /\ ~KeyTaken(a.refund)
        /\ refund' = [refund EXCEPT ![a.refund] =
                        [status |-> "pending", of |-> a.of, amount |-> a.amount]]
        /\ Continue(c, "start")
     \/ /\ KeyTaken(a.refund)
        /\ Stop(c)
        /\ UNCHANGED refund
  /\ UNCHANGED <<atGateway, refundBook>>

\* Mutant: the gateway is asked while the row is still pending.
SkipProcessing(c) ==
  /\ asking[c].pc = "start"
  /\ Continue(c, "ask")
  /\ UNCHANGED <<refund, atGateway, refundBook>>

\* The row says that the gateway is about to be asked.
StartProcessing(c) ==
  /\ asking[c].pc = "start"
  /\ refund' = [refund EXCEPT ![asking[c].refund].status = "processing"]
  /\ Continue(c, "ask")
  /\ UNCHANGED <<atGateway, refundBook>>

-----------------------------------------------------------------------------
(* The gateway and what follows its answer. *)

\* The gateway refuses more than was captured.
Refused(c) == GivenBack(asking[c].of) + asking[c].amount > Price

\* Mutant: a refusal by the gateway is taken for an answer.
AskRefundIgnoringRefusal(c) ==
  /\ asking[c].pc = "ask"
  /\ IF Refused(c)
     THEN UNCHANGED atGateway
     ELSE /\ accepted' = [accepted EXCEPT ![asking[c].refund] = asking[c].amount]
          /\ outcome' = [outcome EXCEPT ![asking[c].refund] = "pending"]
  /\ Continue(c, "book")
  /\ UNCHANGED <<refund, refundBook>>

\* Stripe's answer says succeeded, pending or failed, Adyen's pending.
Accept(c) ==
  /\ accepted' = [accepted EXCEPT ![asking[c].refund] = asking[c].amount]
  /\ \E status \in {"pending", "succeeded", "failed"} :
       outcome' = [outcome EXCEPT ![asking[c].refund] = status]

\* The code looks at the answer's id only; or the answer is lost on its way.
AskRefund(c) ==
  /\ asking[c].pc = "ask"
  /\ IF Refused(c)
     THEN Continue(c, "fail") /\ UNCHANGED atGateway
     ELSE Accept(c) /\ (Continue(c, "book") \/ Continue(c, "fail"))
  /\ UNCHANGED <<refund, refundBook>>

\* The bank takes the money or sends it back; no handler listens to either.
RefundDecided(r) ==
  /\ \/ outcome[r] = "pending" /\ outcome' = [outcome EXCEPT ![r] = "succeeded"]
     \/ outcome[r] \in {"pending", "succeeded"} /\ outcome' = [outcome EXCEPT ![r] = "failed"]
  /\ UNCHANGED <<refund, accepted, refundBook, asking>>

\* The call fails before it reaches the gateway: an open circuit breaker.
AskThrows(c) ==
  /\ asking[c].pc = "ask"
  /\ Continue(c, "fail")
  /\ UNCHANGED <<refund, atGateway, refundBook>>

\* One transaction; the event afterwards is sent without waiting for it.
BookRefund(c) ==
  LET a == asking[c] IN
  /\ a.pc = "book"
  /\ refund' = [refund EXCEPT ![a.refund].status = "succeeded"]
  /\ refundBook' = Append(refundBook,
                     [refund |-> a.refund, of |-> a.of, amount |-> a.amount])
  /\ Stop(c)
  /\ UNCHANGED atGateway

BookThrows(c) ==
  /\ asking[c].pc = "book"
  /\ Continue(c, "fail")
  /\ UNCHANGED <<refund, atGateway, refundBook>>

FailRefund(c) ==
  /\ asking[c].pc = "fail"
  /\ refund' = [refund EXCEPT ![asking[c].refund].status = "failed"]
  /\ Stop(c)
  /\ UNCHANGED <<atGateway, refundBook>>

RefundCrash(c) ==
  /\ asking[c].pc # "idle"
  /\ Stop(c)
  /\ UNCHANGED <<refund, atGateway, refundBook>>

RefundStep(c) ==
  \/ \E r \in RefundKey, k \in Key, amount \in 1..Price : BeginRefund(c, r, k, amount)
  \/ CheckAmount(c) \/ InsertRefund(c) \/ StartProcessing(c)
  \/ AskRefund(c) \/ AskThrows(c) \/ BookRefund(c) \/ BookThrows(c)
  \/ FailRefund(c) \/ RefundCrash(c)

-----------------------------------------------------------------------------
(* Properties *)

\* Cents of some bookings.
BookedCents(I) == SumFunctionOnSet([i \in DOMAIN refundBook |-> refundBook[i].amount], I)

\* Overlapping refunds, each within the charge when it looked, never book more
\* than the payment, unless the gateway has failed one of them: what is booked
\* of refunds that stand is within the payment.  And a key is booked once, for
\* no more than the gateway accepted under it.
RefundsWithinPayment ==
  /\ \A k \in Key :
       BookedCents({i \in DOMAIN refundBook : refundBook[i].refund \in Standing(k)}) <= Price
  /\ \A r \in RefundKey :
       BookedCents({i \in DOMAIN refundBook : refundBook[i].refund = r}) <= accepted[r]

\* The gateway is asked only for a payment that is in the ledger, under a row that
\* is on record before, so that a crash leaves something to investigate.
RefundsAreTraceable ==
  \A r \in RefundKey : accepted[r] > 0 =>
    /\ refund[r].status \in {"processing", "succeeded", "failed"}
    /\ \E p \in DOMAIN payments : payments[p].key = refund[r].of

\* "6a. SUCCESS: update refund to succeeded": a refund that the row and the books
\* say has succeeded did so.
SucceededWasGivenBack ==
  \A r \in RefundKey : refund[r].status = "succeeded" => outcome[r] = "succeeded"
=============================================================================
