----------------------------- MODULE Collection -----------------------------
(***************************************************************************)
(* Collecting the money of a finalized invoice.                            *)
(*                                                                         *)
(* Workers run ChargesService.executePaymentForInvoice (scheduler loop,    *)
(* HTTP handlers and dunning all call it), consumers run                   *)
(* WebhookProcessingService.processWebhookEvent for the messages of the    *)
(* inbound queue, and an operator may void the invoice.  They meet in the  *)
(* database and in the payment gateway.  Every await of the source that    *)
(* another handler can slip into is a step boundary here; a database       *)
(* transaction is one step.                                                *)
(***************************************************************************)
EXTENDS Naturals

CONSTANTS
    Invoice,      \* finalized invoices with an amount to collect
    Recurring,    \* those that belong to a subscription
    MaxAttempts,  \* longest retry schedule: attempts are numbered 1..MaxAttempts
    Worker,       \* concurrent callers of executePaymentForInvoice
    Consumer      \* concurrent handlers of the inbound webhook queue

ASSUME CollectionAssumption ==
    /\ Recurring \subseteq Invoice
    /\ MaxAttempts \in Nat \ {0}

Attempt == 1..MaxAttempts

\* The idempotency key `inv_{id}_att_{n}`.  The gateway opens one payment
\* intent per key and emits one final event per intent, so the key also names
\* the charge row, the intent and the webhook event.
Key == Invoice \X Attempt

InvoiceStatus == {"finalized", "paid", "void"}
ChargeStatus  == {"pending", "succeeded", "failed"}
GatewayStatus == {"none", "requested", "processing", "captured", "declined"}
Outbound      == {"payment.succeeded", "invoice.paid", "payment.failed"}
Outcome       == ChargeStatus \cup {"alreadyPaid", "threw"}

\* Where a worker is in executePaymentForInvoice while it holds a key.
WorkerPhase == {"admitted", "inserted", "waiting", "answeredSucceeded",
                "answeredPending", "answeredFailed", "publishPayment",
                "publishPaid", "failing", "publishFailed", "rescue"}

\* Where a consumer is in processWebhookEvent.
ConsumerPhase == {"checked", "settling", "rejecting", "publishPayment",
                  "publishPaid", "publishFailed", "marking"}

VARIABLES
    invoice,    \* [Invoice -> InvoiceStatus]           invoices.status
    charge,     \* [Key -> ChargeStatus or "none"]      charges.status, "none": no row
    intent,     \* keys whose charge row has stripe_payment_intent_id
    booked,     \* [Key -> Nat]   "payment" entries in ledger_entries per charge
    reversed,   \* [Invoice -> Nat]   "invoice_void" entries per invoice
    published,  \* events sent to the monolith, <<type, key>>
    processed,  \* webhook events recorded in processed_events
    gateway,    \* [Key -> GatewayStatus]   what the gateway did with the intent
    requests,   \* [Key -> Nat]   createCharge calls made under a key
    call,       \* [Worker -> record]   executePaymentForInvoice in progress
    delivery    \* [Consumer -> record]   processWebhookEvent in progress

books  == <<booked, reversed>>
bank   == <<gateway, requests>>
inbox  == <<processed, delivery>>
vars   == <<invoice, charge, intent, books, published, bank, inbox, call>>

Idle == [pc |-> "idle"]

Call ==
    {Idle} \cup [pc : WorkerPhase, key : Key]
           \cup [pc : {"done"}, key : Key, outcome : Outcome]

Delivery ==
    {Idle} \cup [pc : ConsumerPhase, key : Key]
           \cup [pc : {"found"}, key : Key, seen : ChargeStatus]

TypeOK ==
    /\ invoice \in [Invoice -> InvoiceStatus]
    /\ charge \in [Key -> ChargeStatus \cup {"none"}]
    /\ intent \in SUBSET Key
    /\ booked \in [Key -> Nat]
    /\ reversed \in [Invoice -> Nat]
    /\ published \in SUBSET (Outbound \X Key)
    /\ processed \in SUBSET Key
    /\ gateway \in [Key -> GatewayStatus]
    /\ requests \in [Key -> Nat]
    /\ call \in [Worker -> Call]
    /\ delivery \in [Consumer -> Delivery]

Init ==
    /\ invoice = [i \in Invoice |-> "finalized"]
    /\ charge = [k \in Key |-> "none"]
    /\ intent = {}
    /\ booked = [k \in Key |-> 0]
    /\ reversed = [i \in Invoice |-> 0]
    /\ published = {}
    /\ processed = {}
    /\ gateway = [k \in Key |-> "none"]
    /\ requests = [k \in Key |-> 0]
    /\ call = [w \in Worker |-> Idle]
    /\ delivery = [c \in Consumer |-> Idle]

-----------------------------------------------------------------------------
(* Where a worker and a consumer are, and where they go next *)

At(w, phase)     == call[w].pc = phase
GoTo(w, phase)   == call' = [call EXCEPT ![w] = [pc |-> phase, key |-> call[w].key]]
Finish(w, k, o)  == call' = [call EXCEPT ![w] = [pc |-> "done", key |-> k, outcome |-> o]]

Handling(c, phase) == delivery[c].pc = phase
Proceed(c, phase)  ==
    delivery' = [delivery EXCEPT ![c] = [pc |-> phase, key |-> delivery[c].key]]

-----------------------------------------------------------------------------
(* Seeded faults: what each property is tested against.  None is part of Next. *)

\* Every insert is taken for a new row.
InsertChargeNotUnique(w) ==
    /\ At(w, "admitted")
    /\ charge' = [charge EXCEPT ![call[w].key] = "pending"]
    /\ GoTo(w, "inserted")
    /\ UNCHANGED <<invoice, intent, books, published, bank, inbox>>

\* The duplicate branch is taken without looking at isDuplicate.
ReturnExistingUnasked(w) ==
    /\ At(w, "admitted")
    /\ Finish(w, call[w].key, charge[call[w].key])
    /\ UNCHANGED <<invoice, charge, intent, books, published, bank, inbox>>

\* "processing" is mapped to a success.
AnswerPhaseTooEager == [processing |-> "answeredSucceeded",
                        captured   |-> "answeredSucceeded",
                        declined   |-> "answeredFailed"]

\* Only a decline throws: the breaker has no timeout.
GatewayThrowsOnlyDeclines(w) ==
    /\ At(w, "waiting")
    /\ gateway[call[w].key] = "declined"
    /\ GoTo(w, "failing")
    /\ UNCHANGED <<invoice, charge, intent, books, published, bank, inbox>>

\* The event is recorded as processed when it arrives.
ReceiveMarksFirst(c, k) ==
    /\ Handling(c, "idle")
    /\ gateway[k] \in {"captured", "declined"}
    /\ k \notin processed
    /\ processed' = processed \cup {k}
    /\ delivery' = [delivery EXCEPT ![c] = [pc |-> "checked", key |-> k]]
    /\ UNCHANGED <<invoice, charge, intent, books, published, bank, call>>

\* The handler trusts the charge row and does not test the invoice.
ReadInvoiceNotTested(c) ==
    /\ Handling(c, "found")
    /\ Proceed(c, IF delivery[c].seen # "succeeded" THEN "settling" ELSE "marking")
    /\ UNCHANGED <<invoice, charge, intent, books, published, bank, processed, call>>

\* An invoice that needs no settling is announced as paid all the same.
ReadInvoiceStillNotifies(c) ==
    /\ Handling(c, "found")
    /\ Proceed(c, IF invoice[delivery[c].key[1]] = "finalized"
                  THEN "settling" ELSE "publishPayment")
    /\ UNCHANGED <<invoice, charge, intent, books, published, bank, processed, call>>

\* A payment of a closed invoice is turned down.
ReadInvoiceRejects(c) ==
    /\ Handling(c, "found")
    /\ Proceed(c, IF invoice[delivery[c].key[1]] = "finalized"
                  THEN "settling" ELSE "rejecting")
    /\ UNCHANGED <<invoice, charge, intent, books, published, bank, processed, call>>

\* The webhook's transaction forgets the ledger.
SettleByWebhookUnbooked(c) ==
    /\ Handling(c, "settling")
    /\ charge' = [charge EXCEPT ![delivery[c].key] = "succeeded"]
    /\ invoice' = [invoice EXCEPT ![delivery[c].key[1]] = "paid"]
    /\ Proceed(c, "publishPayment")
    /\ UNCHANGED <<intent, books, published, bank, processed, call>>

\* The second read of voidInvoice, in the WHERE clause, is left out and the
\* first one tests for drafts only.
VoidInvoiceUnguarded(i) ==
    /\ invoice[i] # "void"
    /\ invoice' = [invoice EXCEPT ![i] = "void"]
    /\ reversed' = [reversed EXCEPT ![i] = @ + 1]
    /\ UNCHANGED <<charge, intent, booked, published, bank, inbox, call>>

-----------------------------------------------------------------------------
(* Steps of a worker *)

\* A caller asks for attempt n.  Attempt n + 1 is only ever scheduled after the
\* charge row of attempt n exists.
Requestable(i, n) == n > 1 => charge[<<i, n - 1>>] # "none"

\* The invoice is read and is finalized.
Admit(w, i, n) ==
    /\ At(w, "idle")
    /\ Requestable(i, n)
    /\ invoice[i] = "finalized"
    /\ call' = [call EXCEPT ![w] = [pc |-> "admitted", key |-> <<i, n>>]]
    /\ UNCHANGED <<invoice, charge, intent, books, published, bank, inbox>>

\* The invoice is read and is paid (InvoiceAlreadyPaidException) or void
\* (InvoiceNotFinalizedException).
Refuse(w, i, n) ==
    /\ At(w, "idle")
    /\ Requestable(i, n)
    /\ invoice[i] # "finalized"
    /\ Finish(w, <<i, n>>, IF invoice[i] = "paid" THEN "alreadyPaid" ELSE "threw")
    /\ UNCHANGED <<invoice, charge, intent, books, published, bank, inbox>>

\* No payment method, no customer or no gateway customer: the exception leaves
\* before the charge row exists, so nothing is recorded and no retry scheduled.
NoPaymentMethod(w) ==
    /\ At(w, "admitted")
    /\ Finish(w, call[w].key, "threw")
    /\ UNCHANGED <<invoice, charge, intent, books, published, bank, inbox>>

\* The pending row is inserted under its unique key.
InsertCharge(w) ==
    LET k == call[w].key IN
    /\ At(w, "admitted")
    /\ charge[k] = "none"
    /\ charge' = [charge EXCEPT ![k] = "pending"]
    /\ GoTo(w, "inserted")
    /\ UNCHANGED <<invoice, intent, books, published, bank, inbox>>

\* The unique index rejects the insert: the status of the existing row is
\* returned, whatever it is, and the gateway is not called.
ReturnExisting(w) ==
    LET k == call[w].key IN
    /\ At(w, "admitted")
    /\ charge[k] # "none"
    /\ Finish(w, k, charge[k])
    /\ UNCHANGED <<invoice, charge, intent, books, published, bank, inbox>>

\* gateway.createCharge: the request leaves, outside any transaction.  (The
\* adapter repeats it on network errors under the same key, which the gateway
\* answers with the same intent.)
SendRequest(w) ==
    LET k == call[w].key IN
    /\ At(w, "inserted")
    /\ requests' = [requests EXCEPT ![k] = @ + 1]
    /\ gateway' = [gateway EXCEPT ![k] = IF @ = "none" THEN "requested" ELSE @]
    /\ GoTo(w, "waiting")
    /\ UNCHANGED <<invoice, charge, intent, books, published, inbox>>

\* The answer, as the adapter maps the state of the payment intent.
AnswerPhase == [processing |-> "answeredPending",
                captured   |-> "answeredSucceeded",
                declined   |-> "answeredFailed"]

ReceiveAnswer(w) ==
    LET k == call[w].key IN
    /\ At(w, "waiting")
    /\ gateway[k] \in DOMAIN AnswerPhase
    /\ GoTo(w, AnswerPhase[gateway[k]])
    /\ UNCHANGED <<invoice, charge, intent, books, published, bank, inbox>>

\* createCharge throws: before anything leaves (no adapter, open circuit
\* breaker), for a decline the SDK raises as an error, or for a timeout while
\* the request is still on its way.
GatewayThrows(w) ==
    /\ call[w].pc \in {"inserted", "waiting"}
    /\ GoTo(w, "failing")
    /\ UNCHANGED <<invoice, charge, intent, books, published, bank, inbox>>

\* Synchronous success: charge, invoice and ledger in one transaction.  The
\* status the transition is validated against was read before the gateway
\* call, and the invoice row is updated whatever its status is by now.
SettleDirectly(w) ==
    LET k == call[w].key IN
    /\ At(w, "answeredSucceeded")
    /\ charge' = [charge EXCEPT ![k] = "succeeded"]
    /\ intent' = intent \cup {k}
    /\ invoice' = [invoice EXCEPT ![k[1]] = "paid"]
    /\ booked' = [booked EXCEPT ![k] = @ + 1]
    /\ GoTo(w, "publishPayment")
    /\ UNCHANGED <<reversed, published, bank, inbox>>

\* Asynchronous payment: only the intent id is stored, the webhook completes.
RecordPending(w) ==
    LET k == call[w].key IN
    /\ At(w, "answeredPending")
    /\ intent' = intent \cup {k}
    /\ Finish(w, k, "pending")
    /\ UNCHANGED <<invoice, charge, books, published, bank, inbox>>

\* The gateway answered with a failed status: nothing is published and no
\* retry is scheduled on this branch.
RecordDeclined(w) ==
    LET k == call[w].key IN
    /\ At(w, "answeredFailed")
    /\ charge' = [charge EXCEPT ![k] = "failed"]
    /\ intent' = intent \cup {k}
    /\ Finish(w, k, "failed")
    /\ UNCHANGED <<invoice, books, published, bank, inbox>>

\* The write that follows the answer throws, and its transaction rolls back.
StoreThrows(w) ==
    /\ call[w].pc \in {"answeredSucceeded", "answeredPending", "answeredFailed"}
    /\ GoTo(w, "failing")
    /\ UNCHANGED <<invoice, charge, intent, books, published, bank, inbox>>

\* payment.succeeded, then invoice.paid, are sent after the transaction.
\* Under dual write a send that fails is only logged, and the next follows.
PublishPayment(w) ==
    /\ At(w, "publishPayment")
    /\ \/ published' = published \cup {<<"payment.succeeded", call[w].key>>}
       \/ UNCHANGED published
    /\ GoTo(w, "publishPaid")
    /\ UNCHANGED <<invoice, charge, intent, books, bank, inbox>>

PublishPaid(w) ==
    /\ At(w, "publishPaid")
    /\ \/ published' = published \cup {<<"invoice.paid", call[w].key>>}
       \/ UNCHANGED published
    /\ Finish(w, call[w].key, "succeeded")
    /\ UNCHANGED <<invoice, charge, intent, books, bank, inbox>>

\* Without dual write a send that fails is rethrown, inside the try block that
\* treats every exception as a failed payment.
PublishThrows(w) ==
    /\ call[w].pc \in {"publishPayment", "publishPaid"}
    /\ GoTo(w, "failing")
    /\ UNCHANGED <<invoice, charge, intent, books, published, bank, inbox>>

\* The catch block: the charge becomes failed, whatever it was.
MarkFailed(w) ==
    LET k == call[w].key IN
    /\ At(w, "failing")
    /\ charge' = [charge EXCEPT ![k] = "failed"]
    /\ GoTo(w, "publishFailed")
    /\ UNCHANGED <<invoice, intent, books, published, bank, inbox>>

\* The first attempt of a subscription invoice goes on to schedule dunning.
PublishFailed(w) ==
    LET k == call[w].key IN
    /\ At(w, "publishFailed")
    /\ \/ published' = published \cup {<<"payment.failed", k>>}
       \/ UNCHANGED published
    /\ IF k[2] = 1 /\ k[1] \in Recurring
       THEN GoTo(w, "rescue")
       ELSE Finish(w, k, "failed")
    /\ UNCHANGED <<invoice, charge, intent, books, bank, inbox>>

\* Updating the charge or sending payment.failed throws out of the catch
\* block: the caller gets the exception and dunning is not scheduled.
CatchThrows(w) ==
    /\ call[w].pc \in {"failing", "publishFailed"}
    /\ Finish(w, call[w].key, "threw")
    /\ UNCHANGED <<invoice, charge, intent, books, published, bank, inbox>>

\* DunningService.scheduleDunningAttempt returns, or its error is swallowed.
Rescued(w) ==
    /\ At(w, "rescue")
    /\ Finish(w, call[w].key, "failed")
    /\ UNCHANGED <<invoice, charge, intent, books, published, bank, inbox>>

\* The caller takes the result.
Return(w) ==
    /\ At(w, "done")
    /\ call' = [call EXCEPT ![w] = Idle]
    /\ UNCHANGED <<invoice, charge, intent, books, published, bank, inbox>>

\* The process dies between two awaits; what is committed stays.
Crash(w) ==
    /\ call[w].pc \in WorkerPhase
    /\ call' = [call EXCEPT ![w] = Idle]
    /\ UNCHANGED <<invoice, charge, intent, books, published, bank, inbox>>

-----------------------------------------------------------------------------
(* The gateway, outside this repository *)

\* The asynchronous path: ACH debits and actions the customer must take.
GatewayAccepts(k) ==
    /\ gateway[k] = "requested"
    /\ gateway' = [gateway EXCEPT ![k] = "processing"]
    /\ UNCHANGED <<invoice, charge, intent, books, published, requests, inbox, call>>

GatewayDecides(k) ==
    /\ gateway[k] \in {"requested", "processing"}
    /\ \E s \in {"captured", "declined"} : gateway' = [gateway EXCEPT ![k] = s]
    /\ UNCHANGED <<invoice, charge, intent, books, published, requests, inbox, call>>

-----------------------------------------------------------------------------
(* Steps of a webhook consumer *)

\* A message is received: at least once, in any order, as long as the event is
\* not recorded as processed (a recorded one is dropped without effect).
Receive(c, k) ==
    /\ Handling(c, "idle")
    /\ gateway[k] \in {"captured", "declined"}
    /\ k \notin processed
    /\ delivery' = [delivery EXCEPT ![c] = [pc |-> "checked", key |-> k]]
    /\ UNCHANGED <<invoice, charge, intent, books, published, bank, processed, call>>

\* The charge is looked up by its intent id.  None stores it: a logged no-op.
FindCharge(c) ==
    LET k == delivery[c].key IN
    /\ Handling(c, "checked")
    /\ \/ /\ k \notin intent
          /\ Proceed(c, "marking")
       \/ /\ k \in intent
          /\ gateway[k] = "captured"
          /\ delivery' = [delivery EXCEPT ![c] =
                            [pc |-> "found", key |-> k, seen |-> charge[k]]]
       \/ /\ k \in intent
          /\ gateway[k] = "declined"
          /\ Proceed(c, "rejecting")
    /\ UNCHANGED <<invoice, charge, intent, books, published, bank, processed, call>>

\* The invoice is read.  A paid invoice, a charge seen as succeeded or an
\* invoice in any other status than finalized end the handler.
ReadInvoice(c) ==
    LET d == delivery[c]
        open == invoice[d.key[1]] = "finalized" /\ d.seen # "succeeded"
    IN
    /\ Handling(c, "found")
    /\ Proceed(c, IF open THEN "settling" ELSE "marking")
    /\ UNCHANGED <<invoice, charge, intent, books, published, bank, processed, call>>

\* One transaction, decided on the rows read above and not checked again.
SettleByWebhook(c) ==
    LET k == delivery[c].key IN
    /\ Handling(c, "settling")
    /\ charge' = [charge EXCEPT ![k] = "succeeded"]
    /\ invoice' = [invoice EXCEPT ![k[1]] = "paid"]
    /\ booked' = [booked EXCEPT ![k] = @ + 1]
    /\ Proceed(c, "publishPayment")
    /\ UNCHANGED <<intent, reversed, published, bank, processed, call>>

NotifyPayment(c) ==
    /\ Handling(c, "publishPayment")
    /\ published' = published \cup {<<"payment.succeeded", delivery[c].key>>}
    /\ Proceed(c, "publishPaid")
    /\ UNCHANGED <<invoice, charge, intent, books, bank, processed, call>>

NotifyPaid(c) ==
    /\ Handling(c, "publishPaid")
    /\ published' = published \cup {<<"invoice.paid", delivery[c].key>>}
    /\ Proceed(c, "marking")
    /\ UNCHANGED <<invoice, charge, intent, books, bank, processed, call>>

\* payment_failed: the charge becomes failed with no check of its status.
RejectByWebhook(c) ==
    LET k == delivery[c].key IN
    /\ Handling(c, "rejecting")
    /\ charge' = [charge EXCEPT ![k] = "failed"]
    /\ Proceed(c, "publishFailed")
    /\ UNCHANGED <<invoice, intent, books, published, bank, processed, call>>

NotifyFailed(c) ==
    /\ Handling(c, "publishFailed")
    /\ published' = published \cup {<<"payment.failed", delivery[c].key>>}
    /\ Proceed(c, "marking")
    /\ UNCHANGED <<invoice, charge, intent, books, bank, processed, call>>

\* The event is recorded only after everything above returned.
MarkProcessed(c) ==
    /\ Handling(c, "marking")
    /\ processed' = processed \cup {delivery[c].key}
    /\ delivery' = [delivery EXCEPT ![c] = Idle]
    /\ UNCHANGED <<invoice, charge, intent, books, published, bank, call>>

\* A query, a send or the process fails: the message stays in the queue and
\* is delivered again after its visibility timeout.
DropDelivery(c) ==
    /\ ~Handling(c, "idle")
    /\ delivery' = [delivery EXCEPT ![c] = Idle]
    /\ UNCHANGED <<invoice, charge, intent, books, published, bank, processed, call>>

-----------------------------------------------------------------------------
(* InvoicesService.voidInvoice: read, then an update that also tests the     *)
(* status and the reversing ledger entry in one transaction.  A read that    *)
(* meets another status, or an update that finds it changed, throws.         *)

VoidInvoice(i) ==
    /\ invoice[i] = "finalized"
    /\ invoice' = [invoice EXCEPT ![i] = "void"]
    /\ reversed' = [reversed EXCEPT ![i] = @ + 1]
    /\ UNCHANGED <<charge, intent, booked, published, bank, inbox, call>>

-----------------------------------------------------------------------------

WorkerProgress(w) ==
    \/ NoPaymentMethod(w) \/ InsertCharge(w) \/ ReturnExisting(w)
    \/ SendRequest(w) \/ ReceiveAnswer(w) \/ GatewayThrows(w)
    \/ SettleDirectly(w) \/ RecordPending(w) \/ RecordDeclined(w) \/ StoreThrows(w)
    \/ PublishPayment(w) \/ PublishPaid(w) \/ PublishThrows(w)
    \/ MarkFailed(w) \/ PublishFailed(w) \/ CatchThrows(w)

WorkerStep(w) ==
    \/ \E i \in Invoice, n \in Attempt : Admit(w, i, n) \/ Refuse(w, i, n)
    \/ WorkerProgress(w) \/ Rescued(w) \/ Return(w) \/ Crash(w)

ConsumerProgress(c) ==
    \/ FindCharge(c) \/ ReadInvoice(c) \/ SettleByWebhook(c)
    \/ NotifyPayment(c) \/ NotifyPaid(c) \/ RejectByWebhook(c) \/ NotifyFailed(c)
    \/ MarkProcessed(c)

ConsumerStep(c) ==
    \/ \E k \in Key : Receive(c, k)
    \/ ConsumerProgress(c) \/ DropDelivery(c)

GatewayStep == \E k \in Key : GatewayAccepts(k) \/ GatewayDecides(k)

Next ==
    \/ \E w \in Worker : WorkerStep(w)
    \/ \E c \in Consumer : ConsumerStep(c)
    \/ GatewayStep
    \/ \E i \in Invoice : VoidInvoice(i)

Spec == Init /\ [][Next]_vars

(***************************************************************************)
(* Fairness.  A live process keeps running the promise chain it is in, and *)
(* the circuit breaker ends every gateway call after its timeout, so a     *)
(* worker is weakly fair.  The queue delivers a message again until its    *)
(* handler returns; nothing in the handler fails for ever, so each of its  *)
(* steps is strongly fair against dropped deliveries.  Nothing is assumed  *)
(* of the gateway, of callers or of operators.                             *)
(***************************************************************************)
Fairness ==
    /\ \A w \in Worker : WF_vars(WorkerProgress(w)) /\ WF_vars(Rescued(w))
    /\ \A c \in Consumer :
          /\ \A k \in Key : SF_vars(Receive(c, k))
          /\ SF_vars(FindCharge(c))      /\ SF_vars(ReadInvoice(c))
          /\ SF_vars(SettleByWebhook(c)) /\ SF_vars(RejectByWebhook(c))
          /\ SF_vars(NotifyPayment(c))   /\ SF_vars(NotifyPaid(c))
          /\ SF_vars(NotifyFailed(c))    /\ SF_vars(MarkProcessed(c))

FairSpec == Spec /\ Fairness

-----------------------------------------------------------------------------
(* Safety *)

\* However many callers, restarts and redeliveries there are, the gateway is
\* called at most once under one idempotency key: the unique index on
\* charges.idempotency_key lets a single caller past the insert.
OneRequestPerKey == \A k \in Key : requests[k] <= 1

\* Nothing is booked, and no charge is called succeeded, unless the gateway
\* captured the money of exactly that intent.
BooksFollowMoney ==
    \A k \in Key : booked[k] > 0 \/ charge[k] = "succeeded" => gateway[k] = "captured"

\* invoices.status and the ledger agree at every moment: an invoice is paid
\* exactly when a payment of one of its charges is in the ledger.
PaidExactlyWhenBooked ==
    \A i \in Invoice : invoice[i] = "paid" <=> \E n \in Attempt : booked[<<i, n>>] > 0

\* The monolith is told of a payment only after the payment is in the ledger.
EventsFollowBooks ==
    \A k \in Key :
        <<"payment.succeeded", k>> \in published \/ <<"invoice.paid", k>> \in published
            => booked[k] > 0

\* Two operators, or an operator and a payment, never both win: the receivable
\* of an invoice is reversed at most once, and never after a payment of it was
\* booked (voidInvoice's conditional update).
ReversedOnce ==
    [][\A i \in Invoice :
          reversed'[i] # reversed[i]
              => reversed[i] = 0 /\ \A n \in Attempt : booked[<<i, n>>] = 0]_vars

\* With one consumer on the inbound queue a payment is booked once, whether the
\* direct path or a webhook settles it and however often the webhook comes.
BookedOnce == \A k \in Key : booked[k] <= 1

\* A settled charge is never turned around by a webhook: if a succeeded charge
\* becomes failed, that is the catch block of the call that made the charge.
OnlyItsCallFailsACharge ==
    [][\A k \in Key :
          charge[k] = "succeeded" /\ charge'[k] # "succeeded"
              => \E w \in Worker : call[w].pc = "failing" /\ call[w].key = k]_vars

-----------------------------------------------------------------------------
(* Collection implements Settlement *)

Told == {k \in Key : \/ <<"payment.succeeded", k>> \in published
                     \/ <<"invoice.paid", k>> \in published}

Promise == INSTANCE Settlement WITH
    status    <- invoice,
    reversals <- reversed,
    captured  <- {k \in Key : gateway[k] = "captured"},
    payments  <- booked,
    told      <- Told

\* Every step of the workers, the webhook consumer, the gateway and the operator
\* is a step of Settlement or changes nothing it can see.
KeepsPromise == Promise!SettlementSpec

-----------------------------------------------------------------------------
(* Liveness *)

\* No caller hangs on a gateway that does not answer: every call returns.
EveryCallEnds ==
    \A w \in Worker : call[w].pc \in WorkerPhase ~> call[w].pc \in {"idle", "done"}

\* A consumer is past the lookup of charge k and found nothing.
Missed(k) == \E c \in Consumer : delivery[c].pc = "marking" /\ delivery[c].key = k

\* A captured payment whose intent id was stored before its webhook was looked
\* up ends up in the ledger, unless the invoice was closed in another way.
StoredIntentSettles ==
    \A k \in Key :
        gateway[k] = "captured" /\ k \in intent /\ k \notin processed /\ ~Missed(k)
            ~> booked[k] > 0 \/ invoice[k[1]] # "finalized"

-----------------------------------------------------------------------------
(* What the repository says and the code does not do: checked to fail *)

\* invoice-state-machine.ts gives a void invoice no successor.  A payment under
\* way when the invoice is voided still makes it paid.
VoidIsFinal ==
    [][\A i \in Invoice : invoice[i] = "void" => invoice'[i] = "void"]_vars

\* charges.service.ts promises that a pending charge is completed by its
\* webhook.  A webhook handled before the intent id is stored finds no charge
\* and is recorded as processed, and nothing completes the charge any more.
WebhookCompletes ==
    \A k \in Key :
        gateway[k] = "captured" /\ k \in intent /\ charge[k] = "pending"
            ~> charge[k] # "pending" \/ invoice[k[1]] # "finalized"

\* charges.service.ts settles charge, invoice and ledger in one transaction.  A
\* failed send after it makes the charge failed and leaves the other two.
ChargeMatchesBooks == \A k \in Key : booked[k] > 0 => charge[k] = "succeeded"
=============================================================================
