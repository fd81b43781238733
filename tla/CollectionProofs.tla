-------------------------- MODULE CollectionProofs --------------------------
(***************************************************************************)
(* Proofs about Collection for every set of invoices, workers and          *)
(* consumers and every length of the retry schedule.  The inductive        *)
(* invariant is built up in layers: types and who holds a charge row, who  *)
(* may call the gateway, what the money says, what the books say, and      *)
(* (with a single consumer) why nothing is booked twice.  Each layer is    *)
(* preserved by every step given the layers below it.                      *)
(***************************************************************************)
EXTENDS Collection, TLAPS

-----------------------------------------------------------------------------
(* Layer 1: types, and the charge row behind every intent and every owner *)

\* A worker owns its key from the insert to the return of its result.
Owner(w) == call[w].pc \in WorkerPhase \ {"admitted"}

OwnersHaveCharge == \A w \in Worker : Owner(w) => charge[call[w].key] # "none"
IntentHasCharge  == \A k \in intent : charge[k] # "none"

TypeInv == TypeOK /\ OwnersHaveCharge /\ IntentHasCharge

\* A key is a pair of an invoice and an attempt number.
LEMMA KeyParts ==
    ASSUME NEW k \in Key
    PROVE  k[1] \in Invoice /\ k[2] \in Attempt /\ k = <<k[1], k[2]>>
BY DEF Key

\* A worker inside executePaymentForInvoice has a key.
LEMMA CallShape ==
    ASSUME NEW w \in Worker, TypeOK, call[w].pc \in WorkerPhase
    PROVE  call[w].key \in Key
BY DEF TypeOK, Call, Idle, WorkerPhase

\* A consumer inside processWebhookEvent has a key.
LEMMA DeliveryShape ==
    ASSUME NEW c \in Consumer, TypeOK, delivery[c].pc \in ConsumerPhase \cup {"found"}
    PROVE  delivery[c].key \in Key
BY DEF TypeOK, Delivery, Idle, ConsumerPhase

\* The next three lemmas type the ways a process moves.
LEMMA GoToType ==
    ASSUME NEW w \in Worker, TypeOK, call[w].pc \in WorkerPhase,
           NEW p \in WorkerPhase, GoTo(w, p)
    PROVE  call' \in [Worker -> Call]
BY CallShape DEF GoTo, Call, TypeOK

LEMMA FinishType ==
    ASSUME NEW w \in Worker, TypeOK, NEW k \in Key, NEW o \in Outcome, Finish(w, k, o)
    PROVE  call' \in [Worker -> Call]
BY DEF Finish, Call, TypeOK

LEMMA ProceedType ==
    ASSUME NEW c \in Consumer, TypeOK,
           delivery[c].pc \in ConsumerPhase \cup {"found"},
           NEW p \in ConsumerPhase, Proceed(c, p)
    PROVE  delivery' \in [Consumer -> Delivery]
BY DeliveryShape DEF Proceed, Delivery, TypeOK

LEMMA TypeInvInit == Init => TypeInv
BY DEF Init, TypeInv, TypeOK, OwnersHaveCharge, IntentHasCharge, Owner, Idle,
       InvoiceStatus, ChargeStatus, GatewayStatus, WorkerPhase, Call, Delivery

\* Inside the call: every step of executePaymentForInvoice keeps the layer.
LEMMA WorkerKeepsType ==
    ASSUME NEW w \in Worker, TypeInv, WorkerProgress(w)
    PROVE  TypeInv'
<1> USE CallShape DEF TypeInv, TypeOK, OwnersHaveCharge, IntentHasCharge, Owner,
                      At, WorkerPhase, books, bank, inbox
<1>1. CASE NoPaymentMethod(w)
  BY <1>1, FinishType DEF NoPaymentMethod, Finish, Outcome
<1>2. CASE InsertCharge(w)
  BY <1>2, GoToType DEF InsertCharge, GoTo, ChargeStatus
<1>3. CASE ReturnExisting(w)
  BY <1>3, FinishType DEF ReturnExisting, Finish, Outcome, ChargeStatus
<1>4. CASE SendRequest(w)
  <2>1. call' \in [Worker -> Call]
    BY <1>4, GoToType DEF SendRequest
  <2> QED BY <1>4, <2>1 DEF SendRequest, GoTo, GatewayStatus
<1>5. CASE ReceiveAnswer(w)
  <2>1. call' \in [Worker -> Call]
    BY <1>5, GoToType DEF ReceiveAnswer, AnswerPhase, GatewayStatus
  <2> QED BY <1>5, <2>1 DEF ReceiveAnswer, AnswerPhase, GoTo, GatewayStatus
<1>6. CASE GatewayThrows(w)
  BY <1>6, GoToType DEF GatewayThrows, GoTo
<1>7. CASE SettleDirectly(w)
  <2>1. call' \in [Worker -> Call]
    BY <1>7, GoToType DEF SettleDirectly
  <2> QED BY <1>7, <2>1, KeyParts DEF SettleDirectly, GoTo, InvoiceStatus, ChargeStatus
<1>8. CASE RecordPending(w)
  BY <1>8, FinishType DEF RecordPending, Finish, Outcome, ChargeStatus
<1>9. CASE RecordDeclined(w)
  BY <1>9, FinishType DEF RecordDeclined, Finish, Outcome, ChargeStatus
<1>10. CASE StoreThrows(w)
  BY <1>10, GoToType DEF StoreThrows, GoTo
<1>11. CASE PublishPayment(w)
  <2>1. call' \in [Worker -> Call]
    BY <1>11, GoToType DEF PublishPayment
  <2> QED BY <1>11, <2>1 DEF PublishPayment, GoTo, Outbound
<1>12. CASE PublishPaid(w)
  <2>1. call' \in [Worker -> Call]
    BY <1>12, FinishType DEF PublishPaid, Outcome, ChargeStatus
  <2> QED BY <1>12, <2>1 DEF PublishPaid, Finish, Outbound
<1>13. CASE PublishThrows(w)
  BY <1>13, GoToType DEF PublishThrows, GoTo
<1>14. CASE MarkFailed(w)
  BY <1>14, GoToType DEF MarkFailed, GoTo, ChargeStatus
<1>15. CASE PublishFailed(w)
  BY <1>15, GoToType, FinishType
     DEF PublishFailed, GoTo, Finish, Outbound, Outcome, ChargeStatus
<1>16. CASE CatchThrows(w)
  BY <1>16, FinishType DEF CatchThrows, Finish, Outcome
<1> QED
  BY <1>1, <1>2, <1>3, <1>4, <1>5, <1>6, <1>7, <1>8, <1>9, <1>10, <1>11, <1>12,
     <1>13, <1>14, <1>15, <1>16 DEF WorkerProgress

\* Inside the handler: every step of processWebhookEvent keeps the layer.
LEMMA ConsumerKeepsType ==
    ASSUME NEW c \in Consumer, TypeInv, ConsumerProgress(c)
    PROVE  TypeInv'
<1> USE DeliveryShape DEF TypeInv, TypeOK, OwnersHaveCharge, IntentHasCharge, Owner,
                          Handling, ConsumerPhase, books, bank, inbox
<1>1. CASE FindCharge(c)
  <2>1. delivery' \in [Consumer -> Delivery]
    BY <1>1, ProceedType DEF FindCharge, Delivery, ChargeStatus
  <2> QED BY <1>1, <2>1 DEF FindCharge
<1>2. CASE ReadInvoice(c)
  BY <1>2, ProceedType DEF ReadInvoice
<1>3. CASE SettleByWebhook(c)
  BY <1>3, KeyParts, ProceedType DEF SettleByWebhook, InvoiceStatus, ChargeStatus
<1>4. CASE NotifyPayment(c)
  BY <1>4, ProceedType DEF NotifyPayment, Outbound
<1>5. CASE NotifyPaid(c)
  BY <1>5, ProceedType DEF NotifyPaid, Outbound
<1>6. CASE RejectByWebhook(c)
  BY <1>6, ProceedType DEF RejectByWebhook, ChargeStatus
<1>7. CASE NotifyFailed(c)
  BY <1>7, ProceedType DEF NotifyFailed, Outbound
<1>8. CASE MarkProcessed(c)
  BY <1>8 DEF MarkProcessed, Delivery
<1> QED
  BY <1>1, <1>2, <1>3, <1>4, <1>5, <1>6, <1>7, <1>8 DEF ConsumerProgress

LEMMA TypeInvStep == TypeInv /\ [Next]_vars => TypeInv'
<1> SUFFICES ASSUME TypeInv, [Next]_vars PROVE TypeInv'
  OBVIOUS
<1> USE DEF TypeInv, TypeOK, OwnersHaveCharge, IntentHasCharge, Owner, WorkerPhase,
            books, bank, inbox
<1>1. ASSUME NEW w \in Worker, WorkerStep(w) PROVE TypeInv'
  <2>1. ASSUME NEW i \in Invoice, NEW n \in Attempt, Admit(w, i, n) PROVE TypeInv'
    BY <2>1 DEF Admit, Call, Key
  <2>2. ASSUME NEW i \in Invoice, NEW n \in Attempt, Refuse(w, i, n) PROVE TypeInv'
    BY <2>2, FinishType DEF Refuse, Finish, Outcome, Key
  <2>3. CASE Rescued(w)
    BY <2>3, CallShape, FinishType DEF Rescued, At, Finish, Outcome, ChargeStatus
  <2>4. CASE Return(w)
    BY <2>4 DEF Return, Call, Idle
  <2>5. CASE Crash(w)
    BY <2>5 DEF Crash, Call, Idle
  <2> QED BY <1>1, <2>1, <2>2, <2>3, <2>4, <2>5, WorkerKeepsType DEF WorkerStep
<1>2. ASSUME NEW c \in Consumer, ConsumerStep(c) PROVE TypeInv'
  <2>1. ASSUME NEW k \in Key, Receive(c, k) PROVE TypeInv'
    BY <2>1 DEF Receive, Delivery, ConsumerPhase
  <2>2. CASE DropDelivery(c)
    BY <2>2 DEF DropDelivery, Delivery
  <2> QED BY <1>2, <2>1, <2>2, ConsumerKeepsType DEF ConsumerStep
<1>3. CASE GatewayStep
  BY <1>3 DEF GatewayStep, GatewayAccepts, GatewayDecides, GatewayStatus
<1>4. ASSUME NEW i \in Invoice, VoidInvoice(i) PROVE TypeInv'
  BY <1>4 DEF VoidInvoice, InvoiceStatus
<1>5. CASE UNCHANGED vars
  BY <1>5 DEF vars
<1> QED BY <1>1, <1>2, <1>3, <1>4, <1>5 DEF Next

\* Every variable keeps its type.
THEOREM TypeCorrect == Spec => []TypeOK
<1>1. Spec => []TypeInv
  BY TypeInvInit, TypeInvStep, PTL DEF Spec
<1>2. TypeInv => TypeOK
  BY DEF TypeInv
<1> QED BY <1>1, <1>2, PTL

-----------------------------------------------------------------------------
(* Layer 2: who may call the gateway *)

\* A key has one owner, and until that owner sends its request nobody has.
UniqueOwner ==
    \A v, w \in Worker : Owner(v) /\ Owner(w) /\ call[v].key = call[w].key => v = w
Unrequested ==
    /\ \A k \in Key : charge[k] = "none" => requests[k] = 0
    /\ \A w \in Worker : At(w, "inserted") => requests[call[w].key] = 0

OwnInv == UniqueOwner /\ Unrequested /\ OneRequestPerKey

LEMMA OwnInvStep == TypeInv /\ OwnInv /\ [Next]_vars => OwnInv'
<1> SUFFICES ASSUME TypeInv, OwnInv, [Next]_vars PROVE OwnInv'
  OBVIOUS
<1> USE DEF TypeInv, TypeOK, OwnInv, UniqueOwner, Unrequested, OneRequestPerKey, Owner,
            At, WorkerPhase, books, bank, inbox
<1>1. ASSUME NEW w \in Worker, WorkerStep(w) PROVE OwnInv'
  <2>1. CASE InsertCharge(w)
    BY <2>1, CallShape DEF InsertCharge, GoTo, OwnersHaveCharge
  <2>2. CASE SendRequest(w)
    BY <2>2, CallShape DEF SendRequest, GoTo, OwnersHaveCharge
  <2>3. CASE ReceiveAnswer(w)
    BY <2>3, CallShape DEF ReceiveAnswer, GoTo, AnswerPhase
  <2>4. CASE SettleDirectly(w) \/ MarkFailed(w)
    BY <2>4, CallShape DEF SettleDirectly, MarkFailed, GoTo
  <2>5. CASE RecordDeclined(w)
    BY <2>5, CallShape DEF RecordDeclined, Finish
  <2>6. CASE \/ GatewayThrows(w) \/ StoreThrows(w) \/ PublishPayment(w) \/ PublishThrows(w)
    BY <2>6, CallShape DEF GatewayThrows, StoreThrows, PublishPayment, PublishThrows, GoTo
  <2>7. CASE \/ NoPaymentMethod(w) \/ ReturnExisting(w) \/ RecordPending(w)
             \/ PublishPaid(w) \/ CatchThrows(w) \/ Rescued(w)
    BY <2>7, CallShape DEF NoPaymentMethod, ReturnExisting, RecordPending, PublishPaid,
                           CatchThrows, Rescued, Finish
  <2>8. CASE PublishFailed(w)
    BY <2>8, CallShape DEF PublishFailed, GoTo, Finish
  <2>9. CASE Return(w) \/ Crash(w)
    BY <2>9 DEF Return, Crash, Idle
  <2>10. CASE \E i \in Invoice, n \in Attempt : Admit(w, i, n) \/ Refuse(w, i, n)
    BY <2>10 DEF Admit, Refuse, Finish
  <2> QED
    BY <1>1, <2>1, <2>2, <2>3, <2>4, <2>5, <2>6, <2>7, <2>8, <2>9, <2>10
       DEF WorkerStep, WorkerProgress
<1>2. ASSUME NEW c \in Consumer, ConsumerStep(c) PROVE OwnInv'
  <2>1. charge' = charge \/ SettleByWebhook(c) \/ RejectByWebhook(c)
    BY <1>2 DEF ConsumerStep, ConsumerProgress, Receive, FindCharge, ReadInvoice,
                NotifyPayment, NotifyPaid, NotifyFailed, MarkProcessed, DropDelivery
  <2>2. \A k \in Key : charge'[k] = "none" => charge[k] = "none"
    <3>1. CASE charge' = charge
      BY <3>1
    <3>2. CASE SettleByWebhook(c)
      BY <3>2 DEF SettleByWebhook
    <3>3. CASE RejectByWebhook(c)
      BY <3>3 DEF RejectByWebhook
    <3> QED BY <2>1, <3>1, <3>2, <3>3
  <2>3. UNCHANGED <<requests, call>>
    BY <1>2 DEF ConsumerStep, ConsumerProgress, Receive, FindCharge, ReadInvoice,
                SettleByWebhook, NotifyPayment, NotifyPaid, RejectByWebhook,
                NotifyFailed, MarkProcessed, DropDelivery
  <2> QED BY <2>2, <2>3
<1>3. CASE GatewayStep
  BY <1>3 DEF GatewayStep, GatewayAccepts, GatewayDecides
<1>4. ASSUME NEW i \in Invoice, VoidInvoice(i) PROVE OwnInv'
  BY <1>4 DEF VoidInvoice
<1>5. CASE UNCHANGED vars
  BY <1>5 DEF vars
<1> QED BY <1>1, <1>2, <1>3, <1>4, <1>5 DEF Next

LEMMA OwnInvInit == Init => OwnInv
BY DEF Init, OwnInv, UniqueOwner, Unrequested, OneRequestPerKey, Owner, At, Idle, WorkerPhase

\* However many callers, restarts and redeliveries there are, at most one payment
\* request leaves under an idempotency key.
THEOREM SingleRequest == Spec => []OneRequestPerKey
<1>1. Spec => [](TypeInv /\ OwnInv)
  BY TypeInvInit, TypeInvStep, OwnInvInit, OwnInvStep, PTL DEF Spec
<1>2. OwnInv => OneRequestPerKey
  BY DEF OwnInv
<1> QED BY <1>1, <1>2, PTL

-----------------------------------------------------------------------------
(* Layer 3: what the gateway did *)

\* A process that acts on an outcome acts on the outcome its intent had.
ActsOnOutcome ==
    /\ \A w \in Worker :
          /\ call[w].pc \in {"answeredSucceeded", "publishPayment", "publishPaid"}
                => gateway[call[w].key] = "captured"
          /\ At(w, "answeredFailed") => gateway[call[w].key] = "declined"
    /\ \A c \in Consumer :
          /\ delivery[c].pc \in {"found", "settling", "publishPayment", "publishPaid"}
                => gateway[delivery[c].key] = "captured"
          /\ Handling(c, "rejecting") => gateway[delivery[c].key] = "declined"

MoneyInv == ActsOnOutcome /\ BooksFollowMoney

LEMMA MoneyInvInit == Init => MoneyInv
BY DEF Init, MoneyInv, ActsOnOutcome, BooksFollowMoney, At, Handling, Idle

LEMMA MoneyInvStep == TypeInv /\ MoneyInv /\ [Next]_vars => MoneyInv'
<1> SUFFICES ASSUME TypeInv, MoneyInv, [Next]_vars PROVE MoneyInv'
  OBVIOUS
<1> USE DEF TypeInv, TypeOK, MoneyInv, ActsOnOutcome, BooksFollowMoney,
            At, Handling, WorkerPhase, ConsumerPhase, books, bank, inbox
<1>1. ASSUME NEW w \in Worker, WorkerStep(w) PROVE MoneyInv'
  <2>1. CASE InsertCharge(w)
    BY <2>1, CallShape DEF InsertCharge, GoTo
  <2>2. CASE SendRequest(w)
    BY <2>2, CallShape DEF SendRequest, GoTo
  <2>3. CASE ReceiveAnswer(w)
    BY <2>3, CallShape DEF ReceiveAnswer, GoTo, AnswerPhase
  <2>4. CASE SettleDirectly(w)
    BY <2>4, CallShape DEF SettleDirectly, GoTo
  <2>5. CASE RecordDeclined(w)
    BY <2>5, CallShape DEF RecordDeclined, Finish
  <2>6. CASE MarkFailed(w)
    BY <2>6, CallShape DEF MarkFailed, GoTo
  <2>7. CASE \/ GatewayThrows(w) \/ StoreThrows(w) \/ PublishPayment(w) \/ PublishThrows(w)
    BY <2>7, CallShape DEF GatewayThrows, StoreThrows, PublishPayment, PublishThrows, GoTo
  <2>8. CASE \/ NoPaymentMethod(w) \/ ReturnExisting(w) \/ RecordPending(w)
             \/ PublishPaid(w) \/ CatchThrows(w) \/ Rescued(w)
    BY <2>8, CallShape DEF NoPaymentMethod, ReturnExisting, RecordPending, PublishPaid,
                           CatchThrows, Rescued, Finish
  <2>9. CASE PublishFailed(w)
    BY <2>9, CallShape DEF PublishFailed, GoTo, Finish
  <2>10. CASE Return(w) \/ Crash(w)
    BY <2>10 DEF Return, Crash, Idle
  <2>11. CASE \E i \in Invoice, n \in Attempt : Admit(w, i, n) \/ Refuse(w, i, n)
    BY <2>11 DEF Admit, Refuse, Finish
  <2> QED
    BY <1>1, <2>1, <2>2, <2>3, <2>4, <2>5, <2>6, <2>7, <2>8, <2>9, <2>10, <2>11
       DEF WorkerStep, WorkerProgress
<1>2. ASSUME NEW c \in Consumer, ConsumerStep(c) PROVE MoneyInv'
  <2>1. CASE \E k \in Key : Receive(c, k)
    BY <2>1 DEF Receive
  <2>2. CASE FindCharge(c)
    BY <2>2, DeliveryShape DEF FindCharge, Proceed
  <2>3. CASE ReadInvoice(c)
    BY <2>3, DeliveryShape DEF ReadInvoice, Proceed
  <2>4. CASE SettleByWebhook(c)
    BY <2>4, DeliveryShape DEF SettleByWebhook, Proceed
  <2>5. CASE RejectByWebhook(c)
    BY <2>5, DeliveryShape DEF RejectByWebhook, Proceed
  <2>6. CASE NotifyPayment(c) \/ NotifyPaid(c) \/ NotifyFailed(c)
    BY <2>6, DeliveryShape DEF NotifyPayment, NotifyPaid, NotifyFailed, Proceed
  <2>7. CASE MarkProcessed(c) \/ DropDelivery(c)
    BY <2>7 DEF MarkProcessed, DropDelivery, Idle
  <2> QED BY <1>2, <2>1, <2>2, <2>3, <2>4, <2>5, <2>6, <2>7 DEF ConsumerStep, ConsumerProgress
<1>3. CASE GatewayStep
  BY <1>3, CallShape, DeliveryShape DEF GatewayStep, GatewayAccepts, GatewayDecides
<1>4. ASSUME NEW i \in Invoice, VoidInvoice(i) PROVE MoneyInv'
  BY <1>4 DEF VoidInvoice
<1>5. CASE UNCHANGED vars
  BY <1>5 DEF vars
<1> QED BY <1>1, <1>2, <1>3, <1>4, <1>5 DEF Next

\* Nothing is booked and no charge is called succeeded unless the gateway
\* captured the money of that very intent.
THEOREM MoneyFirst == Spec => []BooksFollowMoney
<1>1. Spec => [](TypeInv /\ MoneyInv)
  BY TypeInvInit, TypeInvStep, MoneyInvInit, MoneyInvStep, PTL DEF Spec
<1>2. MoneyInv => BooksFollowMoney
  BY DEF MoneyInv
<1> QED BY <1>1, <1>2, PTL

\* A succeeded charge is turned around only by the catch block of its own call:
\* a decline, from the gateway's answer or a webhook, contradicts the money.
THEOREM OnlyOwnCallFails == Spec => OnlyItsCallFailsACharge
<1> DEFINE A == \A k \in Key :
                   charge[k] = "succeeded" /\ charge'[k] # "succeeded"
                      => \E w \in Worker : call[w].pc = "failing" /\ call[w].key = k
<1>1. TypeInv /\ MoneyInv /\ [Next]_vars => [A]_vars
  <2> SUFFICES ASSUME TypeInv, MoneyInv, Next PROVE A
    OBVIOUS
  <2> USE DEF TypeInv, TypeOK, MoneyInv, ActsOnOutcome, BooksFollowMoney, At, Handling,
              WorkerPhase, ConsumerPhase
  <2>1. ASSUME NEW w \in Worker, WorkerStep(w) PROVE A
    <3>1. CASE charge' = charge
      BY <3>1
    <3>2. CASE InsertCharge(w) \/ SettleDirectly(w) \/ RecordDeclined(w) \/ MarkFailed(w)
      BY <3>2, CallShape DEF InsertCharge, SettleDirectly, RecordDeclined, MarkFailed
    <3> QED
      BY <2>1, <3>1, <3>2
         DEF WorkerStep, WorkerProgress, Admit, Refuse, NoPaymentMethod, ReturnExisting,
             SendRequest, ReceiveAnswer, GatewayThrows, RecordPending, StoreThrows,
             PublishPayment, PublishPaid, PublishThrows, PublishFailed, CatchThrows,
             Rescued, Return, Crash
  <2>2. ASSUME NEW c \in Consumer, ConsumerStep(c) PROVE A
    <3>1. CASE charge' = charge
      BY <3>1
    <3>2. CASE SettleByWebhook(c) \/ RejectByWebhook(c)
      BY <3>2, DeliveryShape DEF SettleByWebhook, RejectByWebhook
    <3> QED
      BY <2>2, <3>1, <3>2
         DEF ConsumerStep, ConsumerProgress, Receive, FindCharge, ReadInvoice,
             NotifyPayment, NotifyPaid, NotifyFailed, MarkProcessed, DropDelivery
  <2>3. CASE GatewayStep
    BY <2>3 DEF GatewayStep, GatewayAccepts, GatewayDecides
  <2>4. ASSUME NEW i \in Invoice, VoidInvoice(i) PROVE A
    BY <2>4 DEF VoidInvoice
  <2> QED BY <2>1, <2>2, <2>3, <2>4 DEF Next
<1>2. Spec => [](TypeInv /\ MoneyInv)
  BY TypeInvInit, TypeInvStep, MoneyInvInit, MoneyInvStep, PTL DEF Spec
<1> QED BY <1>1, <1>2, PTL DEF Spec, OnlyItsCallFailsACharge

-----------------------------------------------------------------------------
(* Layer 4: the books *)

\* Processes that announce a payment have booked it.
AnnouncersBooked ==
    /\ \A w \in Worker : call[w].pc \in {"publishPayment", "publishPaid"}
                             => booked[call[w].key] > 0
    /\ \A c \in Consumer : delivery[c].pc \in {"publishPayment", "publishPaid"}
                               => booked[delivery[c].key] > 0

OpenNotReversed == \A i \in Invoice : invoice[i] = "finalized" => reversed[i] = 0

BooksInv ==
    AnnouncersBooked /\ EventsFollowBooks /\ PaidExactlyWhenBooked /\ OpenNotReversed

LEMMA BooksInvInit == Init => BooksInv
<1> SUFFICES ASSUME Init PROVE BooksInv
  OBVIOUS
<1>1. PaidExactlyWhenBooked
  <2> SUFFICES ASSUME NEW i \in Invoice, NEW n \in Attempt
               PROVE  invoice[i] # "paid" /\ ~(booked[<<i, n>>] > 0)
    BY DEF PaidExactlyWhenBooked, Init
  <2>1. <<i, n>> \in Key
    BY DEF Key
  <2> QED BY <2>1 DEF Init
<1>2. AnnouncersBooked /\ EventsFollowBooks /\ OpenNotReversed
  BY DEF Init, AnnouncersBooked, EventsFollowBooks, OpenNotReversed, Idle
<1> QED BY <1>1, <1>2 DEF BooksInv

\* Both transactions that settle an attempt move the invoice and its books together.
LEMMA SettlingKeepsBooks ==
    ASSUME TypeOK, PaidExactlyWhenBooked, OpenNotReversed, NEW k \in Key,
           invoice' = [invoice EXCEPT ![k[1]] = "paid"],
           booked' = [booked EXCEPT ![k] = @ + 1],
           reversed' = reversed
    PROVE  PaidExactlyWhenBooked' /\ OpenNotReversed'
<1> USE KeyParts DEF TypeOK, PaidExactlyWhenBooked, OpenNotReversed
<1>1. ASSUME NEW i \in Invoice, i = k[1]
      PROVE  invoice'[i] = "paid" /\ \E n \in Attempt : booked'[<<i, n>>] > 0
  <2>1. booked'[<<i, k[2]>>] > 0 /\ k[2] \in Attempt
    <3>1. k = <<i, k[2]>> /\ k[2] \in Attempt
      BY <1>1, KeyParts
    <3>2. booked'[k] > 0
      OBVIOUS
    <3> QED BY <3>1, <3>2
  <2>2. invoice'[i] = "paid"
    BY <1>1
  <2> QED BY <2>1, <2>2
<1>2. ASSUME NEW i \in Invoice, i # k[1]
      PROVE  invoice'[i] = invoice[i] /\ \A n \in Attempt : booked'[<<i, n>>] = booked[<<i, n>>]
  BY <1>2 DEF Key
<1> QED BY <1>1, <1>2

LEMMA BooksInvStep == TypeInv /\ BooksInv /\ [Next]_vars => BooksInv'
<1> SUFFICES ASSUME TypeInv, BooksInv, [Next]_vars PROVE BooksInv'
  OBVIOUS
<1> USE DEF TypeInv, TypeOK, BooksInv, At, Handling, WorkerPhase, ConsumerPhase,
            books, bank, inbox
<1>1. ASSUME NEW w \in Worker, WorkerStep(w) PROVE BooksInv'
  <2> USE DEF AnnouncersBooked, EventsFollowBooks
  <2>1. CASE SettleDirectly(w)
    <3>1. (PaidExactlyWhenBooked /\ OpenNotReversed)'
      BY <2>1, CallShape, SettlingKeepsBooks DEF SettleDirectly
    <3>2. (AnnouncersBooked /\ EventsFollowBooks)'
      BY <2>1, CallShape DEF SettleDirectly, GoTo
    <3> QED BY <3>1, <3>2
  <2>2. UNCHANGED <<invoice, books>> => (PaidExactlyWhenBooked /\ OpenNotReversed)'
    BY DEF PaidExactlyWhenBooked, OpenNotReversed
  <2>3. CASE PublishPayment(w)
    BY <2>2, <2>3, CallShape DEF PublishPayment, GoTo
  <2>4. CASE PublishPaid(w)
    BY <2>2, <2>4, CallShape DEF PublishPaid, Finish
  <2>5. CASE PublishFailed(w)
    BY <2>2, <2>5, CallShape DEF PublishFailed, GoTo, Finish
  <2>6. CASE ReceiveAnswer(w)
    BY <2>2, <2>6, CallShape DEF ReceiveAnswer, AnswerPhase, GoTo
  <2>7. CASE \/ InsertCharge(w) \/ SendRequest(w) \/ GatewayThrows(w) \/ StoreThrows(w)
             \/ PublishThrows(w) \/ MarkFailed(w)
    BY <2>2, <2>7, CallShape
       DEF InsertCharge, SendRequest, GatewayThrows, StoreThrows, PublishThrows,
           MarkFailed, GoTo
  <2>8. CASE \/ NoPaymentMethod(w) \/ ReturnExisting(w) \/ RecordPending(w)
             \/ RecordDeclined(w) \/ CatchThrows(w) \/ Rescued(w)
    BY <2>2, <2>8, CallShape
       DEF NoPaymentMethod, ReturnExisting, RecordPending, RecordDeclined,
           CatchThrows, Rescued, Finish
  <2>9. CASE Return(w) \/ Crash(w)
    BY <2>2, <2>9 DEF Return, Crash, Idle
  <2>10. CASE \E i \in Invoice, n \in Attempt : Admit(w, i, n) \/ Refuse(w, i, n)
    BY <2>2, <2>10 DEF Admit, Refuse, Finish
  <2> QED
    BY <1>1, <2>1, <2>3, <2>4, <2>5, <2>6, <2>7, <2>8, <2>9, <2>10
       DEF WorkerStep, WorkerProgress
<1>2. ASSUME NEW c \in Consumer, ConsumerStep(c) PROVE BooksInv'
  <2> USE DEF AnnouncersBooked, EventsFollowBooks
  <2>1. CASE SettleByWebhook(c)
    <3>1. (PaidExactlyWhenBooked /\ OpenNotReversed)'
      BY <2>1, DeliveryShape, SettlingKeepsBooks DEF SettleByWebhook
    <3>2. (AnnouncersBooked /\ EventsFollowBooks)'
      BY <2>1, DeliveryShape DEF SettleByWebhook, Proceed
    <3> QED BY <3>1, <3>2
  <2>2. UNCHANGED <<invoice, books>> => (PaidExactlyWhenBooked /\ OpenNotReversed)'
    BY DEF PaidExactlyWhenBooked, OpenNotReversed
  <2>3. CASE \E k \in Key : Receive(c, k)
    BY <2>2, <2>3 DEF Receive
  <2>4. CASE FindCharge(c)
    BY <2>2, <2>4, DeliveryShape DEF FindCharge, Proceed
  <2>5. CASE ReadInvoice(c) \/ RejectByWebhook(c)
    BY <2>2, <2>5, DeliveryShape DEF ReadInvoice, RejectByWebhook, Proceed
  <2>6. CASE NotifyPayment(c) \/ NotifyPaid(c) \/ NotifyFailed(c)
    BY <2>2, <2>6, DeliveryShape DEF NotifyPayment, NotifyPaid, NotifyFailed, Proceed
  <2>7. CASE MarkProcessed(c) \/ DropDelivery(c)
    BY <2>2, <2>7 DEF MarkProcessed, DropDelivery, Idle
  <2> QED BY <1>2, <2>1, <2>3, <2>4, <2>5, <2>6, <2>7 DEF ConsumerStep, ConsumerProgress
<1>3. CASE GatewayStep
  BY <1>3 DEF GatewayStep, GatewayAccepts, GatewayDecides, AnnouncersBooked,
              EventsFollowBooks, PaidExactlyWhenBooked, OpenNotReversed
<1>4. ASSUME NEW i \in Invoice, VoidInvoice(i) PROVE BooksInv'
  <2>1. (AnnouncersBooked /\ EventsFollowBooks)'
    BY <1>4 DEF VoidInvoice, AnnouncersBooked, EventsFollowBooks
  <2>2. PaidExactlyWhenBooked' /\ OpenNotReversed'
    BY <1>4 DEF VoidInvoice, PaidExactlyWhenBooked, OpenNotReversed
  <2> QED BY <2>1, <2>2
<1>5. CASE UNCHANGED vars
  BY <1>5 DEF vars, AnnouncersBooked, EventsFollowBooks, PaidExactlyWhenBooked, OpenNotReversed
<1> QED BY <1>1, <1>2, <1>3, <1>4, <1>5 DEF Next

LEMMA BooksInvariant == Spec => [](TypeInv /\ BooksInv)
BY TypeInvInit, TypeInvStep, BooksInvInit, BooksInvStep, PTL DEF Spec

\* An invoice is paid exactly when the ledger has a payment of one of its charges.
THEOREM StatusFollowsLedger == Spec => []PaidExactlyWhenBooked
<1>1. BooksInv => PaidExactlyWhenBooked
  BY DEF BooksInv
<1> QED BY <1>1, BooksInvariant, PTL

\* The monolith hears of a payment only after it is in the ledger.
THEOREM LedgerBeforeEvents == Spec => []EventsFollowBooks
<1>1. BooksInv => EventsFollowBooks
  BY DEF BooksInv
<1> QED BY <1>1, BooksInvariant, PTL

\* A receivable is reversed once at most, and never after a payment was booked.
THEOREM ReversedAtMostOnce == Spec => ReversedOnce
<1> DEFINE A == \A i \in Invoice :
                   reversed'[i] # reversed[i]
                      => reversed[i] = 0 /\ \A n \in Attempt : booked[<<i, n>>] = 0
<1>1. TypeInv /\ BooksInv /\ [Next]_vars => [A]_vars
  <2> SUFFICES ASSUME TypeInv, BooksInv, Next PROVE A
    OBVIOUS
  <2>1. CASE reversed' = reversed
    BY <2>1
  <2>2. ASSUME NEW j \in Invoice, VoidInvoice(j) PROVE A
    <3>1. reversed[j] = 0 /\ \A n \in Attempt : booked[<<j, n>>] = 0
      <4>1. ASSUME NEW n \in Attempt PROVE booked[<<j, n>>] \in Nat
        BY DEF TypeInv, TypeOK, Key
      <4> QED BY <2>2, <4>1 DEF VoidInvoice, BooksInv, PaidExactlyWhenBooked, OpenNotReversed
    <3> QED BY <2>2, <3>1 DEF VoidInvoice, TypeInv, TypeOK
  <2>3. ASSUME NEW w \in Worker, WorkerStep(w) PROVE reversed' = reversed
    BY <2>3 DEF WorkerStep, WorkerProgress, Admit, Refuse, NoPaymentMethod, InsertCharge,
                ReturnExisting, SendRequest, ReceiveAnswer, GatewayThrows, SettleDirectly,
                RecordPending, RecordDeclined, StoreThrows, PublishPayment, PublishPaid,
                PublishThrows, MarkFailed, PublishFailed, CatchThrows, Rescued, Return,
                Crash, books
  <2>4. ASSUME NEW c \in Consumer, ConsumerStep(c) PROVE reversed' = reversed
    BY <2>4 DEF ConsumerStep, ConsumerProgress, Receive, FindCharge, ReadInvoice,
                SettleByWebhook, NotifyPayment, NotifyPaid, RejectByWebhook, NotifyFailed,
                MarkProcessed, DropDelivery, books
  <2>5. CASE GatewayStep
    BY <2>1, <2>5 DEF GatewayStep, GatewayAccepts, GatewayDecides, books
  <2> QED BY <2>1, <2>2, <2>3, <2>4, <2>5 DEF Next
<1> QED BY <1>1, BooksInvariant, PTL DEF Spec, ReversedOnce

-----------------------------------------------------------------------------
(* Layer 5: why nothing is booked twice *)

\* Handlers of the inbound queue do not overlap.
SingleConsumer == \A c, d \in Consumer : c = d

Undecided == {"inserted", "waiting", "answeredSucceeded", "answeredPending", "answeredFailed"}

\* The intent id is stored by the owner's last write, so until then no webhook
\* can find the charge; and a webhook about to settle still finds it unbooked.
OneBooker ==
    /\ \A k \in Key : k \notin intent => booked[k] = 0
    /\ \A w \in Worker : call[w].pc \in Undecided => call[w].key \notin intent
    /\ \A c \in Consumer : delivery[c].pc \in {"found", "settling"} => delivery[c].key \in intent
    /\ \A c \in Consumer : Handling(c, "settling") => booked[delivery[c].key] = 0

OnceInv == OneBooker /\ BookedOnce

LEMMA OnceInvInit == Init => OnceInv
BY DEF Init, OnceInv, OneBooker, BookedOnce, Handling, Undecided, Idle

\* What makes the direct path safe: it settles a charge no webhook has found.
LEMMA DirectIsFirst ==
    ASSUME NEW w \in Worker, TypeInv, OnceInv, SettleDirectly(w)
    PROVE  call[w].key \in Key \ intent /\ booked[call[w].key] = 0
BY CallShape DEF TypeInv, OnceInv, OneBooker, SettleDirectly, At, Undecided, WorkerPhase

\* What makes the webhook safe: a finalized invoice has no payment booked.
LEMMA OpenIsUnbooked ==
    ASSUME TypeInv, BooksInv, NEW k \in Key, invoice[k[1]] = "finalized"
    PROVE  booked[k] = 0
<1>1. k[1] \in Invoice /\ k[2] \in Attempt /\ k = <<k[1], k[2]>> /\ booked[k] \in Nat
  BY KeyParts DEF TypeInv, TypeOK
<1>2. ~(booked[<<k[1], k[2]>>] > 0)
  BY <1>1 DEF BooksInv, PaidExactlyWhenBooked
<1>3. ~(booked[k] > 0)
  BY <1>1, <1>2
<1> QED BY <1>1, <1>3

LEMMA OnceInvStep ==
    ASSUME SingleConsumer
    PROVE  TypeInv /\ OwnInv /\ BooksInv /\ OnceInv /\ [Next]_vars => OnceInv'
<1> SUFFICES ASSUME TypeInv, OwnInv, BooksInv, OnceInv, [Next]_vars PROVE OnceInv'
  OBVIOUS
<1> USE DEF TypeInv, TypeOK, OnceInv, OneBooker, BookedOnce, Undecided,
            At, Handling, WorkerPhase, ConsumerPhase, books, bank, inbox
<1>1. ASSUME NEW w \in Worker, WorkerStep(w) PROVE OnceInv'
  <2>1. CASE InsertCharge(w)
    BY <2>1, CallShape DEF InsertCharge, GoTo, IntentHasCharge
  <2>2. CASE SendRequest(w)
    BY <2>2, CallShape DEF SendRequest, GoTo
  <2>3. CASE ReceiveAnswer(w)
    BY <2>3, CallShape DEF ReceiveAnswer, GoTo, AnswerPhase
  <2>4. CASE SettleDirectly(w)
    BY <2>4, CallShape, DirectIsFirst DEF SettleDirectly, GoTo, OwnInv, UniqueOwner, Owner
  <2>5. CASE RecordPending(w) \/ RecordDeclined(w)
    BY <2>5, CallShape DEF RecordPending, RecordDeclined, Finish, OwnInv, UniqueOwner, Owner
  <2>6. CASE \/ GatewayThrows(w) \/ StoreThrows(w) \/ PublishPayment(w) \/ PublishThrows(w)
             \/ MarkFailed(w)
    BY <2>6, CallShape
       DEF GatewayThrows, StoreThrows, PublishPayment, PublishThrows, MarkFailed, GoTo
  <2>7. CASE \/ NoPaymentMethod(w) \/ ReturnExisting(w) \/ PublishPaid(w)
             \/ CatchThrows(w) \/ Rescued(w)
    BY <2>7, CallShape
       DEF NoPaymentMethod, ReturnExisting, PublishPaid, CatchThrows, Rescued, Finish
  <2>8. CASE PublishFailed(w)
    BY <2>8, CallShape DEF PublishFailed, GoTo, Finish
  <2>9. CASE Return(w) \/ Crash(w)
    BY <2>9 DEF Return, Crash, Idle
  <2>10. CASE \E i \in Invoice, n \in Attempt : Admit(w, i, n) \/ Refuse(w, i, n)
    BY <2>10 DEF Admit, Refuse, Finish
  <2> QED
    BY <1>1, <2>1, <2>2, <2>3, <2>4, <2>5, <2>6, <2>7, <2>8, <2>9, <2>10
       DEF WorkerStep, WorkerProgress
<1>2. ASSUME NEW c \in Consumer, ConsumerStep(c) PROVE OnceInv'
  <2>1. CASE \E k \in Key : Receive(c, k)
    BY <2>1 DEF Receive
  <2>2. CASE FindCharge(c)
    BY <2>2, DeliveryShape DEF FindCharge, Proceed
  <2>3. CASE ReadInvoice(c)
    BY <2>3, DeliveryShape, OpenIsUnbooked DEF ReadInvoice, Proceed
  <2>4. CASE SettleByWebhook(c)
    BY <2>4, DeliveryShape DEF SettleByWebhook, Proceed, SingleConsumer
  <2>5. CASE RejectByWebhook(c)
    BY <2>5, DeliveryShape DEF RejectByWebhook, Proceed
  <2>6. CASE NotifyPayment(c) \/ NotifyPaid(c) \/ NotifyFailed(c)
    BY <2>6, DeliveryShape DEF NotifyPayment, NotifyPaid, NotifyFailed, Proceed
  <2>7. CASE MarkProcessed(c) \/ DropDelivery(c)
    BY <2>7 DEF MarkProcessed, DropDelivery, Idle
  <2> QED BY <1>2, <2>1, <2>2, <2>3, <2>4, <2>5, <2>6, <2>7 DEF ConsumerStep, ConsumerProgress
<1>3. CASE GatewayStep
  BY <1>3 DEF GatewayStep, GatewayAccepts, GatewayDecides
<1>4. ASSUME NEW i \in Invoice, VoidInvoice(i) PROVE OnceInv'
  BY <1>4 DEF VoidInvoice
<1>5. CASE UNCHANGED vars
  BY <1>5 DEF vars
<1> QED BY <1>1, <1>2, <1>3, <1>4, <1>5 DEF Next

LEMMA OnceInvariant ==
    ASSUME SingleConsumer
    PROVE  Spec => [](TypeInv /\ OwnInv /\ MoneyInv /\ BooksInv /\ OnceInv)
BY TypeInvInit, TypeInvStep, OwnInvInit, OwnInvStep, MoneyInvInit, MoneyInvStep,
   BooksInvInit, BooksInvStep, OnceInvInit, OnceInvStep, PTL DEF Spec

\* With one consumer a payment is booked once, whichever path settles it and
\* however often its webhook is delivered.
THEOREM BookedAtMostOnce ==
    ASSUME SingleConsumer
    PROVE  Spec => []BookedOnce
<1>1. OnceInv => BookedOnce
  BY DEF OnceInv
<1> QED BY <1>1, OnceInvariant, PTL

-----------------------------------------------------------------------------
(* Collection implements Settlement *)

Captured == {k \in Key : gateway[k] = "captured"}
PromiseVars == <<invoice, reversed, Captured, booked, Told>>

LEMMA PromiseInit == Init => Promise!SettlementInit
BY DEF Init, Promise!SettlementInit, Promise!Payment, Told, Key

\* A transaction that settles k is the abstract booking of k.
LEMMA SettlingIsBooking ==
    ASSUME TypeOK, NEW k \in Key, gateway[k] = "captured", booked[k] = 0,
           invoice' = [invoice EXCEPT ![k[1]] = "paid"],
           booked' = [booked EXCEPT ![k] = @ + 1],
           UNCHANGED <<reversed, gateway, published>>
    PROVE  Promise!SettlementNext
<1>1. booked' = [booked EXCEPT ![k] = 1]
  BY DEF TypeOK
<1>2. Promise!Book(k)
  BY <1>1 DEF Promise!Book, Told
<1> QED BY <1>2 DEF Promise!SettlementNext, Promise!Payment, Key

\* Sending payment.succeeded or invoice.paid for k is the abstract telling of k.
LEMMA SendingIsTelling ==
    ASSUME NEW k \in Key, booked[k] > 0,
           NEW e \in {"payment.succeeded", "invoice.paid"},
           published' = published \cup {<<e, k>>},
           UNCHANGED <<invoice, reversed, gateway, booked>>
    PROVE  Promise!SettlementNext
<1>1. Told' = Told \cup {k}
  <2>1. ASSUME NEW q \in Key PROVE q \in Told' <=> q \in Told \/ q = k
    BY DEF Told
  <2>2. Told \subseteq Key /\ Told' \subseteq Key
    BY DEF Told
  <2> QED BY <2>1, <2>2
<1>2. Promise!Tell(k)
  BY <1>1 DEF Promise!Tell
<1> QED BY <1>2 DEF Promise!SettlementNext, Promise!Payment, Key

\* payment.failed is nothing the abstraction knows of.
LEMMA FailureIsNotTold ==
    ASSUME NEW k \in Key, published' = published \cup {<<"payment.failed", k>>}
    PROVE  Told' = Told
BY DEF Told

LEMMA PromiseStep ==
    ASSUME SingleConsumer, TypeInv, MoneyInv, BooksInv, OnceInv, [Next]_vars
    PROVE  [Promise!SettlementNext]_PromiseVars
<1> DEFINE Kept == Promise!SettlementNext \/ UNCHANGED PromiseVars
<1> USE DEF PromiseVars, Captured, At, Handling, WorkerPhase, ConsumerPhase,
            books, bank, inbox
<1>1. ASSUME NEW w \in Worker, WorkerStep(w) PROVE Kept
  <2>1. CASE SettleDirectly(w)
    BY <2>1, CallShape, DirectIsFirst, SettlingIsBooking
       DEF SettleDirectly, TypeInv, MoneyInv, ActsOnOutcome
  <2>2. CASE PublishPayment(w)
    <3>1. call[w].key \in Key /\ booked[call[w].key] > 0
      BY <2>2, CallShape DEF PublishPayment, TypeInv, BooksInv, AnnouncersBooked
    <3>2. CASE UNCHANGED published
      BY <2>2, <3>2 DEF PublishPayment, Told
    <3> QED BY <2>2, <3>1, <3>2, SendingIsTelling DEF PublishPayment
  <2>3. CASE PublishPaid(w)
    <3>1. call[w].key \in Key /\ booked[call[w].key] > 0
      BY <2>3, CallShape DEF PublishPaid, TypeInv, BooksInv, AnnouncersBooked
    <3>2. CASE UNCHANGED published
      BY <2>3, <3>2 DEF PublishPaid, Told
    <3> QED BY <2>3, <3>1, <3>2, SendingIsTelling DEF PublishPaid
  <2>4. CASE PublishFailed(w)
    <3>1. Told' = Told
      BY <2>4, CallShape, FailureIsNotTold DEF PublishFailed, TypeInv, Told
    <3> QED BY <2>4, <3>1 DEF PublishFailed
  <2>5. CASE SendRequest(w)
    <3>1. Captured' = Captured
      BY <2>5, CallShape DEF SendRequest, TypeInv, TypeOK
    <3> QED BY <2>5, <3>1 DEF SendRequest, Told
  <2>6. CASE UNCHANGED <<invoice, books, published, gateway>>
    BY <2>6 DEF Told
  <2> QED
    BY <1>1, <2>1, <2>2, <2>3, <2>4, <2>5, <2>6
       DEF WorkerStep, WorkerProgress, Admit, Refuse, NoPaymentMethod, InsertCharge,
           ReturnExisting, ReceiveAnswer, GatewayThrows, RecordPending, RecordDeclined,
           StoreThrows, PublishThrows, MarkFailed, CatchThrows, Rescued, Return, Crash
<1>2. ASSUME NEW c \in Consumer, ConsumerStep(c) PROVE Kept
  <2>1. CASE SettleByWebhook(c)
    BY <2>1, DeliveryShape, SettlingIsBooking
       DEF SettleByWebhook, TypeInv, MoneyInv, ActsOnOutcome, OnceInv, OneBooker
  <2>2. CASE NotifyPayment(c)
    BY <2>2, DeliveryShape, SendingIsTelling
       DEF NotifyPayment, TypeInv, BooksInv, AnnouncersBooked
  <2>3. CASE NotifyPaid(c)
    BY <2>3, DeliveryShape, SendingIsTelling
       DEF NotifyPaid, TypeInv, BooksInv, AnnouncersBooked
  <2>4. CASE NotifyFailed(c)
    <3>1. Told' = Told
      BY <2>4, DeliveryShape, FailureIsNotTold DEF NotifyFailed, TypeInv
    <3> QED BY <2>4, <3>1 DEF NotifyFailed
  <2>5. CASE UNCHANGED <<invoice, books, published, gateway>>
    BY <2>5 DEF Told
  <2> QED
    BY <1>2, <2>1, <2>2, <2>3, <2>4, <2>5
       DEF ConsumerStep, ConsumerProgress, Receive, FindCharge, ReadInvoice,
           RejectByWebhook, MarkProcessed, DropDelivery
<1>3. ASSUME NEW k \in Key, GatewayAccepts(k) \/ GatewayDecides(k) PROVE Kept
  <2>1. Captured' = Captured \/ (k \notin Captured /\ Captured' = Captured \cup {k})
    BY <1>3 DEF GatewayAccepts, GatewayDecides, TypeInv, TypeOK
  <2>2. UNCHANGED <<invoice, reversed, booked, Told>>
    BY <1>3 DEF GatewayAccepts, GatewayDecides, Told
  <2>3. CASE k \notin Captured /\ Captured' = Captured \cup {k}
    BY <2>2, <2>3 DEF Promise!SettlementNext, Promise!Capture, Promise!Payment, Key
  <2> QED BY <2>1, <2>2, <2>3
<1>4. ASSUME NEW i \in Invoice, VoidInvoice(i) PROVE Kept
  BY <1>4 DEF VoidInvoice, Promise!SettlementNext, Promise!Reverse, Told
<1>5. CASE UNCHANGED vars
  BY <1>5 DEF vars, Told
<1> QED BY <1>1, <1>2, <1>3, <1>4, <1>5 DEF Next, GatewayStep

\* With one consumer, every behaviour of the workers, the webhook handler, the
\* gateway and the operator is one Settlement allows.
THEOREM CollectionKeepsPromise ==
    ASSUME SingleConsumer
    PROVE  Spec => KeepsPromise
<1>1. TypeInv /\ MoneyInv /\ BooksInv /\ OnceInv /\ [Next]_vars
         => [Promise!SettlementNext]_PromiseVars
  BY PromiseStep
<1>2. UNCHANGED PromiseVars <=> UNCHANGED Promise!settlement
  BY DEF PromiseVars, Captured, Promise!settlement
<1>3. TypeInv /\ MoneyInv /\ BooksInv /\ OnceInv /\ [Next]_vars
         => [Promise!SettlementNext]_(Promise!settlement)
  BY <1>1, <1>2
<1> QED
  BY <1>3, PromiseInit, OnceInvariant, PTL DEF Spec, KeepsPromise, Promise!SettlementSpec
=============================================================================
