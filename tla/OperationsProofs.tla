-------------------------- MODULE OperationsProofs --------------------------
(* Proofs about one-time charges and the refunds of them, for any number of  *)
(* keys, callers, refunds and days: at most one invoice of a key is paid, no *)
(* money is given back without a payment and a row on record, nor more than  *)
(* was paid, and what a report says of a day that was over stays true.       *)
EXTENDS Reconciliation, SumTheorems, SequenceTheorems

------------------------------------------------------------------------------
(* Layer 1: types, and that whoever is under way has a key. *)

Bill == [key: Key, status: {"finalized", "paid"}]
Payment == [key: Key, day: 0..LastDay]

CallersHaveKeys == \A c \in Caller : call[c].pc # "idle" => call[c].key \in Key

CallInv == OneTimeTypeOK /\ CallersHaveKeys

\* Layer 2: the rows.  An invoice that a charge row or a caller names is one of
\* its key.
RowsNameBills ==
  \A k \in Key : charge[k].status # "none" =>
    charge[k].bill \in DOMAIN bills /\ bills[charge[k].bill].key = k
InsertersHaveBills ==
  \A c \in Caller : call[c].pc = "insert" =>
    call[c].bill \in DOMAIN bills /\ bills[call[c].bill].key = call[c].key

RowInv == RowsNameBills /\ InsertersHaveBills

\* Layer 3: the caller whose insert succeeded owns the key, and until it has
\* taken the gateway's answer nobody else can.
Owns(c) == call[c].pc \in {"ask", "take", "announce", "fail"}
OwnersHaveRows == \A c \in Caller : Owns(c) => charge[call[c].key].status # "none"
OneOwner ==
  \A c, d \in Caller : Owns(c) /\ Owns(d) /\ call[c].key = call[d].key => c = d
AnswerIsNew ==
  \A c \in Caller : call[c].pc \in {"ask", "take"} => ~ charge[call[c].key].known
KnownHasRow == \A k \in Key : charge[k].known => charge[k].status # "none"

OwnInv == OwnersHaveRows /\ OneOwner /\ AnswerIsNew /\ KnownHasRow

\* Layer 4: the books.
OnePayment ==
  \A p, q \in DOMAIN payments : payments[p].key = payments[q].key => p = q
PaymentsArePaid ==
  \A p \in DOMAIN payments : LET k == payments[p].key IN
    charge[k].known /\ bills[charge[k].bill].status = "paid"
PaidIsBooked ==
  \A i \in DOMAIN bills : bills[i].status = "paid" =>
    /\ charge[bills[i].key].bill = i
    /\ \E p \in DOMAIN payments : payments[p].key = bills[i].key
SucceededIsBooked ==
  \A k \in Key : charge[k].status = "succeeded" =>
    \E p \in DOMAIN payments : payments[p].key = k

BookInv == OnePayment /\ PaymentsArePaid /\ PaidIsBooked /\ SucceededIsBooked

OneTimeInv == CallInv /\ RowInv /\ OwnInv /\ BookInv

\* Layer 5: refunds.
AskersAreTyped ==
  \A c \in Refunder : asking[c].pc # "idle" =>
    /\ asking[c].refund \in RefundKey /\ asking[c].of \in Key
    /\ asking[c].amount \in 1..Price
AskersFoundPayment ==
  \A c \in Refunder : asking[c].pc # "idle" =>
    \E p \in DOMAIN payments : payments[p].key = asking[c].of
AskersHaveRows ==
  \A c \in Refunder : asking[c].pc \in {"start", "ask", "book", "fail"} =>
    LET row == refund[asking[c].refund] IN
      /\ row.of = asking[c].of
      /\ row.status # "none"
      /\ asking[c].pc # "start" => row.status # "pending"

RefundInv ==
  RefundTypeOK /\ AskersAreTyped /\ AskersFoundPayment /\ AskersHaveRows /\ RefundsAreTraceable

OperationsInv == OneTimeInv /\ RefundInv

\* Layer 6: the money.  A row has one request that may still change it, and the
\* row, the gateway and the books say what that request is about to make them.
Holds(c) == asking[c].pc \in {"start", "ask", "book", "fail"}
OneAsker ==
  \A c, d \in Refunder : Holds(c) /\ Holds(d) /\ asking[c].refund = asking[d].refund => c = d
HoldersMatch ==
  \A c \in Refunder : Holds(c) =>
    LET r == asking[c].refund IN
      /\ refund[r].amount = asking[c].amount /\ refund[r].status # "succeeded"
      /\ asking[c].pc \in {"start", "ask"} => outcome[r] = "none"
      /\ asking[c].pc = "book" => accepted[r] = asking[c].amount
RowsMatch ==
  \A r \in RefundKey : refund[r].status = "none" => refund[r].of = NoKey /\ outcome[r] = "none"
BookMatches ==
  /\ \A i \in DOMAIN refundBook : LET r == refundBook[i].refund IN
       refund[r].status = "succeeded" /\ refundBook[i].amount = accepted[r]
  /\ \A i, j \in DOMAIN refundBook : refundBook[i].refund = refundBook[j].refund => i = j
OnRecord == {r \in RefundKey : refund[r].status # "none"}
WithinPrice == \A k \in Key : GivenBack(k) <= Price

MoneyInv ==
  OneAsker /\ HoldersMatch /\ RowsMatch /\ BookMatches /\ IsFiniteSet(OnRecord) /\ WithinPrice

\* Layer 7: the days.  The gateway decides on an intent once; what happened on a
\* day that is over has happened.
AskersAreFirst == \A c \in Caller : call[c].pc = "ask" => intent[call[c].key].phase = "none"
FreshIntents == \A k \in Key : charge[k].status = "none" => intent[k].phase = "none"
Asked == {k \in Key : intent[k].phase # "none"}
IntentInv == AskersAreFirst /\ FreshIntents /\ IsFiniteSet(Asked)

\* What a listing shows of the captures of some cards.
CardsListed(D) == {[type |-> "charge", source |-> SourceId(k)] : k \in D}
OverWhenRead ==
  \A h \in Reconciler : compare[h].pc \in {"list", "store"} /\ compare[h].over =>
    /\ compare[h].day < today
    /\ compare[h].pc = "store" =>
         compare[h].listed = CardsListed(Captured(compare[h].day) \cap Card)
ReportsAreOver == \A i \in DOMAIN reports : reports[i].over => reports[i].day < today

------------------------------------------------------------------------------
(* Layer 1 *)

Row == [status: {"none", "pending", "succeeded", "failed"},
        bill: 0..MaxBills, known: BOOLEAN]
IntentState == [phase: {"none", "processing", "captured", "declined"},
                day: 0..LastDay, notice: {"none", "due", "consumed"}]
CallState == [pc: {"idle", "invoice", "insert", "ask", "take", "announce", "fail"},
              key: Key \cup {NoKey}, bill: 0..MaxBills,
              answer: {"none", "succeeded", "pending", "failed"}]

OneTimeTypes ==
  /\ bills \in Seq(Bill) /\ charge \in [Key -> Row] /\ intent \in [Key -> IntentState]
  /\ payments \in Seq(Payment) /\ call \in [Caller -> CallState] /\ today \in 0..LastDay

LEMMA TypesNamed == OneTimeTypeOK <=> OneTimeTypes
BY DEF OneTimeTypeOK, OneTimeTypes, Bill, Row, IntentState, Payment, CallState

\* Changes of a charge row and of a caller's state.
LEMMA RowSettled ==
  ASSUME charge \in [Key -> Row], NEW k \in Key, NEW known \in BOOLEAN,
         NEW status \in {"none", "pending", "succeeded", "failed"}
  PROVE  /\ [charge EXCEPT ![k].status = status] \in [Key -> Row]
         /\ [charge EXCEPT ![k].status = status, ![k].known = known] \in [Key -> Row]
         /\ [charge EXCEPT ![k].known = known, ![k].status = status] \in [Key -> Row]
<1>1. charge[k] \in Row /\ DOMAIN charge = Key
  OBVIOUS
<1>2. /\ [charge[k] EXCEPT !.status = status] \in Row
      /\ [charge[k] EXCEPT !.status = status, !.known = known] \in Row
      /\ [charge[k] EXCEPT !.known = known, !.status = status] \in Row
  BY <1>1 DEF Row
<1>3. [charge EXCEPT ![k].status = status] = [charge EXCEPT ![k] = [charge[k] EXCEPT !.status = status]]
  BY <1>1
<1>4. [charge EXCEPT ![k].status = status, ![k].known = known]
        = [charge EXCEPT ![k] = [charge[k] EXCEPT !.status = status, !.known = known]]
  BY <1>1
<1>5. [charge EXCEPT ![k].known = known, ![k].status = status]
        = [charge EXCEPT ![k] = [charge[k] EXCEPT !.known = known, !.status = status]]
  BY <1>1
<1> QED BY <1>2, <1>3, <1>4, <1>5

Pc == {"idle", "invoice", "insert", "ask", "take", "announce", "fail"}

LEMMA CallMoved ==
  ASSUME call \in [Caller -> CallState], NEW c \in Caller, NEW pc \in Pc,
         NEW bill \in 0..MaxBills, NEW answer \in {"none", "succeeded", "pending", "failed"}
  PROVE  /\ [call EXCEPT ![c].pc = pc] \in [Caller -> CallState]
         /\ [call EXCEPT ![c].pc = pc, ![c].bill = bill] \in [Caller -> CallState]
         /\ [call EXCEPT ![c].pc = pc, ![c].answer = answer] \in [Caller -> CallState]
<1>1. call[c] \in CallState /\ DOMAIN call = Caller
  OBVIOUS
<1>2. /\ [call[c] EXCEPT !.pc = pc] \in CallState
      /\ [call[c] EXCEPT !.pc = pc, !.bill = bill] \in CallState
      /\ [call[c] EXCEPT !.pc = pc, !.answer = answer] \in CallState
  BY <1>1 DEF CallState, Pc
<1>3. [call EXCEPT ![c].pc = pc] = [call EXCEPT ![c] = [call[c] EXCEPT !.pc = pc]]
  BY <1>1
<1>4. [call EXCEPT ![c].pc = pc, ![c].bill = bill]
        = [call EXCEPT ![c] = [call[c] EXCEPT !.pc = pc, !.bill = bill]]
  BY <1>1
<1>5. [call EXCEPT ![c].pc = pc, ![c].answer = answer]
        = [call EXCEPT ![c] = [call[c] EXCEPT !.pc = pc, !.answer = answer]]
  BY <1>1
<1> QED BY <1>2, <1>3, <1>4, <1>5

LEMMA IdleIsState == Idle \in CallState
BY OneTimeAssumption DEF Idle, CallState

\* An answer is one of three, whatever the phase.
LEMMA AnswerType ==
  ASSUME NEW phase
  PROVE  Answer(phase) \in {"succeeded", "pending", "failed"}
BY DEF Answer

LEMMA IntentType ==
  ASSUME today \in 0..LastDay, NEW phase \in {"processing", "captured", "declined"}
  PROVE  Intent(phase) \in IntentState
BY DEF Intent, IntentState

\* What booking a payment does to the rows, the bills and the ledger.
LEMMA BookType ==
  ASSUME OneTimeTypes, RowsNameBills, NEW k \in Key, charge[k].status # "none", Book(k)
  PROVE  /\ bills' \in Seq(Bill) /\ DOMAIN bills' = DOMAIN bills
         /\ charge[k].bill \in DOMAIN bills
         /\ bills'[charge[k].bill].status = "paid"
         /\ \A i \in DOMAIN bills : /\ bills'[i].key = bills[i].key
                                    /\ i # charge[k].bill => bills'[i] = bills[i]
         /\ charge' \in [Key -> Row]
         /\ payments' \in Seq(Payment)
         /\ DOMAIN payments' = 1..(Len(payments) + 1) /\ DOMAIN payments = 1..Len(payments)
         /\ payments'[Len(payments) + 1] = [key |-> k, day |-> today]
         /\ \A p \in DOMAIN payments : payments'[p] = payments[p]
<1>1. bills \in Seq(Bill) /\ charge[k].bill \in 1..Len(bills)
      /\ bills[charge[k].bill] \in Bill
  BY DEF OneTimeTypes, RowsNameBills
<1> DEFINE b == [bills[charge[k].bill] EXCEPT !.status = "paid"]
<1>2. b \in Bill /\ b.status = "paid" /\ b.key = bills[charge[k].bill].key BY <1>1 DEF Bill
<1>3. bills' = [bills EXCEPT ![charge[k].bill] = b] BY DEF Book
<1> HIDE DEF b
<1>4. /\ bills' \in Seq(Bill) /\ Len(bills') = Len(bills)
      /\ \A j \in 1..Len(bills) : bills'[j] = IF j = charge[k].bill THEN b ELSE bills[j]
  BY <1>1, <1>2, <1>3, ExceptSeq
<1>5. payments \in Seq(Payment) /\ [key |-> k, day |-> today] \in Payment
  BY DEF OneTimeTypes, Payment
<1>6. payments' = Append(payments, [key |-> k, day |-> today]) BY DEF Book
<1>7. charge' \in [Key -> Row]
  BY RowSettled DEF OneTimeTypes, Book
<1>8. DOMAIN bills = 1..Len(bills) /\ DOMAIN bills' = 1..Len(bills) BY <1>1, <1>4
<1>9. /\ payments' \in Seq(Payment)
      /\ DOMAIN payments' = 1..(Len(payments) + 1) /\ DOMAIN payments = 1..Len(payments)
      /\ payments'[Len(payments) + 1] = [key |-> k, day |-> today]
      /\ \A p \in DOMAIN payments : payments'[p] = payments[p]
  BY <1>5, <1>6
<1> QED BY <1>1, <1>2, <1>4, <1>7, <1>8, <1>9

\* The webhook finds the charge only when it has a row.
LEMMA KnownCharge ==
  ASSUME OwnInv, NEW k \in Key, charge[k].known
  PROVE  charge[k].status # "none"
BY DEF OwnInv, KnownHasRow

\* Callers under way keep their keys, whatever they do next.
LEMMA CallGoes ==
  ASSUME OneTimeTypes, CallersHaveKeys, NEW c \in Caller, call[c].pc # "idle",
         NEW pc \in Pc, call' = [call EXCEPT ![c].pc = pc]
  PROVE  call' \in [Caller -> CallState] /\ CallersHaveKeys'
<1>1. call \in [Caller -> CallState] /\ 0 \in 0..MaxBills
  BY OneTimeAssumption DEF OneTimeTypes
<1>2. call' \in [Caller -> CallState] BY <1>1, CallMoved
<1> QED BY <1>1, <1>2 DEF CallersHaveKeys, CallState

LEMMA CallBills ==
  ASSUME OneTimeTypes, CallersHaveKeys, NEW c \in Caller, call[c].pc # "idle",
         NEW pc \in Pc, NEW bill \in 0..MaxBills,
         call' = [call EXCEPT ![c].pc = pc, ![c].bill = bill]
  PROVE  call' \in [Caller -> CallState] /\ CallersHaveKeys'
<1>1. call \in [Caller -> CallState] BY DEF OneTimeTypes
<1>2. call' \in [Caller -> CallState] BY <1>1, CallMoved
<1> QED BY <1>1, <1>2 DEF CallersHaveKeys, CallState

LEMMA CallAnswers ==
  ASSUME OneTimeTypes, CallersHaveKeys, NEW c \in Caller, call[c].pc # "idle",
         NEW pc \in Pc, NEW answer \in {"none", "succeeded", "pending", "failed"},
         call' = [call EXCEPT ![c].pc = pc, ![c].answer = answer]
  PROVE  call' \in [Caller -> CallState] /\ CallersHaveKeys'
<1>1. call \in [Caller -> CallState] /\ 0 \in 0..MaxBills
  BY OneTimeAssumption DEF OneTimeTypes
<1>2. call' \in [Caller -> CallState] BY <1>1, CallMoved
<1> QED BY <1>1, <1>2 DEF CallersHaveKeys, CallState

LEMMA CallEnds ==
  ASSUME OneTimeTypes, CallersHaveKeys, NEW c \in Caller, call' = [call EXCEPT ![c] = Idle]
  PROVE  call' \in [Caller -> CallState] /\ CallersHaveKeys'
BY IdleIsState DEF OneTimeTypes, CallersHaveKeys, Idle

LEMMA Begun ==
  ASSUME NEW i \in CallState, NEW k \in Key
  PROVE  /\ [i EXCEPT !.pc = "invoice", !.key = k] \in CallState
         /\ [i EXCEPT !.pc = "invoice", !.key = k].key = k
BY DEF CallState

LEMMA BeginState ==
  ASSUME NEW k \in Key
  PROVE  /\ [Idle EXCEPT !.pc = "invoice", !.key = k] \in CallState
         /\ [Idle EXCEPT !.pc = "invoice", !.key = k].key = k
BY IdleIsState, Begun

LEMMA CallStep ==
  ASSUME CallInv, RowInv, OwnInv, OneTimeNext
  PROVE  CallInv'
<1>0. OneTimeTypes /\ CallersHaveKeys /\ RowsNameBills BY TypesNamed DEF CallInv, RowInv
<1> SUFFICES OneTimeTypes' /\ CallersHaveKeys'
  BY TypesNamed DEF CallInv, OneTimeTypeOK, OneTimeTypes, Bill, Row, IntentState, Payment, CallState
<1>1. ASSUME NEW c \in Caller, NEW k \in Key, BeginCharge(c, k)
      PROVE OneTimeTypes' /\ CallersHaveKeys'
  BY <1>0, <1>1, BeginState DEF BeginCharge, OneTimeTypes, CallersHaveKeys
<1>2. ASSUME NEW c \in Caller, CreateInvoice(c) PROVE OneTimeTypes' /\ CallersHaveKeys'
  <2>1. call[c].key \in Key BY <1>0, <1>2 DEF CreateInvoice, CallersHaveKeys
  <2>2. Len(bills) + 1 \in 0..MaxBills
    BY <1>0, <1>2, OneTimeAssumption DEF CreateInvoice, OneTimeTypes
  <2>3. bills' \in Seq(Bill) BY <1>0, <1>2, <2>1 DEF CreateInvoice, OneTimeTypes, Bill
  <2>4. call' \in [Caller -> CallState] /\ CallersHaveKeys'
    BY <1>0, <1>2, <2>2, CallBills DEF CreateInvoice, Pc
  <2> QED BY <1>0, <1>2, <2>3, <2>4 DEF CreateInvoice, OneTimeTypes
<1>3. ASSUME NEW c \in Caller, InsertCharge(c) PROVE OneTimeTypes' /\ CallersHaveKeys'
  <2>1. call[c].key \in Key /\ call[c].bill \in 0..MaxBills
    BY <1>0, <1>3 DEF InsertCharge, CallersHaveKeys, OneTimeTypes, CallState
  <2>2. [status |-> "pending", bill |-> call[c].bill, known |-> FALSE] \in Row
    BY <2>1 DEF Row
  <2>3. charge' \in [Key -> Row]
    BY <1>0, <1>3, <2>1, <2>2 DEF InsertCharge, InsertPending, ReturnFirst, OneTimeTypes
  <2>4. CASE ReturnFirst(c)
    BY <1>0, <1>3, <2>3, <2>4, CallEnds DEF InsertCharge, ReturnFirst, OneTimeTypes
  <2>5. CASE InsertPending(c)
    <3>1. call' \in [Caller -> CallState] /\ CallersHaveKeys'
      BY <1>0, <1>3, <2>5, CallGoes DEF InsertCharge, InsertPending, Pc
    <3> QED BY <1>0, <1>3, <2>3, <3>1 DEF InsertCharge, OneTimeTypes
  <2> QED BY <1>3, <2>4, <2>5 DEF InsertCharge
<1>4. ASSUME NEW c \in Caller, Ask(c) PROVE OneTimeTypes' /\ CallersHaveKeys'
  <2>1. call[c].key \in Key BY <1>0, <1>4 DEF Ask, CallersHaveKeys
  <2>2. PICK phase \in {"captured", "processing", "declined"} :
          /\ intent' = [intent EXCEPT ![call[c].key] = Intent(phase)]
          /\ \/ call' = [call EXCEPT ![c].pc = "take", ![c].answer = Answer(phase)]
             \/ call' = [call EXCEPT ![c].pc = "fail"]
    BY <1>4 DEF Ask
  <2>3. intent' \in [Key -> IntentState]
    BY <1>0, <2>1, <2>2, IntentType DEF OneTimeTypes
  <2>4. Answer(phase) \in {"none", "succeeded", "pending", "failed"} BY AnswerType
  <2>5. call' \in [Caller -> CallState] /\ CallersHaveKeys'
    <3>1. call[c].pc # "idle" BY <1>4 DEF Ask
    <3> QED BY <1>0, <2>2, <2>4, <3>1, CallGoes, CallAnswers DEF Pc
  <2> QED BY <1>0, <1>4, <2>3, <2>5 DEF Ask, OneTimeTypes
<1>5. ASSUME NEW c \in Caller, TakeAnswer(c) PROVE OneTimeTypes' /\ CallersHaveKeys'
  <2>1. call[c].key \in Key /\ call[c].pc # "idle"
    BY <1>0, <1>5 DEF TakeAnswer, CallersHaveKeys
  <2>4. CASE Settle(c)
    <3>1. charge[call[c].key].status # "none"
      BY <1>5 DEF TakeAnswer, OwnInv, OwnersHaveRows, Owns
    <3>2. call' \in [Caller -> CallState] /\ CallersHaveKeys'
      BY <1>0, <2>1, <2>4, CallGoes DEF Settle, Pc
    <3> QED BY <1>0, <1>5, <2>1, <2>4, <3>1, <3>2, BookType DEF TakeAnswer, Settle, OneTimeTypes
  <2>5. CASE StoreIntent(c)
    <3>1. (IF call[c].answer = "failed" THEN "failed" ELSE charge[call[c].key].status)
            \in {"none", "pending", "succeeded", "failed"}
      BY <1>0, <2>1 DEF OneTimeTypes, Row
    <3>2. charge' \in [Key -> Row]
      <4>1. charge' = [charge EXCEPT ![call[c].key].known = TRUE, ![call[c].key].status =
                         IF call[c].answer = "failed" THEN "failed" ELSE charge[call[c].key].status]
        BY <1>0, <2>1, <2>5 DEF StoreIntent, OneTimeTypes, Row
      <4> QED BY <1>0, <2>1, <3>1, <4>1, RowSettled DEF OneTimeTypes
    <3>3. call' \in [Caller -> CallState] /\ CallersHaveKeys'
      BY <1>0, <2>5, CallEnds DEF StoreIntent
    <3> QED BY <1>0, <1>5, <2>5, <3>2, <3>3 DEF TakeAnswer, StoreIntent, OneTimeTypes
  <2> QED BY <1>5, <2>4, <2>5 DEF TakeAnswer
<1>6. ASSUME NEW c \in Caller, Announce(c) \/ Throws(c) \/ CallCrash(c)
      PROVE OneTimeTypes' /\ CallersHaveKeys'
  <2>1. call' \in [Caller -> CallState] /\ CallersHaveKeys'
    <3>1. CASE Throws(c) BY <1>0, <3>1, CallGoes DEF Throws, Pc
    <3>2. CASE Announce(c) \/ CallCrash(c) BY <1>0, <3>2, CallEnds DEF Announce, CallCrash
    <3> QED BY <1>6, <3>1, <3>2
  <2> QED BY <1>0, <1>6, <2>1 DEF Announce, Throws, CallCrash, OneTimeTypes
<1>7. ASSUME NEW c \in Caller, MarkFailed(c) PROVE OneTimeTypes' /\ CallersHaveKeys'
  <2>1. call[c].key \in Key BY <1>0, <1>7 DEF MarkFailed, CallersHaveKeys
  <2>2. charge' \in [Key -> Row]
    <3>1. charge' = [charge EXCEPT ![call[c].key].status = "failed"] BY <1>7 DEF MarkFailed
    <3> QED BY <1>0, <2>1, <3>1 DEF OneTimeTypes, Row
  <2>3. call' \in [Caller -> CallState] /\ CallersHaveKeys'
    BY <1>0, <1>7, CallEnds DEF MarkFailed
  <2> QED BY <1>0, <1>7, <2>2, <2>3 DEF MarkFailed, OneTimeTypes
<1>8. ASSUME NEW k \in Key, GatewayDecides(k) PROVE OneTimeTypes' /\ CallersHaveKeys'
  BY <1>0, <1>8, IntentType DEF GatewayDecides, OneTimeTypes, CallersHaveKeys
<1>9. ASSUME NEW k \in Key, Webhook(k) PROVE OneTimeTypes' /\ CallersHaveKeys'
  <2>1. intent' \in [Key -> IntentState]
    <3>1. \A n \in {"due", "consumed"} : [intent EXCEPT ![k].notice = n] \in [Key -> IntentState]
      BY <1>0 DEF OneTimeTypes, IntentState
    <3> QED BY <1>9, <3>1 DEF Webhook
  <2>2. CallersHaveKeys' BY <1>0, <1>9 DEF Webhook, CallersHaveKeys
  <2>3. CASE charge[k].known /\ Book(k)
    BY <1>0, <1>9, <2>1, <2>2, <2>3, KnownCharge, BookType DEF Webhook, OneTimeTypes
  <2>4. CASE UNCHANGED <<bills, charge, payments>>
    BY <1>0, <1>9, <2>1, <2>2, <2>4 DEF Webhook, OneTimeTypes
  <2>5. CASE PaymentFailed(k)
    <3>1. charge' \in [Key -> Row]
      <4>1. charge' = [charge EXCEPT ![k].status = IF charge[k].known THEN "failed" ELSE charge[k].status]
        BY <2>5 DEF PaymentFailed
      <4>2. (IF charge[k].known THEN "failed" ELSE charge[k].status) \in {"none", "pending", "succeeded", "failed"}
        BY <1>0 DEF OneTimeTypes, Row
      <4> QED BY <1>0, <4>1, <4>2 DEF OneTimeTypes, Row
    <3> QED BY <1>0, <1>9, <2>1, <2>2, <2>5, <3>1 DEF Webhook, PaymentFailed, OneTimeTypes
  <2> QED BY <1>9, <2>3, <2>4, <2>5 DEF Webhook, PaymentSucceeded
<1>10. ASSUME NextDay PROVE OneTimeTypes' /\ CallersHaveKeys'
  BY <1>0, <1>10, OneTimeAssumption DEF NextDay, OneTimeTypes, CallersHaveKeys
<1> QED BY <1>1, <1>2, <1>3, <1>4, <1>5, <1>6, <1>7, <1>8, <1>9, <1>10 DEF OneTimeNext

------------------------------------------------------------------------------
(* Layer 2 *)

LEMMA RowStep ==
  ASSUME CallInv, CallInv', RowInv, OwnInv, OneTimeNext
  PROVE  RowInv'
<1>0. OneTimeTypes /\ OneTimeTypes' /\ CallersHaveKeys /\ RowsNameBills /\ InsertersHaveBills
  BY TypesNamed DEF CallInv, RowInv, OneTimeTypeOK, OneTimeTypes, Bill, Row, IntentState, Payment, CallState
<1>a. call \in [Caller -> CallState] /\ charge \in [Key -> Row] /\ bills \in Seq(Bill)
  BY <1>0 DEF OneTimeTypes
<1>1. ASSUME NEW c \in Caller, NEW k \in Key, BeginCharge(c, k) PROVE RowInv'
  <2>1. call'[c].pc = "invoice" BY <1>1, <1>a, IdleIsState DEF BeginCharge, CallState
  <2> QED BY <1>0, <1>a, <1>1, <2>1 DEF BeginCharge, RowInv, RowsNameBills, InsertersHaveBills
<1>2. ASSUME NEW c \in Caller, CreateInvoice(c) PROVE RowInv'
  <2>1. call[c].key \in Key BY <1>0, <1>2 DEF CreateInvoice, CallersHaveKeys
  <2> DEFINE b == [key |-> call[c].key, status |-> "finalized"]
  <2>2. b \in Bill BY <2>1 DEF Bill
  <2>3. bills' = Append(bills, b) BY <1>2 DEF CreateInvoice
  <2> HIDE DEF b
  <2>4. /\ DOMAIN bills = 1..Len(bills) /\ DOMAIN bills' = 1..(Len(bills) + 1) /\ Len(bills) \in Nat
        /\ \A i \in 1..Len(bills) : bills'[i] = bills[i]
        /\ bills'[Len(bills) + 1] = b
    BY <1>a, <2>2, <2>3
  <2>5. RowsNameBills' BY <1>0, <1>2, <2>4 DEF CreateInvoice, RowsNameBills
  <2>6. call'[c].bill = Len(bills) + 1 /\ call'[c].key = b.key
    BY <1>a, <1>2 DEF CreateInvoice, CallState, b
  <2>7. \A d \in Caller : d # c => call'[d] = call[d] BY <1>a, <1>2 DEF CreateInvoice
  <2>8. InsertersHaveBills'
    BY <1>0, <2>4, <2>6, <2>7 DEF InsertersHaveBills
  <2> QED BY <2>5, <2>8 DEF RowInv
<1>3. ASSUME NEW c \in Caller, InsertCharge(c) PROVE RowInv'
  <2>1. call[c].key \in Key BY <1>0, <1>3 DEF InsertCharge, CallersHaveKeys
  <2>2. InsertersHaveBills'
    <3>1. bills' = bills BY <1>3 DEF InsertCharge
    <3>2. \A d \in Caller : d # c => call'[d] = call[d]
      BY <1>a, <1>3 DEF InsertCharge, ReturnFirst, InsertPending
    <3>3. call'[c].pc # "insert"
      BY <1>a, <1>3 DEF InsertCharge, ReturnFirst, InsertPending, Idle, CallState
    <3> QED BY <1>0, <3>1, <3>2, <3>3 DEF InsertersHaveBills
  <2>3. RowsNameBills'
    <3>1. bills' = bills BY <1>3 DEF InsertCharge
    <3>2. CASE ReturnFirst(c) BY <1>0, <3>1, <3>2 DEF ReturnFirst, RowsNameBills
    <3>3. CASE InsertPending(c)
      <4>1. charge'[call[c].key].bill = call[c].bill
        BY <1>a, <2>1, <3>3 DEF InsertPending
      <4>2. \A j \in Key : j # call[c].key => charge'[j] = charge[j]
        BY <1>a, <3>3 DEF InsertPending
      <4>3. call[c].bill \in DOMAIN bills /\ bills[call[c].bill].key = call[c].key
        BY <1>0, <1>3 DEF InsertCharge, InsertersHaveBills
      <4> QED BY <1>0, <3>1, <4>1, <4>2, <4>3 DEF RowsNameBills
    <3> QED BY <1>3, <3>2, <3>3 DEF InsertCharge
  <2> QED BY <2>2, <2>3 DEF RowInv
<1>4. ASSUME NEW c \in Caller, Ask(c) \/ Announce(c) \/ Throws(c) \/ CallCrash(c) PROVE RowInv'
  <2>1. bills' = bills /\ charge' = charge
    BY <1>4 DEF Ask, Announce, Throws, CallCrash
  <2>2. \A d \in Caller : d # c => call'[d] = call[d]
    BY <1>a, <1>4 DEF Ask, Announce, Throws, CallCrash
  <2>3. call'[c].pc # "insert"
    BY <1>a, <1>4 DEF Ask, Announce, Throws, CallCrash, Idle, CallState
  <2> QED BY <1>0, <2>1, <2>2, <2>3 DEF RowInv, RowsNameBills, InsertersHaveBills
<1>5. ASSUME NEW k \in Key, charge[k].status # "none", Book(k),
             \A d \in Caller : call'[d] = call[d] \/ call'[d].pc # "insert"
      PROVE RowInv'
  <2>1. \A j \in Key : charge'[j].bill = charge[j].bill /\ (j # k => charge'[j] = charge[j])
    BY <1>a, <1>5 DEF Book, Row
  <2>2. DOMAIN bills' = DOMAIN bills /\ \A i \in DOMAIN bills : bills'[i].key = bills[i].key
    <3>1. /\ DOMAIN bills' = DOMAIN bills
          /\ \A i \in DOMAIN bills : /\ bills'[i].key = bills[i].key
                                     /\ i # charge[k].bill => bills'[i] = bills[i]
      BY <1>0, <1>5, BookType
    <3> QED BY <3>1
  <2>3. RowsNameBills' BY <1>0, <1>5, <2>1, <2>2 DEF RowsNameBills
  <2>4. InsertersHaveBills' BY <1>0, <1>5, <2>2 DEF InsertersHaveBills
  <2> QED BY <2>3, <2>4 DEF RowInv
<1>6. ASSUME NEW c \in Caller, TakeAnswer(c) PROVE RowInv'
  <2>1. call[c].key \in Key /\ charge[call[c].key].status # "none"
    BY <1>0, <1>6 DEF TakeAnswer, CallersHaveKeys, OwnInv, OwnersHaveRows, Owns
  <2>2. \A d \in Caller : call'[d] = call[d] \/ call'[d].pc # "insert"
    BY <1>a, <1>6 DEF TakeAnswer, Settle, StoreIntent, Idle, CallState
  <2>3. CASE Settle(c) BY <1>5, <2>1, <2>2, <2>3 DEF Settle
  <2>4. CASE StoreIntent(c)
    <3>1. \A j \in Key : charge'[j].bill = charge[j].bill /\ (j # call[c].key => charge'[j] = charge[j])
      BY <1>a, <2>1, <2>4 DEF StoreIntent, Row
    <3>2. bills' = bills BY <2>4 DEF StoreIntent
    <3>3. RowsNameBills' BY <1>0, <2>1, <3>1, <3>2 DEF RowsNameBills
    <3>4. InsertersHaveBills' BY <1>0, <2>2, <3>2 DEF InsertersHaveBills
    <3> QED BY <3>3, <3>4 DEF RowInv
  <2> QED BY <1>6, <2>3, <2>4 DEF TakeAnswer
<1>7. ASSUME NEW c \in Caller, MarkFailed(c) PROVE RowInv'
  <2>1. call[c].key \in Key /\ charge[call[c].key].status # "none"
    BY <1>0, <1>7 DEF MarkFailed, CallersHaveKeys, OwnInv, OwnersHaveRows, Owns
  <2>2. \A d \in Caller : call'[d] = call[d] \/ call'[d].pc # "insert"
    BY <1>a, <1>7 DEF MarkFailed, Idle
  <2>3. \A j \in Key : charge'[j].bill = charge[j].bill /\ (j # call[c].key => charge'[j] = charge[j])
    BY <1>a, <2>1, <1>7 DEF MarkFailed, Row
  <2> QED BY <1>0, <1>7, <2>1, <2>2, <2>3 DEF MarkFailed, RowInv, RowsNameBills, InsertersHaveBills
<1>8. ASSUME NEW k \in Key, GatewayDecides(k) PROVE RowInv'
  BY <1>0, <1>8 DEF GatewayDecides, RowInv, RowsNameBills, InsertersHaveBills
<1>9. ASSUME NEW k \in Key, Webhook(k) PROVE RowInv'
  <2>1. call' = call BY <1>9 DEF Webhook
  <2>2. CASE charge[k].known /\ Book(k) BY <1>5, <2>1, <2>2, KnownCharge
  <2>3. CASE UNCHANGED <<bills, charge, payments>>
    BY <1>0, <2>1, <2>3 DEF RowInv, RowsNameBills, InsertersHaveBills
  <2>4. CASE PaymentFailed(k)
    <3>1. \A j \in Key : charge'[j].bill = charge[j].bill
                      /\ (charge'[j].status = charge[j].status \/ charge[j].known)
      BY <1>a, <2>4 DEF PaymentFailed, Row
    <3> QED BY <1>0, <2>1, <2>4, <3>1, KnownCharge
          DEF PaymentFailed, RowInv, RowsNameBills, InsertersHaveBills
  <2> QED BY <1>9, <2>2, <2>3, <2>4 DEF Webhook, PaymentSucceeded
<1>10. ASSUME NextDay PROVE RowInv'
  BY <1>0, <1>10 DEF NextDay, RowInv, RowsNameBills, InsertersHaveBills
<1> QED BY <1>1, <1>2, <1>3, <1>4, <1>6, <1>7, <1>8, <1>9, <1>10 DEF OneTimeNext

------------------------------------------------------------------------------
(* Layer 3 *)

LEMMA OwnStep ==
  ASSUME CallInv, CallInv', RowInv, OwnInv, OneTimeNext
  PROVE  OwnInv'
<1>0. /\ OneTimeTypes /\ OneTimeTypes' /\ CallersHaveKeys
      /\ OwnersHaveRows /\ OneOwner /\ AnswerIsNew /\ KnownHasRow
  BY TypesNamed DEF CallInv, OwnInv, OneTimeTypeOK, OneTimeTypes, Bill, Row, IntentState, Payment, CallState
<1>a. call \in [Caller -> CallState] /\ charge \in [Key -> Row]
  BY <1>0 DEF OneTimeTypes
<1> USE DEF Owns
\* A step in which nobody comes to own a key and no answer is stored.
<1>b. ASSUME \A j \in Key : charge'[j].status = charge[j].status /\ charge'[j].known = charge[j].known,
             \A d \in Caller : call'[d].key = call[d].key \/ call'[d].pc \in {"idle", "invoice"},
             \A d \in Caller : Owns(d)' => Owns(d),
             \A d \in Caller : call'[d].pc \in {"ask", "take"} => call[d].pc \in {"ask", "take"}
      PROVE OwnInv'
  <2>1. \A d \in Caller : Owns(d)' => Owns(d) /\ call'[d].key = call[d].key /\ call[d].key \in Key
    BY <1>0, <1>b DEF CallersHaveKeys
  <2>2. OwnersHaveRows' /\ AnswerIsNew' BY <1>0, <1>b, <2>1 DEF OwnersHaveRows, AnswerIsNew
  <2>3. OneOwner' BY <1>0, <2>1 DEF OneOwner
  <2>4. KnownHasRow' BY <1>0, <1>b DEF KnownHasRow
  <2> QED BY <2>2, <2>3, <2>4 DEF OwnInv
\* A step of the owner of k, or of nobody, that changes the row of k.
<1>c. ASSUME NEW k \in Key, charge[k].status # "none",
             \A j \in Key : j # k => charge'[j] = charge[j],
             charge'[k].status # "none",
             \A d \in Caller : call'[d] = call[d]
                               \/ (call'[d].pc \in {"announce", "idle"} /\ Owns(d)
                                   /\ (Owns(d)' => call'[d].key = call[d].key)),
             charge'[k].known => \A d \in Caller :
               call[d].pc \in {"ask", "take"} /\ call[d].key = k => call'[d] # call[d]
      PROVE OwnInv'
  <2>1. \A d \in Caller : Owns(d)' => Owns(d) /\ call'[d].key = call[d].key /\ call[d].key \in Key
    BY <1>0, <1>c DEF CallersHaveKeys
  <2>3. OwnersHaveRows' BY <1>0, <1>c, <2>1 DEF OwnersHaveRows
  <2>4. OneOwner' BY <1>0, <2>1 DEF OneOwner
  <2>5. KnownHasRow' BY <1>0, <1>c DEF KnownHasRow
  <2>2. AnswerIsNew'
    BY <1>0, <1>c DEF AnswerIsNew, CallersHaveKeys
  <2> QED BY <2>2, <2>3, <2>4, <2>5 DEF OwnInv
<1>1. ASSUME NEW c \in Caller, NEW k \in Key, BeginCharge(c, k) PROVE OwnInv'
  <2>1. call'[c].pc = "invoice" BY <1>1, <1>a, IdleIsState DEF BeginCharge, CallState
  <2> QED BY <1>a, <1>b, <1>1, <2>1 DEF BeginCharge
<1>2. ASSUME NEW c \in Caller, CreateInvoice(c) PROVE OwnInv'
  <2>1. /\ call'[c].pc = "insert" /\ call'[c].key = call[c].key
        /\ \A d \in Caller : d # c => call'[d] = call[d]
    BY <1>2, <1>a DEF CreateInvoice, CallState
  <2> QED BY <1>b, <1>2, <2>1 DEF CreateInvoice
<1>3. ASSUME NEW c \in Caller, InsertCharge(c) PROVE OwnInv'
  <2>0. \A d \in Caller : d # c => call'[d] = call[d]
    BY <1>a, <1>3 DEF InsertCharge, ReturnFirst, InsertPending
  <2>1. CASE ReturnFirst(c)
    <3>1. call'[c].pc = "idle" BY <1>a, <2>1 DEF ReturnFirst, Idle
    <3> QED BY <1>b, <2>0, <2>1, <3>1 DEF ReturnFirst
  <2>2. CASE InsertPending(c)
    <3>1. call[c].key \in Key BY <1>0, <1>3 DEF InsertCharge, CallersHaveKeys
    <3>2. /\ charge'[call[c].key].status = "pending" /\ ~ charge'[call[c].key].known
          /\ \A j \in Key : j # call[c].key => charge'[j] = charge[j]
      BY <1>a, <3>1, <2>2 DEF InsertPending
    <3>3. call'[c].pc = "ask" /\ call'[c].key = call[c].key
      BY <1>a, <2>2 DEF InsertPending, CallState
    <3>4. \A d \in Caller : Owns(d) => call[d].key # call[c].key
      BY <1>0, <2>2 DEF InsertPending, OwnersHaveRows
    <3>5. OwnersHaveRows' /\ KnownHasRow'
      BY <1>0, <2>0, <3>2, <3>3 DEF OwnersHaveRows, KnownHasRow, CallersHaveKeys
    <3>6. OneOwner' BY <1>0, <2>0, <3>3, <3>4 DEF OneOwner
    <3>7. AnswerIsNew' BY <1>0, <2>0, <3>2, <3>3, <3>4 DEF AnswerIsNew, CallersHaveKeys
    <3> QED BY <3>5, <3>6, <3>7 DEF OwnInv
  <2> QED BY <1>3, <2>1, <2>2 DEF InsertCharge
<1>4. ASSUME NEW c \in Caller, Ask(c) PROVE OwnInv'
  <2>1. /\ call'[c].pc \in {"take", "fail"} /\ call'[c].key = call[c].key
        /\ \A d \in Caller : d # c => call'[d] = call[d]
    BY <1>a, <1>4 DEF Ask, CallState
  <2> QED BY <1>b, <1>4, <2>1 DEF Ask
<1>5. ASSUME NEW c \in Caller, TakeAnswer(c) PROVE OwnInv'
  <2>1. call[c].key \in Key /\ charge[call[c].key].status # "none"
    BY <1>0, <1>5 DEF TakeAnswer, CallersHaveKeys, OwnersHaveRows
  <2>2. \A d \in Caller : d # c /\ call[d].pc \in {"ask", "take"} => call[d].key # call[c].key
    BY <1>0, <1>5 DEF TakeAnswer, OneOwner
  <2>3. \A d \in Caller : d # c => call'[d] = call[d]
    BY <1>a, <1>5 DEF TakeAnswer, Settle, StoreIntent
  <2>4. /\ call'[c].pc \in {"announce", "idle"}
        /\ Owns(c)' => call'[c].key = call[c].key
    <3>1. CASE call' = [call EXCEPT ![c].pc = "announce"] BY <1>a, <3>1 DEF CallState
    <3>2. CASE call' = [call EXCEPT ![c] = Idle] BY <1>a, <3>2 DEF Idle
    <3> QED BY <1>5, <3>1, <3>2 DEF TakeAnswer, Settle, StoreIntent
  <2>5. /\ \A j \in Key : j # call[c].key => charge'[j] = charge[j]
        /\ charge'[call[c].key].status # "none"
    <3>1. CASE Settle(c) BY <1>a, <2>1, <3>1 DEF Settle, Book, Row
    <3>2. CASE StoreIntent(c) BY <1>a, <2>1, <3>2 DEF StoreIntent, Row
    <3> QED BY <1>5, <3>1, <3>2 DEF TakeAnswer
  <2>6. Owns(c) /\ call[c].pc = "take" BY <1>5 DEF TakeAnswer
  <2> QED BY <1>c, <2>1, <2>2, <2>3, <2>4, <2>5, <2>6
<1>6. ASSUME NEW c \in Caller, Announce(c) \/ Throws(c) \/ CallCrash(c) PROVE OwnInv'
  <2>1. \A d \in Caller : d # c => call'[d] = call[d]
    BY <1>a, <1>6 DEF Announce, Throws, CallCrash
  <2>2. \/ call'[c].pc = "idle"
        \/ Owns(c) /\ call'[c].pc = "fail" /\ call'[c].key = call[c].key
    BY <1>a, <1>6 DEF Announce, Throws, CallCrash, Idle, CallState
  <2> QED BY <1>b, <1>6, <2>1, <2>2 DEF Announce, Throws, CallCrash
<1>7. ASSUME NEW c \in Caller, MarkFailed(c) PROVE OwnInv'
  <2>1. call[c].key \in Key /\ charge[call[c].key].status # "none" /\ Owns(c)
    BY <1>0, <1>7 DEF MarkFailed, CallersHaveKeys, OwnersHaveRows
  <2>2. \A d \in Caller : d # c => call'[d] = call[d] BY <1>a, <1>7 DEF MarkFailed
  <2>3. call'[c].pc = "idle" BY <1>a, <1>7 DEF MarkFailed, Idle
  <2>4. /\ \A j \in Key : j # call[c].key => charge'[j] = charge[j]
        /\ charge'[call[c].key].status # "none"
    BY <1>a, <2>1, <1>7 DEF MarkFailed, Row
  <2>5. \A d \in Caller : d # c /\ call[d].pc \in {"ask", "take"} => call[d].key # call[c].key
    BY <1>0, <2>1 DEF OneOwner
  <2>6. call[c].pc = "fail" BY <1>7 DEF MarkFailed
  <2> QED BY <1>c, <2>1, <2>2, <2>3, <2>4, <2>5, <2>6
<1>8. ASSUME NEW k \in Key, GatewayDecides(k) PROVE OwnInv'
  BY <1>b, <1>8 DEF GatewayDecides
<1>9. ASSUME NEW k \in Key, Webhook(k) PROVE OwnInv'
  <2>1. call' = call BY <1>9 DEF Webhook
  <2>2. CASE UNCHANGED <<bills, charge, payments>> BY <1>b, <2>1, <2>2
  <2>3. CASE ~ charge[k].known /\ PaymentFailed(k)
    <3>1. \A j \in Key : charge'[j].status = charge[j].status /\ charge'[j].known = charge[j].known
      BY <1>a, <2>3 DEF PaymentFailed, Row
    <3> QED BY <1>b, <2>1, <3>1
  <2>4. CASE charge[k].known /\ (Book(k) \/ PaymentFailed(k))
    <3>1. charge[k].status # "none" BY <2>4, KnownCharge
    <3>2. /\ \A j \in Key : j # k => charge'[j] = charge[j]
          /\ charge'[k].status # "none"
      BY <1>a, <2>4 DEF Book, PaymentFailed, Row
    <3>3. \A d \in Caller : call[d].pc \in {"ask", "take"} => call[d].key # k
      BY <1>0, <2>4 DEF AnswerIsNew
    <3> QED BY <1>c, <2>1, <3>1, <3>2, <3>3
  <2> QED BY <1>9, <2>2, <2>3, <2>4 DEF Webhook, PaymentSucceeded
<1>10. ASSUME NextDay PROVE OwnInv'
  BY <1>b, <1>10 DEF NextDay
<1> QED BY <1>1, <1>2, <1>3, <1>4, <1>5, <1>6, <1>7, <1>8, <1>9, <1>10 DEF OneTimeNext

------------------------------------------------------------------------------
(* Layer 4 *)

LEMMA KeysOfRows ==
  ASSUME OneTimeTypes
  PROVE  /\ \A p \in DOMAIN payments : payments[p].key \in Key
         /\ \A i \in DOMAIN bills : bills[i].key \in Key
<1>1. bills \in Seq(Bill) /\ payments \in Seq(Payment) BY DEF OneTimeTypes
<1>2. \A p \in DOMAIN payments : payments[p] \in Payment BY <1>1, LenProperties, ElementOfSeq
<1>3. \A i \in DOMAIN bills : bills[i] \in Bill BY <1>1, LenProperties, ElementOfSeq
<1> QED BY <1>2, <1>3 DEF Bill, Payment

\* A payment of k that is not in the books yet is booked: the row of k has not
\* named its intent, or the invoice of k is not paid.
LEMMA BookOnce ==
  ASSUME CallInv, CallInv', RowInv, OwnInv, BookInv, NEW k \in Key, Book(k),
         charge[k].status # "none",
         ~ charge[k].known \/ bills[charge[k].bill].status # "paid"
  PROVE  BookInv'
<1>0. OneTimeTypes /\ OneTimeTypes' /\ RowsNameBills
  BY TypesNamed DEF CallInv, RowInv, OneTimeTypeOK, OneTimeTypes, Bill, Row, IntentState, Payment, CallState
<1>1. OnePayment /\ PaymentsArePaid /\ PaidIsBooked /\ SucceededIsBooked BY DEF BookInv
<1> DEFINE i == charge[k].bill
           n == Len(payments) + 1
<1>2. /\ DOMAIN bills' = DOMAIN bills /\ i \in DOMAIN bills /\ bills'[i].status = "paid"
      /\ \A j \in DOMAIN bills : /\ bills'[j].key = bills[j].key
                                 /\ j # i => bills'[j] = bills[j]
      /\ DOMAIN payments' = 1..n /\ DOMAIN payments = 1..Len(payments)
      /\ payments'[n] = [key |-> k, day |-> today]
      /\ \A p \in DOMAIN payments : payments'[p] = payments[p]
  BY <1>0, BookType
<1>3. /\ \A j \in Key : charge'[j].bill = charge[j].bill /\ (charge[j].known => charge'[j].known)
                      /\ (j # k => charge'[j] = charge[j])
      /\ charge'[k].known
  BY <1>0 DEF OneTimeTypes, Row, Book
<1>4. n \in Nat /\ n \notin DOMAIN payments /\ DOMAIN payments' = DOMAIN payments \cup {n}
      /\ payments'[n].key = k
  BY <1>0, <1>2 DEF OneTimeTypes
<1>5. \A p \in DOMAIN payments : payments[p].key # k
  BY <1>1 DEF PaymentsArePaid
<1>6. /\ \A p \in DOMAIN payments : payments[p].key \in Key
      /\ \A j \in DOMAIN bills : bills[j].key \in Key
  BY <1>0, KeysOfRows
<1>7. bills[i].key = k BY <1>0 DEF RowsNameBills
<1> HIDE DEF i, n
<1>8. OnePayment' BY <1>1, <1>2, <1>4, <1>5 DEF OnePayment
<1>9. \A j \in DOMAIN bills : bills[j].status = "paid" => bills'[j].status = "paid"
  BY <1>2
<1>10. PaymentsArePaid'
  <2>1. ASSUME NEW j \in Key, charge[j].known, bills[charge[j].bill].status = "paid"
        PROVE  charge'[j].known /\ bills'[charge'[j].bill].status = "paid"
    <3>1. charge[j].bill \in DOMAIN bills
      BY <1>0, <2>1, KnownCharge DEF RowsNameBills
    <3> QED BY <1>3, <1>9, <2>1, <3>1
  <2>2. charge'[k].known /\ bills'[charge'[k].bill].status = "paid"
    BY <1>2, <1>3 DEF i
  <2>3. \A p \in DOMAIN payments :
          LET j == payments[p].key IN charge'[j].known /\ bills'[charge'[j].bill].status = "paid"
    BY <1>1, <1>6, <2>1 DEF PaymentsArePaid
  <2>4. \A p \in DOMAIN payments' :
          LET j == payments'[p].key IN charge'[j].known /\ bills'[charge'[j].bill].status = "paid"
    <3>1. \A p \in DOMAIN payments' : p \in DOMAIN payments \/ p = n BY <1>4
    <3>2. \A p \in DOMAIN payments : payments'[p].key = payments[p].key BY <1>2
    <3> QED BY <1>4, <2>2, <2>3, <3>1, <3>2
  <2> QED BY <2>4 DEF PaymentsArePaid
<1>11. PaidIsBooked'
  <2> SUFFICES ASSUME NEW j \in DOMAIN bills, bills'[j].status = "paid"
               PROVE  /\ charge'[bills[j].key].bill = j
                      /\ \E p \in DOMAIN payments' : payments'[p].key = bills[j].key
    BY <1>2 DEF PaidIsBooked
  <2>1. CASE j = i BY <1>3, <1>4, <1>7, <2>1 DEF i
  <2>2. CASE j # i
    <3>1. bills[j].status = "paid" BY <1>2, <2>2
    <3>2. PICK p \in DOMAIN payments : payments[p].key = bills[j].key
      BY <1>1, <3>1 DEF PaidIsBooked
    <3>3. charge[bills[j].key].bill = j BY <1>1, <3>1 DEF PaidIsBooked
    <3>4. charge'[bills[j].key].bill = j BY <1>3, <1>6, <3>3
    <3>5. p \in DOMAIN payments' /\ payments'[p].key = bills[j].key BY <1>2, <1>4, <3>2
    <3> QED BY <3>4, <3>5
  <2> QED BY <2>1, <2>2
<1>12. SucceededIsBooked'
  <2> SUFFICES ASSUME NEW j \in Key, charge'[j].status = "succeeded"
               PROVE  \E p \in DOMAIN payments' : payments'[p].key = j
    BY DEF SucceededIsBooked
  <2>1. CASE j = k BY <1>4, <2>1
  <2>2. CASE j # k
    <3>1. PICK p \in DOMAIN payments : payments[p].key = j
      BY <1>1, <1>3, <2>2 DEF SucceededIsBooked
    <3> QED BY <1>2, <1>4, <3>1
  <2> QED BY <2>1, <2>2
<1> QED BY <1>8, <1>10, <1>11, <1>12 DEF BookInv

\* A step that books nothing may only fail rows, name an intent, and add a
\* finalized invoice.
LEMMA NoBooking ==
  ASSUME CallInv, RowInv, OwnInv, BookInv, payments' = payments,
         \A k \in Key : /\ charge[k].status # "none" => charge'[k].bill = charge[k].bill
                        /\ charge[k].known => charge'[k].known
                        /\ charge'[k].status = "succeeded" => charge[k].status = "succeeded",
         DOMAIN bills \subseteq DOMAIN bills',
         \A i \in DOMAIN bills : bills'[i] = bills[i],
         \A i \in DOMAIN bills' \ DOMAIN bills : bills'[i].status = "finalized"
  PROVE  BookInv'
<1>0. OneTimeTypes /\ RowsNameBills BY TypesNamed DEF CallInv, RowInv
<1>1. OnePayment /\ PaymentsArePaid /\ PaidIsBooked /\ SucceededIsBooked BY DEF BookInv
<1>2. /\ \A p \in DOMAIN payments : payments[p].key \in Key
      /\ \A j \in DOMAIN bills : bills[j].key \in Key
  BY <1>0, KeysOfRows
<1>3. OnePayment' BY <1>1 DEF OnePayment
<1>4. SucceededIsBooked' BY <1>1 DEF SucceededIsBooked
<1>5. \A p \in DOMAIN payments : LET k == payments[p].key IN
        /\ k \in Key /\ charge[k].known /\ charge[k].status # "none"
        /\ charge[k].bill \in DOMAIN bills /\ bills[charge[k].bill].status = "paid"
  BY <1>0, <1>1, <1>2, KnownCharge DEF PaymentsArePaid, RowsNameBills
<1>6. PaymentsArePaid' BY <1>5 DEF PaymentsArePaid
<1>7. PaidIsBooked'
  <2> SUFFICES ASSUME NEW i \in DOMAIN bills', bills'[i].status = "paid"
               PROVE  /\ charge'[bills'[i].key].bill = i
                      /\ \E p \in DOMAIN payments : payments[p].key = bills'[i].key
    BY DEF PaidIsBooked
  <2>1. i \in DOMAIN bills /\ bills'[i] = bills[i] OBVIOUS
  <2>2. PICK p \in DOMAIN payments : payments[p].key = bills[i].key
    BY <1>1, <2>1 DEF PaidIsBooked
  <2>3. charge[bills[i].key].bill = i /\ charge[bills[i].key].status # "none"
    BY <1>1, <1>5, <2>1, <2>2 DEF PaidIsBooked
  <2> QED BY <1>2, <2>1, <2>2, <2>3
<1> QED BY <1>3, <1>4, <1>6, <1>7 DEF BookInv

LEMMA BookStep ==
  ASSUME CallInv, CallInv', RowInv, OwnInv, BookInv, OneTimeNext
  PROVE  BookInv'
<1>0. OneTimeTypes /\ CallersHaveKeys /\ RowsNameBills
  BY TypesNamed DEF CallInv, RowInv
<1>a. charge \in [Key -> Row] /\ bills \in Seq(Bill) BY <1>0 DEF OneTimeTypes
<1>1. ASSUME UNCHANGED <<bills, charge, payments>> PROVE BookInv'
  BY <1>1 DEF BookInv, OnePayment, PaymentsArePaid, PaidIsBooked, SucceededIsBooked
<1>2. ASSUME NEW c \in Caller, CreateInvoice(c) PROVE BookInv'
  <2>1. bills' = Append(bills, [key |-> call[c].key, status |-> "finalized"])
        /\ charge' = charge /\ payments' = payments
    BY <1>2 DEF CreateInvoice
  <2>2. /\ DOMAIN bills = 1..Len(bills) /\ DOMAIN bills' = 1..(Len(bills) + 1) /\ Len(bills) \in Nat
        /\ \A i \in 1..Len(bills) : bills'[i] = bills[i]
        /\ bills'[Len(bills) + 1].status = "finalized"
    BY <1>a, <2>1
  <2>3. /\ DOMAIN bills \subseteq DOMAIN bills'
        /\ \A i \in DOMAIN bills' \ DOMAIN bills : bills'[i].status = "finalized"
    BY <2>2
  <2> QED BY <2>1, <2>2, <2>3, NoBooking
<1>3. ASSUME NEW c \in Caller, InsertCharge(c) PROVE BookInv'
  <2>1. CASE ReturnFirst(c) BY <1>1, <1>3, <2>1 DEF InsertCharge, ReturnFirst
  <2>2. CASE InsertPending(c)
    <3>1. call[c].key \in Key /\ charge[call[c].key].status = "none"
      BY <1>0, <1>3, <2>2 DEF InsertCharge, InsertPending, CallersHaveKeys
    <3>2. ~ charge[call[c].key].known BY <3>1, KnownCharge
    <3>3. \A k \in Key : /\ charge[k].status # "none" => charge'[k].bill = charge[k].bill
                         /\ charge[k].known => charge'[k].known
                         /\ charge'[k].status = "succeeded" => charge[k].status = "succeeded"
      BY <1>a, <2>2, <3>1, <3>2 DEF InsertPending
    <3> QED BY <1>3, <3>3, NoBooking DEF InsertCharge
  <2> QED BY <1>3, <2>1, <2>2 DEF InsertCharge
<1>4. ASSUME NEW c \in Caller, TakeAnswer(c) PROVE BookInv'
  <2>1. call[c].key \in Key /\ charge[call[c].key].status # "none" /\ ~ charge[call[c].key].known
    BY <1>0, <1>4 DEF TakeAnswer, CallersHaveKeys, OwnInv, OwnersHaveRows, Owns, AnswerIsNew
  <2>2. CASE Settle(c) BY <2>1, <2>2, BookOnce DEF Settle
  <2>3. CASE StoreIntent(c)
    <3>1. \A k \in Key : /\ charge'[k].bill = charge[k].bill
                         /\ charge[k].known => charge'[k].known
                         /\ charge'[k].status = "succeeded" => charge[k].status = "succeeded"
      BY <1>a, <2>1, <2>3 DEF StoreIntent, Row
    <3> QED BY <2>3, <3>1, NoBooking DEF StoreIntent
  <2> QED BY <1>4, <2>2, <2>3 DEF TakeAnswer
<1>5. ASSUME NEW c \in Caller, MarkFailed(c) PROVE BookInv'
  <2>1. call[c].key \in Key BY <1>0, <1>5 DEF MarkFailed, CallersHaveKeys
  <2>2. \A k \in Key : /\ charge'[k].bill = charge[k].bill
                       /\ charge[k].known => charge'[k].known
                       /\ charge'[k].status = "succeeded" => charge[k].status = "succeeded"
    BY <1>a, <1>5, <2>1 DEF MarkFailed, Row
  <2> QED BY <1>5, <2>2, NoBooking DEF MarkFailed
<1>6. ASSUME NEW k \in Key, Webhook(k) PROVE BookInv'
  <2>1. CASE UNCHANGED <<bills, charge, payments>> BY <1>1, <2>1
  <2>2. CASE charge[k].known /\ bills[charge[k].bill].status = "finalized" /\ Book(k)
    BY <2>2, KnownCharge, BookOnce
  <2>3. CASE PaymentFailed(k)
    <3>1. \A j \in Key : /\ charge'[j].bill = charge[j].bill
                         /\ charge[j].known => charge'[j].known
                         /\ charge'[j].status = "succeeded" => charge[j].status = "succeeded"
      BY <1>a, <2>3 DEF PaymentFailed, Row
    <3> QED BY <2>3, <3>1, NoBooking DEF PaymentFailed
  <2> QED BY <1>6, <2>1, <2>2, <2>3 DEF Webhook, PaymentSucceeded
<1> QED BY <1>1, <1>2, <1>3, <1>4, <1>5, <1>6
      DEF OneTimeNext, BeginCharge, Ask, Announce, Throws, CallCrash, GatewayDecides, NextDay

------------------------------------------------------------------------------
(* One-time charges *)

LEMMA OneTimeInit0 == OneTimeInit => OneTimeInv
<1> SUFFICES ASSUME OneTimeInit PROVE OneTimeInv OBVIOUS
<1>1. OneTimeTypes
  BY OneTimeAssumption, IdleIsState
    DEF OneTimeInit, OneTimeTypes, NoCharge, NoIntent, Row, IntentState
<1>2. CallInv BY <1>1, TypesNamed DEF OneTimeInit, CallInv, CallersHaveKeys, Idle
<1>3. RowInv /\ OwnInv
  BY DEF OneTimeInit, RowInv, OwnInv, RowsNameBills, InsertersHaveBills, OwnersHaveRows,
         OneOwner, AnswerIsNew, KnownHasRow, Owns, NoCharge, Idle
<1>4. BookInv
  BY DEF OneTimeInit, BookInv, OnePayment, PaymentsArePaid, PaidIsBooked, SucceededIsBooked, NoCharge
<1> QED BY <1>2, <1>3, <1>4 DEF OneTimeInv

LEMMA OneTimeStep ==
  ASSUME OneTimeInv, [OneTimeNext]_oneTimeVars
  PROVE  OneTimeInv'
<1>1. CASE OneTimeNext
  BY <1>1, CallStep, RowStep, OwnStep, BookStep DEF OneTimeInv
<1>2. CASE UNCHANGED oneTimeVars
  BY <1>2 DEF oneTimeVars, OneTimeInv, CallInv, OneTimeTypeOK, CallersHaveKeys, RowInv,
     RowsNameBills, InsertersHaveBills, OwnInv, OwnersHaveRows, OneOwner, AnswerIsNew,
     KnownHasRow, Owns, BookInv, OnePayment, PaymentsArePaid, PaidIsBooked, SucceededIsBooked
<1> QED BY <1>1, <1>2

\* A paid invoice of a key is the one its row names, and its payment is the
\* only one.
LEMMA OneBill == OneTimeInv => OnePaidBillPerKey
<1> SUFFICES ASSUME OneTimeInv, NEW i \in DOMAIN bills, bills[i].status = "paid"
             PROVE  /\ charge[bills[i].key].bill = i
                    /\ Cardinality({p \in DOMAIN payments : payments[p].key = bills[i].key}) = 1
  BY DEF OnePaidBillPerKey
<1>1. PaidIsBooked /\ OnePayment BY DEF OneTimeInv, BookInv
<1>2. PICK p \in DOMAIN payments : payments[p].key = bills[i].key BY <1>1 DEF PaidIsBooked
<1>3. {q \in DOMAIN payments : payments[q].key = bills[i].key} = {p} BY <1>1, <1>2 DEF OnePayment
<1> QED BY <1>1, <1>3, FS_Singleton DEF PaidIsBooked

\* createOneTimeCharge and the webhook, alone: no interleaving of the requests
\* of a key pays two invoices or books two payments.
THEOREM OneTimeChargesPaidOnce == OneTimeSpec => []OnePaidBillPerKey
<1>1. OneTimeInv /\ [OneTimeNext]_oneTimeVars => OneTimeInv' BY OneTimeStep
<1> QED BY <1>1, OneTimeInit0, OneBill, PTL DEF OneTimeSpec

\* The same next to refunds and reconciliation, which leave charges alone.
THEOREM OperationsPayOnce == Spec => []OnePaidBillPerKey
<1>1. Init => OneTimeInv BY OneTimeInit0 DEF Init
<1>2. OneTimeInv /\ [Next]_vars => OneTimeInv'
  <2> SUFFICES ASSUME OneTimeInv, [Next]_vars PROVE OneTimeInv' OBVIOUS
  <2>1. [OneTimeNext]_oneTimeVars BY DEF Next, vars
  <2> QED BY <2>1, OneTimeStep
<1> QED BY <1>1, <1>2, OneBill, PTL DEF Spec

------------------------------------------------------------------------------
(* Refunds *)

RefundRow == [status: {"none", "pending", "processing", "succeeded", "failed"},
              of: Key \cup {NoKey}, amount: 0..Price]
RefundEntry == [refund: RefundKey, of: Key, amount: 1..Price]
AskPc == {"idle", "check", "insert", "start", "ask", "book", "fail"}
AskState == [pc: AskPc, refund: RefundKey \cup {NoRefund}, of: Key \cup {NoKey},
             amount: 0..Price]

RefundTypes ==
  /\ refund \in [RefundKey -> RefundRow] /\ accepted \in [RefundKey -> 0..Price]
  /\ outcome \in [RefundKey -> {"none", "pending", "succeeded", "failed"}]
  /\ refundBook \in Seq(RefundEntry) /\ asking \in [Refunder -> AskState]

LEMMA RefundTypesNamed == RefundTypeOK <=> RefundTypes
BY DEF RefundTypeOK, RefundTypes, RefundRow, RefundEntry, AskState, AskPc

\* Payments stay in the ledger.
PaymentsStay ==
  \A p \in DOMAIN payments : p \in DOMAIN payments' /\ payments'[p] = payments[p]

LEMMA PaymentsGrow ==
  ASSUME OneTimeInv, [OneTimeNext]_oneTimeVars
  PROVE  PaymentsStay
<1>0. OneTimeTypes BY TypesNamed DEF OneTimeInv, CallInv
<1>1. CASE payments' = payments BY <1>1 DEF PaymentsStay
<1>2. ASSUME NEW k \in Key, Book(k) PROVE PaymentsStay
  <2> DEFINE e == [key |-> k, day |-> today]
  <2>1. payments \in Seq(Payment) /\ e \in Payment /\ payments' = Append(payments, e)
    BY <1>0, <1>2 DEF OneTimeTypes, Payment, Book
  <2> HIDE DEF e
  <2> QED BY <2>1 DEF PaymentsStay
<1>3. ASSUME NEW c \in Caller, TakeAnswer(c) PROVE PaymentsStay
  <2>1. call[c].key \in Key BY <1>3 DEF TakeAnswer, OneTimeInv, CallInv, CallersHaveKeys
  <2> QED BY <1>1, <1>2, <1>3, <2>1 DEF TakeAnswer, Settle, StoreIntent
<1>4. ASSUME NEW k \in Key, Webhook(k) PROVE PaymentsStay
  BY <1>1, <1>2, <1>4 DEF Webhook, PaymentSucceeded, PaymentFailed
<1> QED BY <1>1, <1>3, <1>4
      DEF oneTimeVars, OneTimeNext, BeginCharge, CreateInvoice, InsertCharge, Ask, Announce,
          Throws, MarkFailed, CallCrash, GatewayDecides, NextDay

\* A step that leaves the refunds alone leaves their invariant alone.
LEMMA RefundsUndisturbed ==
  ASSUME RefundInv, UNCHANGED refundVars, PaymentsStay
  PROVE  RefundInv'
<1>1. RefundTypeOK' /\ AskersAreTyped' /\ AskersHaveRows'
  BY DEF RefundInv, refundVars, RefundTypeOK, AskersAreTyped, AskersHaveRows
<1>2. AskersFoundPayment'
  BY DEF RefundInv, refundVars, AskersFoundPayment, PaymentsStay
<1>3. RefundsAreTraceable'
  BY DEF RefundInv, refundVars, RefundsAreTraceable, PaymentsStay
<1> QED BY <1>1, <1>2, <1>3 DEF RefundInv

LEMMA SilentIsState == Silent \in AskState
BY RefundAssumption DEF Silent, AskState, AskPc

\* A request that goes on keeps what it asks for; one that stops asks nothing.
LEMMA AskerMoves ==
  ASSUME RefundInv, payments' = payments, NEW c \in Refunder, asking[c].pc # "idle",
         NEW pc \in AskPc, Continue(c, pc) \/ Stop(c)
  PROVE  /\ asking' \in [Refunder -> AskState] /\ AskersAreTyped' /\ AskersFoundPayment'
         /\ \A d \in Refunder : d # c => asking'[d] = asking[d]
         /\ asking'[c].pc = "idle"
            \/ (asking'[c].pc = pc /\ asking'[c].refund = asking[c].refund /\ asking'[c].of = asking[c].of)
<1>1. asking \in [Refunder -> AskState] /\ AskersAreTyped /\ AskersFoundPayment
  BY RefundTypesNamed DEF RefundInv, RefundTypes
<1>2. CASE Continue(c, pc)
  <2>1. asking' \in [Refunder -> AskState] BY <1>1, <1>2 DEF Continue, AskState
  <2>2. /\ \A d \in Refunder : d # c => asking'[d] = asking[d]
        /\ asking'[c].pc = pc /\ asking'[c].refund = asking[c].refund
        /\ asking'[c].of = asking[c].of /\ asking'[c].amount = asking[c].amount
    BY <1>1, <1>2 DEF Continue, AskState
  <2> QED BY <1>1, <2>1, <2>2 DEF AskersAreTyped, AskersFoundPayment
<1>3. CASE Stop(c)
  <2>1. asking' \in [Refunder -> AskState] BY <1>1, <1>3, SilentIsState DEF Stop
  <2>2. asking'[c].pc = "idle" /\ \A d \in Refunder : d # c => asking'[d] = asking[d]
    BY <1>1, <1>3 DEF Stop, Silent
  <2> QED BY <1>1, <2>1, <2>2 DEF AskersAreTyped, AskersFoundPayment
<1> QED BY <1>2, <1>3

LEMMA RefundStepKeeps ==
  ASSUME OneTimeInv, RefundInv, NEW c \in Refunder, RefundStep(c), payments' = payments
  PROVE  RefundInv'
<1>0. RefundTypes /\ AskersAreTyped /\ AskersFoundPayment /\ AskersHaveRows /\ RefundsAreTraceable
  BY RefundTypesNamed DEF RefundInv
<1>a. /\ refund \in [RefundKey -> RefundRow] /\ accepted \in [RefundKey -> 0..Price]
      /\ outcome \in [RefundKey -> {"none", "pending", "succeeded", "failed"}]
      /\ refundBook \in Seq(RefundEntry) /\ asking \in [Refunder -> AskState]
  BY <1>0 DEF RefundTypes
<1> SUFFICES RefundTypes' /\ AskersAreTyped' /\ AskersFoundPayment' /\ AskersHaveRows' /\ RefundsAreTraceable'
  BY DEF RefundInv, RefundTypeOK, RefundTypes, RefundRow, RefundEntry, AskState, AskPc
<1> DEFINE r == asking[c].refund
\* Steps that move the caller on and change no row and no money.
<1>b. ASSUME asking[c].pc # "idle", UNCHANGED <<refund, accepted, outcome>>, refundBook' \in Seq(RefundEntry),
             NEW pc \in AskPc, Continue(c, pc) \/ Stop(c),
             pc \in {"book", "fail"} => asking[c].pc \in {"ask", "book"}, pc \notin {"start", "ask"}
      PROVE RefundTypes' /\ AskersAreTyped' /\ AskersFoundPayment' /\ AskersHaveRows' /\ RefundsAreTraceable'
  <2>1. /\ asking' \in [Refunder -> AskState] /\ AskersAreTyped' /\ AskersFoundPayment'
        /\ \A d \in Refunder : d # c => asking'[d] = asking[d]
        /\ asking'[c].pc = "idle"
           \/ (asking'[c].pc = pc /\ asking'[c].refund = asking[c].refund /\ asking'[c].of = asking[c].of)
    BY <1>b, AskerMoves
  <2>2. AskersHaveRows' BY <1>0, <1>b, <2>1 DEF AskersHaveRows
  <2>3. RefundsAreTraceable' BY <1>0, <1>b DEF RefundsAreTraceable
  <2> QED BY <1>a, <1>b, <2>1, <2>2, <2>3 DEF RefundTypes
\* Steps that change the status of the caller's own row, and go on or stop.
<1>c. ASSUME asking[c].pc \in {"start", "ask", "book", "fail"},
             NEW status \in {"processing", "succeeded", "failed"},
             refund' = [refund EXCEPT ![r].status = status],
             UNCHANGED <<accepted, outcome>>, refundBook' \in Seq(RefundEntry),
             Continue(c, "ask") \/ Stop(c)
      PROVE RefundTypes' /\ AskersAreTyped' /\ AskersFoundPayment' /\ AskersHaveRows' /\ RefundsAreTraceable'
  <2>1. /\ asking' \in [Refunder -> AskState] /\ AskersAreTyped' /\ AskersFoundPayment'
        /\ \A d \in Refunder : d # c => asking'[d] = asking[d]
        /\ asking'[c].pc = "idle"
           \/ (asking'[c].pc = "ask" /\ asking'[c].refund = asking[c].refund /\ asking'[c].of = asking[c].of)
    BY <1>c, AskerMoves DEF AskPc
  <2>2. r \in RefundKey BY <1>0, <1>c DEF AskersAreTyped
  <2>3. refund' \in [RefundKey -> RefundRow] BY <1>a, <1>c, <2>2 DEF RefundRow
  <2>4. \A q \in RefundKey : /\ refund'[q].of = refund[q].of
                             /\ q = r => refund'[q].status = status
                             /\ q # r => refund'[q] = refund[q]
    BY <1>a, <1>c, <2>2 DEF RefundRow
  <2>5. AskersHaveRows'
    <3>1. \A d \in Refunder : asking'[d].pc \in {"start", "ask", "book", "fail"} =>
            /\ asking[d].pc \in {"start", "ask", "book", "fail"}
            /\ asking'[d].refund = asking[d].refund /\ asking'[d].of = asking[d].of
            /\ asking[d].refund \in RefundKey
            /\ asking'[d].pc # "start" => asking[d].pc # "start" \/ asking[d].refund = r
      BY <1>0, <1>c, <2>1 DEF AskersAreTyped
    <3> HIDE DEF r
    <3> QED BY <1>0, <1>c, <2>4, <3>1 DEF AskersHaveRows
  <2> HIDE DEF r
  <2>6. RefundsAreTraceable' BY <1>0, <1>c, <2>4 DEF RefundsAreTraceable
  <2> QED BY <1>c, <1>a, <2>1, <2>3, <2>5, <2>6 DEF RefundTypes
<1>1. ASSUME NEW q \in RefundKey, NEW k \in Key, NEW amount \in 1..Price, BeginRefund(c, q, k, amount)
      PROVE RefundTypes' /\ AskersAreTyped' /\ AskersFoundPayment' /\ AskersHaveRows' /\ RefundsAreTraceable'
  <2> DEFINE a == [pc |-> "check", refund |-> q, of |-> k, amount |-> amount]
  <2>1. a \in AskState /\ a.pc = "check" /\ a.refund = q /\ a.of = k /\ a.amount = amount
    BY RefundAssumption DEF AskState, AskPc
  <2>2. asking' = [asking EXCEPT ![c] = a] /\ UNCHANGED <<refund, accepted, outcome, refundBook>>
    BY <1>1 DEF BeginRefund, atGateway
  <2> HIDE DEF a
  <2>3. asking' \in [Refunder -> AskState] /\ asking'[c] = a
        /\ \A d \in Refunder : d # c => asking'[d] = asking[d]
    BY <1>a, <2>1, <2>2
  <2>4. \E p \in DOMAIN payments : payments[p].key = k
    BY <1>1 DEF BeginRefund, OneTimeInv, BookInv, SucceededIsBooked
  <2>5. AskersAreTyped' /\ AskersFoundPayment' /\ AskersHaveRows'
    BY <1>0, <2>1, <2>2, <2>3, <2>4 DEF AskersAreTyped, AskersFoundPayment, AskersHaveRows
  <2> QED BY <1>0, <1>a, <2>2, <2>3, <2>5 DEF RefundTypes, RefundsAreTraceable
<1>2. ASSUME CheckAmount(c)
      PROVE RefundTypes' /\ AskersAreTyped' /\ AskersFoundPayment' /\ AskersHaveRows' /\ RefundsAreTraceable'
  <2>1. Continue(c, "insert") \/ Stop(c) BY <1>2 DEF CheckAmount
  <2>2. asking[c].pc = "check" /\ UNCHANGED <<refund, accepted, outcome, refundBook>>
    BY <1>2 DEF CheckAmount, atGateway
  <2> QED BY <1>a, <1>b, <2>1, <2>2 DEF AskPc
<1>3. ASSUME InsertRefund(c)
      PROVE RefundTypes' /\ AskersAreTyped' /\ AskersFoundPayment' /\ AskersHaveRows' /\ RefundsAreTraceable'
  <2>0. /\ asking[c].pc = "insert" /\ UNCHANGED <<accepted, outcome, refundBook>>
        /\ r \in RefundKey /\ asking[c].of \in Key /\ asking[c].amount \in 0..Price
    BY <1>0, <1>a, <1>3 DEF InsertRefund, AskersAreTyped, AskState, atGateway
  <2>1. CASE UNCHANGED refund /\ Stop(c)
    BY <1>a, <1>b, <2>0, <2>1 DEF AskPc
  <2>2. CASE ~ KeyTaken(r) /\ Continue(c, "start")
    <3> DEFINE row == [status |-> "pending", of |-> asking[c].of, amount |-> asking[c].amount]
    <3>1. refund[r].status = "none" BY <2>2 DEF KeyTaken
    <3>2. refund' = [refund EXCEPT ![r] = row]
      BY <1>3, <2>2 DEF InsertRefund, KeyTaken
    <3>3. row \in RefundRow /\ row.status = "pending" /\ row.of = asking[c].of
      BY <2>0 DEF RefundRow
    <3> HIDE DEF row
    <3>4. /\ asking' \in [Refunder -> AskState] /\ AskersAreTyped' /\ AskersFoundPayment'
          /\ \A d \in Refunder : d # c => asking'[d] = asking[d]
          /\ asking'[c].pc = "idle"
             \/ (asking'[c].pc = "start" /\ asking'[c].refund = asking[c].refund /\ asking'[c].of = asking[c].of)
      BY <2>0, <2>2, AskerMoves DEF AskPc
    <3>5. refund' \in [RefundKey -> RefundRow] /\ refund'[r] = row
          /\ \A q \in RefundKey : q # r => refund'[q] = refund[q]
      BY <1>a, <2>0, <3>2, <3>3
    <3>6. \A d \in Refunder : asking[d].pc \in {"start", "ask", "book", "fail"} =>
            asking[d].refund # r /\ asking[d].refund \in RefundKey
      BY <1>0, <3>1 DEF AskersHaveRows, AskersAreTyped
    <3>7. AskersHaveRows'
      BY <1>0, <3>3, <3>4, <3>5, <3>6 DEF AskersHaveRows
    <3>8. RefundsAreTraceable'
      <4>1. \A q \in RefundKey : accepted[q] > 0 => q # r
        BY <1>0, <3>1 DEF RefundsAreTraceable
      <4> HIDE DEF r
      <4> QED BY <1>0, <2>0, <3>5, <4>1 DEF RefundsAreTraceable
    <3> QED BY <1>a, <2>0, <3>4, <3>5, <3>7, <3>8 DEF RefundTypes
  <2> QED BY <1>3, <2>1, <2>2 DEF InsertRefund
<1>4. ASSUME StartProcessing(c)
      PROVE RefundTypes' /\ AskersAreTyped' /\ AskersFoundPayment' /\ AskersHaveRows' /\ RefundsAreTraceable'
  BY <1>a, <1>c, <1>4 DEF StartProcessing, atGateway
<1>5. ASSUME AskRefund(c)
      PROVE RefundTypes' /\ AskersAreTyped' /\ AskersFoundPayment' /\ AskersHaveRows' /\ RefundsAreTraceable'
  <2>0. asking[c].pc = "ask" /\ UNCHANGED <<refund, refundBook>> BY <1>5 DEF AskRefund
  <2>1. CASE Refused(c)
    <3>1. UNCHANGED <<accepted, outcome>> /\ Continue(c, "fail")
      BY <1>5, <2>1 DEF AskRefund, atGateway
    <3> QED BY <1>a, <1>b, <2>0, <3>1 DEF AskPc
  <2>2. CASE ~ Refused(c)
    <3>1. r \in RefundKey /\ asking[c].amount \in 0..Price
      BY <1>0, <1>a, <2>0 DEF AskersAreTyped, AskState
    <3>2. Accept(c) /\ (Continue(c, "book") \/ Continue(c, "fail"))
      BY <1>5, <2>2 DEF AskRefund
    <3>a. PICK pc \in {"book", "fail"} : Continue(c, pc) BY <3>2
    <3>3. /\ asking' \in [Refunder -> AskState] /\ AskersAreTyped' /\ AskersFoundPayment'
          /\ \A d \in Refunder : d # c => asking'[d] = asking[d]
          /\ asking'[c].pc = "idle"
             \/ (asking'[c].pc = pc /\ asking'[c].refund = asking[c].refund /\ asking'[c].of = asking[c].of)
      BY <2>0, <3>a, AskerMoves DEF AskPc
    <3>4. accepted' \in [RefundKey -> 0..Price] /\ \A q \in RefundKey : q # r => accepted'[q] = accepted[q]
      BY <1>a, <3>1, <3>2 DEF Accept
    <3>b. outcome' \in [RefundKey -> {"none", "pending", "succeeded", "failed"}]
      BY <1>a, <3>2 DEF Accept
    <3>5. AskersHaveRows' BY <1>0, <2>0, <3>a, <3>3 DEF AskersHaveRows
    <3>6. /\ refund[r].of = asking[c].of /\ refund[r].status \notin {"none", "pending"}
          /\ \E p \in DOMAIN payments : payments[p].key = asking[c].of
      BY <1>0, <2>0 DEF AskersHaveRows, AskersFoundPayment
    <3>7. refund[r].status \in {"processing", "succeeded", "failed"}
      BY <1>a, <3>1, <3>6 DEF RefundRow
    <3> HIDE DEF r
    <3>8. RefundsAreTraceable'
      BY <1>0, <2>0, <3>4, <3>6, <3>7 DEF RefundsAreTraceable
    <3> QED BY <1>a, <2>0, <3>3, <3>4, <3>b, <3>5, <3>8 DEF RefundTypes
  <2> QED BY <2>1, <2>2
<1>6. ASSUME AskThrows(c) \/ BookThrows(c)
      PROVE RefundTypes' /\ AskersAreTyped' /\ AskersFoundPayment' /\ AskersHaveRows' /\ RefundsAreTraceable'
  BY <1>a, <1>b, <1>6 DEF AskThrows, BookThrows, AskPc, atGateway
<1>7. ASSUME BookRefund(c)
      PROVE RefundTypes' /\ AskersAreTyped' /\ AskersFoundPayment' /\ AskersHaveRows' /\ RefundsAreTraceable'
  <2>1. [refund |-> r, of |-> asking[c].of, amount |-> asking[c].amount] \in RefundEntry
    BY <1>0, <1>7 DEF BookRefund, AskersAreTyped, RefundEntry
  <2>2. refundBook' \in Seq(RefundEntry) BY <1>a, <1>7, <2>1 DEF BookRefund
  <2> QED BY <1>c, <1>7, <2>2 DEF BookRefund, atGateway
<1>8. ASSUME FailRefund(c)
      PROVE RefundTypes' /\ AskersAreTyped' /\ AskersFoundPayment' /\ AskersHaveRows' /\ RefundsAreTraceable'
  BY <1>a, <1>c, <1>8 DEF FailRefund, atGateway
<1>9. ASSUME RefundCrash(c)
      PROVE RefundTypes' /\ AskersAreTyped' /\ AskersFoundPayment' /\ AskersHaveRows' /\ RefundsAreTraceable'
  BY <1>a, <1>b, <1>9 DEF RefundCrash, AskPc, atGateway
<1> QED BY <1>1, <1>2, <1>3, <1>4, <1>5, <1>6, <1>7, <1>8, <1>9 DEF RefundStep

\* What the bank does later changes only what has become of a refund.
LEMMA RefundDecidedKeeps ==
  ASSUME RefundInv, NEW r \in RefundKey, RefundDecided(r), payments' = payments
  PROVE  RefundInv'
<1>1. RefundTypes BY RefundTypesNamed DEF RefundInv
<1>2. /\ UNCHANGED <<refund, accepted, refundBook, asking>>
      /\ outcome' \in [RefundKey -> {"none", "pending", "succeeded", "failed"}]
  BY <1>1 DEF RefundTypes, RefundDecided
<1>3. RefundTypeOK'
  BY <1>1, <1>2 DEF RefundTypes, RefundTypeOK, RefundRow, RefundEntry, AskState, AskPc
<1>4. AskersAreTyped' /\ AskersHaveRows' /\ AskersFoundPayment' /\ RefundsAreTraceable'
  BY <1>2 DEF RefundInv, AskersAreTyped, AskersHaveRows, AskersFoundPayment, RefundsAreTraceable
<1> QED BY <1>3, <1>4 DEF RefundInv

LEMMA OperationsInit == Init => OperationsInv
<1> SUFFICES ASSUME Init PROVE OperationsInv OBVIOUS
<1>1. OneTimeInv BY OneTimeInit0 DEF Init
<1>2. NoRow \in RefundRow /\ 0 \in 0..Price /\ <<>> \in Seq(RefundEntry)
  BY RefundAssumption DEF NoRow, RefundRow
<1>3. RefundTypeOK
  BY <1>2, SilentIsState, RefundTypesNamed DEF Init, RefundInit, RefundTypes
<1>4. AskersAreTyped /\ AskersFoundPayment /\ AskersHaveRows /\ RefundsAreTraceable
  BY DEF Init, RefundInit, AskersAreTyped, AskersFoundPayment, AskersHaveRows,
         RefundsAreTraceable, Silent
<1> QED BY <1>1, <1>3, <1>4 DEF OperationsInv, RefundInv

LEMMA OperationsStep ==
  ASSUME OperationsInv, [Next]_vars
  PROVE  OperationsInv'
<1> SUFFICES OneTimeInv' /\ RefundInv'
  BY DEF OperationsInv
<1>0. OneTimeInv /\ RefundInv BY DEF OperationsInv
<1>1. [OneTimeNext]_oneTimeVars BY DEF Next, vars
<1>2. OneTimeInv' BY <1>0, <1>1, OneTimeStep
<1>3. CASE UNCHANGED refundVars
  <2>1. PaymentsStay BY <1>0, <1>1, PaymentsGrow
  <2>2. RefundInv' BY <1>0, <1>3, <2>1, RefundsUndisturbed
  <2> QED BY <1>2, <2>2
<1>4. ASSUME NEW c \in Refunder, RefundStep(c), UNCHANGED oneTimeVars PROVE RefundInv'
  <2>1. payments' = payments BY <1>4 DEF oneTimeVars
  <2> QED BY <1>0, <1>4, <2>1, RefundStepKeeps
<1>5. ASSUME NEW r \in RefundKey, RefundDecided(r), UNCHANGED oneTimeVars PROVE RefundInv'
  <2>1. payments' = payments BY <1>5 DEF oneTimeVars
  <2> QED BY <1>0, <1>5, <2>1, RefundDecidedKeeps
<1>6. \/ UNCHANGED refundVars
      \/ \E c \in Refunder : RefundStep(c) /\ UNCHANGED oneTimeVars
      \/ \E r \in RefundKey : RefundDecided(r) /\ UNCHANGED oneTimeVars
  BY DEF Next, vars
<1> QED BY <1>2, <1>3, <1>4, <1>5, <1>6

\* Money is given back only for a payment in the ledger and under a row that
\* was on record before, however requests of one key and of one charge overlap.
THEOREM RefundsLeaveATrace == Spec => []RefundsAreTraceable
<1>1. OperationsInv => RefundsAreTraceable BY DEF OperationsInv, RefundInv
<1> QED BY <1>1, OperationsInit, OperationsStep, PTL DEF Spec

------------------------------------------------------------------------------
(* The money of the refunds *)

LEMMA AskerEffect ==
  ASSUME asking \in [Refunder -> AskState], NEW c \in Refunder, NEW pc \in AskPc
  PROVE  /\ Continue(c, pc) =>
              /\ \A d \in Refunder : d # c => asking'[d] = asking[d]
              /\ asking'[c].pc = pc /\ asking'[c].refund = asking[c].refund
              /\ asking'[c].of = asking[c].of /\ asking'[c].amount = asking[c].amount
         /\ Stop(c) =>
              /\ \A d \in Refunder : d # c => asking'[d] = asking[d]
              /\ asking'[c].pc = "idle"
BY DEF Continue, Stop, Silent, AskState

\* Refunds of a charge that stand are on record, and so finitely many.
LEMMA StandingFinite ==
  ASSUME RefundTypes, RowsMatch, IsFiniteSet(OnRecord), NEW k \in Key
  PROVE  /\ IsFiniteSet(Standing(k)) /\ Standing(k) \in SUBSET RefundKey
         /\ Ints(accepted, Standing(k)) /\ \A r \in Standing(k) : accepted[r] >= 0
         /\ GivenBack(k) = SumFunctionOnSet(accepted, Standing(k)) /\ GivenBack(k) \in Int
<1>1. Standing(k) \in SUBSET OnRecord /\ Standing(k) \in SUBSET RefundKey
  BY OneTimeAssumption DEF Standing, OnRecord, RowsMatch
<1>2. \A r \in RefundKey : accepted[r] \in 0..Price
  BY DEF RefundTypes
<1>3. IsFiniteSet(Standing(k)) BY <1>1, FS_Subset
<1>4. Ints(accepted, Standing(k)) /\ \A r \in Standing(k) : accepted[r] >= 0
  BY <1>1, <1>2, RefundAssumption DEF Ints
<1> QED BY <1>1, <1>3, <1>4, SumIsInt DEF GivenBack

\* A step that changes neither rows nor money, and takes over no row.
LEMMA MoneyUndisturbed ==
  ASSUME MoneyInv, UNCHANGED <<refund, accepted, outcome, refundBook>>,
         \A c \in Refunder : Holds(c)' =>
           /\ Holds(c) /\ asking'[c].refund = asking[c].refund /\ asking'[c].amount = asking[c].amount
           /\ asking'[c].pc \in {"start", "ask"} => asking[c].pc \in {"start", "ask"}
           /\ asking'[c].pc = "book" => asking[c].pc = "book"
  PROVE  MoneyInv'
<1>1. OneAsker' BY DEF MoneyInv, OneAsker
<1>2. HoldersMatch' BY DEF MoneyInv, HoldersMatch
<1>3. RowsMatch' /\ BookMatches' /\ IsFiniteSet(OnRecord)'
  BY DEF MoneyInv, RowsMatch, BookMatches, OnRecord
<1>4. WithinPrice' BY DEF MoneyInv, WithinPrice, GivenBack, Standing
<1> QED BY <1>1, <1>2, <1>3, <1>4 DEF MoneyInv

\* Its own row changes its status; what it is of and how much stays.
StatusChanges(r, status) ==
  /\ refund' \in [RefundKey -> RefundRow]
  /\ refund'[r].status = status /\ refund'[r].of = refund[r].of
  /\ refund'[r].amount = refund[r].amount
  /\ \A q \in RefundKey : q # r => refund'[q] = refund[q]

LEMMA StatusEffect ==
  ASSUME RefundTypes, NEW r \in RefundKey, NEW status \in {"processing", "succeeded", "failed"},
         refund' = [refund EXCEPT ![r].status = status]
  PROVE  StatusChanges(r, status)
<1>1. refund \in [RefundKey -> RefundRow] BY DEF RefundTypes
<1>2. refund' \in [RefundKey -> RefundRow] BY <1>1 DEF RefundRow
<1>3. /\ refund'[r].status = status /\ refund'[r].of = refund[r].of
      /\ refund'[r].amount = refund[r].amount
      /\ \A q \in RefundKey : q # r => refund'[q] = refund[q]
  BY <1>1 DEF RefundRow
<1> QED BY <1>2, <1>3 DEF StatusChanges

LEMMA StatusKeepsSums ==
  ASSUME MoneyInv, NEW r \in RefundKey, NEW status \in {"processing", "succeeded", "failed"},
         StatusChanges(r, status), refund[r].status # "none",
         UNCHANGED <<accepted, outcome>>
  PROVE  IsFiniteSet(OnRecord)' /\ WithinPrice'
<1>1. OnRecord' = OnRecord BY DEF OnRecord, StatusChanges
<1>2. \A q \in RefundKey : refund'[q].of = refund[q].of BY DEF StatusChanges
<1>3. \A k \in Key : Standing(k)' = Standing(k) BY <1>2 DEF Standing
<1>4. WithinPrice' BY <1>3 DEF MoneyInv, WithinPrice, GivenBack
<1> QED BY <1>1, <1>4 DEF MoneyInv

\* What is booked is of rows that have succeeded.
LEMMA BookedRows ==
  ASSUME RefundTypes, BookMatches, NEW i \in DOMAIN refundBook
  PROVE  refundBook[i].refund \in RefundKey /\ refund[refundBook[i].refund].status = "succeeded"
<1>1. refundBook[i] \in RefundEntry
  <2>1. refundBook \in Seq(RefundEntry) BY DEF RefundTypes
  <2> QED BY <2>1
<1>2. refundBook[i].refund \in RefundKey BY <1>1 DEF RefundEntry
<1> QED BY <1>2 DEF BookMatches

LEMMA MoneyStarts ==
  ASSUME OperationsInv, MoneyInv, NEW c \in Refunder, StartProcessing(c) \/ FailRefund(c)
  PROVE  MoneyInv'
<1> DEFINE r == asking[c].refund
           status == IF StartProcessing(c) THEN "processing" ELSE "failed"
<1>1. RefundTypes /\ AskersAreTyped /\ AskersHaveRows
  BY RefundTypesNamed DEF OperationsInv, RefundInv
<1>2. /\ asking[c].pc \in {"start", "fail"} /\ UNCHANGED <<accepted, outcome, refundBook>>
      /\ refund' = [refund EXCEPT ![r].status = status]
      /\ (StartProcessing(c) => asking[c].pc = "start" /\ Continue(c, "ask"))
      /\ (~StartProcessing(c) => Stop(c))
  BY DEF StartProcessing, FailRefund, atGateway
<1>3. r \in RefundKey /\ refund[r].status # "none" /\ status \in {"processing", "failed"}
  BY <1>1, <1>2 DEF AskersAreTyped, AskersHaveRows
<1>4. refund[r].status # "succeeded" /\ Holds(c)
  BY <1>2 DEF MoneyInv, HoldersMatch, Holds
<1>5. /\ \A d \in Refunder : d # c => asking'[d] = asking[d]
      /\ Holds(c)' => /\ asking[c].pc = "start" /\ asking'[c].pc = "ask"
                      /\ asking'[c].refund = r /\ asking'[c].amount = asking[c].amount
  <2>1. CASE StartProcessing(c) BY <1>1, <1>2, <2>1, AskerEffect DEF RefundTypes, AskPc
  <2>2. CASE ~StartProcessing(c)
    BY <1>1, <1>2, <2>2, AskerEffect DEF RefundTypes, AskPc, Holds
  <2> QED BY <2>1, <2>2
<1> HIDE DEF r, status
<1>6. StatusChanges(r, status) BY <1>1, <1>2, <1>3, StatusEffect
<1>7. OneAsker' /\ HoldersMatch'
  <2>1. \A d \in Refunder : Holds(d)' => Holds(d) /\ asking'[d].refund = asking[d].refund
    BY <1>4, <1>5 DEF Holds, r
  <2>2. OneAsker' BY <2>1 DEF MoneyInv, OneAsker
  <2>3. \A d \in Refunder : d # c /\ Holds(d) => asking[d].refund # r /\ asking[d].refund \in RefundKey
    BY <1>1, <1>4 DEF MoneyInv, OneAsker, Holds, AskersAreTyped, r
  <2>4. ASSUME NEW d \in Refunder, Holds(d)'
        PROVE  LET q == asking'[d].refund IN
                 /\ refund'[q].amount = asking'[d].amount /\ refund'[q].status # "succeeded"
                 /\ asking'[d].pc \in {"start", "ask"} => outcome'[q] = "none"
                 /\ asking'[d].pc = "book" => accepted'[q] = asking'[d].amount
    <3>1. CASE d = c
      BY <1>2, <1>3, <1>4, <1>5, <1>6, <2>4, <3>1 DEF MoneyInv, HoldersMatch, StatusChanges, r
    <3>2. CASE d # c
      <4>1. /\ Holds(d) /\ asking'[d] = asking[d] /\ asking[d].refund # r
            /\ asking[d].refund \in RefundKey
        BY <1>5, <2>1, <2>3, <2>4, <3>2
      <4>2. refund'[asking[d].refund] = refund[asking[d].refund]
        BY <1>6, <4>1 DEF StatusChanges
      <4> QED BY <1>2, <4>1, <4>2 DEF MoneyInv, HoldersMatch
    <3> QED BY <3>1, <3>2
  <2>5. HoldersMatch' BY <2>4 DEF HoldersMatch
  <2> QED BY <2>2, <2>5
<1>8. RowsMatch'
  BY <1>2, <1>3, <1>6 DEF MoneyInv, RowsMatch, StatusChanges
<1>9. BookMatches'
  <2>1. \A i \in DOMAIN refundBook : refundBook[i].refund # r /\ refundBook[i].refund \in RefundKey
    BY <1>1, <1>4, BookedRows DEF MoneyInv
  <2> QED BY <1>2, <1>6, <2>1 DEF MoneyInv, BookMatches, StatusChanges
<1>10. IsFiniteSet(OnRecord)' /\ WithinPrice'
  BY <1>2, <1>3, <1>6, StatusKeepsSums
<1> QED BY <1>7, <1>8, <1>9, <1>10 DEF MoneyInv

LEMMA MoneyBooks ==
  ASSUME OperationsInv, MoneyInv, NEW c \in Refunder, BookRefund(c)
  PROVE  MoneyInv'
<1> DEFINE r == asking[c].refund
           e == [refund |-> r, of |-> asking[c].of, amount |-> asking[c].amount]
<1>1. RefundTypes /\ AskersAreTyped /\ AskersHaveRows
  BY RefundTypesNamed DEF OperationsInv, RefundInv
<1>2. /\ asking[c].pc = "book" /\ UNCHANGED <<accepted, outcome>> /\ Stop(c)
      /\ refund' = [refund EXCEPT ![r].status = "succeeded"]
      /\ refundBook' = Append(refundBook, e)
  BY DEF BookRefund, atGateway
<1>3. r \in RefundKey /\ refund[r].status # "none" /\ asking[c].of \in Key /\ asking[c].amount \in 1..Price
  BY <1>1, <1>2 DEF AskersAreTyped, AskersHaveRows
<1>4. /\ Holds(c) /\ refund[r].status # "succeeded" /\ refund[r].amount = asking[c].amount
      /\ accepted[r] = asking[c].amount
  BY <1>2 DEF MoneyInv, HoldersMatch, Holds
<1>5. (\A d \in Refunder : d # c => asking'[d] = asking[d]) /\ asking'[c].pc = "idle"
  BY <1>1, <1>2, AskerEffect DEF RefundTypes, AskPc
<1>6. e \in RefundEntry /\ e.refund = r /\ e.amount = asking[c].amount BY <1>3 DEF RefundEntry
<1>7. StatusChanges(r, "succeeded") BY <1>1, <1>2, <1>3, StatusEffect
<1> HIDE DEF r, e
<1>8. \A d \in Refunder : Holds(d)' => /\ d # c /\ Holds(d) /\ asking'[d] = asking[d]
                                       /\ asking[d].refund # r /\ asking[d].refund \in RefundKey
  BY <1>1, <1>4, <1>5 DEF MoneyInv, OneAsker, Holds, AskersAreTyped, r
<1>9. OneAsker' BY <1>8 DEF MoneyInv, OneAsker
<1>10. HoldersMatch'
  BY <1>2, <1>7, <1>8 DEF MoneyInv, HoldersMatch, StatusChanges
<1>11. RowsMatch' BY <1>2, <1>4, <1>7 DEF MoneyInv, RowsMatch, StatusChanges
<1>12. BookMatches'
  <2> DEFINE n == Len(refundBook)
  <2>1. /\ n \in Nat /\ DOMAIN refundBook = 1..n /\ DOMAIN refundBook' = 1..(n + 1)
        /\ refundBook'[n + 1] = e /\ \A i \in 1..n : refundBook'[i] = refundBook[i]
    BY <1>1, <1>2, <1>6 DEF RefundTypes
  <2> HIDE DEF n
  <2>2. \A i \in 1..n : refundBook[i].refund # r /\ refundBook[i].refund \in RefundKey
    BY <1>1, <1>4, <2>1, BookedRows DEF MoneyInv
  <2>3. \A i \in 1..(n + 1) : i \in 1..n \/ i = n + 1 BY <2>1
  <2>4. \A i \in 1..n : refund'[refundBook'[i].refund].status = "succeeded"
                         /\ refundBook'[i].amount = accepted'[refundBook'[i].refund]
    BY <1>2, <1>7, <2>1, <2>2 DEF MoneyInv, BookMatches, StatusChanges
  <2>5. refund'[e.refund].status = "succeeded" /\ e.amount = accepted'[e.refund]
    BY <1>2, <1>4, <1>6, <1>7 DEF StatusChanges
  <2>6. \A i, j \in 1..(n + 1) : refundBook'[i].refund = refundBook'[j].refund => i = j
    BY <1>6, <2>1, <2>2, <2>3 DEF MoneyInv, BookMatches
  <2> QED BY <2>1, <2>3, <2>4, <2>5, <2>6 DEF BookMatches
<1>13. IsFiniteSet(OnRecord)' /\ WithinPrice'
  BY <1>2, <1>3, <1>7, StatusKeepsSums
<1> QED BY <1>9, <1>10, <1>11, <1>12, <1>13 DEF MoneyInv

LEMMA MoneyInserted ==
  ASSUME OperationsInv, MoneyInv, NEW c \in Refunder, InsertRefund(c), ~ KeyTaken(asking[c].refund)
  PROVE  MoneyInv'
<1> DEFINE r == asking[c].refund
           row == [status |-> "pending", of |-> asking[c].of, amount |-> asking[c].amount]
<1>1. RefundTypes /\ AskersAreTyped /\ AskersHaveRows /\ RefundsAreTraceable
  BY RefundTypesNamed DEF OperationsInv, RefundInv
<1>2. /\ asking[c].pc = "insert" /\ UNCHANGED <<accepted, outcome, refundBook>>
      /\ refund' = [refund EXCEPT ![r] = row] /\ Continue(c, "start")
  BY DEF InsertRefund, atGateway
<1>3. r \in RefundKey /\ asking[c].of \in Key /\ asking[c].amount \in 1..Price
  BY <1>1, <1>2 DEF AskersAreTyped
<1>4. refund[r].status = "none" /\ refund[r].of = NoKey /\ outcome[r] = "none"
  BY <1>3 DEF KeyTaken, MoneyInv, RowsMatch
<1>6. /\ \A d \in Refunder : d # c => asking'[d] = asking[d]
      /\ asking'[c].pc = "start" /\ asking'[c].refund = r /\ asking'[c].amount = asking[c].amount
  BY <1>1, <1>2, AskerEffect DEF RefundTypes, AskPc
<1>7. row.status = "pending" /\ row.of = asking[c].of /\ row.amount = asking[c].amount
  OBVIOUS
<1> HIDE DEF r, row
<1>8. refund'[r] = row /\ \A q \in RefundKey : q # r => refund'[q] = refund[q]
  BY <1>1, <1>2, <1>3 DEF RefundTypes
<1>9. \A d \in Refunder : d # c /\ Holds(d)' =>
        /\ Holds(d) /\ asking'[d] = asking[d]
        /\ asking[d].refund # r /\ asking[d].refund \in RefundKey
  BY <1>1, <1>4, <1>6 DEF AskersHaveRows, AskersAreTyped, Holds
<1>10. OneAsker' BY <1>6, <1>9 DEF MoneyInv, OneAsker
<1>11. HoldersMatch'
  <2>1. ASSUME NEW d \in Refunder, Holds(d)'
        PROVE  LET q == asking'[d].refund IN
                 /\ refund'[q].amount = asking'[d].amount /\ refund'[q].status # "succeeded"
                 /\ asking'[d].pc \in {"start", "ask"} => outcome'[q] = "none"
                 /\ asking'[d].pc = "book" => accepted'[q] = asking'[d].amount
    <3>1. CASE d = c BY <1>2, <1>4, <1>6, <1>7, <1>8, <3>1
    <3>2. CASE d # c
      <4>1. /\ Holds(d) /\ asking'[d] = asking[d]
            /\ refund'[asking[d].refund] = refund[asking[d].refund]
        BY <1>8, <1>9, <2>1, <3>2
      <4> QED BY <1>2, <4>1 DEF MoneyInv, HoldersMatch
    <3> QED BY <3>1, <3>2
  <2> QED BY <2>1 DEF HoldersMatch
<1>12. RowsMatch' BY <1>2, <1>7, <1>8 DEF MoneyInv, RowsMatch
<1>13. BookMatches'
  <2>1. \A i \in DOMAIN refundBook : refundBook[i].refund # r /\ refundBook[i].refund \in RefundKey
    BY <1>1, <1>4, BookedRows DEF MoneyInv
  <2> QED BY <1>2, <1>8, <2>1 DEF MoneyInv, BookMatches
<1>14. IsFiniteSet(OnRecord)'
  <2>1. OnRecord' = OnRecord \cup {r} BY <1>3, <1>7, <1>8 DEF OnRecord
  <2> QED BY <2>1, FS_AddElement DEF MoneyInv
<1>15. WithinPrice'
  <2>1. \A k \in Key : Standing(k)' = Standing(k) BY <1>2, <1>4, <1>8 DEF Standing
  <2> QED BY <1>2, <2>1 DEF MoneyInv, WithinPrice, GivenBack
<1> QED BY <1>10, <1>11, <1>12, <1>13, <1>14, <1>15 DEF MoneyInv

\* The gateway accepts what leaves the charge within its price.
LEMMA MoneyAsked ==
  ASSUME OperationsInv, MoneyInv, NEW c \in Refunder, AskRefund(c), ~ Refused(c)
  PROVE  MoneyInv'
<1> DEFINE r == asking[c].refund
           k == asking[c].of
           amount == asking[c].amount
<1>1. RefundTypes /\ AskersAreTyped /\ AskersHaveRows
  BY RefundTypesNamed DEF OperationsInv, RefundInv
<1>2. /\ asking[c].pc = "ask" /\ UNCHANGED <<refund, refundBook>>
      /\ r \in RefundKey /\ k \in Key /\ amount \in 1..Price /\ refund[r].of = k
  BY <1>1 DEF AskRefund, AskersAreTyped, AskersHaveRows
<1>3. outcome[r] = "none" /\ refund[r].amount = amount /\ refund[r].status # "succeeded" /\ Holds(c)
  BY <1>2 DEF MoneyInv, HoldersMatch, Holds
<1>4. /\ ~ (GivenBack(k) + amount > Price) /\ accepted' = [accepted EXCEPT ![r] = amount]
      /\ Continue(c, "book") \/ Continue(c, "fail")
  BY DEF AskRefund, Refused, Accept
<1>a. PICK status \in {"pending", "succeeded", "failed"} : outcome' = [outcome EXCEPT ![r] = status]
  BY DEF AskRefund, Accept
<1>5. /\ \A d \in Refunder : d # c => asking'[d] = asking[d]
      /\ asking'[c].pc \in {"book", "fail"} /\ asking'[c].refund = r /\ asking'[c].amount = amount
  BY <1>1, <1>4, AskerEffect DEF RefundTypes, AskPc
<1> HIDE DEF r, k, amount
<1>6. /\ accepted' \in [RefundKey -> 0..Price]
      /\ accepted'[r] = amount /\ \A q \in RefundKey : q # r => accepted'[q] = accepted[q]
  BY <1>1, <1>2, <1>4, RefundAssumption DEF RefundTypes
<1>b. outcome'[r] = status /\ \A q \in RefundKey : q # r => outcome'[q] = outcome[q]
  BY <1>1, <1>2, <1>a DEF RefundTypes
<1>7. \A d \in Refunder : d # c /\ Holds(d)' =>
        /\ Holds(d) /\ asking'[d] = asking[d]
        /\ asking[d].refund # r /\ asking[d].refund \in RefundKey
  BY <1>1, <1>3, <1>5 DEF MoneyInv, OneAsker, AskersAreTyped, Holds, r
<1>8. OneAsker' BY <1>5, <1>7 DEF MoneyInv, OneAsker
<1>9. HoldersMatch'
  <2>1. ASSUME NEW d \in Refunder, Holds(d)'
        PROVE  LET q == asking'[d].refund IN
                 /\ refund'[q].amount = asking'[d].amount /\ refund'[q].status # "succeeded"
                 /\ asking'[d].pc \in {"start", "ask"} => outcome'[q] = "none"
                 /\ asking'[d].pc = "book" => accepted'[q] = asking'[d].amount
    <3>1. CASE d = c BY <1>2, <1>3, <1>5, <1>6, <3>1
    <3>2. CASE d # c
      <4>1. /\ Holds(d) /\ asking'[d] = asking[d]
            /\ accepted'[asking[d].refund] = accepted[asking[d].refund]
            /\ outcome'[asking[d].refund] = outcome[asking[d].refund]
        BY <1>6, <1>b, <1>7, <2>1, <3>2
      <4> QED BY <1>2, <4>1 DEF MoneyInv, HoldersMatch
    <3> QED BY <3>1, <3>2
  <2> QED BY <2>1 DEF HoldersMatch
<1>10. RowsMatch'
  <2>1. refund[r].status # "none"
    BY <1>1, <1>2 DEF AskersHaveRows, r
  <2> QED BY <1>2, <1>b, <2>1 DEF MoneyInv, RowsMatch
<1>11. BookMatches'
  <2>1. \A i \in DOMAIN refundBook : refundBook[i].refund # r /\ refundBook[i].refund \in RefundKey
    BY <1>1, <1>3, BookedRows DEF MoneyInv
  <2> QED BY <1>2, <1>6, <2>1 DEF MoneyInv, BookMatches
<1>12. IsFiniteSet(OnRecord)' BY <1>2 DEF MoneyInv, OnRecord
<1>13. WithinPrice'
  <2> SUFFICES ASSUME NEW j \in Key PROVE GivenBack(j)' <= Price
    BY DEF WithinPrice
  <2>1. GivenBack(j) <= Price BY DEF MoneyInv, WithinPrice
  <2>2. /\ IsFiniteSet(Standing(j)) /\ Ints(accepted, Standing(j)) /\ Standing(j) \in SUBSET RefundKey
        /\ GivenBack(j) = SumFunctionOnSet(accepted, Standing(j)) /\ GivenBack(j) \in Int
    BY <1>1, StandingFinite DEF MoneyInv
  <2>3. r \notin Standing(j) BY <1>3 DEF Standing
  <2>4. \A q \in Standing(j) : accepted[q] = accepted'[q] BY <1>6, <2>2, <2>3
  <2>5. /\ SumFunctionOnSet(accepted', Standing(j)) = GivenBack(j)
        /\ GivenBack(j)' = SumFunctionOnSet(accepted', Standing(j)')
    BY <2>2, <2>4, SumOfSame DEF GivenBack
  <2>6. CASE j = k /\ status # "failed"
    <3>1. Standing(j)' = Standing(j) \cup {r}
      BY <1>2, <1>3, <1>b, <2>6 DEF Standing
    <3>2. Ints(accepted', Standing(j) \cup {r}) BY <1>6, <2>2, <1>2, RefundAssumption DEF Ints
    <3>3. SumFunctionOnSet(accepted', Standing(j) \cup {r})
            = accepted'[r] + SumFunctionOnSet(accepted', Standing(j))
      BY <2>2, <2>3, <3>2, SumAdd
    <3>4. ~ (GivenBack(j) + amount > Price) BY <1>4, <2>6
    <3> QED BY <1>2, <1>6, <2>2, <2>5, <3>1, <3>3, <3>4, RefundAssumption
  <2>7. CASE j # k \/ status = "failed"
    <3>1. Standing(j)' = Standing(j) BY <1>2, <1>3, <1>b, <2>7 DEF Standing
    <3> QED BY <2>1, <2>5, <3>1
  <2> QED BY <2>6, <2>7
<1> QED BY <1>8, <1>9, <1>10, <1>11, <1>12, <1>13 DEF MoneyInv

\* A refund that the bank sends back stands no more; nothing else changes.
LEMMA MoneyDecided ==
  ASSUME OperationsInv, MoneyInv, NEW r \in RefundKey, RefundDecided(r)
  PROVE  MoneyInv'
<1>1. RefundTypes BY RefundTypesNamed DEF OperationsInv, RefundInv
<1>2. /\ UNCHANGED <<refund, accepted, refundBook, asking>> /\ outcome[r] \in {"pending", "succeeded"}
      /\ outcome'[r] \in {"succeeded", "failed"}
      /\ \A q \in RefundKey : q # r => outcome'[q] = outcome[q]
  BY <1>1 DEF RefundDecided, RefundTypes
<1>3. \A q \in RefundKey : outcome'[q] = "none" <=> outcome[q] = "none" BY <1>2
<1>4. HoldersMatch'
  <2>1. \A c \in Refunder : Holds(c) => asking[c].refund \in RefundKey
    BY DEF OperationsInv, RefundInv, AskersAreTyped, Holds
  <2> QED BY <1>2, <1>3, <2>1 DEF MoneyInv, HoldersMatch, Holds
<1>5. OneAsker' /\ RowsMatch' /\ BookMatches' /\ IsFiniteSet(OnRecord)'
  BY <1>2, <1>3 DEF MoneyInv, OneAsker, Holds, RowsMatch, BookMatches, OnRecord
<1>6. WithinPrice'
  <2> SUFFICES ASSUME NEW k \in Key PROVE GivenBack(k)' <= Price
    BY DEF WithinPrice
  <2>1. /\ IsFiniteSet(Standing(k)) /\ Ints(accepted, Standing(k))
        /\ \A q \in Standing(k) : accepted[q] >= 0
        /\ GivenBack(k) = SumFunctionOnSet(accepted, Standing(k)) /\ GivenBack(k) \in Int
    BY <1>1, StandingFinite DEF MoneyInv
  <2>2. Standing(k)' \in SUBSET Standing(k) BY <1>2 DEF Standing
  <2>3. SumFunctionOnSet(accepted, Standing(k)') <= SumFunctionOnSet(accepted, Standing(k))
    BY <2>1, <2>2, SumOfPart
  <2>4. GivenBack(k)' = SumFunctionOnSet(accepted, Standing(k)') BY <1>2 DEF GivenBack
  <2>5. SumFunctionOnSet(accepted, Standing(k)') \in Int
    <3>1. IsFiniteSet(Standing(k)') /\ Ints(accepted, Standing(k)')
      BY <2>1, <2>2, FS_Subset DEF Ints
    <3> QED BY <3>1, SumIsInt
  <2>6. GivenBack(k) <= Price BY DEF MoneyInv, WithinPrice
  <2> QED BY <2>1, <2>3, <2>4, <2>5, <2>6, RefundAssumption
<1> QED BY <1>4, <1>5, <1>6 DEF MoneyInv

LEMMA MoneyStep ==
  ASSUME OperationsInv, MoneyInv, NEW c \in Refunder, RefundStep(c)
  PROVE  MoneyInv'
<1>0. asking \in [Refunder -> AskState]
  BY RefundTypesNamed DEF OperationsInv, RefundInv, RefundTypes
\* Steps after which the request holds no more than it held.
<1>a. ASSUME UNCHANGED <<refund, accepted, outcome, refundBook>>, NEW pc \in AskPc, Continue(c, pc) \/ Stop(c),
             pc \in {"insert", "check"} \/ (pc = "fail" /\ asking[c].pc \in {"ask", "book"})
      PROVE  MoneyInv'
  <2>1. \A d \in Refunder : Holds(d)' =>
          /\ Holds(d) /\ asking'[d].refund = asking[d].refund /\ asking'[d].amount = asking[d].amount
          /\ asking'[d].pc \in {"start", "ask"} => asking[d].pc \in {"start", "ask"}
          /\ asking'[d].pc = "book" => asking[d].pc = "book"
    BY <1>0, <1>a, AskerEffect DEF Holds
  <2> QED BY <1>a, <2>1, MoneyUndisturbed
<1>1. ASSUME NEW r \in RefundKey, NEW k \in Key, NEW amount \in 1..Price, BeginRefund(c, r, k, amount)
      PROVE  MoneyInv'
  <2> DEFINE a == [pc |-> "check", refund |-> r, of |-> k, amount |-> amount]
  <2>1. asking' = [asking EXCEPT ![c] = a] /\ UNCHANGED <<refund, accepted, outcome, refundBook>>
    BY <1>1 DEF BeginRefund, atGateway
  <2>2. a.pc = "check" OBVIOUS
  <2> HIDE DEF a
  <2>3. \A d \in Refunder : Holds(d)' => asking'[d] = asking[d]
    BY <1>0, <2>1, <2>2 DEF Holds
  <2>4. \A d \in Refunder : Holds(d)' =>
          /\ Holds(d) /\ asking'[d].refund = asking[d].refund /\ asking'[d].amount = asking[d].amount
          /\ asking'[d].pc \in {"start", "ask"} => asking[d].pc \in {"start", "ask"}
          /\ asking'[d].pc = "book" => asking[d].pc = "book"
    BY <2>3 DEF Holds
  <2> QED BY <2>1, <2>4, MoneyUndisturbed
<1>2. ASSUME CheckAmount(c) PROVE MoneyInv'
  <2>1. Continue(c, "insert") \/ Stop(c) BY <1>2 DEF CheckAmount
  <2>2. UNCHANGED <<refund, accepted, outcome, refundBook>> BY <1>2 DEF CheckAmount, atGateway
  <2> QED BY <1>a, <2>1, <2>2 DEF AskPc
<1>3. ASSUME InsertRefund(c) PROVE MoneyInv'
  <2>1. CASE KeyTaken(asking[c].refund)
    <3>1. UNCHANGED <<refund, accepted, outcome, refundBook>> /\ Stop(c)
      BY <1>3, <2>1 DEF InsertRefund, atGateway
    <3>2. "check" \in AskPc BY DEF AskPc
    <3> QED BY <1>a, <3>1, <3>2
  <2> QED BY <1>3, <2>1, MoneyInserted
<1>4. ASSUME StartProcessing(c) \/ FailRefund(c) PROVE MoneyInv'
  BY <1>4, MoneyStarts
<1>5. ASSUME AskRefund(c) PROVE MoneyInv'
  <2>1. CASE Refused(c)
    <3>1. /\ asking[c].pc = "ask" /\ UNCHANGED <<refund, accepted, outcome, refundBook>>
          /\ Continue(c, "fail")
      BY <1>5, <2>1 DEF AskRefund, atGateway
    <3> QED BY <1>a, <3>1 DEF AskPc
  <2> QED BY <1>5, <2>1, MoneyAsked
<1>6. ASSUME AskThrows(c) \/ BookThrows(c) PROVE MoneyInv'
  <2>1. /\ Continue(c, "fail") /\ UNCHANGED <<refund, accepted, outcome, refundBook>>
        /\ asking[c].pc \in {"ask", "book"}
    BY <1>6 DEF AskThrows, BookThrows, atGateway
  <2> QED BY <1>a, <2>1 DEF AskPc
<1>7. ASSUME RefundCrash(c) PROVE MoneyInv'
  <2>1. UNCHANGED <<refund, accepted, outcome, refundBook>> /\ Stop(c)
    BY <1>7 DEF RefundCrash, atGateway
  <2>2. "check" \in AskPc BY DEF AskPc
  <2> QED BY <1>a, <2>1, <2>2
<1> QED BY <1>1, <1>2, <1>3, <1>4, <1>5, <1>6, <1>7, MoneyBooks DEF RefundStep

LEMMA MoneyInit == Init => MoneyInv
<1> SUFFICES ASSUME Init PROVE MoneyInv OBVIOUS
<1>1. \A c \in Refunder : ~ Holds(c) BY DEF Init, RefundInit, Silent, Holds
<1>2. \A r \in RefundKey : refund[r].status = "none" /\ refund[r].of = NoKey /\ outcome[r] = "none"
  BY DEF Init, RefundInit, NoRow
<1>3. refundBook = <<>> BY DEF Init, RefundInit
<1>4. OneAsker /\ HoldersMatch /\ RowsMatch /\ BookMatches
  BY <1>1, <1>2, <1>3 DEF OneAsker, HoldersMatch, RowsMatch, BookMatches
<1>5. OnRecord = {} BY <1>2 DEF OnRecord
<1>6. WithinPrice
  <2> SUFFICES ASSUME NEW k \in Key PROVE GivenBack(k) <= Price
    BY DEF WithinPrice
  <2>1. Standing(k) = {} BY <1>2 DEF Standing
  <2>2. GivenBack(k) = 0 BY <2>1, SumOfNone DEF GivenBack
  <2> QED BY <2>2, RefundAssumption
<1> QED BY <1>4, <1>5, <1>6, FS_EmptySet DEF MoneyInv

\* The entries of refunds that stand are part of what the gateway accepted of
\* them, and the books hold one entry of a row, of what was accepted under it.
LEMMA MoneyWithin ==
  ASSUME OperationsInv, MoneyInv
  PROVE  RefundsWithinPayment
<1>0. RefundTypes /\ refundBook \in Seq(RefundEntry)
  BY RefundTypesNamed DEF OperationsInv, RefundInv, RefundTypes
<1> DEFINE g == [i \in DOMAIN refundBook |-> refundBook[i].amount]
<1>a. \A i \in DOMAIN refundBook : g[i] = accepted[refundBook[i].refund] /\ g[i] \in Int
  <2>1. \A i \in DOMAIN refundBook : g[i] = accepted[refundBook[i].refund]
    BY DEF MoneyInv, BookMatches
  <2>2. \A i \in DOMAIN refundBook : refundBook[i].refund \in RefundKey
    BY <1>0, BookedRows DEF MoneyInv
  <2>3. \A r \in RefundKey : accepted[r] \in Int BY <1>0, RefundAssumption DEF RefundTypes
  <2> HIDE DEF g
  <2> QED BY <2>1, <2>2, <2>3
<1>b. IsFiniteSet(DOMAIN refundBook)
  <2>1. DOMAIN refundBook = 1..Len(refundBook) /\ Len(refundBook) \in Nat BY <1>0
  <2> QED BY <2>1, FS_Interval
<1>1. ASSUME NEW k \in Key
      PROVE  BookedCents({i \in DOMAIN refundBook : refundBook[i].refund \in Standing(k)}) <= Price
  <2> DEFINE I == {i \in DOMAIN refundBook : refundBook[i].refund \in Standing(k)}
             f == [i \in I |-> refundBook[i].refund]
             T == {refundBook[i].refund : i \in I}
  <2>1. /\ IsFiniteSet(Standing(k)) /\ Ints(accepted, Standing(k))
        /\ \A r \in Standing(k) : accepted[r] >= 0
        /\ GivenBack(k) = SumFunctionOnSet(accepted, Standing(k)) /\ GivenBack(k) \in Int
    BY <1>0, StandingFinite DEF MoneyInv
  <2>2. T \in SUBSET Standing(k) OBVIOUS
  <2>3. f \in Bijection(I, T)
    <3>1. \A i, j \in I : refundBook[i].refund = refundBook[j].refund => i = j
      BY DEF MoneyInv, BookMatches
    <3> QED BY <3>1 DEF Bijection, Injection, Surjection, IsInjective
  <2>4. I \in SUBSET DOMAIN refundBook OBVIOUS
  <2>5. \A i \in I : accepted[f[i]] = g[i] BY <1>a, <2>4
  <2>6. BookedCents(I) = SumFunctionOnSet(g, I) BY DEF BookedCents
  <2> HIDE DEF I, f, T, g
  <2>7. IsFiniteSet(I) /\ Ints(g, I) BY <1>a, <1>b, <2>4, FS_Subset DEF Ints
  <2>8. SumFunctionOnSet(accepted, T) = SumFunctionOnSet(g, I)
    BY <2>3, <2>5, <2>7, SumOfImage
  <2>9. SumFunctionOnSet(accepted, T) <= GivenBack(k) BY <2>1, <2>2, SumOfPart
  <2>10. SumFunctionOnSet(g, I) \in Int BY <2>7, SumIsInt
  <2>11. GivenBack(k) <= Price BY DEF MoneyInv, WithinPrice
  <2>12. BookedCents(I) <= Price
    BY <2>1, <2>6, <2>8, <2>9, <2>10, <2>11, RefundAssumption
  <2> QED BY <2>12 DEF I
<1>2. ASSUME NEW r \in RefundKey
      PROVE  BookedCents({i \in DOMAIN refundBook : refundBook[i].refund = r}) <= accepted[r]
  <2> DEFINE S == {i \in DOMAIN refundBook : refundBook[i].refund = r}
  <2>1. accepted[r] \in 0..Price BY <1>0 DEF RefundTypes
  <2>a. BookedCents(S) = SumFunctionOnSet(g, S) BY DEF BookedCents
  <2>2. CASE S = {}
    <3> HIDE DEF g, S
    <3>1. SumFunctionOnSet(g, S) = 0 BY <2>2, SumOfNone
    <3>2. BookedCents(S) <= accepted[r] BY <2>1, <2>a, <3>1, RefundAssumption
    <3> QED BY <3>2 DEF S
  <2>3. CASE S # {}
    <3>1. PICK i \in DOMAIN refundBook : refundBook[i].refund = r BY <2>3
    <3>2. S = {i} BY <3>1 DEF MoneyInv, BookMatches
    <3>3. g[i] = accepted[r] BY <3>1, <1>a
    <3> HIDE DEF g, S
    <3>4. g[i] \in Int BY <2>1, <3>3, RefundAssumption
    <3>5. SumFunctionOnSet(g, {i}) = g[i] BY <3>4, SumOfOne
    <3>6. BookedCents(S) <= accepted[r]
      BY <2>1, <2>a, <3>2, <3>3, <3>5, RefundAssumption
    <3> QED BY <3>6 DEF S
  <2> QED BY <2>2, <2>3
<1> QED BY <1>1, <1>2 DEF RefundsWithinPayment

\* However many refunds of a charge overlap, each within the price when it
\* looked, what is booked of those the gateway has not failed never exceeds the
\* payment, and every key is booked once, for no more than it accepted under it.
THEOREM RefundsStayWithin == Spec => []RefundsWithinPayment
<1>1. OperationsInv /\ MoneyInv => RefundsWithinPayment BY MoneyWithin
<1>2. OperationsInv /\ MoneyInv /\ [Next]_vars => MoneyInv'
  <2> SUFFICES ASSUME OperationsInv, MoneyInv, [Next]_vars PROVE MoneyInv' OBVIOUS
  <2>1. CASE UNCHANGED refundVars
    <3>1. UNCHANGED <<refund, accepted, outcome, refundBook, asking>> BY <2>1 DEF refundVars
    <3> QED BY <3>1, MoneyUndisturbed DEF Holds
  <2> QED BY <2>1, MoneyStep, MoneyDecided DEF Next, vars
<1> QED BY <1>1, <1>2, OperationsInit, OperationsStep, MoneyInit, PTL DEF Spec

------------------------------------------------------------------------------
(* The days of intents and payments *)

\* A caller about to ask was about to ask, or has just written the first row.
AskersEnter ==
  \A c \in Caller : call'[c].pc = "ask" =>
    /\ call'[c].key = call[c].key /\ call[c].key \in Key
    /\ call[c].pc = "ask" \/ charge[call[c].key].status = "none"

\* The intents stay, or one that was undecided is decided today.
IntentsStay ==
  intent' = intent
  \/ \E k \in Key :
       /\ \A j \in Key : j # k => intent'[j] = intent[j]
       /\ intent'[k].phase = intent[k].phase /\ intent'[k].day = intent[k].day
OneDecided ==
  \E k \in Key :
    /\ \A j \in Key : j # k => intent'[j] = intent[j]
    /\ charge[k].status # "none" /\ intent'[k].day = today
    /\ \/ intent[k].phase = "processing"
       \/ /\ intent[k].phase = "none"
          /\ \E c \in Caller : call[c].pc = "ask" /\ call[c].key = k /\ call'[c].pc # "ask"

\* Rows stay, and payments are appended to the ledger today.
RowsStay == \A k \in Key : charge'[k].status = "none" => charge[k].status = "none"
PaidToday ==
  \A p \in DOMAIN payments' : \/ p \in DOMAIN payments
                              \/ payments'[p].day = today
TimeGoesOn == today' \in Int /\ today <= today'

LEMMA BookedToday ==
  ASSUME OneTimeInv, NEW k \in Key, charge[k].status # "none", Book(k)
  PROVE  RowsStay /\ PaidToday
<1>1. OneTimeTypes /\ RowsNameBills BY TypesNamed DEF OneTimeInv, CallInv, RowInv
<1>2. /\ DOMAIN payments' = 1..(Len(payments) + 1) /\ DOMAIN payments = 1..Len(payments)
      /\ payments'[Len(payments) + 1] = [key |-> k, day |-> today]
  BY <1>1, BookType
<1>3. payments \in Seq(Payment) /\ charge \in [Key -> Row] BY <1>1 DEF OneTimeTypes
<1>4. \A p \in 1..(Len(payments) + 1) : p \in 1..Len(payments) \/ p = Len(payments) + 1
  BY <1>3
<1>5. PaidToday BY <1>2, <1>4 DEF PaidToday
<1>6. RowsStay BY <1>3 DEF RowsStay, Book, Row
<1> QED BY <1>5, <1>6

LEMMA DaysOf ==
  ASSUME OneTimeInv, IntentInv, OneTimeNext
  PROVE  RowsStay /\ PaidToday /\ TimeGoesOn /\ AskersEnter /\ (IntentsStay \/ OneDecided)
<1>0. /\ OneTimeTypes /\ CallersHaveKeys /\ OwnInv
      /\ call \in [Caller -> CallState] /\ charge \in [Key -> Row] /\ intent \in [Key -> IntentState]
      /\ today \in 0..LastDay
  BY TypesNamed DEF OneTimeInv, CallInv, OneTimeTypes
<1>a. today \in Int /\ today + 1 \in Int /\ today <= today + 1 BY <1>0
<1>1. ASSUME NEW c \in Caller, NEW k \in Key, BeginCharge(c, k)
      PROVE  RowsStay /\ PaidToday /\ TimeGoesOn /\ AskersEnter /\ IntentsStay
  <2>1. call'[c].pc = "invoice" BY <1>0, <1>1, IdleIsState DEF BeginCharge, CallState
  <2>2. \A d \in Caller : d # c => call'[d] = call[d] BY <1>0, <1>1 DEF BeginCharge
  <2>3. AskersEnter BY <1>0, <2>1, <2>2 DEF AskersEnter, CallersHaveKeys
  <2> QED BY <1>a, <1>1, <2>3 DEF BeginCharge, RowsStay, PaidToday, TimeGoesOn, IntentsStay
<1>2. ASSUME NEW c \in Caller, CreateInvoice(c) \/ Announce(c) \/ Throws(c) \/ CallCrash(c)
      PROVE  RowsStay /\ PaidToday /\ TimeGoesOn /\ AskersEnter /\ IntentsStay
  <2>1. UNCHANGED <<charge, intent, payments, today>>
    BY <1>2 DEF CreateInvoice, Announce, Throws, CallCrash
  <2>2. call'[c].pc # "ask"
    BY <1>0, <1>2 DEF CreateInvoice, Announce, Throws, CallCrash, Idle, CallState
  <2>3. \A d \in Caller : d # c => call'[d] = call[d]
    BY <1>0, <1>2 DEF CreateInvoice, Announce, Throws, CallCrash
  <2>4. AskersEnter BY <1>0, <2>2, <2>3 DEF AskersEnter, CallersHaveKeys
  <2> QED BY <1>a, <2>1, <2>4 DEF RowsStay, PaidToday, TimeGoesOn, IntentsStay
<1>3. ASSUME NEW c \in Caller, InsertCharge(c)
      PROVE  RowsStay /\ PaidToday /\ TimeGoesOn /\ AskersEnter /\ IntentsStay
  <2>1. UNCHANGED <<intent, payments, today>> BY <1>3 DEF InsertCharge
  <2>2. call[c].key \in Key BY <1>0, <1>3 DEF InsertCharge, CallersHaveKeys
  <2>3. CASE ReturnFirst(c)
    <3>1. call'[c].pc # "ask" /\ \A d \in Caller : d # c => call'[d] = call[d]
      BY <1>0, <2>3 DEF ReturnFirst, Idle
    <3>2. AskersEnter BY <1>0, <3>1 DEF AskersEnter, CallersHaveKeys
    <3> QED BY <1>a, <2>1, <2>3, <3>2 DEF ReturnFirst, RowsStay, PaidToday, TimeGoesOn, IntentsStay
  <2>4. CASE InsertPending(c)
    <3>1. call'[c].key = call[c].key /\ charge[call[c].key].status = "none"
      BY <1>0, <2>4 DEF InsertPending, CallState
    <3>2. \A d \in Caller : d # c => call'[d] = call[d] BY <1>0, <2>4 DEF InsertPending
    <3>3. AskersEnter BY <1>0, <2>2, <3>1, <3>2 DEF AskersEnter, CallersHaveKeys
    <3>4. \A j \in Key : j # call[c].key => charge'[j] = charge[j]
      BY <1>0, <2>4 DEF InsertPending
    <3>5. RowsStay BY <3>1, <3>4 DEF RowsStay
    <3> QED BY <1>a, <2>1, <3>3, <3>5 DEF PaidToday, TimeGoesOn, IntentsStay
  <2> QED BY <1>3, <2>3, <2>4 DEF InsertCharge
<1>4. ASSUME NEW c \in Caller, Ask(c)
      PROVE  RowsStay /\ PaidToday /\ TimeGoesOn /\ AskersEnter /\ OneDecided
  <2>1. /\ call[c].pc = "ask" /\ UNCHANGED <<charge, payments, today>>
        /\ \E phase \in {"captured", "processing", "declined"} :
             intent' = [intent EXCEPT ![call[c].key] = Intent(phase)]
    BY <1>4 DEF Ask
  <2>2. call[c].key \in Key /\ charge[call[c].key].status # "none" /\ intent[call[c].key].phase = "none"
    BY <1>0, <2>1 DEF CallersHaveKeys, OwnInv, OwnersHaveRows, Owns, IntentInv, AskersAreFirst
  <2>3. call'[c].pc # "ask" /\ \A d \in Caller : d # c => call'[d] = call[d]
    BY <1>0, <1>4 DEF Ask, CallState
  <2>4. AskersEnter BY <1>0, <2>3 DEF AskersEnter, CallersHaveKeys
  <2>5. intent'[call[c].key].day = today /\ \A j \in Key : j # call[c].key => intent'[j] = intent[j]
    BY <1>0, <2>1, <2>2 DEF Intent
  <2>6. OneDecided BY <2>1, <2>2, <2>3, <2>5 DEF OneDecided
  <2> QED BY <1>a, <2>1, <2>4, <2>6 DEF RowsStay, PaidToday, TimeGoesOn
<1>5. ASSUME NEW c \in Caller, TakeAnswer(c)
      PROVE  RowsStay /\ PaidToday /\ TimeGoesOn /\ AskersEnter /\ IntentsStay
  <2>1. call[c].key \in Key /\ charge[call[c].key].status # "none"
    BY <1>0, <1>5 DEF TakeAnswer, CallersHaveKeys, OwnInv, OwnersHaveRows, Owns
  <2>2. call'[c].pc # "ask" /\ \A d \in Caller : d # c => call'[d] = call[d]
    BY <1>0, <1>5 DEF TakeAnswer, Settle, StoreIntent, Idle, CallState
  <2>3. AskersEnter BY <1>0, <2>2 DEF AskersEnter, CallersHaveKeys
  <2>4. RowsStay /\ PaidToday
    <3>1. CASE Settle(c) BY <2>1, <3>1, BookedToday DEF Settle
    <3>2. CASE StoreIntent(c)
      <4>1. \A j \in Key : j # call[c].key => charge'[j] = charge[j]
        BY <1>0, <3>2 DEF StoreIntent
      <4>2. charge'[call[c].key].status \in {"failed", charge[call[c].key].status}
        BY <1>0, <2>1, <3>2 DEF StoreIntent, Row
      <4>3. RowsStay BY <2>1, <4>1, <4>2 DEF RowsStay
      <4> QED BY <3>2, <4>3 DEF StoreIntent, PaidToday
    <3> QED BY <1>5, <3>1, <3>2 DEF TakeAnswer
  <2> QED BY <1>a, <1>5, <2>3, <2>4 DEF TakeAnswer, TimeGoesOn, IntentsStay
<1>6. ASSUME NEW c \in Caller, MarkFailed(c)
      PROVE  RowsStay /\ PaidToday /\ TimeGoesOn /\ AskersEnter /\ IntentsStay
  <2>1. call[c].key \in Key /\ charge[call[c].key].status # "none"
    BY <1>0, <1>6 DEF MarkFailed, CallersHaveKeys, OwnInv, OwnersHaveRows, Owns
  <2>2. call'[c].pc # "ask" /\ \A d \in Caller : d # c => call'[d] = call[d]
    BY <1>0, <1>6 DEF MarkFailed, Idle
  <2>3. AskersEnter BY <1>0, <2>2 DEF AskersEnter, CallersHaveKeys
  <2>4. \A j \in Key : j # call[c].key => charge'[j] = charge[j]
    BY <1>0, <1>6 DEF MarkFailed
  <2>a. charge'[call[c].key].status = "failed" BY <1>0, <1>6, <2>1 DEF MarkFailed, Row
  <2>5. RowsStay BY <2>4, <2>a DEF RowsStay
  <2> QED BY <1>a, <1>6, <2>3, <2>5 DEF MarkFailed, PaidToday, TimeGoesOn, IntentsStay
<1>b. ASSUME call' = call PROVE AskersEnter BY <1>0, <1>b DEF AskersEnter, CallersHaveKeys
<1>7. ASSUME NEW k \in Key, GatewayDecides(k)
      PROVE  RowsStay /\ PaidToday /\ TimeGoesOn /\ AskersEnter /\ OneDecided
  <2>1. /\ intent[k].phase = "processing" /\ UNCHANGED <<charge, payments, call, today>>
        /\ \E phase \in {"captured", "declined"} : intent' = [intent EXCEPT ![k] = Intent(phase)]
    BY <1>7 DEF GatewayDecides
  <2>2. intent'[k].day = today /\ \A j \in Key : j # k => intent'[j] = intent[j]
    BY <1>0, <2>1 DEF Intent
  <2>3. charge[k].status # "none" BY <2>1 DEF IntentInv, FreshIntents
  <2>4. OneDecided BY <2>1, <2>2, <2>3 DEF OneDecided
  <2> QED BY <1>a, <1>b, <2>1, <2>4 DEF RowsStay, PaidToday, TimeGoesOn
<1>8. ASSUME NEW k \in Key, Webhook(k)
      PROVE  RowsStay /\ PaidToday /\ TimeGoesOn /\ AskersEnter /\ IntentsStay
  <2>1. UNCHANGED <<call, today>> BY <1>8 DEF Webhook
  <2>2. IntentsStay
    <3>1. PICK notice \in {"due", "consumed"} : intent' = [intent EXCEPT ![k].notice = notice]
      BY <1>8 DEF Webhook
    <3>2. /\ \A j \in Key : j # k => intent'[j] = intent[j]
          /\ intent'[k].phase = intent[k].phase /\ intent'[k].day = intent[k].day
      BY <1>0, <3>1 DEF IntentState
    <3> QED BY <3>2 DEF IntentsStay
  <2>3. CASE charge[k].known /\ Book(k)
    BY <1>0, <1>a, <1>b, <2>1, <2>2, <2>3, KnownCharge, BookedToday DEF TimeGoesOn
  <2>4. CASE UNCHANGED <<bills, charge, payments>>
    BY <1>a, <1>b, <2>1, <2>2, <2>4 DEF RowsStay, PaidToday, TimeGoesOn
  <2>5. CASE PaymentFailed(k)
    <3>1. \A j \in Key : j # k => charge'[j] = charge[j]
      BY <1>0, <2>5 DEF PaymentFailed
    <3>2. charge'[k].status = charge[k].status \/ charge'[k].status = "failed"
      BY <1>0, <2>5 DEF PaymentFailed
    <3>3. RowsStay BY <3>1, <3>2 DEF RowsStay
    <3> QED BY <1>a, <1>b, <2>1, <2>2, <2>5, <3>3 DEF PaymentFailed, PaidToday, TimeGoesOn
  <2> QED BY <1>8, <2>3, <2>4, <2>5 DEF Webhook, PaymentSucceeded
<1>9. ASSUME NextDay
      PROVE  RowsStay /\ PaidToday /\ TimeGoesOn /\ AskersEnter /\ IntentsStay
  BY <1>a, <1>b, <1>9 DEF NextDay, RowsStay, PaidToday, TimeGoesOn, IntentsStay
<1> QED BY <1>1, <1>2, <1>3, <1>4, <1>5, <1>6, <1>7, <1>8, <1>9 DEF OneTimeNext

LEMMA IntentStep ==
  ASSUME OneTimeInv, IntentInv, OneTimeNext
  PROVE  IntentInv'
<1>1. /\ RowsStay /\ AskersEnter /\ (IntentsStay \/ OneDecided)
      /\ OneOwner /\ AskersAreFirst /\ FreshIntents /\ IsFiniteSet(Asked)
  BY DaysOf DEF OneTimeInv, OwnInv, IntentInv
<1>2. CASE \A k \in Key : intent'[k].phase = intent[k].phase
  <2>1. AskersAreFirst' BY <1>1, <1>2 DEF AskersAreFirst, FreshIntents, AskersEnter
  <2>2. FreshIntents' BY <1>1, <1>2 DEF FreshIntents, RowsStay
  <2>3. Asked' = Asked BY <1>2 DEF Asked
  <2> QED BY <1>1, <2>1, <2>2, <2>3 DEF IntentInv
<1>3. CASE OneDecided
  <2>1. PICK k \in Key :
          /\ \A j \in Key : j # k => intent'[j] = intent[j]
          /\ charge[k].status # "none"
          /\ \/ intent[k].phase = "processing"
             \/ /\ intent[k].phase = "none"
                /\ \E c \in Caller : call[c].pc = "ask" /\ call[c].key = k /\ call'[c].pc # "ask"
    BY <1>3 DEF OneDecided
  <2>2. AskersAreFirst'
    <3> SUFFICES ASSUME NEW c \in Caller, call'[c].pc = "ask" PROVE intent'[call'[c].key].phase = "none"
      BY DEF AskersAreFirst
    <3>1. /\ call'[c].key = call[c].key /\ call[c].key \in Key
          /\ call[c].pc = "ask" \/ charge[call[c].key].status = "none"
      BY <1>1 DEF AskersEnter
    <3>2. intent[call[c].key].phase = "none" BY <1>1, <3>1 DEF AskersAreFirst, FreshIntents
    <3>3. call[c].key # k
      <4> SUFFICES ASSUME call[c].key = k PROVE FALSE OBVIOUS
      <4>1. call[c].pc = "ask" /\ intent[k].phase = "none" BY <2>1, <3>1, <3>2
      <4>2. PICK d \in Caller : call[d].pc = "ask" /\ call[d].key = k /\ call'[d].pc # "ask"
        BY <2>1, <4>1
      <4>3. c = d BY <1>1, <4>1, <4>2 DEF OneOwner, Owns
      <4> QED BY <4>2, <4>3
    <3> QED BY <2>1, <3>1, <3>2, <3>3
  <2>3. FreshIntents' BY <1>1, <2>1 DEF FreshIntents, RowsStay
  <2>4. Asked' \in SUBSET (Asked \cup {k}) BY <2>1 DEF Asked
  <2>5. IsFiniteSet(Asked \cup {k}) BY <1>1, FS_AddElement
  <2>6. IsFiniteSet(Asked') BY <2>4, <2>5, FS_Subset
  <2> QED BY <2>2, <2>3, <2>6 DEF IntentInv
<1>4. CASE IntentsStay BY <1>2, <1>4 DEF IntentsStay
<1> QED BY <1>1, <1>3, <1>4

LEMMA IntentStart == Init => IntentInv
<1> SUFFICES ASSUME Init PROVE IntentInv OBVIOUS
<1>1. \A k \in Key : intent[k].phase = "none" BY DEF Init, OneTimeInit, NoIntent
<1>2. \A c \in Caller : call[c].pc # "ask" BY DEF Init, OneTimeInit, Idle
<1>3. Asked = {} BY <1>1 DEF Asked
<1> QED BY <1>1, <1>2, <1>3, FS_EmptySet DEF IntentInv, AskersAreFirst, FreshIntents

\* What was captured and booked on a day that is over stays as it is.
DaysStay ==
  /\ TimeGoesOn
  /\ \A day \in Int : day < today =>
       /\ {k \in Key : intent'[k].phase = "captured" /\ intent'[k].day = day} = Captured(day)
       /\ {k \in Key : \E p \in DOMAIN payments' : payments'[p] = [key |-> k, day |-> day]} = Booked(day)

LEMMA DaysAreOver ==
  ASSUME OneTimeInv, IntentInv, OneTimeNext
  PROVE  DaysStay
<1>1. PaidToday /\ TimeGoesOn /\ (IntentsStay \/ OneDecided) BY DaysOf
<1>2. PaymentsStay BY PaymentsGrow
<1>3. today \in Int BY TypesNamed DEF OneTimeInv, CallInv, OneTimeTypes
<1>4. ASSUME NEW day \in Int, day < today
      PROVE  {k \in Key : intent'[k].phase = "captured" /\ intent'[k].day = day} = Captured(day)
  <2>1. CASE IntentsStay
    <3>1. \A k \in Key : intent'[k].phase = intent[k].phase /\ intent'[k].day = intent[k].day
      BY <2>1 DEF IntentsStay
    <3> QED BY <3>1 DEF Captured
  <2>2. CASE OneDecided
    <3>1. PICK k \in Key : /\ \A j \in Key : j # k => intent'[j] = intent[j]
                           /\ intent'[k].day = today /\ intent[k].phase # "captured"
      BY <2>2 DEF OneDecided
    <3>2. \A j \in Key : /\ intent'[j].phase = "captured" /\ intent'[j].day = day
                         <=> intent[j].phase = "captured" /\ intent[j].day = day
      BY <1>3, <1>4, <3>1
    <3> QED BY <3>2 DEF Captured
  <2> QED BY <1>1, <2>1, <2>2
<1>5. ASSUME NEW day \in Int, day < today
      PROVE  {k \in Key : \E p \in DOMAIN payments' : payments'[p] = [key |-> k, day |-> day]} = Booked(day)
  <2>1. ASSUME NEW k \in Key, NEW p \in DOMAIN payments', payments'[p] = [key |-> k, day |-> day]
        PROVE  \E q \in DOMAIN payments : payments[q] = [key |-> k, day |-> day]
    <3>1. payments'[p].day = day BY <2>1
    <3>2. p \in DOMAIN payments BY <1>1, <1>3, <1>5, <3>1 DEF PaidToday
    <3> QED BY <1>2, <2>1, <3>2 DEF PaymentsStay
  <2>2. ASSUME NEW k \in Key, NEW p \in DOMAIN payments, payments[p] = [key |-> k, day |-> day]
        PROVE  \E q \in DOMAIN payments' : payments'[q] = [key |-> k, day |-> day]
    BY <1>2, <2>2 DEF PaymentsStay
  <2> QED BY <2>1, <2>2 DEF Booked
<1> QED BY <1>1, <1>4, <1>5 DEF DaysStay

------------------------------------------------------------------------------
(* The reports *)

Report == [day: 0..LastDay, over: BOOLEAN, gaps: SUBSET Gap,
           status: {"balanced", "discrepancy_found", "failed"}, internal: Nat, stripe: Nat]
CompareState == [pc: {"idle", "list", "store"}, day: 0..LastDay, over: BOOLEAN,
                 listed: SUBSET BalanceTransaction]
ReportTypes == reports \in Seq(Report) /\ compare \in [Reconciler -> CompareState]

LEMMA ReportTypesNamed == ReconciliationTypeOK <=> ReportTypes
BY DEF ReconciliationTypeOK, ReportTypes, Report, CompareState

\* What a report says of its day.
TrueReport(r, captured, booked) ==
  r.over /\ r.status # "failed" =>
    /\ Of(r, "missing_stripe") = {IntentId(k) : k \in booked}
    /\ Of(r, "missing_internal") = {SourceId(k) : k \in captured \cap Card}
    /\ r.internal = Price * Cardinality(Of(r, "missing_stripe"))
    /\ r.stripe = Price * Cardinality(Of(r, "missing_internal"))

LEMMA ReportsNamed ==
  ReportsStayTrue <=>
    \A i \in DOMAIN reports :
      TrueReport(reports[i], Captured(reports[i].day), Booked(reports[i].day))
BY DEF ReportsStayTrue, TrueReport, Captured, Booked

ListedFinite == \A h \in Reconciler : IsFiniteSet(compare[h].listed)

ReportInv == ReportTypes /\ ListedFinite /\ OverWhenRead /\ ReportsAreOver /\ ReportsStayTrue

\* The two sides of the comparison, and the gaps between them: no name of an
\* intent is the name of a source.
LEMMA GapsSay ==
  ASSUME NEW internal \in SUBSET ({"pi"} \X Key), NEW stripe \in SUBSET Source
  PROVE  /\ Gaps(internal, stripe) \in SUBSET Gap
         /\ {g.id : g \in {g \in Gaps(internal, stripe) : g.type = "missing_stripe"}} = internal
         /\ {g.id : g \in {g \in Gaps(internal, stripe) : g.type = "missing_internal"}} = stripe
<1> DEFINE G == Gaps(internal, stripe)
           S(x) == [type |-> "missing_stripe", id |-> x]
           I(x) == [type |-> "missing_internal", id |-> x]
<1>0. internal \ stripe = internal /\ stripe \ internal = stripe
  <2>1. \A x \in internal : x[1] = "pi" OBVIOUS
  <2>2. \A x \in stripe : x[1] # "pi" BY DEF Source
  <2> QED BY <2>1, <2>2
<1>1. \A g : g \in G <=> (\E x \in internal : g = S(x)) \/ (\E x \in stripe : g = I(x))
  BY <1>0 DEF Gaps
<1>2. \A x : S(x).type = "missing_stripe" /\ S(x).id = x /\ I(x).type = "missing_internal" /\ I(x).id = x
  OBVIOUS
<1>3. \A x \in ({"pi"} \X Key) \cup Source : S(x) \in Gap /\ I(x) \in Gap BY DEF Gap
<1> HIDE DEF G, S, I
<1>4. G \in SUBSET Gap BY <1>1, <1>3
<1>5. {g.id : g \in {g \in G : g.type = "missing_stripe"}} = internal
  BY <1>1, <1>2
<1>6. {g.id : g \in {g \in G : g.type = "missing_internal"}} = stripe
  BY <1>1, <1>2
<1> QED BY <1>4, <1>5, <1>6 DEF G

LEMMA TotalIsNat ==
  ASSUME NEW B, IsFiniteSet(B)
  PROVE  Price * Cardinality(B) \in Nat
<1> DEFINE b == Cardinality(B)
<1>1. b \in Nat /\ Price \in Nat BY FS_CardinalityType, RefundAssumption
<1> HIDE DEF b
<1>2. Price * b \in Nat BY <1>1
<1> QED BY <1>2 DEF b

\* A listing has as many lines as sources.
LEMMA Listed ==
  ASSUME NEW D \in SUBSET Card, IsFiniteSet(D)
  PROVE  /\ IsFiniteSet(CardsListed(D)) /\ CardsListed(D) \in SUBSET BalanceTransaction
         /\ {t.source : t \in CardsListed(D)} = {SourceId(k) : k \in D}
         /\ Cardinality(CardsListed(D)) = Cardinality({SourceId(k) : k \in D})
<1> DEFINE L(k) == [type |-> "charge", source |-> SourceId(k)]
           T == CardsListed(D)
           I == {SourceId(k) : k \in D}
<1>1. \A k \in D : /\ k \in Key /\ SourceId(k) = <<"ch", k>> /\ SourceId(k) \in Source
                   /\ L(k).source = SourceId(k) /\ L(k) \in BalanceTransaction
  BY ReconciliationAssumption DEF SourceId, Source, BalanceTransaction
<1>2. T = {L(k) : k \in D} BY DEF CardsListed
<1>a. \A j, k : <<"ch", j>> = <<"ch", k>> => j = k OBVIOUS
<1>3. \A j, k \in D : SourceId(j) = SourceId(k) => j = k BY <1>1, <1>a
<1> HIDE DEF L, T
<1>4. \A j, k \in D : L(j) = L(k) => j = k BY <1>1, <1>3
<1>5. T \in SUBSET BalanceTransaction BY <1>1, <1>2
<1>6. {t.source : t \in T} = I BY <1>1, <1>2
<1>7. IsFiniteSet(T) /\ Cardinality(T) = Cardinality(D)
  <2> DEFINE f == [k \in D |-> L(k)]
  <2>1. f \in Bijection(D, T)
    BY <1>2, <1>4 DEF Bijection, Injection, Surjection, IsInjective
  <2>2. ExistsBijection(D, T) BY <2>1 DEF ExistsBijection
  <2> QED BY <2>2, FS_Bijection
<1>8. Cardinality(I) = Cardinality(D)
  <2> DEFINE f == [k \in D |-> SourceId(k)]
  <2>1. f \in Bijection(D, I)
    BY <1>3 DEF Bijection, Injection, Surjection, IsInjective
  <2>2. ExistsBijection(D, I) BY <2>1 DEF ExistsBijection
  <2> HIDE DEF I
  <2> QED BY <2>2, FS_Bijection
<1> QED BY <1>5, <1>6, <1>7, <1>8 DEF T

\* What the listing of a day holds.
LEMMA SettlementsListed ==
  ASSUME NEW day
  PROVE  StripeSettlements(day) = CardsListed(Captured(day) \cap Card)
<1> DEFINE L(k) == [type |-> IF k \in Card THEN "charge" ELSE "payment", source |-> SourceId(k)]
           C == {L(k) : k \in Captured(day)}
           R == {[type |-> "refund", source |-> <<"re", r>>] :
                   r \in {r \in RefundKey : outcome[r] = "succeeded" /\ refund[r].of \in Captured(day)}}
<1>1. \A k : /\ L(k).type = "charge" <=> k \in Card
             /\ k \in Card => L(k) = [type |-> "charge", source |-> SourceId(k)]
  OBVIOUS
<1>2. \A t \in R : t.type # "charge" OBVIOUS
<1>3. Settlements(day) = C \cup R BY DEF Settlements
<1> HIDE DEF L, R
<1>4. \A t : t \in StripeSettlements(day) <=> \E k \in Captured(day) \cap Card : t = L(k)
  BY <1>1, <1>2, <1>3 DEF StripeSettlements
<1>5. \A t : t \in CardsListed(Captured(day) \cap Card) <=> \E k \in Captured(day) \cap Card : t = L(k)
  BY <1>1 DEF CardsListed
<1> QED BY <1>4, <1>5

\* What the ledger holds of a day: a key has one payment, so the positions of
\* the day's payments are as many as their keys.
LEMMA PaymentsListed ==
  ASSUME OneTimeInv, NEW day \in Int
  PROVE  LET P == InternalPayments(day)
             I == {IntentId(k) : k \in Booked(day)} IN
         /\ IsFiniteSet(P) /\ Cardinality(P) = Cardinality(I)
         /\ {IntentId(payments[p].key) : p \in P} = I /\ I \in SUBSET ({"pi"} \X Key)
<1> DEFINE P == InternalPayments(day)
           I == {IntentId(k) : k \in Booked(day)}
           f == [p \in P |-> IntentId(payments[p].key)]
<1>1. /\ payments \in Seq(Payment) /\ OnePayment /\ PaymentsArePaid
  BY TypesNamed DEF OneTimeInv, CallInv, OneTimeTypes, BookInv
<1>2. DOMAIN payments = 1..Len(payments) /\ Len(payments) \in Nat
      /\ \A p \in DOMAIN payments : payments[p] \in Payment
  BY <1>1
<1>3. P = {p \in DOMAIN payments : payments[p].day = day}
  BY <1>1 DEF InternalPayments, PaymentsArePaid
<1>4. \A p \in DOMAIN payments : \A k \in Key :
        payments[p] = [key |-> k, day |-> day] <=> payments[p].key = k /\ payments[p].day = day
  BY <1>2 DEF Payment
<1>5. \A p \in DOMAIN payments : payments[p].key \in Key BY <1>2 DEF Payment
<1> HIDE DEF P
<1>6. Booked(day) = {payments[p].key : p \in P} BY <1>3, <1>4, <1>5 DEF Booked
<1>a. \A j, k : IntentId(j) = IntentId(k) => j = k BY DEF IntentId
<1>b. \A k \in Key : IntentId(k) \in {"pi"} \X Key BY DEF IntentId
<1>c. {IntentId(payments[p].key) : p \in P} = I BY <1>6
<1>d. I \in SUBSET ({"pi"} \X Key)
  <2>1. Booked(day) \in SUBSET Key BY DEF Booked
  <2> QED BY <1>b, <2>1
<1>7. IsFiniteSet(P)
  <2>1. IsFiniteSet(1..Len(payments)) BY <1>2, FS_Interval
  <2> QED BY <1>2, <1>3, <2>1, FS_Subset
<1> HIDE DEF I
<1>8. f \in Bijection(P, I)
  <2>1. f \in [P -> I] BY <1>c
  <2>2. \A p, q \in P : f[p] = f[q] => p = q BY <1>1, <1>3, <1>a DEF OnePayment
  <2>3. \A x \in I : \E p \in P : f[p] = x BY <1>c
  <2> HIDE DEF f
  <2> QED BY <2>1, <2>2, <2>3 DEF Bijection, Injection, Surjection, IsInjective
<1>9. Cardinality(I) = Cardinality(P)
  BY <1>7, <1>8, FS_Bijection DEF ExistsBijection
<1> QED BY <1>c, <1>d, <1>7, <1>9 DEF P, I

\* The report that a comparison makes.
LEMMA ReportMade ==
  ASSUME OneTimeInv, IntentInv, ReportInv, NEW h \in Reconciler, compare[h].pc = "store"
  PROVE  LET r == CompareRecords(compare[h].day, compare[h].over, compare[h].listed) IN
         /\ r \in Report /\ r.day = compare[h].day /\ r.over = compare[h].over
         /\ TrueReport(r, Captured(r.day), Booked(r.day))
<1> DEFINE day == compare[h].day
           over == compare[h].over
           listed == compare[h].listed
           P == InternalPayments(day)
           B == {IntentId(payments[p].key) : p \in P}
           C == {t.source : t \in listed}
           gaps == Gaps(B, C)
           r == CompareRecords(day, over, listed)
<1>1. /\ compare[h] \in CompareState /\ IsFiniteSet(listed)
      /\ over => listed = CardsListed(Captured(day) \cap Card)
  BY DEF ReportInv, ReportTypes, ListedFinite, OverWhenRead
<1>2. day \in 0..LastDay /\ over \in BOOLEAN /\ listed \in SUBSET BalanceTransaction
  BY <1>1 DEF CompareState
<1>3. r = [day |-> day, over |-> over, gaps |-> gaps,
           status |-> IF gaps = {} THEN "balanced" ELSE "discrepancy_found",
           internal |-> Price * Cardinality(P), stripe |-> Price * Cardinality(listed)]
  BY DEF CompareRecords
<1>a. day \in Int BY <1>2
<1> HIDE DEF day, over, listed, r
<1>4. /\ IsFiniteSet(P) /\ B = {IntentId(k) : k \in Booked(day)}
      /\ Cardinality(P) = Cardinality({IntentId(k) : k \in Booked(day)})
      /\ B \in SUBSET ({"pi"} \X Key)
  BY <1>a, PaymentsListed
<1>5. C \in SUBSET Source BY <1>2 DEF BalanceTransaction
<1> HIDE DEF P, B, C
<1>6. /\ gaps \in SUBSET Gap
      /\ {g.id : g \in {g \in gaps : g.type = "missing_stripe"}} = B
      /\ {g.id : g \in {g \in gaps : g.type = "missing_internal"}} = C
  BY <1>4, <1>5, GapsSay
<1> HIDE DEF gaps
<1>7. Price * Cardinality(P) \in Nat /\ Price * Cardinality(listed) \in Nat
  BY <1>1, <1>4, TotalIsNat
<1>8. r \in Report BY <1>2, <1>3, <1>6, <1>7 DEF Report
<1>9. /\ r.day = day /\ r.over = over /\ r.gaps = gaps
      /\ r.internal = Price * Cardinality(P) /\ r.stripe = Price * Cardinality(listed)
  BY <1>3
<1>10. Of(r, "missing_stripe") = B /\ Of(r, "missing_internal") = C
  BY <1>6, <1>9 DEF Of
<1>11. ASSUME over PROVE /\ C = {SourceId(k) : k \in Captured(day) \cap Card}
                         /\ Cardinality(listed) = Cardinality(C)
  <2> DEFINE D == Captured(day) \cap Card
  <2>1. D \in SUBSET Asked /\ D \in SUBSET Card BY DEF Captured, Asked
  <2>2. IsFiniteSet(D) BY <2>1, FS_Subset DEF IntentInv
  <2>3. listed = CardsListed(D) BY <1>1, <1>11
  <2> HIDE DEF D
  <2>4. /\ {t.source : t \in CardsListed(D)} = {SourceId(k) : k \in D}
        /\ Cardinality(CardsListed(D)) = Cardinality({SourceId(k) : k \in D})
    BY <2>1, <2>2, Listed
  <2>5. C = {SourceId(k) : k \in D} BY <2>3, <2>4 DEF C
  <2>6. Cardinality(listed) = Cardinality(C) BY <2>3, <2>4, <2>5
  <2> QED BY <2>5, <2>6 DEF D
<1>13. TrueReport(r, Captured(day), Booked(day))
  BY <1>4, <1>9, <1>10, <1>11 DEF TrueReport
<1> QED BY <1>8, <1>9, <1>13 DEF r, day, over, listed

\* What a report says of a day that is over stays true.
LEMMA TruthKept ==
  ASSUME OneTimeInv, ReportInv, DaysStay, NEW i \in DOMAIN reports
  PROVE  LET day == reports[i].day IN
         TrueReport(reports[i], {k \in Key : intent'[k].phase = "captured" /\ intent'[k].day = day},
           {k \in Key : \E p \in DOMAIN payments' : payments'[p] = [key |-> k, day |-> day]})
<1>1. reports[i].day \in Int
  <2>1. reports \in Seq(Report) BY DEF ReportInv, ReportTypes
  <2>2. reports[i] \in Report BY <2>1
  <2> QED BY <2>2 DEF Report
<1>2. TrueReport(reports[i], Captured(reports[i].day), Booked(reports[i].day))
  BY ReportsNamed DEF ReportInv
<1>3. CASE reports[i].over
  <2>1. reports[i].day < today BY <1>3 DEF ReportInv, ReportsAreOver
  <2> QED BY <1>1, <1>2, <2>1 DEF DaysStay
<1>4. CASE ~ reports[i].over BY <1>4 DEF TrueReport
<1> QED BY <1>3, <1>4

\* The handlers rest while the rest of the system takes its steps.
LEMMA ReportsKept ==
  ASSUME OneTimeInv, ReportInv, DaysStay, UNCHANGED <<reports, compare>>
  PROVE  ReportInv'
<1>0. /\ ReportTypes /\ today \in Int
      /\ \A h \in Reconciler : compare[h] \in CompareState /\ compare[h].day \in Int
      /\ \A i \in DOMAIN reports : reports[i] \in Report /\ reports[i].day \in Int
  <2>1. ReportTypes /\ today \in Int
    BY TypesNamed DEF ReportInv, OneTimeInv, CallInv, OneTimeTypes
  <2>2. \A h \in Reconciler : compare[h] \in CompareState BY <2>1 DEF ReportTypes
  <2>3. reports \in Seq(Report) BY <2>1 DEF ReportTypes
  <2>4. \A i \in DOMAIN reports : reports[i] \in Report BY <2>3
  <2> QED BY <2>1, <2>2, <2>4 DEF CompareState, Report
<1>1. ReportTypes' /\ ListedFinite' BY DEF ReportInv, ReportTypes, ListedFinite
<1>2. today' \in Int /\ today <= today' BY DEF DaysStay, TimeGoesOn
<1>3. OverWhenRead'
  BY <1>0, <1>2 DEF ReportInv, OverWhenRead, DaysStay, Captured, CardsListed
<1>4. ReportsAreOver' BY <1>0, <1>2 DEF ReportInv, ReportsAreOver
<1>5. ReportsStayTrue'
  <2> SUFFICES ASSUME NEW i \in DOMAIN reports'
               PROVE  LET day == reports'[i].day IN
                 TrueReport(reports'[i], {k \in Key : intent'[k].phase = "captured" /\ intent'[k].day = day},
                   {k \in Key : \E p \in DOMAIN payments' : payments'[p] = [key |-> k, day |-> day]})
    BY DEF ReportsStayTrue, TrueReport, Of, Captured, Booked
  <2>1. reports' = reports OBVIOUS
  <2> QED BY <2>1, TruthKept
<1> QED BY <1>1, <1>3, <1>4, <1>5 DEF ReportInv

LEMMA NoDayPasses ==
  ASSUME OneTimeInv, UNCHANGED oneTimeVars
  PROVE  DaysStay
<1>1. today \in Int BY TypesNamed DEF OneTimeInv, CallInv, OneTimeTypes
<1> QED BY <1>1 DEF oneTimeVars, DaysStay, TimeGoesOn, Captured, Booked

\* A handler whose state is well-typed and true leaves the others alone.
LEMMA Compares ==
  ASSUME ReportInv, UNCHANGED oneTimeVars, NEW h \in Reconciler, NEW s \in CompareState,
         compare' = [compare EXCEPT ![h] = s], IsFiniteSet(s.listed),
         s.pc \in {"list", "store"} /\ s.over =>
           /\ s.day < today
           /\ s.pc = "store" => s.listed = CardsListed(Captured(s.day) \cap Card)
  PROVE  compare' \in [Reconciler -> CompareState] /\ ListedFinite' /\ OverWhenRead'
<1>1. compare \in [Reconciler -> CompareState] BY DEF ReportInv, ReportTypes
<1>2. /\ compare' \in [Reconciler -> CompareState]
      /\ \A g \in Reconciler : compare'[g] = IF g = h THEN s ELSE compare[g]
  BY <1>1
<1>3. ListedFinite' BY <1>2 DEF ReportInv, ListedFinite
<1>4. \A g \in Reconciler : g # h => compare'[g] = compare[g] BY <1>2
<1>5. compare'[h] = s BY <1>2
<1>6. OverWhenRead'
  BY <1>4, <1>5 DEF ReportInv, OverWhenRead, oneTimeVars, Captured, CardsListed
<1> QED BY <1>2, <1>3, <1>6

LEMMA RestingState == Resting \in CompareState /\ IsFiniteSet(Resting.listed) /\ Resting.pc = "idle"
BY FS_EmptySet, OneTimeAssumption DEF Resting, CompareState

\* A report is stored at the end, and true of its day.
LEMMA Stored ==
  ASSUME OneTimeInv, ReportInv, UNCHANGED oneTimeVars, NEW h \in Reconciler, NEW r \in Report,
         reports' = Append(reports, r), compare' = [compare EXCEPT ![h] = Resting],
         r.over => r.day < today, TrueReport(r, Captured(r.day), Booked(r.day))
  PROVE  ReportInv'
<1>1. compare' \in [Reconciler -> CompareState] /\ ListedFinite' /\ OverWhenRead'
  BY Compares, RestingState
<1> DEFINE n == Len(reports)
<1>2. /\ reports \in Seq(Report) /\ n \in Nat /\ reports' \in Seq(Report)
      /\ DOMAIN reports = 1..n /\ DOMAIN reports' = 1..(n + 1)
      /\ reports'[n + 1] = r /\ \A i \in 1..n : reports'[i] = reports[i]
  BY DEF ReportInv, ReportTypes
<1> HIDE DEF n
<1>3. \A i \in 1..(n + 1) : i \in 1..n \/ i = n + 1 BY <1>2
<1>4. ReportsAreOver' BY <1>2, <1>3 DEF ReportInv, ReportsAreOver, oneTimeVars
<1>5. ReportsStayTrue'
  <2>1. \A i \in 1..n : TrueReport(reports[i], Captured(reports[i].day), Booked(reports[i].day))
    BY <1>2, ReportsNamed DEF ReportInv
  <2>2. \A i \in 1..(n + 1) :
          TrueReport(reports'[i], Captured(reports'[i].day), Booked(reports'[i].day))
    BY <1>2, <1>3, <2>1
  <2>3. intent' = intent /\ payments' = payments BY DEF oneTimeVars
  <2> SUFFICES ASSUME NEW i \in 1..(n + 1)
               PROVE  LET day == reports'[i].day IN
                 TrueReport(reports'[i], {k \in Key : intent'[k].phase = "captured" /\ intent'[k].day = day},
                   {k \in Key : \E p \in DOMAIN payments' : payments'[p] = [key |-> k, day |-> day]})
    BY <1>2 DEF ReportsStayTrue, TrueReport, Of, Captured, Booked
  <2> QED BY <2>2, <2>3 DEF Captured, Booked
<1> QED BY <1>1, <1>2, <1>4, <1>5 DEF ReportInv, ReportTypes

LEMMA ReportStep ==
  ASSUME OneTimeInv, IntentInv, ReportInv, UNCHANGED oneTimeVars,
         NEW h \in Reconciler, ReconcileStep(h)
  PROVE  ReportInv'
<1>0. /\ compare[h] \in CompareState /\ today \in 0..LastDay /\ LastDay \in Nat
      /\ reports \in Seq(Report) /\ compare \in [Reconciler -> CompareState]
  BY TypesNamed, OneTimeAssumption DEF ReportInv, ReportTypes, OneTimeInv, CallInv, OneTimeTypes
\* Steps that store nothing.
<1>a. ASSUME NEW s \in CompareState, reports' = reports, compare' = [compare EXCEPT ![h] = s],
             IsFiniteSet(s.listed),
             s.pc \in {"list", "store"} /\ s.over =>
               /\ s.day < today
               /\ s.pc = "store" => s.listed = CardsListed(Captured(s.day) \cap Card)
      PROVE  ReportInv'
  <2>1. compare' \in [Reconciler -> CompareState] /\ ListedFinite' /\ OverWhenRead'
    BY <1>a, Compares
  <2>2. ReportsAreOver' BY <1>a DEF ReportInv, ReportsAreOver, oneTimeVars
  <2>3. DaysStay BY NoDayPasses
  <2>4. ReportsStayTrue'
    <3> SUFFICES ASSUME NEW i \in DOMAIN reports'
                 PROVE  LET day == reports'[i].day IN
                   TrueReport(reports'[i], {k \in Key : intent'[k].phase = "captured" /\ intent'[k].day = day},
                     {k \in Key : \E p \in DOMAIN payments' : payments'[p] = [key |-> k, day |-> day]})
      BY DEF ReportsStayTrue, TrueReport, Of, Captured, Booked
    <3>1. reports' = reports BY <1>a
    <3> QED BY <3>1, <2>3, TruthKept
  <2> QED BY <1>0, <1>a, <2>1, <2>2, <2>4 DEF ReportInv, ReportTypes
<1>1. ASSUME NEW day \in 0..today, StartReconciliation(h, day) PROVE ReportInv'
  <2> DEFINE o == day < today
             s == [pc |-> "list", day |-> day, over |-> o, listed |-> {}]
  <2>1. reports' = reports /\ compare' = [compare EXCEPT ![h] = s]
    BY <1>1 DEF StartReconciliation
  <2>2. o \in BOOLEAN /\ day \in 0..LastDay BY <1>0
  <2>3. o => day < today OBVIOUS
  <2> HIDE DEF o
  <2>4. s \in CompareState /\ s.pc = "list" /\ s.over = o /\ s.day = day /\ s.listed = {}
    BY <2>2 DEF CompareState
  <2> HIDE DEF s
  <2> QED BY <1>a, <2>1, <2>3, <2>4, FS_EmptySet
<1>2. ASSUME ListSettlements(h) PROVE ReportInv'
  <2> DEFINE T == StripeSettlements(compare[h].day)
             s == [compare[h] EXCEPT !.pc = "store", !.listed = T]
  <2>1. /\ compare[h].pc = "list" /\ reports' = reports
        /\ compare' = [compare EXCEPT ![h].pc = "store", ![h].listed = T]
    BY <1>2 DEF ListSettlements
  <2> DEFINE D == Captured(compare[h].day) \cap Card
  <2>2. T = CardsListed(D) BY SettlementsListed
  <2>3. D \in SUBSET Asked /\ D \in SUBSET Card BY DEF Captured, Asked
  <2>4. IsFiniteSet(D) BY <2>3, FS_Subset DEF IntentInv
  <2> HIDE DEF T, D
  <2>5. T \in SUBSET BalanceTransaction /\ IsFiniteSet(T) BY <2>2, <2>3, <2>4, Listed
  <2>7. compare' = [compare EXCEPT ![h] = s] BY <2>1
  <2>8. /\ s \in CompareState /\ s.pc = "store" /\ s.day = compare[h].day
        /\ s.over = compare[h].over /\ s.listed = T
    BY <1>0, <2>5 DEF CompareState
  <2>9. s.over => s.day < today BY <2>1, <2>8 DEF ReportInv, OverWhenRead
  <2>10. s.listed = CardsListed(Captured(s.day) \cap Card) BY <2>2, <2>8 DEF D
  <2> HIDE DEF s
  <2> QED BY <1>a, <2>1, <2>5, <2>7, <2>8, <2>9, <2>10
<1>3. ASSUME StoreFailedRun(h) PROVE ReportInv'
  <2> DEFINE r == [day |-> compare[h].day, over |-> compare[h].over, status |-> "failed",
                   gaps |-> {}, internal |-> 0, stripe |-> 0]
  <2>1. /\ compare[h].pc = "list" /\ reports' = Append(reports, r)
        /\ compare' = [compare EXCEPT ![h] = Resting]
    BY <1>3 DEF StoreFailedRun
  <2>2. r \in Report /\ r.day = compare[h].day /\ r.over = compare[h].over /\ r.status = "failed"
    BY <1>0 DEF Report, CompareState
  <2> HIDE DEF r
  <2>3. r.over => r.day < today BY <2>1, <2>2 DEF ReportInv, OverWhenRead
  <2>4. TrueReport(r, Captured(r.day), Booked(r.day)) BY <2>2 DEF TrueReport
  <2> QED BY <2>1, <2>2, <2>3, <2>4, Stored
<1>4. ASSUME StoreResult(h) PROVE ReportInv'
  <2> DEFINE r == CompareRecords(compare[h].day, compare[h].over, compare[h].listed)
  <2>1. /\ compare[h].pc = "store" /\ reports' = Append(reports, r)
        /\ compare' = [compare EXCEPT ![h] = Resting]
    BY <1>4 DEF StoreResult
  <2>2. /\ r \in Report /\ r.day = compare[h].day /\ r.over = compare[h].over
        /\ TrueReport(r, Captured(r.day), Booked(r.day))
    BY <2>1, ReportMade
  <2> HIDE DEF r
  <2>3. r.over => r.day < today BY <2>1, <2>2 DEF ReportInv, OverWhenRead
  <2> QED BY <2>1, <2>2, <2>3, Stored
<1>5. ASSUME ReconcileCrash(h) PROVE ReportInv'
  BY <1>a, <1>5, RestingState DEF ReconcileCrash
<1> QED BY <1>1, <1>2, <1>3, <1>4, <1>5 DEF ReconcileStep

LEMMA ReportInit == Init => ReportInv
<1> SUFFICES ASSUME Init PROVE ReportInv OBVIOUS
<1>1. reports = <<>> /\ compare = [h \in Reconciler |-> Resting] BY DEF Init, ReconciliationInit
<1>2. <<>> \in Seq(Report) OBVIOUS
<1> QED BY <1>1, <1>2, RestingState
      DEF ReportInv, ReportTypes, ListedFinite, OverWhenRead, ReportsAreOver, ReportsStayTrue

DayInv == IntentInv /\ ReportInv

LEMMA DayStep ==
  ASSUME OperationsInv, DayInv, [Next]_vars
  PROVE  DayInv'
<1>0. OneTimeInv /\ IntentInv /\ ReportInv BY DEF OperationsInv, DayInv
<1>1. CASE OneTimeNext /\ UNCHANGED <<refundVars, reports, compare>>
  <2>1. IntentInv' /\ DaysStay BY <1>0, <1>1, IntentStep, DaysAreOver
  <2> QED BY <1>0, <1>1, <2>1, ReportsKept DEF DayInv
<1>a. ASSUME UNCHANGED oneTimeVars PROVE IntentInv'
  BY <1>0, <1>a DEF oneTimeVars, IntentInv, AskersAreFirst, FreshIntents, Asked
<1>2. CASE UNCHANGED <<oneTimeVars, reports, compare>>
  <2>1. DaysStay BY <1>0, <1>2, NoDayPasses
  <2> QED BY <1>0, <1>2, <1>a, <2>1, ReportsKept DEF DayInv
<1>3. ASSUME NEW h \in Reconciler, ReconcileStep(h), UNCHANGED <<oneTimeVars, refundVars>> PROVE DayInv'
  BY <1>0, <1>3, <1>a, ReportStep DEF DayInv
<1> QED BY <1>1, <1>2, <1>3 DEF Next, vars

\* The types of the three modules together.
THEOREM OperationsTypes == Spec => []TypeOK
<1>1. Init => DayInv BY IntentStart, ReportInit DEF DayInv
<1>2. OperationsInv /\ DayInv => TypeOK
  BY ReportTypesNamed DEF OperationsInv, OneTimeInv, CallInv, RefundInv, DayInv, ReportInv, TypeOK
<1> QED BY <1>1, <1>2, DayStep, OperationsInit, OperationsStep, PTL DEF Spec

\* What a report says of a day that was over when its run began stays true for
\* good, whatever is charged, settled and refunded meanwhile and afterwards.
THEOREM ReportsTrue == Spec => []ReportsStayTrue
<1>1. Init => DayInv BY IntentStart, ReportInit DEF DayInv
<1>2. DayInv => ReportsStayTrue BY DEF DayInv, ReportInv
<1> QED BY <1>1, <1>2, DayStep, OperationsInit, OperationsStep, PTL DEF Spec
=============================================================================
