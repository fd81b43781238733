--------------------------- MODULE OneTimeCharges ---------------------------
(* One-time charges (charges.service.ts): the caller's key is looked up, an  *)
(* invoice is created and finalized, the charge row is written under the     *)
(* key, the gateway is asked and its answer booked.  Callers of one key run  *)
(* at once, any step can throw, any process can die, and the gateway's       *)
(* webhook settles what it answers late.  The webhook handler is           *)
(* one step here; its interleavings are the subject of Collection.           *)
(* Amounts are left out: the gateway is asked for what the row says.         *)
EXTENDS Integers, FiniteSets, SequencesExt

CONSTANTS
  Key,      \* idempotency keys of one-time charges
  Caller,   \* concurrent HTTP requests
  NoKey,    \* the key of no request
  MaxBills, \* bound on the invoices ever created
  LastDay   \* bound on the days that pass

ASSUME OneTimeAssumption ==
  /\ NoKey \notin Key
  /\ MaxBills \in Nat
  /\ LastDay \in Nat

VARIABLES
  bills,    \* invoices, in the order of creation
  charge,   \* charge row of each key
  intent,   \* the gateway's payment intent of each key
  payments, \* ledger entries of reference type payment, in order
  call,     \* control state of each caller
  today     \* the day it is

oneTimeVars == <<bills, charge, intent, payments, call, today>>

Idle == [pc |-> "idle", key |-> NoKey, bill |-> 0, answer |-> "none"]
NoCharge == [status |-> "none", bill |-> 0, known |-> FALSE]
NoIntent == [phase |-> "none", day |-> 0, notice |-> "none"]

OneTimeTypeOK ==
  /\ bills \in Seq([key: Key, status: {"finalized", "paid"}])
  /\ charge \in [Key -> [status: {"none", "pending", "succeeded", "failed"},
                         bill: 0..MaxBills, known: BOOLEAN]]
  /\ intent \in [Key -> [phase: {"none", "processing", "captured", "declined"},
                         day: 0..LastDay, notice: {"none", "due", "consumed"}]]
  /\ payments \in Seq([key: Key, day: 0..LastDay])
  /\ call \in [Caller ->
       [pc: {"idle", "invoice", "insert", "ask", "take", "announce", "fail"},
        key: Key \cup {NoKey}, bill: 0..MaxBills,
        answer: {"none", "succeeded", "pending", "failed"}]]
  /\ today \in 0..LastDay

OneTimeInit ==
  /\ bills = <<>>
  /\ charge = [k \in Key |-> NoCharge]
  /\ intent = [k \in Key |-> NoIntent]
  /\ payments = <<>>
  /\ call = [c \in Caller |-> Idle]
  /\ today = 0

(***************************************************************************)
(* The request.                                                            *)
(***************************************************************************)

\* A key that has a charge row is answered from it and leaves no trace here;
\* otherwise customer, method and gateway customer are found.
BeginCharge(c, k) ==
  /\ call[c].pc = "idle"
  /\ charge[k].status = "none"
  /\ call' = [call EXCEPT ![c] = [Idle EXCEPT !.pc = "invoice", !.key = k]]
  /\ UNCHANGED <<bills, charge, intent, payments, today>>

\* One transaction: the invoice, its line, its finalization and ledger entry.
CreateInvoice(c) ==
  /\ call[c].pc = "invoice"
  /\ Len(bills) < MaxBills
  /\ bills' = Append(bills, [key |-> call[c].key, status |-> "finalized"])
  /\ call' = [call EXCEPT ![c].pc = "insert", ![c].bill = Len(bills) + 1]
  /\ UNCHANGED <<charge, intent, payments, today>>

\* Mutant: the caller takes the row it finds for its own.
AskAgain(c) ==
  /\ charge[call[c].key].status # "none"
  /\ call' = [call EXCEPT ![c].pc = "ask"]
  /\ UNCHANGED charge

\* A second row of the key is refused by the index: the call returns the row
\* it finds and its own invoice stays as it is.
ReturnFirst(c) ==
  /\ charge[call[c].key].status # "none"
  /\ call' = [call EXCEPT ![c] = Idle]
  /\ UNCHANGED charge

InsertPending(c) ==
  /\ charge[call[c].key].status = "none"
  /\ charge' = [charge EXCEPT ![call[c].key] =
                  [status |-> "pending", bill |-> call[c].bill, known |-> FALSE]]
  /\ call' = [call EXCEPT ![c].pc = "ask"]

InsertCharge(c) ==
  /\ call[c].pc = "insert"
  /\ ReturnFirst(c) \/ InsertPending(c)
  /\ UNCHANGED <<bills, intent, payments, today>>

-----------------------------------------------------------------------------
(* The gateway's side. *)

\* Mutant: the gateway's own word for the phase is passed on.
AnswerUnmapped(phase) == phase

\* What createCharge answers while the intent is in a phase.
Answer(phase) ==
  CASE phase = "captured" -> "succeeded"
    [] phase = "processing" -> "pending"
    [] OTHER -> "failed"

\* An intent that reaches a final phase has a webhook to deliver.
Intent(phase) ==
  [phase |-> phase, day |-> today,
   notice |-> IF phase = "processing" THEN "none" ELSE "due"]

\* The gateway creates the intent; its answer arrives or the call throws.
Ask(c) ==
  LET k == call[c].key IN
  /\ call[c].pc = "ask"
  /\ \E phase \in {"captured", "processing", "declined"} :
       /\ intent' = [intent EXCEPT ![k] = Intent(phase)]
       /\ \/ call' = [call EXCEPT ![c].pc = "take", ![c].answer = Answer(phase)]
          \/ call' = [call EXCEPT ![c].pc = "fail"]
  /\ UNCHANGED <<bills, charge, payments, today>>

\* A bank debit is decided days later.
GatewayDecides(k) ==
  /\ intent[k].phase = "processing"
  /\ \E phase \in {"captured", "declined"} :
       intent' = [intent EXCEPT ![k] = Intent(phase)]
  /\ UNCHANGED <<bills, charge, payments, call, today>>

-----------------------------------------------------------------------------
(* What the call does with the answer. *)

\* The transaction that books a payment of k.
Book(k) ==
  /\ charge' = [charge EXCEPT ![k].status = "succeeded", ![k].known = TRUE]
  /\ bills' = [bills EXCEPT ![charge[k].bill].status = "paid"]
  /\ payments' = Append(payments, [key |-> k, day |-> today])

Settle(c) ==
  /\ call[c].answer = "succeeded"
  /\ Book(call[c].key)
  /\ call' = [call EXCEPT ![c].pc = "announce"]

\* An answer that is no success only stores the intent, with its failure.
StoreIntent(c) ==
  /\ call[c].answer # "succeeded"
  /\ charge' = [charge EXCEPT ![call[c].key].known = TRUE,
                  ![call[c].key].status =
                     IF call[c].answer = "failed" THEN "failed" ELSE @]
  /\ call' = [call EXCEPT ![c] = Idle]
  /\ UNCHANGED <<bills, payments>>

TakeAnswer(c) ==
  /\ call[c].pc = "take"
  /\ Settle(c) \/ StoreIntent(c)
  /\ UNCHANGED <<intent, today>>

\* Both events leave; a failure is only logged for a dual-write customer.
Announce(c) ==
  /\ call[c].pc = "announce"
  /\ call' = [call EXCEPT ![c] = Idle]
  /\ UNCHANGED <<bills, charge, intent, payments, today>>

\* A write or a publish throws into the catch block.
Throws(c) ==
  /\ call[c].pc \in {"take", "announce"}
  /\ call' = [call EXCEPT ![c].pc = "fail"]
  /\ UNCHANGED <<bills, charge, intent, payments, today>>

\* The catch block fails the charge, whatever has been written by then.
MarkFailed(c) ==
  /\ call[c].pc = "fail"
  /\ charge' = [charge EXCEPT ![call[c].key].status = "failed"]
  /\ call' = [call EXCEPT ![c] = Idle]
  /\ UNCHANGED <<bills, intent, payments, today>>

\* The process dies; the request is gone.
CallCrash(c) ==
  /\ call[c].pc # "idle"
  /\ call' = [call EXCEPT ![c] = Idle]
  /\ UNCHANGED <<bills, charge, intent, payments, today>>

-----------------------------------------------------------------------------
(* The webhook and the scheduler. *)

\* The charge is found by its stored intent, or the event says nothing.
PaymentSucceeded(k) ==
  IF /\ charge[k].known
     /\ charge[k].status # "succeeded"
     /\ bills[charge[k].bill].status = "finalized"
  THEN Book(k)
  ELSE UNCHANGED <<bills, charge, payments>>

PaymentFailed(k) ==
  /\ charge' = [charge EXCEPT ![k].status = IF charge[k].known THEN "failed" ELSE @]
  /\ UNCHANGED <<bills, payments>>

\* Handles the event of k; it is delivered again unless it is marked processed.
Webhook(k) ==
  /\ intent[k].notice = "due"
  /\ \/ intent[k].phase = "captured" /\ PaymentSucceeded(k)
     \/ intent[k].phase = "declined" /\ PaymentFailed(k)
  /\ \E notice \in {"due", "consumed"} :
       intent' = [intent EXCEPT ![k].notice = notice]
  /\ UNCHANGED <<call, today>>

NextDay ==
  /\ today < LastDay
  /\ today' = today + 1
  /\ UNCHANGED <<bills, charge, intent, payments, call>>

OneTimeNext ==
  \/ \E c \in Caller, k \in Key : BeginCharge(c, k)
  \/ \E c \in Caller :
       \/ CreateInvoice(c) \/ InsertCharge(c) \/ Ask(c) \/ TakeAnswer(c)
       \/ Announce(c) \/ Throws(c) \/ MarkFailed(c) \/ CallCrash(c)
  \/ \E k \in Key : GatewayDecides(k) \/ Webhook(k)
  \/ NextDay

OneTimeSpec == OneTimeInit /\ [][OneTimeNext]_oneTimeVars

-----------------------------------------------------------------------------
(* Properties *)

\* However many requests of one key run at once, at most one of their
\* invoices is paid and it is the one the charge row names.
OnePaidBillPerKey ==
  \A i \in DOMAIN bills : bills[i].status = "paid" =>
    /\ charge[bills[i].key].bill = i
    /\ Cardinality({p \in DOMAIN payments : payments[p].key = bills[i].key}) = 1
=============================================================================
