----------------------------- MODULE Settlement -----------------------------
(***************************************************************************)
(* What collecting promises, whoever calls it, retries it or delivers its  *)
(* webhooks: money the gateway captured for an attempt is booked at most   *)
(* once, only booked money makes an invoice paid or is told to the         *)
(* monolith, and only a finalized invoice that is not yet paid can be      *)
(* reversed.  Collection is shown to implement it when the inbound queue   *)
(* has a single consumer.                                                  *)
(***************************************************************************)
EXTENDS Naturals

CONSTANTS Invoice, Attempt

VARIABLES
    status,    \* [Invoice -> "finalized", "paid" or "void"]
    reversals, \* [Invoice -> Nat]   how often the receivable was reversed
    captured,  \* attempts, <<invoice, number>>, whose money was captured
    payments,  \* [attempt -> Nat]   payments in the ledger
    told       \* attempts the monolith knows to be paid

Payment == Invoice \X Attempt

settlement == <<status, reversals, captured, payments, told>>

SettlementInit ==
    /\ status = [i \in Invoice |-> "finalized"]
    /\ reversals = [i \in Invoice |-> 0]
    /\ captured = {}
    /\ payments = [p \in Payment |-> 0]
    /\ told = {}

Capture(p) ==
    /\ p \notin captured
    /\ captured' = captured \cup {p}
    /\ UNCHANGED <<status, reversals, payments, told>>

\* The money and the status move together.  The invoice may have been paid by
\* another attempt, or voided while this one was under way.
Book(p) ==
    /\ p \in captured
    /\ payments[p] = 0
    /\ payments' = [payments EXCEPT ![p] = 1]
    /\ status' = [status EXCEPT ![p[1]] = "paid"]
    /\ UNCHANGED <<reversals, captured, told>>

Tell(p) ==
    /\ payments[p] > 0
    /\ told' = told \cup {p}
    /\ UNCHANGED <<status, reversals, captured, payments>>

Reverse(i) ==
    /\ status[i] = "finalized"
    /\ status' = [status EXCEPT ![i] = "void"]
    /\ reversals' = [reversals EXCEPT ![i] = @ + 1]
    /\ UNCHANGED <<captured, payments, told>>

SettlementNext ==
    \/ \E p \in Payment : Capture(p) \/ Book(p) \/ Tell(p)
    \/ \E i \in Invoice : Reverse(i)

SettlementSpec == SettlementInit /\ [][SettlementNext]_settlement
=============================================================================
