------------------------------- MODULE Dunning -------------------------------
(***************************************************************************)
(* Recovering a failed subscription payment.                               *)
(*                                                                         *)
(* The first failed attempt of executePaymentForInvoice schedules row 1 of *)
(* dunning_attempts.  A process-dunning message makes the scheduler        *)
(* consumer (here: a runner) execute the rows that are due, one after the  *)
(* other: DunningService.executeDunningAttempt picks a payment method,     *)
(* calls executePaymentForInvoice again and records what came of it,       *)
(* scheduling the next row or escalating.  A runner is therefore a worker  *)
(* of Collection, and every step below that charges is one of its steps.   *)
(***************************************************************************)
EXTENDS Collection, Sequences, FiniteSets

CONSTANTS
    Runner,    \* workers that process due retries; the others make first attempts
    Method     \* payment methods a customer may have

ASSUME DunningAssumption ==
    /\ Runner \subseteq Worker
    /\ "none" \notin Method

VARIABLES
    retries,    \* rows of dunning_attempts, in the order they were inserted
    run,        \* [Runner -> record]   the process-dunning handler in progress
    pastDue,    \* invoices whose escalation moved the subscription to past_due
    escalated   \* invoices for which dunning.escalated was sent

collection == vars
dunning    == <<retries, run, pastDue, escalated>>
dunningVars == <<collection, dunning>>

RetryStatus == {"scheduled", "succeeded", "failed", "skipped"}
Retry == [inv : Invoice, n : Attempt, status : RetryStatus, method : Method \cup {"none"}]

RunPhase == {"next", "loaded", "skipping", "selecting", "charging", "calling",
             "recovered", "unpaid", "givingUp", "skippingRest", "escalating",
             "announcing"}
Resting == [pc |-> "idle", todo |-> {}, row |-> 0, method |-> "none"]

Row == DOMAIN retries
Scheduled == {j \in Row : retries[j].status = "scheduled"}

DunningTypeOK ==
    /\ TypeOK
    /\ retries \in Seq(Retry)
    /\ run \in [Runner -> {Resting} \cup
                   [pc : RunPhase, todo : SUBSET Row, row : Row \cup {0},
                    method : Method \cup {"none"}]]
    /\ pastDue \subseteq Recurring
    /\ escalated \subseteq Invoice

DunningInit ==
    /\ Init
    /\ retries = <<>>
    /\ run = [r \in Runner |-> Resting]
    /\ pastDue = {}
    /\ escalated = {}

-----------------------------------------------------------------------------

In(r, phase) == run[r].pc = phase
Enter(r, phase) == run' = [run EXCEPT ![r].pc = phase]
Subject(r) == retries[run[r].row]

\* The loop goes on with the next row of the batch, or the handler ends.
Onward(r) ==
    run' = [run EXCEPT ![r] =
               IF @.todo = {} THEN Resting
               ELSE [Resting EXCEPT !.pc = "next", !.todo = run[r].todo]]

NewRetry(i, n) == [inv |-> i, n |-> n, status |-> "scheduled", method |-> "none"]

\* Row j becomes s, and the other scheduled rows of its invoice are skipped.
CloseAll(j, s, m) ==
    retries' = [l \in Row |->
        IF l = j THEN [retries[l] EXCEPT !.status = s, !.method = m]
        ELSE IF l \in Scheduled /\ retries[l].inv = retries[j].inv
             THEN [retries[l] EXCEPT !.status = "skipped"]
             ELSE retries[l]]

-----------------------------------------------------------------------------
(* Seeded faults, none part of DunningNext. *)

\* The end of the schedule is not tested.
RecordUnpaidNoLimit(r) ==
    LET t == Subject(r) IN
    /\ In(r, "unpaid")
    /\ retries' = Append([retries EXCEPT ![run[r].row].status = "failed",
                                         ![run[r].row].method = run[r].method],
                         NewRetry(t.inv, t.n + 1))
    /\ Onward(r)
    /\ UNCHANGED <<collection, pastDue, escalated>>

\* The failed row takes the charge it tried with it.
RecordUnpaidFailsCharge(r) ==
    LET t == Subject(r)
        failed == [retries EXCEPT ![run[r].row].status = "failed"]
    IN
    /\ In(r, "unpaid")
    /\ charge' = [charge EXCEPT ![<<t.inv, t.n>>] = "failed"]
    /\ \/ /\ t.n < MaxAttempts
          /\ retries' = Append(failed, NewRetry(t.inv, t.n + 1))
          /\ Onward(r)
       \/ /\ t.n = MaxAttempts
          /\ retries' = failed
          /\ Enter(r, "escalating")
    /\ UNCHANGED <<invoice, intent, books, published, bank, inbox, call>>
    /\ UNCHANGED <<pastDue, escalated>>

\* A failed row stays scheduled when it has a successor.
RecordUnpaidKeepsRow(r) ==
    LET t == Subject(r) IN
    /\ In(r, "unpaid")
    /\ t.n < MaxAttempts
    /\ retries' = Append(retries, NewRetry(t.inv, t.n + 1))
    /\ Onward(r)
    /\ UNCHANGED <<collection, pastDue, escalated>>

\* Every failed retry escalates.
RecordUnpaidEscalates(r) ==
    LET t == Subject(r)
        failed == [retries EXCEPT ![run[r].row].status = "failed",
                                  ![run[r].row].method = run[r].method]
    IN
    /\ In(r, "unpaid")
    /\ retries' = IF t.n < MaxAttempts
                  THEN Append(failed, NewRetry(t.inv, t.n + 1)) ELSE failed
    /\ Enter(r, "escalating")
    /\ UNCHANGED <<collection, pastDue, escalated>>

\* A pending charge counts as recovered.
TakeResultPendingPaid(r) ==
    /\ In(r, "calling")
    /\ At(r, "done")
    /\ Return(r)
    /\ Enter(r, IF call[r].outcome \in {"succeeded", "pending"}
                THEN "recovered" ELSE "unpaid")
    /\ UNCHANGED <<retries, pastDue, escalated>>

\* An exception of the charge skips the row.
TakeResultThrowSkips(r) ==
    /\ In(r, "calling")
    /\ At(r, "done")
    /\ Return(r)
    /\ Enter(r, CASE call[r].outcome = "succeeded" -> "recovered"
                  [] call[r].outcome \in {"alreadyPaid", "threw"} -> "skipping"
                  [] OTHER -> "unpaid")
    /\ UNCHANGED <<retries, pastDue, escalated>>

\* Only a paid invoice ends dunning: for a void one the charge throws.
ReadInvoiceForRetryPaidOnly(r) ==
    /\ In(r, "loaded")
    /\ Enter(r, IF invoice[Subject(r).inv] = "paid" THEN "skipping" ELSE "selecting")
    /\ UNCHANGED <<collection, retries, pastDue, escalated>>

-----------------------------------------------------------------------------
(* scheduleDunningAttempt, at the end of a failed first attempt.  Its read   *)
(* and its insert are one step: the charge row of attempt 1 has one owner,   *)
(* so it runs at most once for an invoice.  Its errors are swallowed.        *)

ScheduleDunning(w) ==
    LET i == call[w].key[1] IN
    /\ Rescued(w)
    /\ \/ /\ \A j \in Row : retries[j].inv = i => retries[j].status = "skipped"
          /\ retries' = Append(retries, NewRetry(i, 1))
       \/ UNCHANGED retries
    /\ UNCHANGED <<run, pastDue, escalated>>

-----------------------------------------------------------------------------
(* A process-dunning message *)

\* findScheduled: the scheduled rows whose date has come.
StartRun(r, due) ==
    /\ In(r, "idle")
    /\ due # {}
    /\ run' = [run EXCEPT ![r] = [Resting EXCEPT !.pc = "next", !.todo = due]]
    /\ UNCHANGED <<collection, retries, pastDue, escalated>>

\* The row is loaded again; one that is no longer scheduled is passed over.
LoadRetry(r) ==
    /\ In(r, "next")
    /\ \E j \in run[r].todo :
          LET rest == run[r].todo \ {j} IN
          run' = [run EXCEPT ![r] =
                    IF j \in Scheduled
                    THEN [Resting EXCEPT !.pc = "loaded", !.todo = rest, !.row = j]
                    ELSE IF rest = {} THEN Resting ELSE [@ EXCEPT !.todo = rest]]
    /\ UNCHANGED <<collection, retries, pastDue, escalated>>

ReadInvoiceForRetry(r) ==
    /\ In(r, "loaded")
    /\ Enter(r, IF invoice[Subject(r).inv] \in {"paid", "void"}
                THEN "skipping" ELSE "selecting")
    /\ UNCHANGED <<collection, retries, pastDue, escalated>>

\* One transaction: this row and what is left of the chain become skipped.
SkipRetries(r) ==
    /\ In(r, "skipping")
    /\ CloseAll(run[r].row, "skipped", Subject(r).method)
    /\ Onward(r)
    /\ UNCHANGED <<collection, pastDue, escalated>>

\* selectPaymentMethodForAttempt.  The customer may add or detach methods at
\* any time, so the read may find any set of active ones.  A single one is
\* used again and again; of several, one no failed row of this invoice used.
\* (That it is the first in the customer's order is left out.)
Tried(i) == {retries[j].method : j \in {l \in Row : retries[l].inv = i
                                                  /\ retries[l].status = "failed"}}

Usable(active, i) == IF Cardinality(active) = 1 THEN active ELSE active \ Tried(i)

SelectMethod(r) ==
    /\ In(r, "selecting")
    /\ \E active \in SUBSET Method :
          LET usable == Usable(active, Subject(r).inv) IN
          \/ \E m \in usable :
                run' = [run EXCEPT ![r].pc = "charging", ![r].method = m]
          \/ usable = {} /\ Enter(r, "givingUp")
    /\ UNCHANGED <<collection, retries, pastDue, escalated>>

\* executePaymentForInvoice(invoice, attempt.attemptNumber, selected method):
\* the idempotency key carries the number of the row, not of the method.
ChargeAgain(r) ==
    LET t == Subject(r) IN
    /\ In(r, "charging")
    /\ Admit(r, t.inv, t.n) \/ Refuse(r, t.inv, t.n)
    /\ Enter(r, "calling")
    /\ UNCHANGED <<retries, pastDue, escalated>>

\* InvoiceAlreadyPaidException skips the chain, any other exception leaves the
\* row scheduled; every result but "succeeded" counts as a failure.
TakeResult(r) ==
    /\ In(r, "calling")
    /\ At(r, "done")
    /\ Return(r)
    /\ CASE call[r].outcome = "alreadyPaid" -> Enter(r, "skipping")
         [] call[r].outcome = "threw"       -> Onward(r)
         [] call[r].outcome = "succeeded"   -> Enter(r, "recovered")
         [] OTHER                           -> Enter(r, "unpaid")
    /\ UNCHANGED <<retries, pastDue, escalated>>

RecordRecovered(r) ==
    /\ In(r, "recovered")
    /\ CloseAll(run[r].row, "succeeded", run[r].method)
    /\ Onward(r)
    /\ UNCHANGED <<collection, pastDue, escalated>>

\* One transaction: the row fails and the next one, if the schedule has one,
\* is inserted.  Escalation follows outside of it.
RecordUnpaid(r) ==
    LET t == Subject(r)
        failed == [retries EXCEPT ![run[r].row].status = "failed",
                                  ![run[r].row].method = run[r].method]
    IN
    /\ In(r, "unpaid")
    /\ \/ /\ t.n < MaxAttempts
          /\ retries' = Append(failed, NewRetry(t.inv, t.n + 1))
          /\ Onward(r)
       \/ /\ t.n = MaxAttempts
          /\ retries' = failed
          /\ Enter(r, "escalating")
    /\ UNCHANGED <<collection, pastDue, escalated>>

\* No usable method: two writes of their own, then the escalation.
GiveUp(r) ==
    /\ In(r, "givingUp")
    /\ retries' = [retries EXCEPT ![run[r].row].status = "failed"]
    /\ Enter(r, "skippingRest")
    /\ UNCHANGED <<collection, pastDue, escalated>>

SkipRest(r) ==
    /\ In(r, "skippingRest")
    /\ CloseAll(run[r].row, Subject(r).status, Subject(r).method)
    /\ Enter(r, "escalating")
    /\ UNCHANGED <<collection, pastDue, escalated>>

\* escalateDunning: the subscription becomes past_due unless its state forbids
\* it, then dunning.escalated is sent.  The errors of both are only logged.
MovePastDue(r) ==
    /\ In(r, "escalating")
    /\ \/ pastDue' = pastDue \cup ({Subject(r).inv} \cap Recurring)
       \/ UNCHANGED pastDue
    /\ Enter(r, "announcing")
    /\ UNCHANGED <<collection, retries, escalated>>

Announce(r) ==
    /\ In(r, "announcing")
    /\ \/ escalated' = escalated \cup {Subject(r).inv}
       \/ UNCHANGED escalated
    /\ Onward(r)
    /\ UNCHANGED <<collection, retries, pastDue>>

\* A query of the current attempt throws: the loop logs it and goes on.
RetryThrows(r) ==
    /\ run[r].pc \in RunPhase \ {"next", "calling"}
    /\ Onward(r)
    /\ UNCHANGED <<collection, retries, pastDue, escalated>>

\* The process dies, with whatever charge it was making.
CrashRun(r) ==
    /\ ~In(r, "idle")
    /\ run' = [run EXCEPT ![r] = Resting]
    /\ call' = [call EXCEPT ![r] = Idle]
    /\ UNCHANGED <<invoice, charge, intent, books, published, bank, inbox>>
    /\ UNCHANGED <<retries, pastDue, escalated>>

-----------------------------------------------------------------------------

CallerStep(w) ==
    /\ \/ \E i \in Invoice : Admit(w, i, 1) \/ Refuse(w, i, 1)
       \/ WorkerProgress(w) \/ Return(w) \/ Crash(w)
    /\ UNCHANGED dunning

RunnerProgress(r) ==
    \/ LoadRetry(r) \/ ReadInvoiceForRetry(r) \/ SkipRetries(r) \/ SelectMethod(r)
    \/ ChargeAgain(r) \/ TakeResult(r) \/ RecordRecovered(r) \/ RecordUnpaid(r)
    \/ GiveUp(r) \/ SkipRest(r) \/ MovePastDue(r) \/ Announce(r)
    \/ WorkerProgress(r) /\ UNCHANGED dunning

RunnerStep(r) ==
    \/ \E due \in SUBSET Scheduled : StartRun(r, due)
    \/ RunnerProgress(r) \/ RetryThrows(r) \/ CrashRun(r)

OtherStep ==
    /\ \/ \E c \in Consumer : ConsumerStep(c)
       \/ GatewayStep
       \/ \E i \in Invoice : VoidInvoice(i)
    /\ UNCHANGED dunning

DunningNext ==
    \/ \E w \in Worker \ Runner : CallerStep(w)
    \/ \E w \in Worker : ScheduleDunning(w)
    \/ \E r \in Runner : RunnerStep(r)
    \/ OtherStep

DunningSpec == DunningInit /\ [][DunningNext]_dunningVars

(***************************************************************************)
(* Fairness.  A live handler keeps running, the cron keeps sending         *)
(* process-dunning and a row's date comes.  A row whose execution fails    *)
(* every time stays scheduled for ever, so liveness is claimed for faults  *)
(* that end: from some moment on no runner dies, throws or finds the       *)
(* customer without a payment method.  (A crash that leaves the same state *)
(* as the step it replaces is no fault.)                                   *)
(***************************************************************************)
Fault(r) ==
    \/ (CrashRun(r) \/ RetryThrows(r)) /\ ~RunnerProgress(r)
    \/ (NoPaymentMethod(r) \/ CatchThrows(r)) /\ UNCHANGED dunning

DunningFairness ==
    /\ \A w \in Worker \ Runner : WF_dunningVars(CallerStep(w))
    /\ \A w \in Worker : WF_dunningVars(ScheduleDunning(w))
    /\ \A r \in Runner :
          /\ WF_dunningVars(RunnerProgress(r))
          /\ SF_dunningVars(StartRun(r, Scheduled))
    /\ <>[][\A r \in Runner : ~Fault(r)]_dunningVars

DunningFairSpec == DunningSpec /\ DunningFairness

-----------------------------------------------------------------------------

\* With one runner the rows of an invoice form one chain: no number twice, and
\* only the last row can still be scheduled.
OneChain ==
    \A j, l \in Row :
        j < l /\ retries[j].inv = retries[l].inv
            => retries[j].n < retries[l].n /\ retries[j].status # "scheduled"

\* A row that says the money was recovered has a ledger entry behind it, for the
\* charge of that very attempt.
RecoveredMeansBooked ==
    \A j \in Row : retries[j].status = "succeeded"
                       => booked[<<retries[j].inv, retries[j].n>>] > 0

\* A retry is dropped only because there is nothing left to collect.
SkippedOnlyWhenClosed ==
    \A j \in Row : retries[j].status = "skipped" => invoice[retries[j].inv] # "finalized"

\* With one runner nobody is escalated, and no subscription made past due,
\* while a retry of the invoice is still to come.
EscalatedAfterLastRetry ==
    \A j \in Row : retries[j].inv \in escalated \cup pastDue => j \notin Scheduled

\* Every scheduled retry is executed, skipped or given up in the end.
EveryRetryResolves ==
    \A i \in Invoice, n \in Attempt :
        (\E j \in Scheduled : retries[j].inv = i /\ retries[j].n = n)
            ~> ~(\E j \in Scheduled : retries[j].inv = i /\ retries[j].n = n)

\* dunning.service.ts says that a retry executes the charge with the selected
\* payment method.  Retry 1 has the key of the first attempt, so it finds that
\* charge and records the method as failed without a request to the gateway:
\* an invoice has fewer charges than first attempt and executed retries.
RetriesAreCharges ==
    \A i \in Invoice :
        Cardinality({j \in Row : retries[j].inv = i /\ retries[j].method # "none"})
            < Cardinality({n \in Attempt : charge[<<i, n>>] # "none"})
               \/ \A j \in Row : retries[j].inv = i => retries[j].method = "none"
=============================================================================
