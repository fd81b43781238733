---------------------------- MODULE BillingCycle ----------------------------
(***************************************************************************)
(* The billing cycle of one customer: drafts, finalization, credits and    *)
(* the advance of the subscription's period.                               *)
(*                                                                         *)
(* Runners execute the handler of billing.schedule.generate-invoices       *)
(* (InvoicesService.generateInvoicesForDueSubscriptions), handlers serve   *)
(* everything else that touches the same rows: messages of the monolith    *)
(* (subscription.create, payroll.calculated, invoice.create) and HTTP      *)
(* calls (subscription state, credit notes, voiding).  Values a process    *)
(* reads before an await and uses after it are fields of its task.         *)
(***************************************************************************)
EXTENDS Integers, Sequences, FiniteSets, Functions

CONSTANTS
    Sub,        \* subscription ids of the customer
    Enrolled,   \* those that exist at the start, with their first draft
    NoSub,      \* subscription_id of a standalone invoice: null
    Runner,     \* handlers of generate-invoices
    Handler,    \* message and HTTP handlers
    Request,    \* what handlers are asked to do, a subset of RequestKind
    Amount,     \* totals of drafts and payroll runs, in units of money
    Note,       \* amounts of credit notes, negative to lower a balance
    Faults,     \* the points at which a process may crash or an awaited call fail
    MaxRows,    \* bound: no request is taken with more invoices than this
    MaxGranted, \* bound: credit notes keep their sum within +/- this
    MaxPeriod   \* bound: no period that starts later comes due or is resumed at

RequestKind == {"paused", "canceled", "active", "past_due", "subscribe",
                "payroll", "invoice_now", "invoice_later", "credit", "void"}

ASSUME BillingAssumption ==
    /\ NoSub \notin Sub
    /\ Enrolled = {} \/ \E s \in Sub : Enrolled = {s}
    /\ Runner \cap Handler = {}
    /\ Request \subseteq RequestKind
    /\ Amount \subseteq Nat
    /\ Note \subseteq Int \ {0}
    /\ Faults \subseteq STRING
    /\ {MaxRows, MaxGranted, MaxPeriod} \subseteq Nat

Process == Runner \cup Handler

InvoiceStatus == {"draft", "finalized", "paid", "void"}

\* INVOICE_TRANSITIONS and SUBSCRIPTION_TRANSITIONS.  Subscriptions created over
\* HTTP start as "pending" and are out of everybody's reach until activated.
InvoiceTransitions == [draft     |-> {"finalized"},
                       finalized |-> {"paid", "void"},
                       paid      |-> {},
                       void      |-> {}]

SubscriptionTransitions == [none     |-> {},
                            active   |-> {"paused", "canceled", "past_due"},
                            paused   |-> {"active", "canceled"},
                            past_due |-> {"active", "canceled"},
                            canceled |-> {}]

SubscriptionStatus == DOMAIN SubscriptionTransitions

\* A period is named by its start; its end is the start of the next one.  Starts
\* are counted in half months, so that a resumption can fall inside a period.
Month == 2

VARIABLES
    subs,     \* [Sub -> [status, period, next]]   next: next_billing_date is set
    rows,     \* sequence of invoices in order of created_at
    ledger,   \* per invoice: its invoice entries, and what they leave receivable
    balance,  \* credit_balances.balance_cents
    granted,  \* sum of credit_notes.amount_cents
    applied,  \* sum of the credit_applied entries of the ledger
    batch,    \* [Runner -> [loop, items]]   what a generation still has to visit
    task      \* [Process -> record]   the operation a process is in

money == <<balance, granted, applied>>
vars  == <<subs, rows, ledger, money, batch, task>>

Invoice == [sub : Sub \cup {NoSub}, period : Nat, status : InvoiceStatus,
            items : Nat, credit : Nat, total : Int]

Idle == [pc |-> "idle"]

SetStatusTask == [pc : {"setStatus"}, sub : Sub, from : SubscriptionStatus,
                  to : SubscriptionStatus]
InsertTask    == [pc : {"insert"}, sub : Sub, period : Nat]

\* Row 0 stands for an invoice that the finalizing transaction will create.
\* "credit" is the balance of the customer while its invoice is settled, and then
\* what that invoice, the closing one, says was applied to it.
\* "after" is what a handler does once the customer's draft is voided.
Task ==
    {Idle}
    \cup [pc : {"finalize"}, row : Nat, sub : Sub \cup {NoSub}, period : Nat, total : Int]
    \cup [pc : {"settle"}, row : Nat, sub : Sub \cup {NoSub}, period : Nat,
          total : Int, credit : Int]
    \cup [pc : {"announce", "check", "reread", "advance", "seed", "fetch"},
          row : Nat, sub : Sub, period : Nat, credit : Nat]
    \cup SetStatusTask \cup InsertTask
    \cup [pc : {"findDraft"}, after : SetStatusTask \cup InsertTask]
    \cup [pc : {"voidDraft"}, row : Nat, after : SetStatusTask \cup InsertTask]
    \cup [pc : {"create", "resume", "load"}, sub : Sub]
    \cup [pc : {"findOpen"}, sub : Sub, period : Nat]
    \cup [pc : {"payroll"}]
    \cup [pc : {"rewrite", "readNew"}, row : Nat]
    \cup [pc : {"void"}, row : Nat, total : Int]

TypeOK ==
    /\ subs \in [Sub -> [status : SubscriptionStatus, period : Nat, next : BOOLEAN]]
    /\ rows \in Seq(Invoice)
    /\ ledger \in Seq([finalized : Nat, receivable : Int])
    /\ Len(ledger) = Len(rows)
    /\ {balance, granted, applied} \subseteq Int
    /\ batch \in [Runner -> [loop : {"none", "due"}, items : SUBSET (Sub \X Nat)]
                            \cup [loop : {"pending"}, items : SUBSET (Nat \X Int)]]
    /\ task \in [Process -> Task]

Draft(s, p, n) == [sub |-> s, period |-> p, status |-> "draft",
                   items |-> n, credit |-> 0, total |-> n]

\* A draft that has taken over a credit line of c from another invoice.
CreditedDraft(s, p, n, c) == [sub |-> s, period |-> p, status |-> "draft",
                              items |-> n, credit |-> c, total |-> n - c]

Unbooked == [finalized |-> 0, receivable |-> 0]

NoBatch == [loop |-> "none", items |-> {}]

\* At most one subscription is set up already, as subscription.create leaves it.
Init ==
    /\ subs = [s \in Sub |-> [status |-> IF s \in Enrolled THEN "active" ELSE "none",
                             period |-> 0, next |-> s \in Enrolled]]
    /\ IF Enrolled = {}
       THEN rows = <<>> /\ ledger = <<>>
       ELSE /\ \E s \in Enrolled, n \in Amount : rows = <<Draft(s, 0, n)>>
            /\ ledger = <<Unbooked>>
    /\ balance = 0 /\ granted = 0 /\ applied = 0
    /\ batch = [r \in Runner |-> NoBatch]
    /\ task = [a \in Process |-> Idle]

-----------------------------------------------------------------------------
(* Processes, and what the repositories' queries return *)

At(a, pc) == task[a].pc = pc
Go(a, t)  == task' = [task EXCEPT ![a] = t]

IsDraft(i)     == rows[i].status = "draft"
IsRecurring(i) == rows[i].sub # NoSub
IsBilled(i)    == rows[i].status \in {"finalized", "paid"}

\* invoicesRepository.findDuplicateForSubscription
OfPeriod(s, p) == {i \in DOMAIN rows : rows[i].sub = s /\ rows[i].period = p}

Drafts     == {i \in DOMAIN rows : IsDraft(i)}
OpenDrafts == {i \in Drafts : IsRecurring(i)}

Oldest(I) == CHOOSE i \in I : \A j \in I : i <= j
Newest(I) == CHOOSE i \in I : \A j \in I : i >= j

Insert(draft) ==
    /\ rows' = Append(rows, draft)
    /\ ledger' = Append(ledger, Unbooked)

InsertDraft(s, p, n) == Insert(Draft(s, p, n))

Finalizing(i, s, p, n) ==
    [pc |-> "finalize", row |-> i, sub |-> s, period |-> p, total |-> n]

\* The runner goes on with the invoice it has settled, a new one if it had none.
Announcing(a) ==
    [pc |-> "announce", row |-> IF task[a].row = 0 THEN Len(rows) + 1 ELSE task[a].row,
     sub |-> task[a].sub, period |-> task[a].period, credit |-> 0]

-----------------------------------------------------------------------------
(* Seeded faults: what each property is tested against.  None is part of Next. *)

\* A draft of the period is finalized before the billed invoices are looked at.
PickDraftFirst(r, s, p) ==
    \E i \in OfPeriod(s, p) \cap Drafts : Go(r, Finalizing(i, s, p, rows[i].total))

\* The ledger takes any amount.
CreditNeverRefused(t) == FALSE

\* The remainder computed from the balance read is written back.
WriteRemainder(t) ==
    LET used == IF t.credit <= t.total THEN t.credit ELSE t.total IN
    /\ balance' = t.credit - used
    /\ applied' = applied + used
    /\ UNCHANGED granted

\* The credit line is added, the total is left.
SettledAtFullPrice(v, t) ==
    LET used == IF t.credit <= t.total THEN t.credit ELSE t.total
    IN  [v EXCEPT !.status = IF t.total = used THEN "paid" ELSE "finalized",
                  !.credit = @ + used]

\* An invoice paid by credit ends the iteration.
AfterSettleUnlessPaid(a) ==
    IF a \in Runner /\ task[a].sub # NoSub /\ task[a].credit < task[a].total
    THEN Announcing(a)
    ELSE Idle

\* The advance goes on, to catch up with the calendar.
SeedDraftCatchingUp(r) ==
    /\ At(r, "fetch")
    /\ \E n \in Amount : InsertDraft(task[r].sub, task[r].period, n)
    /\ Go(r, [task[r] EXCEPT !.pc = "reread"])
    /\ UNCHANGED <<subs, money, batch>>

-----------------------------------------------------------------------------
(* Generation: due subscriptions *)

\* findDueForBilling.  Which of the dates have come is left open.
Billable == {s \in Sub : /\ subs[s].status = "active"
                         /\ subs[s].next
                         /\ subs[s].period <= MaxPeriod}

StartGeneration(r) ==
    /\ batch[r] = NoBatch
    /\ \E due \in SUBSET Billable :
         batch' = [batch EXCEPT ![r] =
                     [loop |-> "due", items |-> {<<s, subs[s].period>> : s \in due}]]
    /\ UNCHANGED <<subs, rows, ledger, money, task>>

Visiting(r, loop, item) ==
    /\ batch[r].loop = loop
    /\ At(r, "idle")
    /\ item \in batch[r].items
    /\ batch' = [batch EXCEPT ![r].items = @ \ {item}]

\* The period is billed already, or its only invoices are void.
SkipPeriod(r, s, p) ==
    LET found == OfPeriod(s, p) IN
    /\ \/ \E i \in found : IsBilled(i)
       \/ found # {} /\ \A i \in found : rows[i].status = "void"
    /\ UNCHANGED task

\* finalizeDraftForSubscription, with the draft as it was read.
PickDraft(r, s, p) ==
    LET found == OfPeriod(s, p) IN
    /\ \A i \in found : ~IsBilled(i)
    /\ \E i \in found \cap Drafts : Go(r, Finalizing(i, s, p, rows[i].total))

\* createInvoiceForSubscription
PickMissing(r, s, p) ==
    /\ OfPeriod(s, p) = {}
    /\ \E n \in Amount : Go(r, Finalizing(0, s, p, n))

VisitSubscription(r) ==
    /\ \E due \in batch[r].items :
         /\ Visiting(r, "due", due)
         /\ \/ SkipPeriod(r, due[1], due[2])
            \/ PickDraft(r, due[1], due[2])
            \/ PickMissing(r, due[1], due[2])
    /\ UNCHANGED <<subs, rows, ledger, money>>

-----------------------------------------------------------------------------
(* Generation: standalone drafts that are due *)

\* findPendingOnboarding, with the totals as they were read.
EndSubscriptions(r) ==
    /\ batch[r] = [loop |-> "due", items |-> {}]
    /\ At(r, "idle")
    /\ \E due \in SUBSET {i \in Drafts : ~IsRecurring(i)} :
         batch' = [batch EXCEPT ![r] =
                     [loop |-> "pending", items |-> {<<i, rows[i].total>> : i \in due}]]
    /\ UNCHANGED <<subs, rows, ledger, money, task>>

VisitStandalone(r) ==
    /\ \E due \in batch[r].items :
         /\ Visiting(r, "pending", due)
         /\ Go(r, Finalizing(due[1], NoSub, 0, due[2]))
    /\ UNCHANGED <<subs, rows, ledger, money>>

EndGeneration(r) ==
    /\ batch[r] = [loop |-> "pending", items |-> {}]
    /\ At(r, "idle")
    /\ batch' = [batch EXCEPT ![r] = NoBatch]
    /\ UNCHANGED <<subs, rows, ledger, money, task>>

-----------------------------------------------------------------------------
(* The finalizing transaction *)

\* Its first read: the balance, without a lock.
ReadCredit(a) ==
    /\ At(a, "finalize")
    /\ Go(a, [pc |-> "settle", row |-> task[a].row, sub |-> task[a].sub,
              period |-> task[a].period, total |-> task[a].total, credit |-> balance])
    /\ UNCHANGED <<subs, rows, ledger, money, batch>>

\* Math.min(balance.balanceCents, invoiceTotalCents), if there is a balance.
CreditToApply(t) == IF t.credit = 0 \/ t.credit <= t.total THEN t.credit ELSE t.total

\* The ledger refuses entries that are not positive, which ends the transaction.
CreditRefused(t) == t.credit # 0 /\ CreditToApply(t) <= 0

SettleThrows(a) ==
    /\ At(a, "settle")
    /\ CreditRefused(task[a])
    /\ Go(a, Idle)
    /\ UNCHANGED <<subs, rows, ledger, money, batch>>

\* What the transaction leaves of invoice v; v's own status is not looked at.
Settled(v, t) ==
    LET due == t.total - CreditToApply(t)
    IN  [v EXCEPT !.status = IF due = 0 THEN "paid" ELSE "finalized",
                  !.credit = @ + CreditToApply(t),
                  !.total  = due]

\* recordInvoiceFinalized, skipped if nothing is due.
Finalized(e, due) ==
    IF due <= 0 THEN e ELSE [e EXCEPT !.finalized = @ + 1, !.receivable = @ + due]

DeductCredit(t) ==
    /\ balance' = balance - CreditToApply(t)
    /\ applied' = applied + CreditToApply(t)
    /\ UNCHANGED granted

\* The scheduler's loop over subscriptions publishes and advances after it.
AfterSettle(a) ==
    IF a \in Runner /\ task[a].sub # NoSub
    THEN Announcing(a)
    ELSE Idle

Settle(a) ==
    LET t   == task[a]
        due == t.total - CreditToApply(t)
    IN
    /\ At(a, "settle")
    /\ ~CreditRefused(t)
    /\ IF t.row = 0
       THEN /\ rows' = Append(rows, Settled(Draft(t.sub, t.period, t.total), t))
            /\ ledger' = Append(ledger, Finalized(Unbooked, due))
       ELSE /\ rows' = [rows EXCEPT ![t.row] = Settled(@, t)]
            /\ ledger' = [ledger EXCEPT ![t.row] = Finalized(@, due)]
    /\ DeductCredit(t)
    /\ Go(a, AfterSettle(a))
    /\ UNCHANGED <<subs, batch>>

-----------------------------------------------------------------------------
(* Publishing, then advanceAndSeedNextDraft *)

Step(r, from, to) ==
    /\ At(r, from)
    /\ Go(r, [task[r] EXCEPT !.pc = to])
    /\ UNCHANGED <<rows, ledger, money, batch>>

\* invoice.created or invoice.paid, then the payment, whose failure is caught.
Announce(r) == Step(r, "announce", "check") /\ UNCHANGED subs

\* The closing invoice is read with its lines, then the subscription.
AlreadyAdvanced(r) ==
    /\ At(r, "check")
    /\ subs[task[r].sub].period > task[r].period
    /\ Go(r, Idle)
    /\ UNCHANGED <<subs, rows, ledger, money, batch>>

CheckPeriod(r) ==
    /\ At(r, "check")
    /\ subs[task[r].sub].period <= task[r].period
    /\ Go(r, [task[r] EXCEPT !.pc = "reread", !.credit = rows[task[r].row].credit])
    /\ UNCHANGED <<subs, rows, ledger, money, batch>>

\* advanceBillingPeriod reads the subscription again ...
ReadPeriod(r) ==
    /\ At(r, "reread")
    /\ Go(r, [task[r] EXCEPT !.pc = "advance", !.period = subs[task[r].sub].period])
    /\ UNCHANGED <<subs, rows, ledger, money, batch>>

\* ... and writes, whatever the subscription has become.
AdvancePeriod(r) ==
    LET p == task[r].period + Month IN
    /\ At(r, "advance")
    /\ subs' = [subs EXCEPT ![task[r].sub].period = p, ![task[r].sub].next = TRUE]
    /\ Go(r, [task[r] EXCEPT !.pc = "seed", !.period = p])
    /\ UNCHANGED <<rows, ledger, money, batch>>

\* draftExistsForSubscriptionPeriod
HasDraft(s, p) == OfPeriod(s, p) \cap Drafts # {}

SkipSeed(r) ==
    /\ At(r, "seed")
    /\ HasDraft(task[r].sub, task[r].period)
    /\ Go(r, Idle)
    /\ UNCHANGED <<subs, rows, ledger, money, batch>>

CheckDraft(r) ==
    /\ At(r, "seed")
    /\ ~HasDraft(task[r].sub, task[r].period)
    /\ Step(r, "seed", "fetch")
    /\ UNCHANGED subs

\* The monolith's payroll, or, when it cannot be had, the lines of the closing
\* invoice but its surcharge: salaries and fees without what was added for one
\* month, and the credit line, whose credit is neither in the balance nor applied.
SeedDraft(r) ==
    LET t == task[r] IN
    /\ At(r, "fetch")
    /\ \E n \in Amount :
         \/ InsertDraft(t.sub, t.period, n)
         \/ Insert(CreditedDraft(t.sub, t.period, n, t.credit))
    /\ Go(r, Idle)
    /\ UNCHANGED <<subs, money, batch>>

-----------------------------------------------------------------------------
(* Subscription state: SubscriptionsService.updateState *)

Asked(h, request) ==
    /\ request \in Request
    /\ At(h, "idle")
    /\ Len(rows) <= MaxRows

BeginUpdate(h) ==
    /\ \E s \in Sub : \E to \in SubscriptionTransitions[subs[s].status] :
         LET set == [pc |-> "setStatus", sub |-> s, from |-> subs[s].status, to |-> to]
         IN  /\ Asked(h, to)
             /\ Go(h, IF to \in {"paused", "canceled"}
                      THEN [pc |-> "findDraft", after |-> set]
                      ELSE set)
    /\ UNCHANGED <<subs, rows, ledger, money, batch>>

\* voidDraftInvoicesForCustomer: the customer's oldest draft of any type ...
FindDraft(h) ==
    /\ At(h, "findDraft")
    /\ Go(h, IF Drafts = {}
             THEN task[h].after
             ELSE [pc |-> "voidDraft", row |-> Oldest(Drafts), after |-> task[h].after])
    /\ UNCHANGED <<subs, rows, ledger, money, batch>>

\* ... is voided, whatever it has become.
VoidDraft(h) ==
    /\ At(h, "voidDraft")
    /\ rows' = [rows EXCEPT ![task[h].row].status = "void"]
    /\ Go(h, task[h].after)
    /\ UNCHANGED <<subs, ledger, money, batch>>

\* A resumed subscription starts a period now; no invoice has that start yet.
FreshPeriods(s) == {p \in 0..MaxPeriod : OfPeriod(s, p) = {}}

NewState(s, from, to) ==
    IF to \in {"paused", "canceled"} THEN {[subs[s] EXCEPT !.status = to, !.next = FALSE]}
    ELSE IF from = "paused"
    THEN {[status |-> to, period |-> p, next |-> TRUE] : p \in FreshPeriods(s)}
    ELSE {[subs[s] EXCEPT !.status = to]}

SetStatus(h) ==
    LET t == task[h] IN
    /\ At(h, "setStatus")
    /\ IF subs[t.sub].status = t.from
       THEN \E new \in NewState(t.sub, t.from, t.to) : subs' = [subs EXCEPT ![t.sub] = new]
       ELSE UNCHANGED subs
    /\ Go(h, Idle)
    /\ UNCHANGED <<rows, ledger, money, batch>>

-----------------------------------------------------------------------------
(* subscription.create *)

\* A paused subscription of the customer is resumed, else a new one is created.
BeginSubscribe(h) ==
    /\ Asked(h, "subscribe")
    /\ \E s \in Sub :
         \/ /\ subs[s].status = "paused"
            /\ Go(h, [pc |-> "resume", sub |-> s])
         \/ /\ \A t \in Sub : subs[t].status # "paused"
            /\ subs[s].status = "none"
            /\ \A g \in Handler : task[g] # [pc |-> "create", sub |-> s]
            /\ Go(h, [pc |-> "create", sub |-> s])
    /\ UNCHANGED <<subs, rows, ledger, money, batch>>

\* billingStartDate is the monolith's choice.  A failed check is not noticed.
ResumeSubscription(h) ==
    LET s == task[h].sub IN
    /\ At(h, "resume")
    /\ \/ /\ subs[s].status = "paused"
          /\ \E p \in 0..MaxPeriod :
               subs' = [subs EXCEPT ![s] = [status |-> "active", period |-> p, next |-> TRUE]]
       \/ subs[s].status # "paused" /\ UNCHANGED subs
    /\ Go(h, [pc |-> "load", sub |-> s])
    /\ UNCHANGED <<rows, ledger, money, batch>>

CreateSubscription(h) ==
    LET s == task[h].sub IN
    /\ At(h, "create")
    /\ subs' = [subs EXCEPT ![s] = [status |-> "active", period |-> 0, next |-> TRUE]]
    /\ Go(h, [pc |-> "load", sub |-> s])
    /\ UNCHANGED <<rows, ledger, money, batch>>

LoadSubscription(h) ==
    /\ At(h, "load")
    /\ Go(h, [pc |-> "findOpen", sub |-> task[h].sub, period |-> subs[task[h].sub].period])
    /\ UNCHANGED <<subs, rows, ledger, money, batch>>

\* findOpenRecurringDraft: rewritten if it is this subscription's; if it is
\* another's, "the" draft of the customer is voided before one is created.
FindOpen(h) ==
    LET t      == task[h]
        insert == [pc |-> "insert", sub |-> t.sub, period |-> t.period]
    IN
    /\ At(h, "findOpen")
    /\ Go(h, IF OpenDrafts = {} THEN insert
             ELSE IF rows[Newest(OpenDrafts)].sub = t.sub THEN [pc |-> "payroll"]
             ELSE [pc |-> "findDraft", after |-> insert])
    /\ UNCHANGED <<subs, rows, ledger, money, batch>>

CreateDraft(h) ==
    /\ At(h, "insert")
    /\ \E n \in Amount : InsertDraft(task[h].sub, task[h].period, n)
    /\ Go(h, Idle)
    /\ UNCHANGED <<subs, money, batch>>

-----------------------------------------------------------------------------
(* payroll.calculated: applyPayrollUpdate, updateOpenInvoiceLineItems *)

BeginPayroll(h) ==
    /\ Asked(h, "payroll")
    /\ \E s \in Sub : subs[s].status = "active"
    /\ Go(h, [pc |-> "payroll"])
    /\ UNCHANGED <<subs, rows, ledger, money, batch>>

\* No open draft, or more than one: nothing is rewritten.
FindOpenDraft(h) ==
    /\ At(h, "payroll")
    /\ Go(h, IF Cardinality(OpenDrafts) = 1
             THEN [pc |-> "rewrite", row |-> Newest(OpenDrafts)]
             ELSE Idle)
    /\ UNCHANGED <<subs, rows, ledger, money, batch>>

\* All line items are replaced, those of applied credit too.
Rewrite(h) ==
    /\ At(h, "rewrite")
    /\ \E n \in Amount :
         rows' = [rows EXCEPT ![task[h].row].items = n,
                              ![task[h].row].credit = 0,
                              ![task[h].row].total = n]
    /\ Go(h, Idle)
    /\ UNCHANGED <<subs, ledger, money, batch>>

-----------------------------------------------------------------------------
(* invoice.create, credit notes, voiding, payment *)

\* createFromEvent; an invoice that is due is finalized and charged at once.
CreateStandalone(h) ==
    /\ \E n \in Amount : InsertDraft(NoSub, 0, n)
    /\ \/ Asked(h, "invoice_later") /\ Go(h, Idle)
       \/ Asked(h, "invoice_now") /\ Go(h, [pc |-> "readNew", row |-> Len(rows) + 1])
    /\ UNCHANGED <<subs, money, batch>>

\* finalizeAndCharge validates the status it reads here.
FinalizeAndCharge(h) ==
    LET i == task[h].row IN
    /\ At(h, "readNew")
    /\ Go(h, IF IsDraft(i) THEN Finalizing(i, NoSub, 0, rows[i].total) ELSE Idle)
    /\ UNCHANGED <<subs, rows, ledger, money, batch>>

\* issueCreditNote is one transaction.
IssueCreditNote(h) ==
    /\ Asked(h, "credit")
    /\ \E n \in Note :
         /\ granted + n \in -MaxGranted..MaxGranted
         /\ balance' = balance + n
         /\ granted' = granted + n
    /\ UNCHANGED <<subs, rows, ledger, applied, batch, task>>

\* voidInvoice reads the invoice ...
BeginVoid(h) ==
    /\ Asked(h, "void")
    /\ \E i \in DOMAIN rows :
         /\ rows[i].status = "finalized"
         /\ Go(h, [pc |-> "void", row |-> i, total |-> rows[i].total])
    /\ UNCHANGED <<subs, rows, ledger, money, batch>>

\* ... and closes it with the reversal, if it is still finalized and the ledger
\* takes the amount.
Voidable(t) == rows[t.row].status = "finalized" /\ t.total > 0

VoidInvoice(h) ==
    LET i == task[h].row IN
    /\ At(h, "void")
    /\ \/ /\ Voidable(task[h])
          /\ rows' = [rows EXCEPT ![i].status = "void"]
          /\ ledger' = [ledger EXCEPT ![i].receivable = @ - task[h].total]
       \/ ~Voidable(task[h]) /\ UNCHANGED <<rows, ledger>>
    /\ Go(h, Idle)
    /\ UNCHANGED <<subs, money, batch>>

\* The payment of a finalized invoice, see Collection.  None is made of less than 0.
Pay(i) ==
    /\ rows[i].status = "finalized"
    /\ rows[i].total >= 0
    /\ rows' = [rows EXCEPT ![i].status = "paid"]
    /\ UNCHANGED <<subs, ledger, money, batch, task>>

-----------------------------------------------------------------------------
(* Faults and the specification *)

\* An awaited call throws.  The loops of a generation catch it and go on.
Throws(a) ==
    /\ task[a].pc \in Faults
    /\ Go(a, Idle)
    /\ UNCHANGED <<subs, rows, ledger, money, batch>>

Crash(r) ==
    /\ task[r].pc \in Faults
    /\ batch' = [batch EXCEPT ![r] = NoBatch]
    /\ Go(r, Idle)
    /\ UNCHANGED <<subs, rows, ledger, money>>

Finalization(a) == ReadCredit(a) \/ Settle(a) \/ SettleThrows(a)

Advance(r) ==
    \/ Announce(r) \/ AlreadyAdvanced(r) \/ CheckPeriod(r) \/ ReadPeriod(r)
    \/ AdvancePeriod(r) \/ SkipSeed(r) \/ CheckDraft(r) \/ SeedDraft(r)

Generate(r) ==
    \/ VisitSubscription(r) \/ EndSubscriptions(r)
    \/ VisitStandalone(r) \/ EndGeneration(r)
    \/ Finalization(r) \/ Advance(r)

Handle(h) ==
    \/ BeginUpdate(h) \/ FindDraft(h) \/ VoidDraft(h) \/ SetStatus(h)
    \/ BeginSubscribe(h) \/ ResumeSubscription(h) \/ CreateSubscription(h)
    \/ LoadSubscription(h) \/ FindOpen(h) \/ CreateDraft(h)
    \/ BeginPayroll(h) \/ FindOpenDraft(h) \/ Rewrite(h)
    \/ CreateStandalone(h) \/ FinalizeAndCharge(h) \/ Finalization(h)
    \/ IssueCreditNote(h) \/ BeginVoid(h) \/ VoidInvoice(h)

Next ==
    \/ \E r \in Runner : StartGeneration(r) \/ Generate(r) \/ Crash(r)
    \/ \E h \in Handler : Handle(h)
    \/ \E a \in Process : Throws(a)
    \/ \E i \in DOMAIN rows : Pay(i)

Spec == Init /\ [][Next]_vars

\* A process goes on with the promise chain it is in.
Fairness == \A r \in Runner : WF_vars(Generate(r))

FairSpec == Spec /\ Fairness

-----------------------------------------------------------------------------
(* Properties *)

\* A period of a subscription has one invoice that asks for money or got it,
\* whatever was redelivered, resumed or voided meanwhile; this is what the
\* existingBilled test of the scheduler is for.  It needs one runner.
BilledOnce ==
    \A i, j \in DOMAIN rows :
        /\ IsRecurring(i) /\ i # j
        /\ rows[i].sub = rows[j].sub /\ rows[i].period = rows[j].period
        => ~(IsBilled(i) /\ IsBilled(j))

\* A recurring invoice enters the receivables once, although the finalizing
\* update does not look at the status it replaces.
RecurringFinalizedOnce ==
    \A i \in DOMAIN rows : IsRecurring(i) => ledger[i].finalized <= 1

\* The running balance is what the notes granted less what the ledger says was
\* applied, although finalizations and notes of a customer run concurrently.
CreditConserved == balance = granted - applied

\* The ledger's receivable of an invoice is what the invoice asks for, nothing if
\* that is less than 0, and the invoice asks for the sum of its lines, those of
\* credit included, wherever the draft came from.
LedgerMatchesInvoice ==
    \A i \in DOMAIN rows :
        /\ rows[i].total = rows[i].items - rows[i].credit
        /\ ledger[i].receivable =
             IF IsBilled(i) /\ rows[i].total > 0 THEN rows[i].total ELSE 0

\* "Last cycle's recurring components and zeroed one-time adjustments" make up the
\* draft of the next cycle: no invoice shows credit that was not applied to it.
CreditShownOnce ==
    SumFunctionOnSet([i \in DOMAIN rows |-> rows[i].credit], DOMAIN rows) = applied

\* An invoice that left draft keeps its amounts: "finalized, paid, and voided
\* invoices are immutable" for payroll.
ClosedIsImmutable ==
    [][\A i \in DOMAIN rows :
         ~IsDraft(i) => /\ rows'[i].items = rows[i].items
                        /\ rows'[i].total = rows[i].total]_vars

\* A subscription leaves a period only after an invoice for it was finalized.
NoPeriodSkipped ==
    [][\A s \in Sub :
         subs'[s].period # subs[s].period
           => \E i \in OfPeriod(s, subs[s].period) : ~IsDraft(i)]_vars

\* A billed subscription gets the draft of its next period.
StandingDraft ==
    \A s \in Sub :
        (\E i \in OfPeriod(s, subs[s].period) : IsBilled(i))
            ~> HasDraft(s, subs[s].period)
=============================================================================
