------------------------------ MODULE Account ------------------------------
(* A customer's account: the customer row and the payment method rows beside *)
(* the gateway's copies of them, the surcharge setting, and the drafts whose *)
(* surcharge is kept up to date (customers, payment-methods, surcharges, the *)
(* monolith consumer, the mandate webhook, onboarding charges).  Requests    *)
(* over HTTP and the consumer of the monolith's messages run side by side;   *)
(* messages come in any order and again until they are marked as processed;  *)
(* a handler may die between any two of its steps.                           *)
EXTENDS Integers, FiniteSets, SequencesExt

CONSTANTS
  Method,       \* payment methods, by their id at the gateway
  Bank,         \* those that are bank accounts; the others are cards
  Message,      \* the monolith's messages: records of a type and a value
  Request,      \* concurrent HTTP requests
  Consumer,     \* consumers of the inbound queue
  Nothing,      \* no method, no message
  RequestsFail, \* whether a request may die or throw between its steps
  MaxMessages,  \* bound on the messages that reach a consumer
  MaxCustomers, \* bound on the customers created at the gateway
  MaxInvoices   \* bound on the invoices

ASSUME AccountAssumption ==
  /\ Bank \subseteq Method /\ Nothing \notin Method
  /\ Request \cap Consumer = {}
  /\ RequestsFail \in BOOLEAN /\ {MaxMessages, MaxCustomers, MaxInvoices} \subseteq Nat
  /\ Nothing \notin Message
  /\ \A m \in Message :
       \/ m.type \in {"customer.created", "invoice.create"}
       \/ m.type = "customer.updated" /\ m.value \in Nat
       \/ m.type = "surcharge-config.updated" /\ m.value \in BOOLEAN
       \/ m.type = "mandate.updated" /\ m.value \in Method \cup {Nothing}

VARIABLES
  customer,   \* the row: whether it is there, and which name it has
  gateway,    \* the gateway's customers, name, and methods: attached,
              \* detached for good, and the default
  method,     \* payment method rows
  order,      \* methods in the order their rows were created
  surcharged, \* whether a surcharge is set up for the customer's cards
  invoices,   \* the customer's standing invoices, oldest first
  job,        \* control state of requests and consumers
  delivered,  \* messages that have reached a consumer
  processed   \* messages marked as processed

vars == <<customer, gateway, method, order, surcharged, invoices, job, delivered, processed>>
rows == <<method, order>>
drafts == <<surcharged, invoices>>
messages == <<delivered, processed>>

Actor == Request \cup Consumer
NoJob == [pc |-> "idle", op |-> "none", pm |-> Nothing, next |-> Nothing,
          first |-> FALSE, message |-> Nothing, invoice |-> 0, extra |-> FALSE]

\* Types, and that a method has at most one row: the unique index on its id.
TypeOK ==
  /\ customer \in [exists: BOOLEAN, name: Nat]
  /\ gateway \in [customers: 0..MaxCustomers, name: Nat,
                  attached: SUBSET Method, gone: SUBSET Method, default: Method \cup {Nothing}]
  /\ method \in [Method -> [status: {"none", "active", "detached"}, default: BOOLEAN]]
  /\ order \in Seq(Method) /\ IsInjective(order)
  /\ surcharged \in BOOLEAN
  /\ invoices \in Seq([purpose: {"cycle", "onboarding", "one_time"},
                       type: {"recurring", "onboarding", "one_time"},
                       status: {"draft", "finalized"},
                       due: BOOLEAN, extra: BOOLEAN, booked: BOOLEAN])
  /\ \A a \in Actor : job[a].invoice \in 0..Len(invoices) /\ job[a].extra \in BOOLEAN
  /\ processed \subseteq delivered /\ delivered \subseteq Message

Init ==
  /\ customer = [exists |-> FALSE, name |-> 0]
  /\ gateway = [customers |-> 0, name |-> 0, attached |-> {}, gone |-> {}, default |-> Nothing]
  /\ method = [m \in Method |-> [status |-> "none", default |-> FALSE]]
  /\ order = <<>>
  /\ surcharged = FALSE
  /\ invoices = <<>>
  /\ job = [a \in Actor |-> NoJob]
  /\ delivered = {} /\ processed = {}

At(a, pc) == job[a].pc = pc
Go(a, pc) == job' = [job EXCEPT ![a].pc = pc]
\* An exception: a request answers an error, a message stays unmarked.
Throw(a) == job' = [job EXCEPT ![a] = NoJob]
\* A request answers; a consumer goes on to mark its message.
Return(a) == job' = [job EXCEPT ![a] =
  IF a \in Consumer THEN [NoJob EXCEPT !.pc = "mark", !.message = job[a].message] ELSE NoJob]

----------------------------------------------------------------------------
(* Payment methods: the rows, and the gateway's side of them.               *)

Active == {m \in Method : method[m].status = "active"}
ActiveDefault == {m \in Active : method[m].default}
\* The oldest active method other than `m`, for `findNextDefault`.
NextDefault(m) ==
  LET others == {i \in DOMAIN order : order[i] \in Active \ {m}}
  IN IF others = {} THEN Nothing ELSE order[Min(others)]

\* The gateway makes an attached method the default, and refuses any other.
GatewayDefault(r, m, pc) ==
  IF m \in gateway.attached
  THEN gateway' = [gateway EXCEPT !.default = m] /\ Go(r, pc)
  ELSE UNCHANGED gateway /\ Throw(r)
\* A detached method can never be attached again.
Detached(m) == [gateway EXCEPT !.attached = @ \ {m}, !.gone = @ \cup {m},
                               !.default = IF @ = m THEN Nothing ELSE @]

\* `attach`: the gateway first.  A bank account is refused only after that.
Attach(r, m) ==
  /\ At(r, "idle") /\ customer.exists /\ m \notin gateway.gone
  /\ gateway' = [gateway EXCEPT !.attached = @ \cup {m}]
  /\ job' = [job EXCEPT ![r] = IF m \in Bank THEN NoJob
                               ELSE [NoJob EXCEPT !.pc = "look", !.op = "attach", !.pm = m]]
  /\ UNCHANGED <<customer, rows, drafts, messages>>

\* `confirmSetupAndAttach`: the confirmation attaches a card or bank account;
\* a method that is active already is refused.
ConfirmSetup(r, m) ==
  /\ At(r, "idle") /\ customer.exists /\ m \notin gateway.gone
  /\ gateway' = [gateway EXCEPT !.attached = @ \cup {m}]
  /\ job' = [job EXCEPT ![r] = IF m \in Active THEN NoJob
                               ELSE [NoJob EXCEPT !.pc = "look", !.op = "confirm", !.pm = m]]
  /\ UNCHANGED <<customer, rows, drafts, messages>>

\* Whether the method becomes the default: for `attach` when none is active,
\* for a confirmed setup when none is the active default.
LookForFirst(r) ==
  /\ At(r, "look")
  /\ LET first == IF job[r].op = "attach" THEN Active = {} ELSE ActiveDefault = {}
     IN job' = [job EXCEPT ![r].first = first, ![r].pc = IF first THEN "prefer" ELSE "insert"]
  /\ UNCHANGED <<customer, gateway, rows, drafts, messages>>

PreferFirst(r) ==
  /\ At(r, "prefer") /\ GatewayDefault(r, job[r].pm, "insert")
  /\ UNCHANGED <<customer, rows, drafts, messages>>

\* Mutant: without the unique index.
InsertMethodAgain(r) ==
  /\ At(r, "insert")
  /\ method' = [method EXCEPT ![job[r].pm] = [status |-> "active", default |-> job[r].first]]
  /\ order' = Append(order, job[r].pm)
  /\ Return(r)
  /\ UNCHANGED <<customer, gateway, drafts, messages>>

\* The insert throws on a method that ever had a row; only a confirmed setup
\* that made its method the default has the surcharge recalculated.
InsertMethod(r) ==
  /\ At(r, "insert")
  /\ LET m == job[r].pm
     IN IF method[m].status # "none"
        THEN Throw(r) /\ UNCHANGED rows
        ELSE /\ method' = [method EXCEPT ![m] = [status |-> "active", default |-> job[r].first]]
             /\ order' = Append(order, m)
             /\ IF job[r].op = "confirm" /\ job[r].first THEN Go(r, "recalculate") ELSE Return(r)
  /\ UNCHANGED <<customer, gateway, drafts, messages>>

\* `detach` and `setDefault` find an active row; what they read of it stays.
FindMethod(r, op, m) ==
  /\ At(r, "idle") /\ customer.exists /\ m \in Active
  /\ job' = [job EXCEPT ![r] =
       [NoJob EXCEPT !.pc = op, !.op = op, !.pm = m, !.first = method[m].default]]
  /\ UNCHANGED <<customer, gateway, rows, drafts, messages>>

DetachAtGateway(r) ==
  /\ At(r, "detach")
  /\ IF job[r].pm \in gateway.attached
     THEN gateway' = Detached(job[r].pm) /\ Go(r, IF job[r].first THEN "next" ELSE "detached")
     ELSE UNCHANGED gateway /\ Throw(r)
  /\ UNCHANGED <<customer, rows, drafts, messages>>

FindNext(r) ==
  /\ At(r, "next")
  /\ LET next == NextDefault(job[r].pm)
     IN job' = [job EXCEPT ![r].next = next,
                           ![r].pc = IF next = Nothing THEN "detached" ELSE "prefer next"]
  /\ UNCHANGED <<customer, gateway, rows, drafts, messages>>

\* Mutant: the next default is not set at the gateway.
PreferNextInRowsOnly(r) ==
  /\ At(r, "prefer next") /\ Go(r, "mark next")
  /\ UNCHANGED <<customer, gateway, rows, drafts, messages>>

PreferNext(r) ==
  /\ At(r, "prefer next") /\ GatewayDefault(r, job[r].next, "mark next")
  /\ UNCHANGED <<customer, rows, drafts, messages>>

MarkNext(r) ==
  /\ At(r, "mark next") /\ Go(r, "detached")
  /\ method' = [method EXCEPT ![job[r].next].default = TRUE]
  /\ UNCHANGED <<customer, gateway, order, drafts, messages>>

MarkDetached(r) ==
  /\ At(r, "detached") /\ Go(r, "recalculate")
  /\ method' = [method EXCEPT ![job[r].pm] = [status |-> "detached", default |-> FALSE]]
  /\ UNCHANGED <<customer, gateway, order, drafts, messages>>

Prefer(r) ==
  /\ At(r, "set default") /\ GatewayDefault(r, job[r].pm, "clear")
  /\ UNCHANGED <<customer, rows, drafts, messages>>

Cleared == [m \in Method |-> [method[m] EXCEPT !.default = FALSE]]
\* Mutant of ClearDefaults: the defaults stay.
KeepDefaults(r) ==
  /\ At(r, "clear") /\ Go(r, "mark default")
  /\ UNCHANGED <<customer, gateway, rows, drafts, messages>>

ClearDefaults(r) ==
  /\ At(r, "clear") /\ method' = Cleared /\ Go(r, "mark default")
  /\ UNCHANGED <<customer, gateway, order, drafts, messages>>

\* The row is updated whatever its status has become.
MarkDefault(r) ==
  /\ At(r, "mark default") /\ Go(r, "recalculate")
  /\ method' = [method EXCEPT ![job[r].pm].default = TRUE]
  /\ UNCHANGED <<customer, gateway, order, drafts, messages>>

----------------------------------------------------------------------------
(* Surcharge: added for a default card of a customer with a setting.        *)

SurchargeDue == surcharged /\ ActiveDefault \ Bank # {}
OpenRecurringDrafts == {i \in DOMAIN invoices :
  invoices[i].status = "draft" /\ invoices[i].type = "recurring"}

\* `recalculateSurchargeOnOpenInvoice` reads the newest recurring draft, its
\* items, the default method and the setting ...
ReadOpenInvoice(a) ==
  /\ At(a, "recalculate")
  /\ IF OpenRecurringDrafts = {} THEN Return(a)
     ELSE job' = [job EXCEPT ![a].pc = "rewrite", ![a].extra = SurchargeDue,
                             ![a].invoice = Max(OpenRecurringDrafts)]
  /\ UNCHANGED <<customer, gateway, rows, drafts, messages>>

\* ... and rewrites items and total later, whatever became of the invoice.
RewriteSurcharge(a) ==
  /\ At(a, "rewrite") /\ Return(a)
  /\ invoices' = [invoices EXCEPT ![job[a].invoice].extra = job[a].extra]
  /\ UNCHANGED <<customer, gateway, rows, surcharged, messages>>

\* A new invoice: the type of an onboarding charge is left to the column's
\* default, which is "recurring"; a cycle's surcharge is due when it is made.
NewInvoice(purpose) ==
  [purpose |-> purpose, type |-> IF purpose = "one_time" THEN "one_time" ELSE "recurring",
   status |-> "draft", due |-> FALSE, extra |-> purpose = "cycle" /\ SurchargeDue, booked |-> FALSE]
CreateInvoice(purpose) ==
  Len(invoices) < MaxInvoices /\ invoices' = Append(invoices, NewInvoice(purpose))

\* A subscription's draft for a cycle, or `createOnboardingCharge`.
CreateDraft ==
  /\ customer.exists /\ \E purpose \in {"cycle", "onboarding"} : CreateInvoice(purpose)
  /\ UNCHANGED <<customer, gateway, rows, surcharged, job, messages>>

\* The surcharge is stripped, computed again and booked with the receivable.
Settled(i) ==
  [i EXCEPT !.status = "finalized", !.extra = SurchargeDue, !.booked = SurchargeDue]

FinalizeCycle(i) ==
  /\ invoices[i].purpose = "cycle" /\ invoices[i].status = "draft"
  /\ invoices' = [invoices EXCEPT ![i] = Settled(@)]
  /\ UNCHANGED <<customer, gateway, rows, surcharged, job, messages>>

\* What `findPendingOnboarding` selects, once the due dates have passed.
PendingOnboarding(i) == i.status = "draft" /\ i.type \in {"onboarding", "one_time"}

\* The scheduler's pass over what belongs to no cycle, after the due date.
SchedulerPass ==
  /\ invoices' = [i \in DOMAIN invoices |->
       [(IF PendingOnboarding(invoices[i]) THEN Settled(invoices[i]) ELSE invoices[i])
         EXCEPT !.due = invoices[i].purpose = "onboarding"]]
  /\ UNCHANGED <<customer, gateway, rows, surcharged, job, messages>>

----------------------------------------------------------------------------
(* The consumer of the monolith's messages.                                 *)

\* Mutant: a rename is marked before it is handled.
TakeMarking(c, m) ==
  /\ At(c, "idle") /\ m \notin processed /\ Cardinality(delivered \cup {m}) <= MaxMessages
  /\ delivered' = delivered \cup {m} /\ processed' = processed \cup {m}
  /\ job' = [job EXCEPT ![c] = [NoJob EXCEPT !.pc = m.type, !.message = m]]
  /\ UNCHANGED <<customer, gateway, rows, drafts>>

\* A message that is not marked yet, whether or not it came before.
Take(c, m) ==
  /\ At(c, "idle") /\ m \notin processed /\ Cardinality(delivered \cup {m}) <= MaxMessages
  /\ delivered' = delivered \cup {m} /\ UNCHANGED processed
  /\ job' = [job EXCEPT ![c] = [NoJob EXCEPT !.pc = m.type, !.message = m]]
  /\ UNCHANGED <<customer, gateway, rows, drafts>>

Value(c) == job[c].message.value

\* customer.created: known already, or first created at the gateway.
CreateAtGateway(c) ==
  /\ At(c, "customer.created")
  /\ \/ customer.exists /\ Return(c) /\ UNCHANGED gateway
     \/ /\ ~customer.exists /\ gateway.customers < MaxCustomers
        /\ gateway' = [gateway EXCEPT !.customers = @ + 1, !.name = 0]
        /\ Go(c, "insert customer")
  /\ UNCHANGED <<customer, rows, drafts, messages>>

\* The monolith's id is unique: a second insert throws.
InsertCustomer(c) ==
  /\ At(c, "insert customer")
  /\ \/ customer.exists /\ Throw(c) /\ UNCHANGED customer
     \/ ~customer.exists /\ Return(c) /\ customer' = [exists |-> TRUE, name |-> 0]
  /\ UNCHANGED <<gateway, rows, drafts, messages>>

\* customer.updated: throws until the customer is known, then the gateway ...
RenameAtGateway(c) ==
  /\ At(c, "customer.updated")
  /\ \/ ~customer.exists /\ Throw(c) /\ UNCHANGED gateway
     \/ customer.exists /\ gateway' = [gateway EXCEPT !.name = Value(c)] /\ Go(c, "rename")
  /\ UNCHANGED <<customer, rows, drafts, messages>>

\* ... before the row.
Rename(c) ==
  /\ At(c, "rename") /\ Return(c)
  /\ customer' = [customer EXCEPT !.name = Value(c)]
  /\ UNCHANGED <<gateway, rows, drafts, messages>>

\* surcharge-config.updated: dropped for an unknown customer.
UpsertSurcharge(c) ==
  /\ At(c, "surcharge-config.updated")
  /\ \/ ~customer.exists /\ Return(c) /\ UNCHANGED surcharged
     \/ customer.exists /\ surcharged' = Value(c) /\ Go(c, "recalculate")
  /\ UNCHANGED <<customer, gateway, rows, invoices, messages>>

\* invoice.create with a later due date leaves a one-time draft.
CreateOneTime(c) ==
  /\ At(c, "invoice.create") /\ Return(c)
  /\ IF customer.exists THEN CreateInvoice("one_time") ELSE UNCHANGED invoices
  /\ UNCHANGED <<customer, gateway, rows, surcharged, messages>>

\* mandate.updated to inactive: of an active bank account; an event that had to
\* be rebuilt without verification has lost its method, its value is Nothing.
\* The gateway's detach is best effort.
LoseMandate(c) ==
  /\ At(c, "mandate.updated")
  /\ \/ Value(c) \notin Active \cap Bank /\ Return(c) /\ UNCHANGED gateway
     \/ /\ Value(c) \in Active \cap Bank /\ Go(c, "drop")
        /\ gateway' \in {gateway, Detached(Value(c))}
  /\ UNCHANGED <<customer, rows, drafts, messages>>

\* The row keeps its default flag, no other method takes over, no surcharge is
\* recalculated; a failed publish throws.
DropMethod(c) ==
  /\ At(c, "drop") /\ (Return(c) \/ Throw(c))
  /\ method' = [method EXCEPT ![Value(c)].status = "detached"]
  /\ UNCHANGED <<customer, gateway, order, drafts, messages>>

Mark(c) ==
  /\ At(c, "mark") /\ Throw(c)
  /\ processed' = processed \cup {job[c].message}
  /\ UNCHANGED <<customer, gateway, rows, drafts, delivered>>

\* The process dies; a request's fault stands for any exception, too.
Crash(a) ==
  /\ ~At(a, "idle") /\ (a \in Consumer \/ RequestsFail)
  /\ Throw(a) /\ UNCHANGED <<customer, gateway, rows, drafts, messages>>

RequestStep(r) ==
  \/ \E m \in Method : Attach(r, m) \/ ConfirmSetup(r, m)
  \/ \E m \in Method, op \in {"detach", "set default"} : FindMethod(r, op, m)
  \/ LookForFirst(r) \/ PreferFirst(r) \/ InsertMethod(r)
  \/ DetachAtGateway(r) \/ FindNext(r) \/ PreferNext(r) \/ MarkNext(r) \/ MarkDetached(r)
  \/ Prefer(r) \/ ClearDefaults(r) \/ MarkDefault(r)

ConsumerStep(c) ==
  \/ \E m \in Message : Take(c, m)
  \/ CreateAtGateway(c) \/ InsertCustomer(c) \/ RenameAtGateway(c) \/ Rename(c)
  \/ UpsertSurcharge(c) \/ CreateOneTime(c) \/ LoseMandate(c) \/ DropMethod(c) \/ Mark(c)

Next ==
  \/ \E r \in Request : RequestStep(r)
  \/ \E c \in Consumer : ConsumerStep(c)
  \/ \E a \in Actor : ReadOpenInvoice(a) \/ RewriteSurcharge(a) \/ Crash(a)
  \/ CreateDraft \/ SchedulerPass \/ \E i \in DOMAIN invoices : FinalizeCycle(i)

Spec == Init /\ [][Next]_vars

----------------------------------------------------------------------------
Quiet(A) == \A a \in A : At(a, "idle")

\* Between requests at most one active method is the default.  A detach marks
\* its successor first, so this is not so while one is under way.
OneActiveDefault == Quiet(Request) => Cardinality(ActiveDefault) <= 1

\* With nothing under way the active default of the rows is the gateway's, if it
\* still has the method at all, although every change goes to the gateway and
\* the rows in separate steps and a mandate may fall away in between.
GatewayFollowsDefault ==
  Quiet(Actor) /\ delivered = processed =>
    ActiveDefault \cap gateway.attached \subseteq {gateway.default}

\* Once every delivered message is handled, the gateway and the row agree on
\* the name, wherever the handler of a rename died before it came again.
NamesAgreeWhenQuiet ==
  Quiet(Consumer) /\ delivered = processed /\ customer.exists => customer.name = gateway.name

\* The surcharge of an invoice that is final is the one that was booked with
\* it ("Finalized/paid invoices have already-locked surcharge").
SurchargeLocked ==
  \A i \in DOMAIN invoices : invoices[i].status = "finalized" => invoices[i].extra = invoices[i].booked

\* An onboarding charge is finalized by the scheduler's pass on its due date.
OnboardingFinalized ==
  \A i \in DOMAIN invoices :
    invoices[i].purpose = "onboarding" /\ invoices[i].due => invoices[i].status # "draft"
=============================================================================
