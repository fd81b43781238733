---------------------------- MODULE AccountProofs ----------------------------
(***************************************************************************)
(* Proofs about Account for every set of methods, messages, requests and   *)
(* consumers, and every bound.  Three layers:                              *)
(*   1. the types, with what the fields of a job mean where it is;         *)
(*   2. the customer's name in the row and at the gateway, for a single    *)
(*      consumer;                                                          *)
(*   3. the default method in the rows and at the gateway, for a single    *)
(*      request at a time that does not die between its steps: consumers   *)
(*      take methods away at any moment.                                   *)
(***************************************************************************)
EXTENDS Account, FiniteSetTheorems, WellFoundedInduction, TLAPS

-----------------------------------------------------------------------------
(* The invariants *)

MessageType == {"customer.created", "customer.updated", "surcharge-config.updated",
                "mandate.updated", "invoice.create"}
RequestPhase == {"look", "prefer", "insert", "detach", "next", "prefer next", "mark next",
                 "detached", "set default", "clear", "mark default"}
ConsumerPhase == MessageType \cup {"insert customer", "rename", "drop", "mark"}
SharedPhase == {"idle", "recalculate", "rewrite"}

Phase == RequestPhase \cup ConsumerPhase \cup SharedPhase

Job == [pc: Phase, op: {"none", "attach", "confirm", "detach", "set default"},
        pm: Method \cup {Nothing}, next: Method \cup {Nothing}, first: BOOLEAN,
        message: Message \cup {Nothing}, invoice: Nat, extra: BOOLEAN]

\* Layer 1.  A request works on a method, and its successor where it has one; a
\* consumer on a message of the type its phase is about.
TypesAt(pc) == CASE pc \in MessageType -> {pc}
                 [] pc = "insert customer" -> {"customer.created"}
                 [] pc = "rename" -> {"customer.updated"}
                 [] pc = "drop" -> {"mandate.updated"}
                 [] pc \in {"recalculate", "rewrite"} -> {"surcharge-config.updated"}
                 [] OTHER -> MessageType
JobOK(a, t) ==
  /\ t \in Job
  /\ a \in Request =>
       /\ t.pc \in RequestPhase \cup SharedPhase
       /\ t.pc \in RequestPhase => t.pm \in Method
       /\ t.pc \in {"prefer next", "mark next"} => t.next \in Method
  /\ a \in Consumer =>
       /\ t.pc \in ConsumerPhase \cup SharedPhase
       /\ t.pc # "idle" => t.message \in Message /\ t.message.type \in TypesAt(t.pc)
       /\ t.pc = "drop" => t.message.value \in Method
  /\ t.pc = "rewrite" => t.invoice # 0

JobsOK == job \in [Actor -> Job] /\ \A a \in Actor : JobOK(a, job[a])
Delivered == \A c \in Consumer : ~At(c, "idle") => job[c].message \in delivered
InvoicesKnown == \A a \in Actor : job[a].invoice <= Len(invoices)
OrderIsOfRows == \A i \in DOMAIN order : method[order[i]].status # "none"

TypeInv == TypeOK /\ JobsOK /\ Delivered /\ InvoicesKnown /\ OrderIsOfRows

\* Layer 2.  The names differ only while a rename is delivered and not yet marked,
\* and whoever has renamed the gateway's customer, or both, still has it so.
Renaming(m) == m \in delivered \ processed /\ m.type = "customer.updated"
SameName == customer.name = gateway.name
NamesInv ==
  /\ ~customer.exists => gateway.name = 0
  /\ customer.exists => SameName \/ \E m \in Message : Renaming(m)
  /\ \A c \in Consumer :
       /\ ~At(c, "idle") => job[c].message \notin processed
       /\ At(c, "rename") => gateway.name = Value(c)
       /\ At(c, "mark") /\ job[c].message.type = "customer.updated" => SameName

\* Layer 3.  A row is of a method that is at the gateway or was taken away for good.
AtMostOne(S) == \A m, n \in S : m = n
RowsAttached ==
  /\ gateway.attached \cap gateway.gone = {}
  /\ \A m \in Method : method[m].status # "none" => m \in gateway.attached \cup gateway.gone
  /\ \A c \in Consumer : At(c, "drop") => method[Value(c)].status # "none"
\* Which rows can be active defaults while the request is at its step ...
Leaving(r) == job[r].pc \in {"next", "prefer next", "mark next", "detached"}
RequestDefaults(r) ==
  /\ job[r].pc \in {"look", "prefer", "insert"} => job[r].pm \in gateway.attached \cup gateway.gone
  /\ Leaving(r) => job[r].pm \in gateway.gone
  /\ job[r].pc # "detached" => AtMostOne(ActiveDefault)
  /\ job[r].pc \in {"prefer", "insert"} /\ (At(r, "prefer") \/ job[r].first) => ActiveDefault = {}
  /\ At(r, "prefer") => job[r].first
  /\ At(r, "mark default") => ActiveDefault = {}
  /\ job[r].pc \in {"next", "prefer next", "mark next"} => ActiveDefault \subseteq {job[r].pm}
  /\ At(r, "detach") /\ job[r].first => ActiveDefault \subseteq {job[r].pm}
  /\ At(r, "detached") => AtMostOne(ActiveDefault \ {job[r].pm})
\* ... and which of them the gateway agrees with.
Followed(m) == m \in gateway.attached => gateway.default = m
RequestFollows(r) ==
  /\ job[r].pc # "clear" => \A m \in ActiveDefault : Followed(m)
  /\ At(r, "insert") /\ job[r].first => Followed(job[r].pm)
  /\ At(r, "mark next") => Followed(job[r].next)
  /\ job[r].pc \in {"clear", "mark default"} => Followed(job[r].pm)

DefaultsInv ==
  /\ RowsAttached
  /\ \A r \in Request : RequestDefaults(r) /\ RequestFollows(r)
  /\ Request = {} => ActiveDefault = {}

-----------------------------------------------------------------------------
(* The newest of a set of invoices *)

\* A set of numbers that is bounded has a greatest, the one least below the bound.
LEMMA Greatest ==
  ASSUME NEW n \in Nat, NEW I \in SUBSET (0..n), I # {}
  PROVE  Max(I) \in I
<1> DEFINE D == {n - i : i \in I}
           R == OpToRel(<, Nat)
<1>1. D \in SUBSET Nat /\ D # {}
  <2>1. D \in SUBSET Nat
    OBVIOUS
  <2>2. D # {}
    OBVIOUS
  <2> QED BY <2>1, <2>2
<1>2. PICK d \in D : \A e \in D : ~ (<<e, d>> \in R)
  <2> HIDE DEF D
  <2>1. IsWellFoundedOn(R, Nat)
    BY NatLessThanWellFounded
  <2> HIDE DEF R
  <2> QED BY <1>1, <2>1, WFMin
<1>3. \A e \in D : ~ (e < d)
  <2>1. \A x, y \in Nat : x < y => <<x, y>> \in R
    BY DEF OpToRel
  <2> HIDE DEF R, D
  <2> QED BY <1>1, <1>2, <2>1
<1>4. PICK i \in I : d = n - i
  BY <1>2
<1>5. \A j \in I : ~ (n - j < n - i)
  BY <1>3, <1>4
<1>6. \A j \in I : i >= j
  <2> HIDE DEF D
  <2>1. i \in Int /\ \A j \in I : j \in Int
    OBVIOUS
  <2> QED BY <1>5, <2>1
<1>7. \E x \in I : \A y \in I : x >= y
  BY <1>6
<1> QED BY <1>7 DEF Max

\* Likewise the oldest of some methods is one of them.
LEMMA Smallest ==
  ASSUME NEW I \in SUBSET Nat, I # {}
  PROVE  Min(I) \in I
<1> DEFINE R == OpToRel(<, Nat)
<1>1. \A x, y \in Nat : x < y => <<x, y>> \in R
  BY DEF OpToRel
<1>2. IsWellFoundedOn(R, Nat)
  BY NatLessThanWellFounded
<1> HIDE DEF R
<1>3. PICK x \in I : \A y \in I : ~ (<<y, x>> \in R)
  BY <1>2, WFMin
<1>4. \A j \in I : ~ (j < x)
  BY <1>1, <1>3
<1>5. \E i \in I : \A j \in I : i <= j
  BY <1>4
<1> QED BY <1>5 DEF Min

-----------------------------------------------------------------------------
(* How a job moves *)

LEMMA JobFields ==
  ASSUME NEW t \in Job
  PROVE  /\ t.pc \in Phase /\ t.pm \in Method \cup {Nothing} /\ t.next \in Method \cup {Nothing}
         /\ t.first \in BOOLEAN /\ t.message \in Message \cup {Nothing}
         /\ t.invoice \in Nat /\ t.extra \in BOOLEAN
BY DEF Job

LEMMA NoJobType ==
  /\ NoJob \in Job /\ NoJob.pc = "idle" /\ NoJob.invoice = 0
  /\ \A a \in Actor : JobOK(a, NoJob)
BY DEF NoJob, Job, Phase, SharedPhase, JobOK, RequestPhase

LEMMA Going ==
  ASSUME JobsOK, NEW a \in Actor, NEW p \in Phase, Go(a, p)
  PROVE  /\ job' \in [Actor -> Job] /\ job'[a].pc = p
         /\ job'[a].op = job[a].op /\ job'[a].pm = job[a].pm /\ job'[a].next = job[a].next
         /\ job'[a].first = job[a].first /\ job'[a].message = job[a].message
         /\ job'[a].invoice = job[a].invoice /\ job'[a].extra = job[a].extra
         /\ \A b \in Actor : b # a => job'[b] = job[b]
<1> DEFINE t == [job[a] EXCEPT !.pc = p]
<1>1. /\ t \in Job /\ t.pc = p
      /\ t.op = job[a].op /\ t.pm = job[a].pm /\ t.next = job[a].next
      /\ t.first = job[a].first /\ t.message = job[a].message
      /\ t.invoice = job[a].invoice /\ t.extra = job[a].extra
  BY DEF JobsOK, Job
<1> HIDE DEF t
<1>2. job' = [job EXCEPT ![a] = t]
  BY DEF Go, t
<1> QED BY <1>1, <1>2 DEF JobsOK

LEMMA Throwing ==
  ASSUME JobsOK, NEW a \in Actor, Throw(a)
  PROVE  /\ job' \in [Actor -> Job] /\ job'[a] = NoJob
         /\ \A b \in Actor : b # a => job'[b] = job[b]
BY NoJobType DEF Throw, JobsOK

LEMMA Returning ==
  ASSUME JobsOK, NEW a \in Actor, Return(a)
  PROVE  /\ job' \in [Actor -> Job]
         /\ a \notin Consumer => job'[a] = NoJob
         /\ a \in Consumer => /\ job'[a].pc = "mark" /\ job'[a].message = job[a].message
                              /\ job'[a].invoice = 0
         /\ \A b \in Actor : b # a => job'[b] = job[b]
<1> DEFINE t == [NoJob EXCEPT !.pc = "mark", !.message = job[a].message]
<1>1. /\ t \in Job /\ t.pc = "mark" /\ t.message = job[a].message /\ t.invoice = 0
  <2>1. job[a].message \in Message \cup {Nothing}
    BY JobFields DEF JobsOK
  <2> QED BY <2>1 DEF NoJob, Job, Phase, ConsumerPhase
<1> HIDE DEF t
<1>2. job' = [job EXCEPT ![a] = IF a \in Consumer THEN t ELSE NoJob]
  BY DEF Return, t
<1> QED BY <1>1, <1>2, NoJobType DEF JobsOK

-----------------------------------------------------------------------------
(* Layer 1 *)

InvoiceRow == [purpose: {"cycle", "onboarding", "one_time"},
               type: {"recurring", "onboarding", "one_time"},
               status: {"draft", "finalized"}, due: BOOLEAN, extra: BOOLEAN, booked: BOOLEAN]
MethodRow == [status: {"none", "active", "detached"}, default: BOOLEAN]

RowsOK == /\ method \in [Method -> MethodRow]
          /\ order \in Seq(Method) /\ IsInjective(order) /\ OrderIsOfRows
GatewayOK == gateway \in [customers: 0..MaxCustomers, name: Nat, attached: SUBSET Method,
                          gone: SUBSET Method, default: Method \cup {Nothing}]
InvoicesOK == invoices \in Seq(InvoiceRow)
MessagesOK == processed \subseteq delivered /\ delivered \subseteq Message

\* The parts of the type invariant, each about its own variables.
LEMMA Parts ==
  TypeInv <=> /\ customer \in [exists: BOOLEAN, name: Nat]
              /\ GatewayOK /\ RowsOK /\ surcharged \in BOOLEAN /\ InvoicesOK /\ MessagesOK
              /\ JobsOK /\ Delivered /\ InvoicesKnown
<1>1. JobsOK /\ InvoicesKnown /\ InvoicesOK
        => \A a \in Actor : job[a].invoice \in 0..Len(invoices) /\ job[a].extra \in BOOLEAN
  <2> SUFFICES ASSUME JobsOK, InvoicesKnown, InvoicesOK, NEW a \in Actor
               PROVE  job[a].invoice \in 0..Len(invoices) /\ job[a].extra \in BOOLEAN
    OBVIOUS
  <2>1. job[a].invoice \in Nat /\ job[a].extra \in BOOLEAN
    BY JobFields DEF JobsOK
  <2>2. Len(invoices) \in Nat
    BY DEF InvoicesOK
  <2> QED BY <2>1, <2>2 DEF InvoicesKnown
<1> QED
  BY <1>1 DEF TypeInv, TypeOK, GatewayOK, RowsOK, InvoicesOK, InvoiceRow, MethodRow, MessagesOK

LEMMA PartsPrimed ==
  ASSUME customer' \in [exists: BOOLEAN, name: Nat],
         GatewayOK', RowsOK', surcharged' \in BOOLEAN, InvoicesOK', MessagesOK',
         JobsOK', Delivered', InvoicesKnown'
  PROVE  TypeInv'
<1>1. \A a \in Actor : job'[a].invoice \in 0..Len(invoices') /\ job'[a].extra \in BOOLEAN
  <2> SUFFICES ASSUME NEW a \in Actor
               PROVE  job'[a].invoice \in 0..Len(invoices') /\ job'[a].extra \in BOOLEAN
    OBVIOUS
  <2>1. job'[a].invoice \in Nat /\ job'[a].extra \in BOOLEAN
    BY JobFields DEF JobsOK
  <2>2. Len(invoices') \in Nat
    BY DEF InvoicesOK
  <2> QED BY <2>1, <2>2 DEF InvoicesKnown
<1> QED
  BY <1>1 DEF TypeInv, TypeOK, GatewayOK, RowsOK, InvoicesOK, InvoiceRow, MethodRow, MessagesOK

\* One job moves: the others still know what they knew.
LEMMA JobsFollow ==
  ASSUME TypeInv, InvoicesOK', NEW a \in Actor, job' \in [Actor -> Job],
         \A b \in Actor : b # a => job'[b] = job[b],
         JobOK(a, job'[a]),
         delivered \subseteq delivered',
         a \in Consumer /\ job'[a].pc # "idle" => job'[a].message \in delivered',
         Len(invoices) <= Len(invoices'),
         job'[a].invoice = 0 \/ job'[a].invoice = job[a].invoice
           \/ job'[a].invoice \in DOMAIN invoices
  PROVE  JobsOK' /\ Delivered' /\ InvoicesKnown'
<1>1. JobsOK'
  BY DEF JobsOK, TypeInv
<1>2. Delivered'
  BY DEF Delivered, At, TypeInv, Actor
<1>3. InvoicesKnown'
  <2>1. Len(invoices) \in Nat /\ Len(invoices') \in Nat /\ DOMAIN invoices = 1..Len(invoices)
    BY Parts DEF InvoicesOK
  <2>2. \A b \in Actor : job[b].invoice <= Len(invoices) /\ job[b].invoice \in Nat
    BY JobFields DEF TypeInv, InvoicesKnown, JobsOK
  <2>3. \A b \in Actor : job'[b].invoice <= Len(invoices)
    BY <2>1, <2>2
  <2>4. \A b \in Actor : job'[b].invoice \in Nat
    BY JobFields
  <2> QED BY <2>1, <2>3, <2>4 DEF InvoicesKnown
<1> QED BY <1>1, <1>2, <1>3

\* A request moves on, answers or throws, and leaves invoices and messages alone.
LEMMA RequestJobFollows ==
  ASSUME TypeInv, NEW r \in Request, UNCHANGED <<invoices, delivered>>,
         job' \in [Actor -> Job], \A b \in Actor : b # r => job'[b] = job[b],
         JobOK(r, job'[r]), job'[r].invoice = 0 \/ job'[r].invoice = job[r].invoice
  PROVE  JobsOK' /\ Delivered' /\ InvoicesKnown'
<1>1. r \in Actor /\ r \notin Consumer
  BY AccountAssumption DEF Actor
<1>2. InvoicesOK' /\ Len(invoices) <= Len(invoices')
  BY Parts DEF InvoicesOK
<1> QED BY <1>1, <1>2, JobsFollow

LEMMA RequestIsActor ==
  ASSUME NEW r \in Request
  PROVE  r \in Actor /\ r \notin Consumer
BY AccountAssumption DEF Actor

LEMMA ConsumerIsActor ==
  ASSUME NEW c \in Consumer
  PROVE  c \in Actor /\ c \notin Request
BY AccountAssumption DEF Actor

\* A request that goes on, or throws, knows what it must.
LEMMA RequestGoes ==
  ASSUME JobsOK, NEW r \in Request, NEW p \in RequestPhase \cup {"recalculate"}, Go(r, p),
         p \in RequestPhase => job[r].pm \in Method,
         p \in {"prefer next", "mark next"} => job[r].next \in Method
  PROVE  /\ job' \in [Actor -> Job] /\ \A b \in Actor : b # r => job'[b] = job[b]
         /\ JobOK(r, job'[r]) /\ job'[r].invoice = job[r].invoice
         /\ job'[r].pc = p /\ job'[r].pm = job[r].pm /\ job'[r].next = job[r].next
         /\ job'[r].first = job[r].first
<1>1. r \in Actor /\ r \notin Consumer /\ p \in Phase
  BY RequestIsActor DEF Phase, SharedPhase
<1>2. /\ job' \in [Actor -> Job] /\ job'[r].pc = p
      /\ job'[r].pm = job[r].pm /\ job'[r].next = job[r].next
      /\ job'[r].first = job[r].first /\ job'[r].invoice = job[r].invoice
      /\ \A b \in Actor : b # r => job'[b] = job[b]
  BY <1>1, Going
<1>3. p # "rewrite"
  BY DEF RequestPhase
<1> QED BY <1>1, <1>2, <1>3 DEF JobOK, SharedPhase

LEMMA RequestStops ==
  ASSUME JobsOK, NEW r \in Request, Throw(r) \/ Return(r)
  PROVE  /\ job' \in [Actor -> Job] /\ \A b \in Actor : b # r => job'[b] = job[b]
         /\ JobOK(r, job'[r]) /\ job'[r].invoice = 0 /\ job'[r] = NoJob /\ job'[r].pc = "idle"
BY RequestIsActor, Throwing, Returning, NoJobType

\* What the steps of a request that do more than go on make of its job.
LEMMA AttachJob ==
  ASSUME TypeInv, NEW r \in Request, NEW m \in Method, Attach(r, m) \/ ConfirmSetup(r, m)
  PROVE  /\ job' \in [Actor -> Job] /\ \A b \in Actor : b # r => job'[b] = job[b]
         /\ JobOK(r, job'[r]) /\ job'[r].invoice = 0
         /\ job'[r].pc = "idle" \/ (job'[r].pc = "look" /\ job'[r].pm = m)
<1> DEFINE a == [NoJob EXCEPT !.pc = "look", !.op = "attach", !.pm = m]
           k == [NoJob EXCEPT !.pc = "look", !.op = "confirm", !.pm = m]
<1>1. /\ a \in Job /\ a.pc = "look" /\ a.pm = m /\ a.invoice = 0
      /\ k \in Job /\ k.pc = "look" /\ k.pm = m /\ k.invoice = 0
  BY DEF NoJob, Job, Phase, RequestPhase
<1> HIDE DEF a, k
<1>2. \E t \in {NoJob, a, k} : job' = [job EXCEPT ![r] = t]
  BY DEF Attach, ConfirmSetup, a, k
<1> QED
  BY <1>1, <1>2, NoJobType, RequestIsActor DEF TypeInv, JobsOK, JobOK, RequestPhase

LEMMA LookJob ==
  ASSUME TypeInv, NEW r \in Request, LookForFirst(r)
  PROVE  /\ job' \in [Actor -> Job] /\ \A b \in Actor : b # r => job'[b] = job[b]
         /\ JobOK(r, job'[r]) /\ job'[r].invoice = job[r].invoice /\ job'[r].pm = job[r].pm
         /\ \/ job'[r].pc = "prefer" /\ job'[r].first = TRUE
                 /\ (Active = {} \/ ActiveDefault = {})
            \/ job'[r].pc = "insert" /\ job'[r].first = FALSE
<1>1. job[r] \in Job /\ r \in Actor /\ job[r].pm \in Method /\ r \notin Consumer
  BY RequestIsActor DEF TypeInv, JobsOK, JobOK, LookForFirst, At, RequestPhase
<1> DEFINE t(f) == [job[r] EXCEPT !.first = f, !.pc = IF f THEN "prefer" ELSE "insert"]
<1>2. ASSUME NEW f \in BOOLEAN
      PROVE  /\ t(f) \in Job /\ t(f).pc = (IF f THEN "prefer" ELSE "insert")
             /\ t(f).first = f /\ t(f).pm = job[r].pm /\ t(f).invoice = job[r].invoice
  BY <1>1 DEF Job, Phase, RequestPhase
<1> HIDE DEF t
<1>3. PICK f \in BOOLEAN : /\ job' = [job EXCEPT ![r] = t(f)]
                           /\ f => Active = {} \/ ActiveDefault = {}
  BY <1>1 DEF LookForFirst, t, TypeInv, JobsOK
<1>4. job'[r] = t(f) /\ job' \in [Actor -> Job] /\ \A b \in Actor : b # r => job'[b] = job[b]
  BY <1>1, <1>2, <1>3 DEF TypeInv, JobsOK
<1> QED BY <1>1, <1>2, <1>3, <1>4 DEF JobOK, RequestPhase

LEMMA FindJob ==
  ASSUME TypeInv, NEW r \in Request, NEW m \in Method, NEW p, FindMethod(r, p, m),
         p \in {"detach", "set default"}
  PROVE  /\ job' \in [Actor -> Job] /\ \A b \in Actor : b # r => job'[b] = job[b]
         /\ JobOK(r, job'[r]) /\ job'[r].invoice = 0
         /\ job'[r].pc = p /\ job'[r].pm = m /\ job'[r].first = method[m].default
<1> DEFINE t == [NoJob EXCEPT !.pc = p, !.op = p, !.pm = m, !.first = method[m].default]
<1>0. method[m].default \in BOOLEAN
  BY Parts DEF RowsOK, MethodRow
<1>1. /\ t \in Job /\ t.pc = p /\ t.pm = m /\ t.invoice = 0 /\ t.first = method[m].default
  BY <1>0 DEF NoJob, Job, Phase, RequestPhase
<1> HIDE DEF t
<1>2. job' = [job EXCEPT ![r] = t]
  BY DEF FindMethod, t
<1>3. p \in RequestPhase /\ p \notin {"prefer next", "mark next", "rewrite"}
  BY DEF RequestPhase
<1> QED BY <1>1, <1>2, <1>3, RequestIsActor DEF TypeInv, JobsOK, JobOK

LEMMA NextDefaultType ==
  ASSUME TypeInv, NEW m \in Method
  PROVE  NextDefault(m) \in Method \cup {Nothing}
<1> DEFINE I == {i \in DOMAIN order : order[i] \in Active \ {m}}
<1>1. order \in Seq(Method) /\ DOMAIN order = 1..Len(order) /\ Len(order) \in Nat
  BY Parts DEF RowsOK
<1>2. I \in SUBSET Nat
  BY <1>1
<1>3. CASE I = {}
  BY <1>3 DEF NextDefault
<1>4. CASE I # {}
  <2>1. Min(I) \in I
    <3> HIDE DEF I
    <3> QED BY <1>2, <1>4, Smallest
  <2>2. Min(I) \in DOMAIN order
    BY <2>1
  <2>3. NextDefault(m) = order[Min(I)]
    BY <1>4 DEF NextDefault
  <2> HIDE DEF I
  <2> QED BY <1>1, <2>2, <2>3
<1> QED BY <1>3, <1>4

LEMMA NextJob ==
  ASSUME TypeInv, NEW r \in Request, FindNext(r)
  PROVE  /\ job' \in [Actor -> Job] /\ \A b \in Actor : b # r => job'[b] = job[b]
         /\ JobOK(r, job'[r]) /\ job'[r].invoice = job[r].invoice
         /\ job'[r].pm = job[r].pm /\ job'[r].pc \in {"detached", "prefer next"}
<1>1. job[r] \in Job /\ r \in Actor /\ job[r].pm \in Method /\ r \notin Consumer
  BY RequestIsActor DEF TypeInv, JobsOK, JobOK, FindNext, At, RequestPhase
<1> DEFINE n == NextDefault(job[r].pm)
           t == [job[r] EXCEPT !.next = n, !.pc = IF n = Nothing THEN "detached" ELSE "prefer next"]
<1>2. n \in Method \cup {Nothing}
  BY <1>1, NextDefaultType
<1>3. job' = [job EXCEPT ![r] = t]
  BY <1>1 DEF FindNext, TypeInv, JobsOK
<1> HIDE DEF n
<1>4. /\ t \in Job /\ t.pc = (IF n = Nothing THEN "detached" ELSE "prefer next")
      /\ t.next = n /\ t.pm = job[r].pm /\ t.invoice = job[r].invoice
  BY <1>1, <1>2 DEF Job, Phase, RequestPhase
<1> HIDE DEF t
<1>5. job'[r] = t /\ job' \in [Actor -> Job] /\ \A b \in Actor : b # r => job'[b] = job[b]
  BY <1>1, <1>3, <1>4 DEF TypeInv, JobsOK
<1> QED BY <1>1, <1>2, <1>4, <1>5 DEF JobOK, RequestPhase

\* What is done to the gateway's record.
LEMMA GatewayMoves ==
  ASSUME GatewayOK, NEW m \in Method
  PROVE  /\ [gateway EXCEPT !.default = m] \in [customers: 0..MaxCustomers, name: Nat,
                attached: SUBSET Method, gone: SUBSET Method, default: Method \cup {Nothing}]
         /\ [gateway EXCEPT !.default = m].attached = gateway.attached
         /\ [gateway EXCEPT !.default = m].gone = gateway.gone
         /\ [gateway EXCEPT !.default = m].default = m
         /\ [gateway EXCEPT !.default = m].name = gateway.name
         /\ [gateway EXCEPT !.attached = @ \cup {m}] \in [customers: 0..MaxCustomers, name: Nat,
                attached: SUBSET Method, gone: SUBSET Method, default: Method \cup {Nothing}]
         /\ [gateway EXCEPT !.attached = @ \cup {m}].attached = gateway.attached \cup {m}
         /\ [gateway EXCEPT !.attached = @ \cup {m}].gone = gateway.gone
         /\ [gateway EXCEPT !.attached = @ \cup {m}].default = gateway.default
         /\ [gateway EXCEPT !.attached = @ \cup {m}].name = gateway.name
         /\ Detached(m) \in [customers: 0..MaxCustomers, name: Nat,
                attached: SUBSET Method, gone: SUBSET Method, default: Method \cup {Nothing}]
         /\ Detached(m).attached = gateway.attached \ {m}
         /\ Detached(m).gone = gateway.gone \cup {m}
         /\ Detached(m).default = (IF gateway.default = m THEN Nothing ELSE gateway.default)
         /\ Detached(m).name = gateway.name
BY DEF GatewayOK, Detached

LEMMA RowChanges ==
  ASSUME RowsOK, NEW m \in Method, NEW t \in MethodRow, method' = [method EXCEPT ![m] = t],
         UNCHANGED order, t.status = "none" => method[m].status = "none"
  PROVE  RowsOK'
<1>1. method' \in [Method -> MethodRow]
  BY DEF RowsOK
<1>2. OrderIsOfRows'
  <2> SUFFICES ASSUME NEW i \in DOMAIN order
               PROVE  method'[order[i]].status # "none"
    BY DEF OrderIsOfRows
  <2>1. order[i] \in Method /\ method[order[i]].status # "none"
    BY DEF RowsOK, OrderIsOfRows
  <2> QED BY <2>1 DEF RowsOK
<1> QED BY <1>1, <1>2 DEF RowsOK

\* A row's default flag alone, and its status alone.
LEMMA RowFields ==
  ASSUME NEW t \in MethodRow
  PROVE  /\ t.status \in {"none", "active", "detached"} /\ t.default \in BOOLEAN
         /\ \A d \in BOOLEAN : /\ [t EXCEPT !.default = d] \in MethodRow
                               /\ [t EXCEPT !.default = d].status = t.status
                               /\ [t EXCEPT !.default = d].default = d
         /\ [t EXCEPT !.status = "detached"] \in MethodRow
         /\ [t EXCEPT !.status = "detached"].status = "detached"
         /\ [t EXCEPT !.status = "detached"].default = t.default
BY DEF MethodRow

LEMMA FlagRow ==
  ASSUME RowsOK, NEW m \in Method, method' = [method EXCEPT ![m].default = TRUE]
  PROVE  /\ UNCHANGED order => RowsOK'
         /\ method'[m].status = method[m].status /\ method'[m].default = TRUE
         /\ \A n \in Method : n # m => method'[n] = method[n]
<1> DEFINE t == [method[m] EXCEPT !.default = TRUE]
<1>1. t \in MethodRow /\ t.status = method[m].status /\ t.default = TRUE
  BY RowFields DEF RowsOK
<1>2. method' = [method EXCEPT ![m] = t]
  OBVIOUS
<1> HIDE DEF t
<1>3. UNCHANGED order => RowsOK'
  BY <1>1, <1>2, RowChanges
<1> QED BY <1>1, <1>2, <1>3 DEF RowsOK

LEMMA DropRow ==
  ASSUME RowsOK, NEW m \in Method, method' = [method EXCEPT ![m].status = "detached"]
  PROVE  /\ UNCHANGED order => RowsOK'
         /\ method'[m].status = "detached" /\ method'[m].default = method[m].default
         /\ \A n \in Method : n # m => method'[n] = method[n]
<1> DEFINE t == [method[m] EXCEPT !.status = "detached"]
<1>1. t \in MethodRow /\ t.status = "detached" /\ t.default = method[m].default
  BY RowFields DEF RowsOK
<1>2. method' = [method EXCEPT ![m] = t]
  OBVIOUS
<1> HIDE DEF t
<1>3. UNCHANGED order => RowsOK'
  BY <1>1, <1>2, RowChanges
<1> QED BY <1>1, <1>2, <1>3 DEF RowsOK

LEMMA ClearRows ==
  ASSUME RowsOK, method' = Cleared
  PROVE  /\ UNCHANGED order => RowsOK'
         /\ \A m \in Method : method'[m].status = method[m].status /\ method'[m].default = FALSE
<1>1. \A m \in Method : /\ method'[m] = [method[m] EXCEPT !.default = FALSE]
                        /\ method[m] \in MethodRow
  BY DEF Cleared, RowsOK
<1>2. \A m \in Method : /\ method'[m] \in MethodRow /\ method'[m].status = method[m].status
                        /\ method'[m].default = FALSE
  <2> SUFFICES ASSUME NEW m \in Method
               PROVE  /\ method'[m] \in MethodRow /\ method'[m].status = method[m].status
                      /\ method'[m].default = FALSE
    OBVIOUS
  <2>1. method[m] \in MethodRow /\ method'[m] = [method[m] EXCEPT !.default = FALSE]
    BY <1>1
  <2>2. /\ [method[m] EXCEPT !.default = FALSE] \in MethodRow
        /\ [method[m] EXCEPT !.default = FALSE].status = method[m].status
        /\ [method[m] EXCEPT !.default = FALSE].default = FALSE
    BY <2>1 DEF MethodRow
  <2> QED BY <2>1, <2>2
<1>3. method' \in [Method -> MethodRow]
  BY <1>2 DEF Cleared
<1>4. UNCHANGED order => OrderIsOfRows'
  <2>1. \A i \in DOMAIN order : order[i] \in Method
    BY DEF RowsOK
  <2> QED BY <1>2, <2>1 DEF RowsOK, OrderIsOfRows
<1> QED BY <1>2, <1>3, <1>4 DEF RowsOK

LEMMA InsertRow ==
  ASSUME RowsOK, NEW m \in Method, NEW d \in BOOLEAN, method[m].status = "none",
         method' = [method EXCEPT ![m] = [status |-> "active", default |-> d]],
         order' = Append(order, m)
  PROVE  RowsOK'
<1> DEFINE t == [status |-> "active", default |-> d]
<1>1. t \in MethodRow /\ t.status # "none"
  BY DEF MethodRow
<1>2. method' \in [Method -> MethodRow]
  BY <1>1 DEF RowsOK
<1>3. /\ order' \in Seq(Method) /\ DOMAIN order = 1..Len(order) /\ Len(order) \in Nat
      /\ DOMAIN order' = 1..(Len(order) + 1)
      /\ \A i \in DOMAIN order : order'[i] = order[i] /\ order[i] \in Method
      /\ order'[Len(order) + 1] = m
  BY DEF RowsOK
<1>4. \A i \in DOMAIN order : order[i] # m /\ method[order[i]].status # "none"
  BY DEF RowsOK, OrderIsOfRows
<1>5. IsInjective(order')
  <2> SUFFICES ASSUME NEW i \in DOMAIN order', NEW j \in DOMAIN order', order'[i] = order'[j]
               PROVE  i = j
    BY DEF IsInjective
  <2>1. \A k \in DOMAIN order' : k \in DOMAIN order \/ k = Len(order) + 1
    BY <1>3
  <2>2. \A a, b \in DOMAIN order : order[a] = order[b] => a = b
    BY DEF RowsOK, IsInjective
  <2> QED BY <1>3, <1>4, <2>1, <2>2
<1>6. OrderIsOfRows'
  <2> SUFFICES ASSUME NEW i \in DOMAIN order'
               PROVE  method'[order'[i]].status # "none"
    BY DEF OrderIsOfRows
  <2>1. i \in DOMAIN order \/ i = Len(order) + 1
    BY <1>3
  <2>2. method'[m] = t /\ \A n \in Method : n # m => method'[n] = method[n]
    BY DEF RowsOK
  <2> HIDE DEF t
  <2> QED BY <1>1, <1>3, <1>4, <2>1, <2>2
<1> QED BY <1>2, <1>3, <1>5, <1>6 DEF RowsOK

\* A request leaves the customer, the invoices and the messages as they are.
LEMMA RequestKeepsTypes ==
  ASSUME TypeInv, NEW r \in Request, UNCHANGED <<customer, drafts, messages>>,
         job' \in [Actor -> Job], \A b \in Actor : b # r => job'[b] = job[b],
         JobOK(r, job'[r]), job'[r].invoice = 0 \/ job'[r].invoice = job[r].invoice,
         GatewayOK', RowsOK'
  PROVE  TypeInv'
<1>1. JobsOK' /\ Delivered' /\ InvoicesKnown'
  BY RequestJobFollows DEF drafts, messages
<1>2. customer' \in [exists: BOOLEAN, name: Nat] /\ surcharged' \in BOOLEAN
      /\ InvoicesOK' /\ MessagesOK'
  BY Parts DEF drafts, messages, InvoicesOK, MessagesOK
<1> QED BY <1>1, <1>2, PartsPrimed

LEMMA RequestAt ==
  ASSUME TypeInv, NEW r \in Request, job[r].pc \in RequestPhase
  PROVE  /\ job[r].pm \in Method /\ job[r].first \in BOOLEAN
         /\ job[r].pc \in {"prefer next", "mark next"} => job[r].next \in Method
BY RequestIsActor, JobFields DEF TypeInv, JobsOK, JobOK

\* The gateway makes a method the default and the request goes on, or throws.
LEMMA DefaultAsked ==
  ASSUME TypeInv, NEW r \in Request, NEW m \in Method, NEW p \in RequestPhase,
         GatewayDefault(r, m, p), job[r].pm \in Method,
         p \in {"prefer next", "mark next"} => job[r].next \in Method
  PROVE  /\ job' \in [Actor -> Job] /\ \A b \in Actor : b # r => job'[b] = job[b]
         /\ JobOK(r, job'[r]) /\ (job'[r].invoice = 0 \/ job'[r].invoice = job[r].invoice)
         /\ GatewayOK'
         /\ \/ /\ m \in gateway.attached /\ gateway'.default = m
               /\ gateway'.attached = gateway.attached /\ gateway'.gone = gateway.gone
               /\ job'[r].pc = p /\ job'[r].pm = job[r].pm /\ job'[r].next = job[r].next
               /\ job'[r].first = job[r].first
            \/ UNCHANGED gateway /\ job'[r] = NoJob
<1>1. JobsOK /\ GatewayOK
  BY Parts
<1>2. CASE m \in gateway.attached
  <2>1. gateway' = [gateway EXCEPT !.default = m] /\ Go(r, p)
    BY <1>2 DEF GatewayDefault
  <2>2. GatewayOK' /\ gateway'.attached = gateway.attached /\ gateway'.gone = gateway.gone
        /\ gateway'.default = m
    BY <1>1, <2>1, GatewayMoves DEF GatewayOK
  <2> QED BY <1>1, <1>2, <2>1, <2>2, RequestGoes
<1>3. CASE m \notin gateway.attached
  <2>1. UNCHANGED gateway /\ Throw(r)
    BY <1>3 DEF GatewayDefault
  <2>2. GatewayOK'
    BY <1>1, <2>1 DEF GatewayOK
  <2> QED BY <1>1, <2>1, <2>2, RequestStops
<1> QED BY <1>2, <1>3

\* Every step of a request keeps the types.
LEMMA RequestTypes ==
  ASSUME TypeInv, NEW r \in Request, RequestStep(r)
  PROVE  TypeInv'
<1>0. JobsOK /\ GatewayOK /\ RowsOK
  BY Parts
<1>1. UNCHANGED gateway => GatewayOK'
  BY <1>0 DEF GatewayOK
<1>2. UNCHANGED rows => RowsOK'
  BY <1>0 DEF RowsOK, rows, OrderIsOfRows
<1>3. ASSUME NEW m \in Method, Attach(r, m) \/ ConfirmSetup(r, m) PROVE TypeInv'
  <2>1. /\ UNCHANGED <<customer, rows, drafts, messages>>
        /\ gateway' = [gateway EXCEPT !.attached = @ \cup {m}]
    BY <1>3 DEF Attach, ConfirmSetup
  <2>2. GatewayOK'
    BY <1>0, <2>1, GatewayMoves DEF GatewayOK
  <2>3. RowsOK' /\ UNCHANGED <<customer, drafts, messages>>
    BY <1>2, <2>1
  <2> QED BY <1>3, <2>2, <2>3, AttachJob, RequestKeepsTypes
<1>4. ASSUME NEW m \in Method, NEW p \in {"detach", "set default"}, FindMethod(r, p, m)
      PROVE  TypeInv'
  <2>1. UNCHANGED <<customer, gateway, rows, drafts, messages>>
    BY <1>4 DEF FindMethod
  <2>2. /\ job' \in [Actor -> Job] /\ \A b \in Actor : b # r => job'[b] = job[b]
        /\ JobOK(r, job'[r]) /\ job'[r].invoice = 0
    <3>1. p \in {"detach", "set default"} /\ m \in Method /\ FindMethod(r, p, m)
      BY <1>4
    <3> QED BY <3>1, FindJob
  <2>3. GatewayOK' /\ RowsOK'
    BY <1>1, <1>2, <2>1
  <2> QED BY <2>1, <2>2, <2>3, RequestKeepsTypes
<1>5. CASE LookForFirst(r)
  <2>1. UNCHANGED <<customer, gateway, rows, drafts, messages>>
    BY <1>5 DEF LookForFirst
  <2> QED BY <1>1, <1>2, <1>5, <2>1, LookJob, RequestKeepsTypes
<1>6. CASE PreferFirst(r)
  <2>1. /\ UNCHANGED <<customer, rows, drafts, messages>> /\ job[r].pc = "prefer"
        /\ GatewayDefault(r, job[r].pm, "insert")
    BY <1>6 DEF PreferFirst, At
  <2>2. job[r].pc \in RequestPhase /\ "insert" \in RequestPhase
    BY <2>1 DEF RequestPhase
  <2>3. job[r].pm \in Method
    BY <2>2, RequestAt
  <2> QED BY <1>2, <2>1, <2>2, <2>3, DefaultAsked, RequestKeepsTypes
<1>7. CASE InsertMethod(r)
  <2>1. UNCHANGED <<customer, gateway, drafts, messages>> /\ job[r].pc = "insert"
    BY <1>7 DEF InsertMethod, At
  <2>2. job[r].pm \in Method /\ job[r].first \in BOOLEAN
    BY <2>1, RequestAt DEF RequestPhase
  <2>3. CASE method[job[r].pm].status # "none"
    <3>1. Throw(r) /\ UNCHANGED rows
      BY <1>7, <2>3 DEF InsertMethod
    <3> QED BY <1>0, <1>1, <1>2, <2>1, <3>1, RequestStops, RequestKeepsTypes
  <2>4. CASE method[job[r].pm].status = "none"
    <3>1. /\ method' = [method EXCEPT ![job[r].pm] = [status |-> "active", default |-> job[r].first]]
          /\ order' = Append(order, job[r].pm)
          /\ Go(r, "recalculate") \/ Return(r)
      BY <1>7, <2>4 DEF InsertMethod
    <3>2. RowsOK'
      BY <1>0, <2>2, <2>4, <3>1, InsertRow
    <3>3. CASE Go(r, "recalculate")
      <4>1. "recalculate" \notin RequestPhase
        BY DEF RequestPhase
      <4> QED BY <1>0, <1>1, <2>1, <3>2, <3>3, <4>1, RequestGoes, RequestKeepsTypes
    <3>4. CASE Return(r)
      BY <1>0, <1>1, <2>1, <3>2, <3>4, RequestStops, RequestKeepsTypes
    <3> QED BY <3>1, <3>3, <3>4
  <2> QED BY <2>3, <2>4
<1>8. CASE DetachAtGateway(r)
  <2>1. UNCHANGED <<customer, rows, drafts, messages>> /\ job[r].pc = "detach"
    BY <1>8 DEF DetachAtGateway, At
  <2>2. job[r].pm \in Method /\ job[r].first \in BOOLEAN
    BY <2>1, RequestAt DEF RequestPhase
  <2>3. CASE job[r].pm \in gateway.attached
    <3>1. gateway' = Detached(job[r].pm) /\ \E p \in {"next", "detached"} : Go(r, p)
      BY <1>8, <2>2, <2>3 DEF DetachAtGateway
    <3>2. GatewayOK'
      BY <1>0, <2>2, <3>1, GatewayMoves DEF GatewayOK
    <3>3. \A p \in {"next", "detached"} :
            p \in RequestPhase /\ p \notin {"prefer next", "mark next"}
      BY DEF RequestPhase
    <3> QED BY <1>0, <1>2, <2>1, <2>2, <3>1, <3>2, <3>3, RequestGoes, RequestKeepsTypes
  <2>4. CASE job[r].pm \notin gateway.attached
    <3>1. UNCHANGED gateway /\ Throw(r)
      BY <1>8, <2>4 DEF DetachAtGateway
    <3> QED BY <1>0, <1>1, <1>2, <2>1, <3>1, RequestStops, RequestKeepsTypes
  <2> QED BY <2>3, <2>4
<1>9. CASE FindNext(r)
  <2>1. UNCHANGED <<customer, gateway, rows, drafts, messages>>
    BY <1>9 DEF FindNext
  <2> QED BY <1>1, <1>2, <1>9, <2>1, NextJob, RequestKeepsTypes
<1>10. CASE PreferNext(r)
  <2>1. /\ UNCHANGED <<customer, rows, drafts, messages>> /\ job[r].pc = "prefer next"
        /\ GatewayDefault(r, job[r].next, "mark next")
    BY <1>10 DEF PreferNext, At
  <2>2. job[r].pc \in RequestPhase /\ "mark next" \in RequestPhase
    BY <2>1 DEF RequestPhase
  <2>3. job[r].pm \in Method /\ job[r].next \in Method
    BY <2>1, <2>2, RequestAt
  <2> QED BY <1>2, <2>1, <2>2, <2>3, DefaultAsked, RequestKeepsTypes
<1>11. CASE MarkNext(r)
  <2>1. /\ UNCHANGED <<customer, gateway, order, drafts, messages>> /\ job[r].pc = "mark next"
        /\ Go(r, "detached") /\ method' = [method EXCEPT ![job[r].next].default = TRUE]
    BY <1>11 DEF MarkNext, At
  <2>2. job[r].pc \in RequestPhase /\ "detached" \in RequestPhase
    BY <2>1 DEF RequestPhase
  <2>3. job[r].pm \in Method /\ job[r].next \in Method
    BY <2>1, <2>2, RequestAt
  <2>4. RowsOK'
    BY <1>0, <2>1, <2>3, FlagRow
  <2> QED BY <1>0, <1>1, <2>1, <2>2, <2>3, <2>4, RequestGoes, RequestKeepsTypes
<1>12. CASE MarkDetached(r)
  <2>1. /\ UNCHANGED <<customer, gateway, order, drafts, messages>> /\ job[r].pc = "detached"
        /\ Go(r, "recalculate")
        /\ method' = [method EXCEPT ![job[r].pm] = [status |-> "detached", default |-> FALSE]]
    BY <1>12 DEF MarkDetached, At
  <2>2. job[r].pm \in Method /\ "recalculate" \notin RequestPhase
    BY <2>1, RequestAt DEF RequestPhase
  <2>3. RowsOK'
    <3> DEFINE t == [status |-> "detached", default |-> FALSE]
    <3>1. t \in MethodRow /\ t.status # "none"
      BY DEF MethodRow
    <3>2. method' = [method EXCEPT ![job[r].pm] = t] /\ UNCHANGED order
      BY <2>1
    <3> HIDE DEF t
    <3> QED BY <1>0, <2>2, <3>1, <3>2, RowChanges
  <2> QED BY <1>0, <1>1, <2>1, <2>2, <2>3, RequestGoes, RequestKeepsTypes
<1>13. CASE Prefer(r)
  <2>1. /\ UNCHANGED <<customer, rows, drafts, messages>> /\ job[r].pc = "set default"
        /\ GatewayDefault(r, job[r].pm, "clear")
    BY <1>13 DEF Prefer, At
  <2>2. job[r].pc \in RequestPhase /\ "clear" \in RequestPhase
    BY <2>1 DEF RequestPhase
  <2>3. job[r].pm \in Method
    BY <2>2, RequestAt
  <2> QED BY <1>2, <2>1, <2>2, <2>3, DefaultAsked, RequestKeepsTypes
<1>14. CASE ClearDefaults(r)
  <2>1. /\ UNCHANGED <<customer, gateway, order, drafts, messages>> /\ job[r].pc = "clear"
        /\ Go(r, "mark default") /\ method' = Cleared
    BY <1>14 DEF ClearDefaults, At
  <2>2. job[r].pm \in Method /\ "mark default" \in RequestPhase
    BY <2>1, RequestAt DEF RequestPhase
  <2>3. RowsOK'
    BY <1>0, <2>1, ClearRows
  <2> QED BY <1>0, <1>1, <2>1, <2>2, <2>3, RequestGoes, RequestKeepsTypes
<1>15. CASE MarkDefault(r)
  <2>1. /\ UNCHANGED <<customer, gateway, order, drafts, messages>> /\ job[r].pc = "mark default"
        /\ Go(r, "recalculate") /\ method' = [method EXCEPT ![job[r].pm].default = TRUE]
    BY <1>15 DEF MarkDefault, At
  <2>2. job[r].pm \in Method /\ "recalculate" \notin RequestPhase
    BY <2>1, RequestAt DEF RequestPhase
  <2>3. RowsOK'
    BY <1>0, <2>1, <2>2, FlagRow
  <2> QED BY <1>0, <1>1, <2>1, <2>2, <2>3, RequestGoes, RequestKeepsTypes
<1> QED
  BY <1>3, <1>4, <1>5, <1>6, <1>7, <1>8, <1>9, <1>10, <1>11, <1>12, <1>13, <1>14, <1>15
  DEF RequestStep

\* A consumer that goes on keeps its message, which its next phase is about.
LEMMA ConsumerGoes ==
  ASSUME JobsOK, NEW c \in Consumer,
         NEW p \in {"insert customer", "rename", "recalculate", "drop"}, Go(c, p),
         job[c].pc # "idle", job[c].message.type \in TypesAt(p),
         p = "drop" => Value(c) \in Method
  PROVE  /\ job' \in [Actor -> Job] /\ \A b \in Actor : b # c => job'[b] = job[b]
         /\ JobOK(c, job'[c]) /\ job'[c].invoice = job[c].invoice
         /\ job'[c].pc = p /\ job'[c].message = job[c].message
<1>1. c \in Actor /\ c \notin Request /\ p \in Phase
  BY ConsumerIsActor DEF Phase, SharedPhase, ConsumerPhase
<1>2. /\ job' \in [Actor -> Job] /\ job'[c].pc = p
      /\ job'[c].message = job[c].message /\ job'[c].invoice = job[c].invoice
      /\ \A b \in Actor : b # c => job'[b] = job[b]
  BY <1>1, Going
<1>3. p \notin {"rewrite", "idle"} /\ p \in ConsumerPhase \cup SharedPhase
  BY DEF ConsumerPhase, SharedPhase
<1>4. job[c].message \in Message
  BY <1>1 DEF JobsOK, JobOK
<1> QED BY <1>1, <1>2, <1>3, <1>4 DEF JobOK, Value

\* It has handled its message and goes on to mark it.
LEMMA ConsumerReturns ==
  ASSUME JobsOK, NEW c \in Consumer, Return(c), job[c].pc # "idle"
  PROVE  /\ job' \in [Actor -> Job] /\ \A b \in Actor : b # c => job'[b] = job[b]
         /\ JobOK(c, job'[c]) /\ job'[c].invoice = 0
         /\ job'[c].pc = "mark" /\ job'[c].message = job[c].message
<1>1. c \in Actor /\ c \notin Request /\ JobOK(c, job[c])
  BY ConsumerIsActor DEF JobsOK
<1>2. /\ job' \in [Actor -> Job] /\ job'[c].pc = "mark" /\ job'[c].message = job[c].message
      /\ job'[c].invoice = 0 /\ \A b \in Actor : b # c => job'[b] = job[b]
  BY <1>1, Returning
<1>3. "mark" \in ConsumerPhase /\ TypesAt("mark") = MessageType
  BY DEF ConsumerPhase, TypesAt, MessageType
<1>4. job[c].message \in Message /\ job[c].message.type \in MessageType
  BY AccountAssumption, <1>1 DEF JobOK, MessageType
<1> QED BY <1>1, <1>2, <1>3, <1>4 DEF JobOK

LEMMA ConsumerThrows ==
  ASSUME JobsOK, NEW c \in Consumer, Throw(c)
  PROVE  /\ job' \in [Actor -> Job] /\ \A b \in Actor : b # c => job'[b] = job[b]
         /\ JobOK(c, job'[c]) /\ job'[c].invoice = 0 /\ job'[c] = NoJob /\ job'[c].pc = "idle"
BY ConsumerIsActor, Throwing, NoJobType

LEMMA TakeJob ==
  ASSUME TypeInv, NEW c \in Consumer, NEW m \in Message, Take(c, m)
  PROVE  /\ job' \in [Actor -> Job] /\ \A b \in Actor : b # c => job'[b] = job[b]
         /\ JobOK(c, job'[c]) /\ job'[c].invoice = 0
         /\ job'[c].pc = m.type /\ job'[c].message = m
<1> DEFINE t == [NoJob EXCEPT !.pc = m.type, !.message = m]
<1>1. m.type \in MessageType
  BY AccountAssumption DEF MessageType
<1>2. m.type \in ConsumerPhase \cup SharedPhase /\ m.type \in Phase
      /\ m.type \notin {"drop", "rewrite", "idle"} /\ TypesAt(m.type) = {m.type}
  BY <1>1 DEF ConsumerPhase, Phase, MessageType, TypesAt
<1>3. t \in Job /\ t.pc = m.type /\ t.message = m /\ t.invoice = 0
  BY <1>2 DEF NoJob, Job
<1> HIDE DEF t
<1>4. job' = [job EXCEPT ![c] = t]
  BY DEF Take, t
<1>5. job' \in [Actor -> Job] /\ job'[c] = t /\ \A b \in Actor : b # c => job'[b] = job[b]
  BY <1>3, <1>4, ConsumerIsActor DEF TypeInv, JobsOK
<1> QED BY <1>2, <1>3, <1>5, ConsumerIsActor DEF JobOK

\* A consumer moves on with its message: what it leaves behind has its types.
LEMMA ConsumerKeepsTypes ==
  ASSUME TypeInv, NEW c \in Consumer,
         job' \in [Actor -> Job], \A b \in Actor : b # c => job'[b] = job[b],
         JobOK(c, job'[c]), job'[c].invoice = 0 \/ job'[c].invoice = job[c].invoice,
         job'[c].pc # "idle" => job'[c].message \in delivered', delivered \subseteq delivered',
         customer' \in [exists: BOOLEAN, name: Nat], GatewayOK', RowsOK',
         surcharged' \in BOOLEAN, InvoicesOK', Len(invoices) <= Len(invoices'), MessagesOK'
  PROVE  TypeInv'
<1>1. JobsOK' /\ Delivered' /\ InvoicesKnown'
  BY ConsumerIsActor, JobsFollow
<1> QED BY <1>1, PartsPrimed

LEMMA ConsumerAt ==
  ASSUME TypeInv, NEW c \in Consumer, job[c].pc # "idle"
  PROVE  /\ job[c].message \in delivered /\ job[c].message \in Message
         /\ job[c].message.type \in MessageType /\ job[c].message.type \in TypesAt(job[c].pc)
         /\ job[c].pc = "drop" => Value(c) \in Method
BY ConsumerIsActor, AccountAssumption
DEF TypeInv, JobsOK, JobOK, Delivered, At, MessageType, Value

LEMMA NewInvoices ==
  ASSUME InvoicesOK, ActiveDefault \in SUBSET Method, surcharged \in BOOLEAN,
         NEW purpose \in {"cycle", "onboarding", "one_time"}, CreateInvoice(purpose)
  PROVE  InvoicesOK' /\ Len(invoices) <= Len(invoices')
<1>1. NewInvoice(purpose) \in InvoiceRow
  BY DEF NewInvoice, InvoiceRow, SurchargeDue
<1>2. invoices' = Append(invoices, NewInvoice(purpose))
  BY DEF CreateInvoice
<1> HIDE DEF InvoiceRow
<1>3. NewInvoice(purpose) \in InvoiceRow /\ invoices \in Seq(InvoiceRow)
  BY <1>1 DEF InvoicesOK
<1>4. invoices' \in Seq(InvoiceRow) /\ Len(invoices') = Len(invoices) + 1 /\ Len(invoices) \in Nat
  BY <1>2, <1>3
<1> QED BY <1>4 DEF InvoicesOK

LEMMA ConsumerTypes ==
  ASSUME TypeInv, NEW c \in Consumer, ConsumerStep(c)
  PROVE  TypeInv'
<1>0. /\ JobsOK /\ GatewayOK /\ RowsOK /\ InvoicesOK /\ MessagesOK
      /\ customer \in [exists: BOOLEAN, name: Nat] /\ surcharged \in BOOLEAN
  BY Parts
<1>1. /\ UNCHANGED gateway => GatewayOK'
      /\ UNCHANGED rows => RowsOK'
      /\ UNCHANGED invoices => InvoicesOK' /\ Len(invoices) <= Len(invoices')
      /\ UNCHANGED messages => MessagesOK'
      /\ UNCHANGED customer => customer' \in [exists: BOOLEAN, name: Nat]
      /\ UNCHANGED surcharged => surcharged' \in BOOLEAN
  <2>1. Len(invoices) \in Nat
    BY <1>0 DEF InvoicesOK
  <2> QED BY <1>0, <2>1 DEF GatewayOK, RowsOK, rows, OrderIsOfRows, InvoicesOK, MessagesOK, messages
<1>2. /\ UNCHANGED messages => UNCHANGED delivered
      /\ UNCHANGED drafts => UNCHANGED invoices /\ UNCHANGED surcharged
  BY DEF messages, drafts
<1>3. ASSUME NEW m \in Message, Take(c, m) PROVE TypeInv'
  <2>1. /\ UNCHANGED <<customer, gateway, rows, drafts>>
        /\ delivered' = delivered \cup {m} /\ UNCHANGED processed
    BY <1>3 DEF Take
  <2>2. MessagesOK'
    BY <1>0, <2>1 DEF MessagesOK
  <2> QED BY <1>1, <1>2, <1>3, <2>1, <2>2, TakeJob, ConsumerKeepsTypes
<1>4. CASE CreateAtGateway(c)
  <2>1. UNCHANGED <<customer, rows, drafts, messages>> /\ job[c].pc = "customer.created"
    BY <1>4 DEF CreateAtGateway, At
  <2>2. CASE Return(c) /\ UNCHANGED gateway
    BY <1>0, <1>1, <1>2, <2>1, <2>2, ConsumerAt, ConsumerReturns, ConsumerKeepsTypes
  <2>3. CASE /\ gateway.customers < MaxCustomers /\ Go(c, "insert customer")
             /\ gateway' = [gateway EXCEPT !.customers = @ + 1, !.name = 0]
    <3>1. GatewayOK'
      <4>1. MaxCustomers \in Nat /\ gateway.customers \in 0..MaxCustomers
        BY <1>0, AccountAssumption DEF GatewayOK
      <4>2. gateway.customers < MaxCustomers
        BY <2>3
      <4>3. gateway.customers + 1 \in 0..MaxCustomers
        BY <4>1, <4>2
      <4> QED BY <1>0, <2>3, <4>3 DEF GatewayOK
    <3>2. job[c].message.type \in TypesAt("insert customer")
      BY <2>1, ConsumerAt DEF TypesAt, MessageType
    <3> QED BY <1>0, <1>1, <1>2, <2>1, <2>3, <3>1, <3>2, ConsumerAt, ConsumerGoes, ConsumerKeepsTypes
  <2> QED BY <1>4, <2>2, <2>3 DEF CreateAtGateway
<1>5. CASE InsertCustomer(c)
  <2>1. UNCHANGED <<gateway, rows, drafts, messages>> /\ job[c].pc = "insert customer"
    BY <1>5 DEF InsertCustomer, At
  <2>2. CASE Throw(c) /\ UNCHANGED customer
    BY <1>0, <1>1, <1>2, <2>1, <2>2, ConsumerThrows, ConsumerKeepsTypes
  <2>3. CASE Return(c) /\ customer' = [exists |-> TRUE, name |-> 0]
    <3>1. customer' \in [exists: BOOLEAN, name: Nat]
      BY <2>3
    <3> QED BY <1>0, <1>1, <1>2, <2>1, <2>3, <3>1, ConsumerAt, ConsumerReturns, ConsumerKeepsTypes
  <2> QED BY <1>5, <2>2, <2>3 DEF InsertCustomer
<1>6. CASE RenameAtGateway(c)
  <2>1. UNCHANGED <<customer, rows, drafts, messages>> /\ job[c].pc = "customer.updated"
    BY <1>6 DEF RenameAtGateway, At
  <2>2. CASE Throw(c) /\ UNCHANGED gateway
    BY <1>0, <1>1, <1>2, <2>1, <2>2, ConsumerThrows, ConsumerKeepsTypes
  <2>3. CASE gateway' = [gateway EXCEPT !.name = Value(c)] /\ Go(c, "rename")
    <3>1. job[c].message.type = "customer.updated" /\ job[c].message \in Message
      BY <2>1, ConsumerAt DEF TypesAt, MessageType
    <3>2. Value(c) \in Nat
      BY <3>1, AccountAssumption DEF Value
    <3>3. GatewayOK'
      BY <1>0, <2>3, <3>2 DEF GatewayOK
    <3>4. job[c].message.type \in TypesAt("rename")
      BY <3>1 DEF TypesAt, MessageType
    <3> QED BY <1>0, <1>1, <1>2, <2>1, <2>3, <3>3, <3>4, ConsumerAt, ConsumerGoes, ConsumerKeepsTypes
  <2> QED BY <1>6, <2>2, <2>3 DEF RenameAtGateway
<1>7. CASE Rename(c)
  <2>1. /\ UNCHANGED <<gateway, rows, drafts, messages>> /\ job[c].pc = "rename"
        /\ Return(c) /\ customer' = [customer EXCEPT !.name = Value(c)]
    BY <1>7 DEF Rename, At
  <2>2. job[c].message.type = "customer.updated" /\ job[c].message \in Message
    BY <2>1, ConsumerAt DEF TypesAt, MessageType
  <2>3. Value(c) \in Nat
    BY <2>2, AccountAssumption DEF Value
  <2>4. customer' \in [exists: BOOLEAN, name: Nat]
    BY <1>0, <2>1, <2>3
  <2> QED BY <1>0, <1>1, <1>2, <2>1, <2>4, ConsumerAt, ConsumerReturns, ConsumerKeepsTypes
<1>8. CASE UpsertSurcharge(c)
  <2>1. /\ UNCHANGED <<customer, gateway, rows, invoices, messages>>
        /\ job[c].pc = "surcharge-config.updated"
    BY <1>8 DEF UpsertSurcharge, At
  <2>2. CASE Return(c) /\ UNCHANGED surcharged
    BY <1>0, <1>1, <1>2, <2>1, <2>2, ConsumerAt, ConsumerReturns, ConsumerKeepsTypes
  <2>3. CASE surcharged' = Value(c) /\ Go(c, "recalculate")
    <3>1. job[c].message.type = "surcharge-config.updated" /\ job[c].message \in Message
      BY <2>1, ConsumerAt DEF TypesAt, MessageType
    <3>2. surcharged' \in BOOLEAN
      BY <2>3, <3>1, AccountAssumption DEF Value
    <3>3. job[c].message.type \in TypesAt("recalculate")
      BY <3>1 DEF TypesAt, MessageType
    <3> QED BY <1>0, <1>1, <1>2, <2>1, <2>3, <3>2, <3>3, ConsumerAt, ConsumerGoes, ConsumerKeepsTypes
  <2> QED BY <1>8, <2>2, <2>3 DEF UpsertSurcharge
<1>9. CASE CreateOneTime(c)
  <2>1. /\ UNCHANGED <<customer, gateway, rows, surcharged, messages>>
        /\ job[c].pc = "invoice.create" /\ Return(c)
    BY <1>9 DEF CreateOneTime, At
  <2>2. InvoicesOK' /\ Len(invoices) <= Len(invoices')
    <3>1. CreateInvoice("one_time") \/ UNCHANGED invoices
      BY <1>9 DEF CreateOneTime
    <3>2. ActiveDefault \in SUBSET Method
      BY DEF ActiveDefault, Active
    <3> QED BY <1>0, <1>1, <3>1, <3>2, NewInvoices
  <2> QED BY <1>0, <1>1, <1>2, <2>1, <2>2, ConsumerAt, ConsumerReturns, ConsumerKeepsTypes
<1>10. CASE LoseMandate(c)
  <2>1. UNCHANGED <<customer, rows, drafts, messages>> /\ job[c].pc = "mandate.updated"
    BY <1>10 DEF LoseMandate, At
  <2>2. CASE Return(c) /\ UNCHANGED gateway
    BY <1>0, <1>1, <1>2, <2>1, <2>2, ConsumerAt, ConsumerReturns, ConsumerKeepsTypes
  <2>3. CASE /\ Value(c) \in Active \cap Bank /\ Go(c, "drop")
             /\ gateway' \in {gateway, Detached(Value(c))}
    <3>1. Value(c) \in Method
      BY <2>3 DEF Active
    <3>2. GatewayOK'
      <4>1. Detached(Value(c)) \in [customers: 0..MaxCustomers, name: Nat,
              attached: SUBSET Method, gone: SUBSET Method, default: Method \cup {Nothing}]
        BY <1>0, <3>1, GatewayMoves
      <4> QED BY <1>0, <2>3, <4>1 DEF GatewayOK
    <3>3. job[c].message.type \in TypesAt("drop")
      BY <2>1, ConsumerAt DEF TypesAt, MessageType
    <3> QED BY <1>0, <1>1, <1>2, <2>1, <2>3, <3>1, <3>2, <3>3, ConsumerAt, ConsumerGoes, ConsumerKeepsTypes
  <2> QED BY <1>10, <2>2, <2>3 DEF LoseMandate
<1>11. CASE DropMethod(c)
  <2>1. /\ UNCHANGED <<customer, gateway, order, drafts, messages>> /\ job[c].pc = "drop"
        /\ Return(c) \/ Throw(c)
        /\ method' = [method EXCEPT ![Value(c)].status = "detached"]
    BY <1>11 DEF DropMethod, At
  <2>2. RowsOK'
    BY <1>0, <2>1, ConsumerAt, DropRow
  <2> QED BY <1>0, <1>1, <1>2, <2>1, <2>2, ConsumerAt, ConsumerReturns, ConsumerThrows, ConsumerKeepsTypes
<1>12. CASE Mark(c)
  <2>1. /\ UNCHANGED <<customer, gateway, rows, drafts, delivered>> /\ job[c].pc = "mark"
        /\ Throw(c) /\ processed' = processed \cup {job[c].message}
    BY <1>12 DEF Mark, At
  <2>2. MessagesOK'
    BY <1>0, <2>1, ConsumerAt DEF MessagesOK
  <2> QED BY <1>0, <1>1, <1>2, <2>1, <2>2, ConsumerThrows, ConsumerKeepsTypes
<1> QED
  BY <1>3, <1>4, <1>5, <1>6, <1>7, <1>8, <1>9, <1>10, <1>11, <1>12 DEF ConsumerStep

\* A request or a consumer reads the open invoice, or rewrites it.
LEMMA SharedTypes ==
  ASSUME TypeInv, NEW a \in Actor, ReadOpenInvoice(a) \/ RewriteSurcharge(a) \/ Crash(a)
  PROVE  /\ TypeInv'
         /\ \/ job'[a].pc = "idle"
            \/ ~Crash(a) /\ a \in Consumer /\ job'[a].pc = "mark"
                 /\ job'[a].message = job[a].message
            \/ ReadOpenInvoice(a) /\ job'[a].pc = "rewrite" /\ job'[a].message = job[a].message
         /\ a \notin Consumer => job'[a].pc \in {"idle", "rewrite"}
         /\ job[a].pc # "idle"
         /\ \A b \in Actor : b # a => job'[b] = job[b]
<1>0. /\ JobsOK /\ GatewayOK /\ RowsOK /\ InvoicesOK /\ MessagesOK
      /\ customer \in [exists: BOOLEAN, name: Nat] /\ surcharged \in BOOLEAN
  BY Parts
<1>1. /\ UNCHANGED <<customer, gateway, rows, surcharged, messages>> /\ job[a].pc # "idle"
  BY DEF ReadOpenInvoice, RewriteSurcharge, Crash, At, drafts
<1>2. /\ customer' \in [exists: BOOLEAN, name: Nat] /\ GatewayOK' /\ RowsOK'
      /\ surcharged' \in BOOLEAN /\ MessagesOK' /\ UNCHANGED delivered
  BY <1>0, <1>1 DEF GatewayOK, RowsOK, rows, OrderIsOfRows, MessagesOK, messages
<1>3. InvoicesOK' /\ Len(invoices') = Len(invoices)
  <2>1. CASE UNCHANGED invoices
    BY <1>0, <2>1 DEF InvoicesOK
  <2>2. CASE RewriteSurcharge(a)
    <3>1. invoices' = [invoices EXCEPT ![job[a].invoice].extra = job[a].extra]
      BY <2>2 DEF RewriteSurcharge
    <3>2. /\ job[a].extra \in BOOLEAN /\ job[a].invoice \in Nat /\ job[a].invoice # 0
          /\ job[a].invoice <= Len(invoices) /\ Len(invoices) \in Nat
      <4>1. job[a].pc = "rewrite" /\ job[a] \in Job /\ JobOK(a, job[a])
        BY <1>0, <2>2 DEF RewriteSurcharge, At, JobsOK
      <4>2. job[a].extra \in BOOLEAN /\ job[a].invoice \in Nat
        BY <4>1, JobFields
      <4>3. job[a].invoice # 0
        BY <4>1 DEF JobOK
      <4> QED BY <1>0, <4>2, <4>3 DEF TypeInv, InvoicesKnown, InvoicesOK
    <3>3. job[a].invoice \in 1..Len(invoices)
      BY <3>2
    <3> DEFINE i == job[a].invoice
               t == [invoices[i] EXCEPT !.extra = job[a].extra]
    <3>4. invoices[i] \in InvoiceRow
      BY <1>0, <3>3 DEF InvoicesOK
    <3>5. t \in InvoiceRow
      BY <3>2, <3>4 DEF InvoiceRow
    <3>6. invoices' = [invoices EXCEPT ![i] = t]
      BY <3>1
    <3> HIDE DEF t, i
    <3>7. i \in 1..Len(invoices)
      BY <3>3 DEF i
    <3> HIDE DEF InvoiceRow
    <3> QED BY <1>0, <3>5, <3>6, <3>7 DEF InvoicesOK
  <2>3. ReadOpenInvoice(a) \/ Crash(a) => UNCHANGED invoices
    BY DEF ReadOpenInvoice, Crash, drafts
  <2> QED BY <2>1, <2>2, <2>3
<1>4. /\ job' \in [Actor -> Job] /\ \A b \in Actor : b # a => job'[b] = job[b]
      /\ JobOK(a, job'[a])
      /\ job'[a].invoice = 0 \/ job'[a].invoice = job[a].invoice \/ job'[a].invoice \in DOMAIN invoices
      /\ \/ job'[a].pc = "idle"
         \/ ~Crash(a) /\ a \in Consumer /\ job'[a].pc = "mark" /\ job'[a].message = job[a].message
         \/ ReadOpenInvoice(a) /\ job'[a].pc = "rewrite" /\ job'[a].message = job[a].message
      /\ a \notin Consumer => job'[a].pc \in {"idle", "rewrite"}
  <2>1. CASE Throw(a)
    BY <1>0, <2>1, Throwing, NoJobType
  <2>2. CASE Return(a) /\ ~Crash(a)
    <3>1. CASE a \in Consumer
      BY <1>0, <1>1, <2>2, <3>1, ConsumerReturns
    <3>2. CASE a \notin Consumer
      BY <1>0, <2>2, <3>2, Returning, NoJobType
    <3> QED BY <3>1, <3>2
  <2>3. CASE ReadOpenInvoice(a) /\ OpenRecurringDrafts # {}
    <3> DEFINE i == Max(OpenRecurringDrafts)
               t == [job[a] EXCEPT !.pc = "rewrite", !.extra = SurchargeDue, !.invoice = i]
    <3>1. i \in DOMAIN invoices /\ i \in Nat /\ i # 0
      <4>1. DOMAIN invoices = 1..Len(invoices) /\ Len(invoices) \in Nat
        BY <1>0 DEF InvoicesOK
      <4>2. OpenRecurringDrafts \in SUBSET (0..Len(invoices))
        BY <4>1 DEF OpenRecurringDrafts
      <4>3. i \in OpenRecurringDrafts
        BY <2>3, <4>1, <4>2, Greatest
      <4>4. i \in 1..Len(invoices)
        BY <4>1, <4>3 DEF OpenRecurringDrafts
      <4> HIDE DEF i
      <4> QED BY <4>1, <4>4
    <3>2. job' = [job EXCEPT ![a] = t]
      BY <1>0, <2>3 DEF ReadOpenInvoice, JobsOK
    <3> HIDE DEF i
    <3>3. SurchargeDue \in BOOLEAN
      BY <1>0 DEF SurchargeDue
    <3>4. job[a] \in Job
      BY <1>0 DEF JobsOK
    <3>5. t \in Job /\ t.pc = "rewrite" /\ t.invoice = i /\ t.message = job[a].message
      BY <3>1, <3>3, <3>4 DEF Job, Phase, SharedPhase
    <3> HIDE DEF t
    <3>6. job' \in [Actor -> Job] /\ job'[a] = t /\ \A b \in Actor : b # a => job'[b] = job[b]
      BY <1>0, <3>2, <3>5 DEF JobsOK
    <3>7. JobOK(a, t)
      <4>1. job[a].pc = "recalculate" /\ JobOK(a, job[a])
        BY <1>0, <2>3 DEF ReadOpenInvoice, At, JobsOK
      <4>2. TypesAt("rewrite") = TypesAt("recalculate")
        BY DEF TypesAt, MessageType
      <4>3. "rewrite" \in SharedPhase /\ "rewrite" \notin RequestPhase
        BY DEF SharedPhase, RequestPhase
      <4> QED BY <3>1, <3>5, <4>1, <4>2, <4>3 DEF JobOK
    <3> QED BY <2>3, <3>1, <3>5, <3>6, <3>7
  <2>4. Throw(a) \/ (Return(a) /\ ~Crash(a)) \/ (ReadOpenInvoice(a) /\ OpenRecurringDrafts # {})
    <3>1. Crash(a) => Throw(a)
      BY DEF Crash
    <3> QED BY <3>1 DEF ReadOpenInvoice, RewriteSurcharge
  <2> HIDE DEF ReadOpenInvoice, RewriteSurcharge, Crash, Throw, Return
  <2> QED BY <2>1, <2>2, <2>3, <2>4
<1>5. a \in Consumer /\ job'[a].pc # "idle" => job'[a].message \in delivered'
  BY <1>1, <1>2, <1>4, ConsumerAt
<1>6. JobsOK' /\ Delivered' /\ InvoicesKnown'
  <2>1. Len(invoices) <= Len(invoices')
    BY <1>0, <1>3 DEF InvoicesOK
  <2> QED BY <1>2, <1>3, <1>4, <1>5, <2>1, JobsFollow
<1>7. TypeInv'
  BY <1>2, <1>3, <1>6, PartsPrimed
<1> QED BY <1>1, <1>4, <1>7

\* What is done to invoices alone.
LEMMA InvoiceTypes ==
  ASSUME TypeInv, CreateDraft \/ SchedulerPass \/ \E i \in DOMAIN invoices : FinalizeCycle(i)
  PROVE  TypeInv' /\ UNCHANGED <<customer, gateway, rows, surcharged, job, messages>>
<1>0. /\ JobsOK /\ GatewayOK /\ RowsOK /\ InvoicesOK /\ MessagesOK
      /\ customer \in [exists: BOOLEAN, name: Nat] /\ surcharged \in BOOLEAN
  BY Parts
<1>1. UNCHANGED <<customer, gateway, rows, surcharged, job, messages>>
  BY DEF CreateDraft, SchedulerPass, FinalizeCycle
<1>2. SurchargeDue \in BOOLEAN
  BY <1>0 DEF SurchargeDue
<1>3. ASSUME NEW s \in InvoiceRow PROVE Settled(s) \in InvoiceRow
  BY <1>2 DEF InvoiceRow, Settled
<1>4. InvoicesOK' /\ Len(invoices) <= Len(invoices')
  <2>0. Len(invoices) \in Nat /\ \A i \in 1..Len(invoices) : invoices[i] \in InvoiceRow
    BY <1>0 DEF InvoicesOK
  <2>1. CASE CreateDraft
    <3>1. PICK purpose \in {"cycle", "onboarding"} : CreateInvoice(purpose)
      BY <2>1 DEF CreateDraft
    <3>2. ActiveDefault \in SUBSET Method
      BY DEF ActiveDefault, Active
    <3> QED BY <1>0, <3>1, <3>2, NewInvoices
  <2>2. CASE SchedulerPass
    <3> DEFINE o(i) == IF PendingOnboarding(invoices[i]) THEN Settled(invoices[i]) ELSE invoices[i]
               n(i) == [o(i) EXCEPT !.due = invoices[i].purpose = "onboarding"]
    <3>1. invoices' = [i \in DOMAIN invoices |-> n(i)]
      BY <2>2 DEF SchedulerPass
    <3>2. \A i \in 1..Len(invoices) : n(i) \in InvoiceRow
      <4> SUFFICES ASSUME NEW i \in 1..Len(invoices) PROVE n(i) \in InvoiceRow
        OBVIOUS
      <4>1. o(i) \in InvoiceRow
        BY <1>3, <2>0
      <4> HIDE DEF o
      <4> QED BY <4>1 DEF InvoiceRow
    <3>3. DOMAIN invoices = 1..Len(invoices)
      BY <1>0 DEF InvoicesOK
    <3> HIDE DEF n, InvoiceRow
    <3>4. invoices' \in Seq(InvoiceRow) /\ Len(invoices') = Len(invoices)
      BY <2>0, <3>1, <3>2, <3>3
    <3> QED BY <2>0, <3>4 DEF InvoicesOK
  <2>3. ASSUME NEW i \in DOMAIN invoices, FinalizeCycle(i)
        PROVE  InvoicesOK' /\ Len(invoices) <= Len(invoices')
    <3>1. DOMAIN invoices = 1..Len(invoices)
      BY <1>0 DEF InvoicesOK
    <3>2. Settled(invoices[i]) \in InvoiceRow
      BY <1>3, <2>0, <3>1
    <3>3. invoices' = [invoices EXCEPT ![i] = Settled(invoices[i])]
      BY <2>3 DEF FinalizeCycle
    <3> HIDE DEF InvoiceRow
    <3> QED BY <1>0, <2>0, <3>1, <3>2, <3>3 DEF InvoicesOK
  <2> QED BY <2>1, <2>2, <2>3
<1>5. /\ customer' \in [exists: BOOLEAN, name: Nat] /\ GatewayOK' /\ RowsOK'
      /\ surcharged' \in BOOLEAN /\ MessagesOK' /\ JobsOK' /\ Delivered'
  BY <1>0, <1>1
  DEF GatewayOK, RowsOK, rows, OrderIsOfRows, MessagesOK, messages, JobsOK, TypeInv, Delivered, At
<1>6. InvoicesKnown'
  <2>1. Len(invoices) \in Nat /\ Len(invoices') \in Nat
    BY <1>0, <1>4 DEF InvoicesOK
  <2>2. \A a \in Actor : job[a].invoice \in Nat /\ job[a].invoice <= Len(invoices)
    BY <1>0, JobFields DEF TypeInv, InvoicesKnown, JobsOK
  <2> QED BY <1>1, <1>4, <2>1, <2>2 DEF InvoicesKnown
<1> QED BY <1>1, <1>4, <1>5, <1>6, PartsPrimed

LEMMA TypesInit == Init => TypeInv
<1> SUFFICES ASSUME Init PROVE TypeInv
  OBVIOUS
<1>1. customer \in [exists: BOOLEAN, name: Nat] /\ surcharged \in BOOLEAN /\ MessagesOK
  BY DEF Init, MessagesOK
<1>2. GatewayOK
  BY AccountAssumption DEF Init, GatewayOK
<1>3. RowsOK
  BY DEF Init, RowsOK, MethodRow, OrderIsOfRows, IsInjective
<1>4. InvoicesOK
  BY DEF Init, InvoicesOK
<1>5. JobsOK
  BY NoJobType DEF Init, JobsOK
<1>6. \A a \in Actor : job[a].pc = "idle" /\ job[a].invoice = 0
  BY NoJobType DEF Init
<1>7. Delivered /\ InvoicesKnown
  BY <1>6, ConsumerIsActor DEF Init, Delivered, InvoicesKnown, At
<1> QED BY <1>1, <1>2, <1>3, <1>4, <1>5, <1>7, Parts

LEMMA TypesStep == TypeInv /\ [Next]_vars => TypeInv'
<1> SUFFICES ASSUME TypeInv, [Next]_vars PROVE TypeInv'
  OBVIOUS
<1>1. CASE UNCHANGED vars
  BY <1>1
  DEF vars, TypeInv, TypeOK, JobsOK, Delivered, At, InvoicesKnown, OrderIsOfRows
<1>2. CASE Next
  BY <1>2, RequestTypes, ConsumerTypes, SharedTypes, InvoiceTypes DEF Next
<1> QED BY <1>1, <1>2

\* The records of the account, and everything a request or a consumer holds
\* between its steps, keep their types; a method has at most one row.
THEOREM AccountTypes == Spec => []TypeOK
<1>1. Spec => []TypeInv
  BY TypesInit, TypesStep, PTL DEF Spec
<1>2. TypeInv => TypeOK
  BY DEF TypeInv
<1> QED BY <1>1, <1>2, PTL

-----------------------------------------------------------------------------
(* Layer 2: names *)

\* A request does nothing to names, messages or the consumers' work.
LEMMA RequestEffect ==
  ASSUME TypeInv, NEW r \in Request, RequestStep(r)
  PROVE  /\ UNCHANGED <<customer, drafts, messages>> /\ gateway'.name = gateway.name
         /\ \A b \in Actor : b # r => job'[b] = job[b]
<1>0. JobsOK /\ GatewayOK /\ r \in Actor
  BY Parts, RequestIsActor
<1>1. UNCHANGED <<customer, drafts, messages>>
  BY DEF RequestStep, Attach, ConfirmSetup, FindMethod, LookForFirst, PreferFirst, InsertMethod,
         DetachAtGateway, FindNext, PreferNext, MarkNext, MarkDetached, Prefer, ClearDefaults,
         MarkDefault
<1>2. \A b \in Actor : b # r => job'[b] = job[b]
  <2>1. \E t : job' = [job EXCEPT ![r] = t]
    <3>1. \A p : Go(r, p) => \E t : job' = [job EXCEPT ![r] = t]
      BY DEF Go
    <3>2. Throw(r) \/ Return(r) => \E t : job' = [job EXCEPT ![r] = t]
      BY DEF Throw, Return
    <3>3. \A m, p : GatewayDefault(r, m, p) => \E t : job' = [job EXCEPT ![r] = t]
      BY <3>1, <3>2 DEF GatewayDefault
    <3>4. LookForFirst(r) \/ FindNext(r) \/ (\E m \in Method : Attach(r, m) \/ ConfirmSetup(r, m))
            \/ (\E m \in Method, op \in {"detach", "set default"} : FindMethod(r, op, m))
            => \E t : job' = [job EXCEPT ![r] = t]
      <4>1. LookForFirst(r) => \E t : job' = [job EXCEPT ![r] = t]
        BY DEF LookForFirst
      <4>2. FindNext(r) => \E t : job' = [job EXCEPT ![r] = t]
        BY DEF FindNext
      <4>3. \A m \in Method : Attach(r, m) \/ ConfirmSetup(r, m) => \E t : job' = [job EXCEPT ![r] = t]
        BY DEF Attach, ConfirmSetup
      <4>4. \A m \in Method, op \in {"detach", "set default"} :
              FindMethod(r, op, m) => \E t : job' = [job EXCEPT ![r] = t]
        BY DEF FindMethod
      <4> QED BY <4>1, <4>2, <4>3, <4>4
    <3>5. InsertMethod(r) \/ DetachAtGateway(r) \/ MarkNext(r) \/ MarkDetached(r) \/ ClearDefaults(r)
            \/ MarkDefault(r) => (\E p : Go(r, p)) \/ Throw(r) \/ Return(r)
      BY DEF InsertMethod, DetachAtGateway, MarkNext, MarkDetached, ClearDefaults, MarkDefault
    <3>6. PreferFirst(r) \/ PreferNext(r) \/ Prefer(r) => \E m, p : GatewayDefault(r, m, p)
      BY DEF PreferFirst, PreferNext, Prefer
    <3> QED BY <3>1, <3>2, <3>3, <3>4, <3>5, <3>6 DEF RequestStep
  <2> QED BY <1>0, <2>1 DEF JobsOK
<1>3. gateway'.name = gateway.name
  <2>1. \A m : GatewayDefault(r, m, "insert") \/ GatewayDefault(r, m, "mark next")
                 \/ GatewayDefault(r, m, "clear") => gateway'.name = gateway.name
    BY <1>0 DEF GatewayDefault, GatewayOK
  <2>2. \A m : gateway' = [gateway EXCEPT !.attached = @ \cup {m}] => gateway'.name = gateway.name
    BY <1>0 DEF GatewayOK
  <2>3. \A m : gateway' = Detached(m) => gateway'.name = gateway.name
    BY <1>0 DEF GatewayOK, Detached
  <2> QED
    BY <2>1, <2>2, <2>3
    DEF RequestStep, Attach, ConfirmSetup, FindMethod, LookForFirst, PreferFirst, InsertMethod,
        DetachAtGateway, FindNext, PreferNext, MarkNext, MarkDetached, Prefer, ClearDefaults,
        MarkDefault
<1> QED BY <1>1, <1>2, <1>3

\* What leaves names and messages alone, as far as the consumers are concerned.
LEMMA NamesFrame ==
  ASSUME NamesInv, UNCHANGED <<customer, messages>>, gateway'.name = gateway.name,
         \A c \in Consumer :
           \/ job'[c] = job[c] \/ job'[c].pc = "idle"
           \/ /\ job[c].pc # "idle" /\ job'[c].message = job[c].message /\ job'[c].pc # "rename"
              /\ job'[c].pc = "mark" => job[c].message.type # "customer.updated"
  PROVE  NamesInv'
BY DEF NamesInv, messages, SameName, Renaming, At, Value

LEMMA NamesStep ==
  ASSUME \A c, d \in Consumer : c = d, TypeInv, NamesInv, [Next]_vars
  PROVE  NamesInv'
<1>0. /\ JobsOK /\ GatewayOK /\ MessagesOK /\ customer \in [exists: BOOLEAN, name: Nat]
  BY Parts
<1>1. CASE UNCHANGED vars
  BY <1>1, NamesFrame DEF vars, messages
<1>2. ASSUME NEW r \in Request, RequestStep(r) PROVE NamesInv'
  <2>1. \A c \in Consumer : job'[c] = job[c]
    BY <1>2, RequestEffect, ConsumerIsActor
  <2> QED BY <1>2, <2>1, RequestEffect, NamesFrame
<1>3. ASSUME NEW a \in Actor, ReadOpenInvoice(a) \/ RewriteSurcharge(a) \/ Crash(a)
      PROVE  NamesInv'
  <2>1. UNCHANGED <<customer, gateway, messages>>
    BY <1>3 DEF ReadOpenInvoice, RewriteSurcharge, Crash, drafts
  <2>2. a \in Consumer /\ ~Crash(a) => job[a].message.type # "customer.updated"
    <3> SUFFICES ASSUME a \in Consumer, ~Crash(a) PROVE job[a].message.type # "customer.updated"
      OBVIOUS
    <3>1. job[a].pc \in {"recalculate", "rewrite"}
      BY <1>3 DEF ReadOpenInvoice, RewriteSurcharge, At
    <3>2. TypesAt(job[a].pc) = {"surcharge-config.updated"}
      BY <3>1 DEF TypesAt, MessageType
    <3> QED BY <3>1, <3>2, ConsumerAt
  <2>3. \A c \in Consumer :
           \/ job'[c] = job[c] \/ job'[c].pc = "idle"
           \/ /\ job[c].pc # "idle" /\ job'[c].message = job[c].message /\ job'[c].pc # "rename"
              /\ job'[c].pc = "mark" => job[c].message.type # "customer.updated"
    BY <1>3, <2>2, SharedTypes, ConsumerIsActor
  <2> QED BY <2>1, <2>3, NamesFrame
<1>4. CASE CreateDraft \/ SchedulerPass \/ \E i \in DOMAIN invoices : FinalizeCycle(i)
  BY <1>4, InvoiceTypes, NamesFrame
<1>5. ASSUME NEW c \in Consumer, ConsumerStep(c) PROVE NamesInv'
  <2>0. /\ Consumer = {c} /\ c \in Actor
        /\ job[c].pc # "idle" => job[c].message \notin processed
        /\ job[c].pc = "rename" => gateway.name = Value(c)
        /\ job[c].pc = "mark" /\ job[c].message.type = "customer.updated" => SameName
    BY ConsumerIsActor DEF NamesInv, At
  <2>1. ASSUME NEW m \in Message, Take(c, m) PROVE NamesInv'
    <3>1. /\ UNCHANGED <<customer, gateway>> /\ delivered' = delivered \cup {m}
          /\ UNCHANGED processed /\ m \notin processed
      BY <2>1 DEF Take
    <3>2. job'[c].pc = m.type /\ job'[c].message = m /\ m.type \in MessageType
      BY <2>1, TakeJob, AccountAssumption DEF MessageType
    <3>3. m.type \notin {"rename", "mark"}
      BY <3>2 DEF MessageType
    <3> QED BY <2>0, <3>1, <3>2, <3>3 DEF NamesInv, SameName, Renaming, At
  <2>2. CASE CreateAtGateway(c)
    <3>1. UNCHANGED <<customer, messages>> /\ job[c].pc = "customer.created"
      BY <2>2 DEF CreateAtGateway, At
    <3>2. job[c].message.type = "customer.created"
      BY <3>1, ConsumerAt DEF TypesAt, MessageType
    <3>3. CASE Return(c) /\ UNCHANGED gateway
      BY <1>0, <2>0, <3>1, <3>2, <3>3, ConsumerReturns, NamesFrame
    <3>4. CASE /\ ~customer.exists /\ Go(c, "insert customer")
               /\ gateway' = [gateway EXCEPT !.customers = @ + 1, !.name = 0]
      <4>1. gateway'.name = 0 /\ gateway.name = 0
        BY <1>0, <3>4 DEF GatewayOK, NamesInv
      <4>2. job'[c].pc = "insert customer" /\ job'[c].message = job[c].message
        BY <1>0, <2>0, <3>4, Going DEF Phase, ConsumerPhase
      <4> QED BY <2>0, <3>1, <4>1, <4>2, NamesFrame
    <3> QED BY <2>2, <3>3, <3>4 DEF CreateAtGateway
  <2>3. CASE InsertCustomer(c)
    <3>1. UNCHANGED <<gateway, messages>> /\ job[c].pc = "insert customer"
      BY <2>3 DEF InsertCustomer, At
    <3>2. CASE Throw(c) /\ UNCHANGED customer
      BY <1>0, <2>0, <3>1, <3>2, ConsumerThrows, NamesFrame
    <3>3. CASE ~customer.exists /\ Return(c) /\ customer' = [exists |-> TRUE, name |-> 0]
      <4>1. SameName' /\ customer'.exists
        BY <3>1, <3>3 DEF NamesInv, SameName
      <4>2. job'[c].pc = "mark" /\ job'[c].message = job[c].message
        BY <1>0, <2>0, <3>1, <3>3, ConsumerReturns
      <4> QED BY <2>0, <3>1, <4>1, <4>2 DEF NamesInv, At, messages
    <3> QED BY <2>3, <3>2, <3>3 DEF InsertCustomer
  <2>4. CASE RenameAtGateway(c)
    <3>1. UNCHANGED <<customer, messages>> /\ job[c].pc = "customer.updated"
      BY <2>4 DEF RenameAtGateway, At
    <3>2. CASE Throw(c) /\ UNCHANGED gateway
      BY <1>0, <2>0, <3>1, <3>2, ConsumerThrows, NamesFrame
    <3>3. CASE customer.exists /\ gateway' = [gateway EXCEPT !.name = Value(c)] /\ Go(c, "rename")
      <4>1. gateway'.name = Value(c)
        BY <1>0, <3>3 DEF GatewayOK
      <4>2. job'[c].pc = "rename" /\ job'[c].message = job[c].message
        BY <1>0, <2>0, <3>3, Going DEF Phase, ConsumerPhase
      <4>3. job[c].message \in Message /\ Renaming(job[c].message)'
        <5>1. /\ job[c].message \in Message /\ job[c].message \in delivered
              /\ job[c].message.type = "customer.updated"
          BY <3>1, ConsumerAt DEF TypesAt, MessageType
        <5> QED BY <2>0, <3>1, <4>2, <5>1 DEF Renaming, messages
      <4> QED BY <2>0, <3>1, <3>3, <4>1, <4>2, <4>3 DEF NamesInv, At, messages, Value
    <3> QED BY <2>4, <3>2, <3>3 DEF RenameAtGateway
  <2>5. CASE Rename(c)
    <3>1. /\ UNCHANGED <<gateway, messages>> /\ job[c].pc = "rename" /\ Return(c)
          /\ customer' = [customer EXCEPT !.name = Value(c)]
      BY <2>5 DEF Rename, At, rows
    <3>2. customer'.name = Value(c) /\ customer'.exists = customer.exists
      BY <1>0, <3>1
    <3>3. SameName'
      BY <2>0, <3>1, <3>2 DEF SameName
    <3>4. job'[c].pc = "mark" /\ job'[c].message = job[c].message
      BY <1>0, <3>1, ConsumerReturns
    <3> QED BY <2>0, <3>1, <3>2, <3>3, <3>4 DEF NamesInv, At, messages
  <2>6. CASE UpsertSurcharge(c)
    <3>1. UNCHANGED <<customer, gateway, messages>> /\ job[c].pc = "surcharge-config.updated"
          /\ (Return(c) \/ Go(c, "recalculate"))
      BY <2>6 DEF UpsertSurcharge, At
    <3>2. job[c].message.type = "surcharge-config.updated"
      BY <3>1, ConsumerAt DEF TypesAt, MessageType
    <3>3. job'[c].pc \in {"mark", "recalculate"} /\ job'[c].message = job[c].message
      BY <1>0, <2>0, <3>1, ConsumerReturns, Going DEF Phase, SharedPhase
    <3> QED BY <2>0, <3>1, <3>2, <3>3, NamesFrame
  <2>7. CASE CreateOneTime(c)
    <3>1. UNCHANGED <<customer, gateway, messages>> /\ job[c].pc = "invoice.create" /\ Return(c)
      BY <2>7 DEF CreateOneTime, At
    <3>2. job[c].message.type = "invoice.create"
      BY <3>1, ConsumerAt DEF TypesAt, MessageType
    <3> QED BY <1>0, <2>0, <3>1, <3>2, ConsumerReturns, NamesFrame
  <2>8. CASE LoseMandate(c)
    <3>1. UNCHANGED <<customer, messages>> /\ job[c].pc = "mandate.updated"
          /\ (Return(c) \/ Go(c, "drop"))
      BY <2>8 DEF LoseMandate, At
    <3>2. job[c].message.type = "mandate.updated"
      BY <3>1, ConsumerAt DEF TypesAt, MessageType
    <3>3. gateway'.name = gateway.name
      <4>1. Detached(Value(c)).name = gateway.name
        BY <1>0 DEF GatewayOK, Detached
      <4> QED BY <2>8, <4>1 DEF LoseMandate
    <3>4. job'[c].pc \in {"mark", "drop"} /\ job'[c].message = job[c].message
      <4>1. CASE Return(c) BY <1>0, <2>0, <3>1, <4>1, ConsumerReturns
      <4>2. CASE Go(c, "drop")
        <5>1. "drop" \in Phase /\ c \in Actor
          BY ConsumerIsActor DEF Phase, ConsumerPhase
        <5> QED BY <1>0, <4>2, <5>1, Going
      <4> QED BY <3>1, <4>1, <4>2
    <3> QED BY <2>0, <3>1, <3>2, <3>3, <3>4, NamesFrame
  <2>9. CASE DropMethod(c)
    <3>1. UNCHANGED <<customer, gateway, messages>> /\ job[c].pc = "drop" /\ (Return(c) \/ Throw(c))
      BY <2>9 DEF DropMethod, At
    <3>2. job[c].message.type = "mandate.updated"
      BY <3>1, ConsumerAt DEF TypesAt, MessageType
    <3>3. job'[c].pc = "idle" \/ (job'[c].pc = "mark" /\ job'[c].message = job[c].message)
      BY <1>0, <2>0, <3>1, ConsumerReturns, ConsumerThrows
    <3> QED BY <2>0, <3>1, <3>2, <3>3, NamesFrame
  <2>10. CASE Mark(c)
    <3>1. /\ UNCHANGED <<customer, gateway, delivered>> /\ job[c].pc = "mark"
          /\ Throw(c) /\ processed' = processed \cup {job[c].message}
      BY <2>10 DEF Mark, At
    <3>2. job'[c].pc = "idle"
      BY <1>0, <3>1, ConsumerThrows
    <3>3. customer.exists => SameName \/ \E m \in Message : Renaming(m) /\ m # job[c].message
      <4>1. CASE job[c].message.type = "customer.updated"
        BY <2>0, <3>1, <4>1
      <4>2. CASE job[c].message.type # "customer.updated"
        BY <4>2 DEF NamesInv, Renaming
      <4> QED BY <4>1, <4>2
    <3>4. \A m \in Message : Renaming(m) /\ m # job[c].message => Renaming(m)'
      BY <3>1 DEF Renaming
    <3> QED BY <2>0, <3>1, <3>2, <3>3, <3>4 DEF NamesInv, SameName, At
  <2> QED
    BY <1>5, <2>1, <2>2, <2>3, <2>4, <2>5, <2>6, <2>7, <2>8, <2>9, <2>10 DEF ConsumerStep
<1> QED BY <1>1, <1>2, <1>3, <1>4, <1>5 DEF Next

\* With a single consumer of the monolith's messages, once every delivered
\* message is handled the row and the gateway have the same name, wherever the
\* handler of a rename died and whichever messages came again or out of order.
THEOREM NamesAgree ==
  ASSUME \A c, d \in Consumer : c = d
  PROVE  Spec => []NamesAgreeWhenQuiet
<1>1. Init => NamesInv
  BY ConsumerIsActor, NoJobType DEF Init, NamesInv, SameName, At
<1>2. TypeInv /\ NamesInv /\ [Next]_vars => NamesInv'
  BY NamesStep
<1>3. TypeInv /\ NamesInv => NamesAgreeWhenQuiet
  BY Parts DEF NamesInv, NamesAgreeWhenQuiet, SameName, Renaming
<1>4. Spec => [](TypeInv /\ NamesInv)
  BY TypesInit, TypesStep, <1>1, <1>2, PTL DEF Spec
<1> QED BY <1>3, <1>4, PTL

-----------------------------------------------------------------------------
(* Layer 3: defaults *)

\* Methods are only taken away, and no request moves, unless it is about to end.
LEMMA DefaultsShrink ==
  ASSUME DefaultsInv, ActiveDefault' \subseteq ActiveDefault,
         gateway'.attached \subseteq gateway.attached, gateway.gone \subseteq gateway'.gone,
         gateway.attached \cup gateway.gone \subseteq gateway'.attached \cup gateway'.gone,
         gateway'.attached \cap gateway'.gone = {},
         \A m \in Method : gateway.default = m /\ m \in gateway'.attached => gateway'.default = m,
         \A m \in Method : method'[m].status # "none" <=> method[m].status # "none",
         \A c \in Consumer : job'[c].pc = "drop" =>
            method[job'[c].message.value].status # "none" /\ job'[c].message.value \in Method,
         \A r \in Request : \/ job'[r] = job[r]
                            \/ /\ job[r].pc \in {"recalculate", "rewrite"}
                               /\ job'[r].pc \in {"idle", "rewrite"},
         \A r \in Request :
            /\ At(r, "insert") \/ Leaving(r) \/ job[r].pc \in {"clear", "mark default"}
                 => job[r].pm \in Method
            /\ At(r, "mark next") => job[r].next \in Method
  PROVE  DefaultsInv'
<1>1. RowsAttached'
  BY DEF DefaultsInv, RowsAttached, At, Value
<1>2. ActiveDefault \subseteq Method
  BY DEF ActiveDefault, Active
<1>3. \A m \in Method : Followed(m) => (m \in gateway'.attached => gateway'.default = m)
  BY DEF Followed
<1>4. ASSUME NEW r \in Request PROVE RequestDefaults(r)' /\ RequestFollows(r)'
  <2>1. RequestDefaults(r) /\ RequestFollows(r)
    BY DEF DefaultsInv
  <2>2. AtMostOne(ActiveDefault) => AtMostOne(ActiveDefault')
    BY DEF AtMostOne
  <2>3. AtMostOne(ActiveDefault \ {job[r].pm}) => AtMostOne(ActiveDefault' \ {job[r].pm})
    BY DEF AtMostOne
  <2>4. CASE job'[r] = job[r]
    <3>1. RequestDefaults(r)'
      BY <2>1, <2>2, <2>3, <2>4 DEF RequestDefaults, Leaving, At
    <3>2. RequestFollows(r)'
      BY <1>2, <1>3, <2>1, <2>4 DEF RequestFollows, Followed, At, Leaving
    <3> QED BY <3>1, <3>2
  <2>5. CASE job[r].pc \in {"recalculate", "rewrite"} /\ job'[r].pc \in {"idle", "rewrite"}
    <3>1. RequestDefaults(r)'
      BY <2>1, <2>2, <2>5 DEF RequestDefaults, Leaving, At
    <3>2. RequestFollows(r)'
      BY <1>2, <1>3, <2>1, <2>5 DEF RequestFollows, Followed, At
    <3> QED BY <3>1, <3>2
  <2> QED BY <2>4, <2>5
<1>5. Request = {} => ActiveDefault' = {}
  BY DEF DefaultsInv
<1> QED BY <1>1, <1>4, <1>5 DEF DefaultsInv

LEMMA ConsumerDefaults ==
  ASSUME TypeInv, DefaultsInv, NEW c \in Consumer, ConsumerStep(c)
  PROVE  DefaultsInv'
<1>0. /\ JobsOK /\ GatewayOK /\ RowsOK /\ c \in Actor
      /\ method \in [Method -> MethodRow]
  BY Parts, ConsumerIsActor DEF RowsOK
<1>1. \A r \in Request : /\ job[r].pc \in RequestPhase => job[r].pm \in Method
                         /\ At(r, "mark next") => job[r].next \in Method
  BY RequestAt DEF At, RequestPhase
<1>2. \A r \in Request :
        /\ At(r, "insert") \/ Leaving(r) \/ job[r].pc \in {"clear", "mark default"}
             => job[r].pm \in Method
        /\ At(r, "mark next") => job[r].next \in Method
  BY <1>1 DEF At, Leaving, RequestPhase
<1>3. \A r \in Request : r \in Actor /\ r # c
  BY RequestIsActor
<1>4. gateway.attached \cap gateway.gone = {}
  BY DEF DefaultsInv, RowsAttached
<1>5. \A d \in Consumer : job[d].pc = "drop" =>
        method[job[d].message.value].status # "none" /\ job[d].message.value \in Method
  BY ConsumerAt DEF DefaultsInv, RowsAttached, At, Value
\* Steps that leave the rows and the methods at the gateway alone.
<1>6. ASSUME UNCHANGED method, gateway'.attached = gateway.attached,
             gateway'.gone = gateway.gone, gateway'.default = gateway.default,
             \A b \in Actor : b # c => job'[b] = job[b], job'[c].pc # "drop"
      PROVE  DefaultsInv'
  <2>1. ActiveDefault' = ActiveDefault
    BY <1>6 DEF ActiveDefault, Active
  <2>2. \A d \in Consumer : job'[d].pc = "drop" =>
          method[job'[d].message.value].status # "none" /\ job'[d].message.value \in Method
    BY <1>5, <1>6, ConsumerIsActor
  <2> QED BY <1>2, <1>3, <1>4, <1>6, <2>1, <2>2, DefaultsShrink
<1>7. ASSUME Return(c) \/ Throw(c), job[c].pc # "idle"
      PROVE  (\A b \in Actor : b # c => job'[b] = job[b]) /\ job'[c].pc # "drop"
  BY <1>0, <1>7, ConsumerReturns, ConsumerThrows
<1>8. ASSUME NEW p \in {"insert customer", "rename", "recalculate", "drop"}, Go(c, p)
      PROVE  (\A b \in Actor : b # c => job'[b] = job[b]) /\ job'[c].pc = p
             /\ job'[c].message = job[c].message
  BY <1>0, <1>8, Going DEF Phase, ConsumerPhase, SharedPhase
<1>9. ASSUME NEW m \in Message, Take(c, m) PROVE DefaultsInv'
  <2>1. UNCHANGED <<gateway, method>>
    BY <1>9 DEF Take, rows
  <2>2. job'[c].pc # "drop" /\ \A b \in Actor : b # c => job'[b] = job[b]
    <3>1. m.type # "drop"
      BY AccountAssumption
    <3> QED BY <1>9, <3>1, TakeJob
  <2> QED BY <1>6, <2>1, <2>2
<1>10. CASE CreateAtGateway(c)
  <2>1. UNCHANGED method /\ job[c].pc = "customer.created"
    BY <1>10 DEF CreateAtGateway, At, rows
  <2>2. CASE Return(c) /\ UNCHANGED gateway
    BY <1>6, <1>7, <2>1, <2>2
  <2>3. CASE /\ Go(c, "insert customer")
             /\ gateway' = [gateway EXCEPT !.customers = @ + 1, !.name = 0]
    <3>1. /\ gateway'.attached = gateway.attached /\ gateway'.gone = gateway.gone
          /\ gateway'.default = gateway.default
      BY <1>0, <2>3 DEF GatewayOK
    <3> QED BY <1>6, <1>8, <2>1, <2>3, <3>1
  <2> QED BY <1>10, <2>2, <2>3 DEF CreateAtGateway
<1>11. CASE InsertCustomer(c)
  <2>1. /\ UNCHANGED <<gateway, method>> /\ job[c].pc = "insert customer"
        /\ (Return(c) \/ Throw(c))
    BY <1>11 DEF InsertCustomer, At, rows
  <2> QED BY <1>6, <1>7, <2>1
<1>12. CASE RenameAtGateway(c)
  <2>1. UNCHANGED method /\ job[c].pc = "customer.updated"
    BY <1>12 DEF RenameAtGateway, At, rows
  <2>2. CASE Throw(c) /\ UNCHANGED gateway
    BY <1>6, <1>7, <2>1, <2>2
  <2>3. CASE gateway' = [gateway EXCEPT !.name = Value(c)] /\ Go(c, "rename")
    <3>1. /\ gateway'.attached = gateway.attached /\ gateway'.gone = gateway.gone
          /\ gateway'.default = gateway.default
      BY <1>0, <2>3 DEF GatewayOK
    <3> QED BY <1>6, <1>8, <2>1, <2>3, <3>1
  <2> QED BY <1>12, <2>2, <2>3 DEF RenameAtGateway
<1>13. CASE Rename(c)
  <2>1. UNCHANGED <<gateway, method>> /\ job[c].pc = "rename" /\ Return(c)
    BY <1>13 DEF Rename, At, rows
  <2> QED BY <1>6, <1>7, <2>1
<1>14. CASE UpsertSurcharge(c)
  <2>1. /\ UNCHANGED <<gateway, method>> /\ job[c].pc = "surcharge-config.updated"
        /\ (Return(c) \/ Go(c, "recalculate"))
    BY <1>14 DEF UpsertSurcharge, At, rows
  <2> QED BY <1>6, <1>7, <1>8, <2>1
<1>15. CASE CreateOneTime(c)
  <2>1. UNCHANGED <<gateway, method>> /\ job[c].pc = "invoice.create" /\ Return(c)
    BY <1>15 DEF CreateOneTime, At, rows
  <2> QED BY <1>6, <1>7, <2>1
<1>16. CASE LoseMandate(c)
  <2>1. UNCHANGED method /\ job[c].pc = "mandate.updated"
    BY <1>16 DEF LoseMandate, At, rows
  <2>2. CASE Return(c) /\ UNCHANGED gateway
    BY <1>6, <1>7, <2>1, <2>2
  <2>3. CASE /\ Value(c) \in Active /\ Go(c, "drop")
             /\ gateway' \in {gateway, Detached(Value(c))}
    <3>1. Value(c) \in Method /\ method[Value(c)].status # "none"
      BY <2>3 DEF Active
    <3>2. /\ \A b \in Actor : b # c => job'[b] = job[b]
          /\ job'[c].message.value = Value(c)
      BY <1>8, <2>3 DEF Value
    <3>3. \A d \in Consumer : job'[d].pc = "drop" =>
            method[job'[d].message.value].status # "none" /\ job'[d].message.value \in Method
      BY <1>5, <3>1, <3>2, ConsumerIsActor
    <3>4. ActiveDefault' = ActiveDefault
      BY <2>1 DEF ActiveDefault, Active
    <3>5. /\ gateway'.attached \subseteq gateway.attached /\ gateway.gone \subseteq gateway'.gone
          /\ gateway.attached \cup gateway.gone \subseteq gateway'.attached \cup gateway'.gone
          /\ gateway'.attached \cap gateway'.gone = {}
          /\ \A m \in Method : gateway.default = m /\ m \in gateway'.attached => gateway'.default = m
      <4>1. CASE gateway' = gateway
        BY <1>4, <4>1
      <4>2. CASE gateway' = Detached(Value(c))
        <5>1. /\ gateway'.attached = gateway.attached \ {Value(c)}
              /\ gateway'.gone = gateway.gone \cup {Value(c)}
              /\ gateway'.default = IF gateway.default = Value(c) THEN Nothing ELSE gateway.default
          BY <1>0, <3>1, <4>2, GatewayMoves
        <5> QED BY <1>4, <5>1
      <4> QED BY <2>3, <4>1, <4>2
    <3> QED BY <1>2, <1>3, <2>1, <3>2, <3>3, <3>4, <3>5, DefaultsShrink
  <2> QED BY <1>16, <2>2, <2>3 DEF LoseMandate
<1>17. CASE DropMethod(c)
  <2>1. /\ UNCHANGED gateway /\ job[c].pc = "drop" /\ (Return(c) \/ Throw(c))
        /\ method' = [method EXCEPT ![Value(c)].status = "detached"]
    BY <1>17 DEF DropMethod, At
  <2>2. Value(c) \in Method /\ method[Value(c)].status # "none"
    BY <1>5, <2>1 DEF Value
  <2>3. /\ method'[Value(c)].status = "detached"
        /\ \A n \in Method : n # Value(c) => method'[n] = method[n]
    BY <1>0, <2>1, <2>2, DropRow
  <2>4. ActiveDefault' \subseteq ActiveDefault
    BY <2>3 DEF ActiveDefault, Active
  <2>5. \A m \in Method : method'[m].status # "none" <=> method[m].status # "none"
    BY <2>2, <2>3
  <2>6. \A d \in Consumer : job'[d].pc = "drop" =>
          method[job'[d].message.value].status # "none" /\ job'[d].message.value \in Method
    BY <1>5, <1>7, <2>1, ConsumerIsActor
  <2>7. \A b \in Actor : b # c => job'[b] = job[b]
    BY <1>7, <2>1
  <2> QED BY <1>2, <1>3, <1>4, <2>1, <2>4, <2>5, <2>6, <2>7, DefaultsShrink
<1>18. CASE Mark(c)
  <2>1. UNCHANGED <<gateway, method>> /\ job[c].pc = "mark" /\ Throw(c)
    BY <1>18 DEF Mark, At, rows
  <2> QED BY <1>6, <1>7, <2>1
<1> QED
  BY <1>9, <1>10, <1>11, <1>12, <1>13, <1>14, <1>15, <1>16, <1>17, <1>18 DEF ConsumerStep

\* A step of the one request, by what it does to its job, the rows and the gateway.
LEMMA RequestDefaultsStep ==
  ASSUME \A r, s \in Request : r = s, TypeInv, DefaultsInv, NEW r \in Request, RequestStep(r)
  PROVE  DefaultsInv'
<1>0. /\ JobsOK /\ GatewayOK /\ RowsOK /\ r \in Actor
      /\ RequestDefaults(r) /\ RequestFollows(r) /\ RowsAttached
  BY Parts, RequestIsActor DEF DefaultsInv
<1>1. /\ ActiveDefault \subseteq Method /\ Active \subseteq Method
  BY DEF ActiveDefault, Active
<1>2. \A c \in Consumer : job'[c] = job[c] /\ (job[c].pc = "drop" => Value(c) \in Method)
  BY RequestEffect, ConsumerIsActor, ConsumerAt
\* What is left to show of each action.
<1> SUFFICES /\ gateway'.attached \cap gateway'.gone = {}
             /\ \A m \in Method : method'[m].status # "none" => m \in gateway'.attached \cup gateway'.gone
             /\ \A m \in Method : method[m].status # "none" => method'[m].status # "none"
             /\ RequestDefaults(r)' /\ RequestFollows(r)'
  <2> SUFFICES ASSUME gateway'.attached \cap gateway'.gone = {},
                      \A m \in Method : method'[m].status # "none" => m \in gateway'.attached \cup gateway'.gone,
                      \A m \in Method : method[m].status # "none" => method'[m].status # "none",
                      RequestDefaults(r)', RequestFollows(r)'
               PROVE  DefaultsInv'
    OBVIOUS
  <2>1. \A c \in Consumer : At(c, "drop")' => method'[Value(c)'].status # "none"
    BY <1>0, <1>2 DEF RowsAttached, At, Value
  <2>2. RowsAttached'
    BY <2>1 DEF RowsAttached
  <2>3. \A s \in Request : RequestDefaults(s)' /\ RequestFollows(s)'
    OBVIOUS
  <2> QED BY <2>2, <2>3 DEF DefaultsInv
<1>3. UNCHANGED method =>
        /\ ActiveDefault' = ActiveDefault
        /\ \A m \in Method : method[m].status # "none" => method'[m].status # "none"
  BY DEF ActiveDefault, Active
<1>4. ASSUME NEW m \in Method, Attach(r, m) \/ ConfirmSetup(r, m)
      PROVE  /\ gateway'.attached \cap gateway'.gone = {}
             /\ \A n \in Method : method'[n].status # "none" => n \in gateway'.attached \cup gateway'.gone
             /\ \A n \in Method : method[n].status # "none" => method'[n].status # "none"
             /\ RequestDefaults(r)' /\ RequestFollows(r)'
  <2>1. /\ UNCHANGED method /\ m \notin gateway.gone /\ job[r].pc = "idle"
        /\ gateway' = [gateway EXCEPT !.attached = @ \cup {m}]
    BY <1>4 DEF Attach, ConfirmSetup, rows, At
  <2>2. /\ gateway'.attached = gateway.attached \cup {m} /\ gateway'.gone = gateway.gone
        /\ gateway'.default = gateway.default
    BY <1>0, <2>1, GatewayMoves
  <2>3. job'[r].pc = "idle" \/ (job'[r].pc = "look" /\ job'[r].pm = m)
    BY <1>4, AttachJob
  <2>4. \A n \in ActiveDefault : Followed(n)'
    <3>1. \A n \in ActiveDefault : Followed(n) /\ n \in gateway.attached \cup gateway.gone
      BY <1>0, <2>1 DEF RequestFollows, RowsAttached, ActiveDefault, Active
    <3> QED BY <2>1, <2>2, <3>1 DEF Followed
  <2>5. RequestDefaults(r)' /\ RequestFollows(r)'
    BY <1>0, <1>3, <2>1, <2>2, <2>3, <2>4 DEF RequestDefaults, RequestFollows, Leaving, At
  <2> QED BY <1>0, <1>3, <2>1, <2>2, <2>5 DEF RowsAttached
<1>5. ASSUME UNCHANGED <<gateway, method>>, RequestDefaults(r)',
             job'[r].pc \notin {"clear", "mark next", "mark default"},
             job[r].pc # "clear", job'[r].pc = "insert" => ~job'[r].first
      PROVE  /\ gateway'.attached \cap gateway'.gone = {}
             /\ \A m \in Method : method'[m].status # "none" => m \in gateway'.attached \cup gateway'.gone
             /\ \A m \in Method : method[m].status # "none" => method'[m].status # "none"
             /\ RequestDefaults(r)' /\ RequestFollows(r)'
  BY <1>0, <1>3, <1>5 DEF RowsAttached, RequestFollows, Followed, At
<1>6. ASSUME UNCHANGED <<gateway, method>>, job'[r].pc = "idle", job[r].pc \notin {"clear", "detached"}
      PROVE  /\ gateway'.attached \cap gateway'.gone = {}
             /\ \A m \in Method : method'[m].status # "none" => m \in gateway'.attached \cup gateway'.gone
             /\ \A m \in Method : method[m].status # "none" => method'[m].status # "none"
             /\ RequestDefaults(r)' /\ RequestFollows(r)'
  <2>1. RequestDefaults(r)'
    BY <1>0, <1>3, <1>6 DEF RequestDefaults, Leaving, At
  <2> QED BY <1>5, <1>6, <2>1
<1>7. ASSUME NEW m \in Method, NEW p \in {"detach", "set default"}, FindMethod(r, p, m)
      PROVE  /\ gateway'.attached \cap gateway'.gone = {}
             /\ \A n \in Method : method'[n].status # "none" => n \in gateway'.attached \cup gateway'.gone
             /\ \A n \in Method : method[n].status # "none" => method'[n].status # "none"
             /\ RequestDefaults(r)' /\ RequestFollows(r)'
  <2>1. UNCHANGED <<gateway, method>> /\ m \in Active /\ job[r].pc = "idle"
    BY <1>7 DEF FindMethod, rows, At
  <2>2. job'[r].pc = p /\ job'[r].pm = m /\ job'[r].first = method[m].default
    <3>1. FindMethod(r, p, m)
      BY <1>7
    <3>2. job'[r].pc = p
      BY <1>0, <3>1 DEF FindMethod, JobsOK, NoJob
    <3>3. job'[r].pm = m
      BY <3>1, FindJob
    <3>4. job'[r].first = method[m].default
      BY <3>1, FindJob
    <3> QED BY <3>2, <3>3, <3>4
  <2>3. AtMostOne(ActiveDefault)
    BY <1>0, <2>1 DEF RequestDefaults
  <2>4. job'[r].first => ActiveDefault \subseteq {m}
    BY <2>1, <2>2, <2>3 DEF AtMostOne, ActiveDefault
  <2>5. RequestDefaults(r)'
    BY <1>3, <2>1, <2>2, <2>3, <2>4 DEF RequestDefaults, Leaving, At
  <2> QED BY <1>5, <2>1, <2>2, <2>5
<1>8. CASE LookForFirst(r)
  <2>1. UNCHANGED <<gateway, method>> /\ job[r].pc = "look"
    BY <1>8 DEF LookForFirst, rows, At
  <2>2. /\ job'[r].pm = job[r].pm
        /\ \/ job'[r].pc = "prefer" /\ job'[r].first = TRUE /\ (Active = {} \/ ActiveDefault = {})
           \/ job'[r].pc = "insert" /\ job'[r].first = FALSE
    BY <1>8, LookJob
  <2>3. Active = {} => ActiveDefault = {}
    BY DEF ActiveDefault
  <2>4. RequestDefaults(r)'
    BY <1>0, <1>3, <2>1, <2>2, <2>3 DEF RequestDefaults, Leaving, At
  <2> QED BY <1>5, <2>1, <2>2, <2>4
<1>9. CASE PreferFirst(r)
  <2>1. UNCHANGED method /\ job[r].pc = "prefer" /\ GatewayDefault(r, job[r].pm, "insert")
    BY <1>9 DEF PreferFirst, At, rows
  <2>2. job[r].pm \in Method /\ "insert" \in RequestPhase
    BY <2>1, RequestAt DEF RequestPhase
  <2>3. CASE UNCHANGED gateway /\ job'[r] = NoJob
    BY <1>6, <2>1, <2>3, NoJobType
  <2>4. CASE /\ job[r].pm \in gateway.attached /\ gateway'.default = job[r].pm
             /\ gateway'.attached = gateway.attached /\ gateway'.gone = gateway.gone
             /\ job'[r].pc = "insert" /\ job'[r].pm = job[r].pm
    <3>1. ActiveDefault = {}
      BY <1>0, <2>1 DEF RequestDefaults, At
    <3>2. RequestDefaults(r)' /\ RequestFollows(r)'
      BY <1>0, <1>3, <2>1, <2>4, <3>1
      DEF RequestDefaults, RequestFollows, Leaving, At, Followed, AtMostOne
    <3> QED BY <1>0, <1>3, <2>1, <2>4, <3>2 DEF RowsAttached
  <2> QED BY <2>1, <2>2, <2>3, <2>4, DefaultAsked
<1>10. CASE InsertMethod(r)
  <2>1. UNCHANGED gateway /\ job[r].pc = "insert"
    BY <1>10 DEF InsertMethod, At
  <2>2. job[r].pm \in Method /\ job[r].first \in BOOLEAN
    BY <2>1, RequestAt DEF RequestPhase
  <2>3. CASE method[job[r].pm].status # "none"
    <3>1. UNCHANGED method /\ job'[r].pc = "idle"
      <4>1. Throw(r) /\ UNCHANGED method
        BY <1>10, <2>3 DEF InsertMethod, rows
      <4> QED BY <1>0, <4>1, RequestStops
    <3> QED BY <1>6, <2>1, <3>1
  <2>4. CASE method[job[r].pm].status = "none"
    <3> DEFINE t == [status |-> "active", default |-> job[r].first]
    <3>1. method' = [method EXCEPT ![job[r].pm] = t] /\ (Go(r, "recalculate") \/ Return(r))
      BY <1>10, <2>4 DEF InsertMethod
    <3>2. t.status = "active" /\ t.default = job[r].first
      OBVIOUS
    <3> HIDE DEF t
    <3>3. /\ method'[job[r].pm] = t
          /\ \A n \in Method : n # job[r].pm => method'[n] = method[n]
      BY <1>0, <2>2, <3>1 DEF RowsOK
    <3>4. job'[r].pc \in {"recalculate", "idle"}
      BY <1>0, <3>1, RequestStops, RequestGoes DEF RequestPhase
    <3>5. CASE job[r].first
      <4>1. ActiveDefault = {} /\ Followed(job[r].pm)
        BY <1>0, <2>1, <3>5 DEF RequestDefaults, RequestFollows, At
      <4>2. ActiveDefault' \subseteq {job[r].pm}
        BY <3>3, <4>1 DEF ActiveDefault, Active
      <4>3. RequestDefaults(r)' /\ RequestFollows(r)'
        BY <2>1, <3>4, <4>1, <4>2 DEF RequestDefaults, RequestFollows, Leaving, At, Followed, AtMostOne
      <4> QED BY <1>0, <2>1, <2>2, <3>2, <3>3, <4>3 DEF RowsAttached, RequestDefaults
    <3>6. CASE ~job[r].first
      <4>1. ActiveDefault' \subseteq ActiveDefault
        BY <3>2, <3>3, <3>6 DEF ActiveDefault, Active
      <4>2. RequestDefaults(r)' /\ RequestFollows(r)'
        BY <1>0, <2>1, <3>4, <4>1 DEF RequestDefaults, RequestFollows, Leaving, At, Followed, AtMostOne
      <4> QED BY <1>0, <2>1, <2>2, <3>2, <3>3, <4>2 DEF RowsAttached, RequestDefaults
    <3> QED BY <2>2, <3>5, <3>6
  <2> QED BY <2>3, <2>4
<1>11. CASE DetachAtGateway(r)
  <2>1. UNCHANGED method /\ job[r].pc = "detach"
    BY <1>11 DEF DetachAtGateway, At, rows
  <2>2. job[r].pm \in Method /\ job[r].first \in BOOLEAN
    BY <2>1, RequestAt DEF RequestPhase
  <2>3. CASE job[r].pm \in gateway.attached
    <3>1. gateway' = Detached(job[r].pm) /\ Go(r, IF job[r].first THEN "next" ELSE "detached")
      BY <1>11, <2>3 DEF DetachAtGateway
    <3>2. /\ gateway'.attached = gateway.attached \ {job[r].pm}
          /\ gateway'.gone = gateway.gone \cup {job[r].pm}
          /\ gateway'.default = IF gateway.default = job[r].pm THEN Nothing ELSE gateway.default
      BY <1>0, <2>2, <3>1, GatewayMoves
    <3>3. /\ job'[r].pc = (IF job[r].first THEN "next" ELSE "detached")
          /\ job'[r].pm = job[r].pm
      BY <1>0, <2>2, <3>1, RequestGoes DEF RequestPhase
    <3>4. \A n \in ActiveDefault : Followed(n)'
      <4>1. \A n \in ActiveDefault : Followed(n)
        BY <1>0, <2>1 DEF RequestFollows
      <4> QED BY <3>2, <4>1 DEF Followed
    <3>5. AtMostOne(ActiveDefault \ {job[r].pm}) /\ (job[r].first => ActiveDefault \subseteq {job[r].pm})
      BY <1>0, <2>1 DEF RequestDefaults, At, AtMostOne
    <3>6. RequestDefaults(r)' /\ RequestFollows(r)'
      <4>1. AtMostOne(ActiveDefault)
        BY <1>0, <2>1 DEF RequestDefaults
      <4>2. CASE job[r].first
        BY <1>3, <2>1, <3>2, <3>3, <3>4, <3>5, <4>1, <4>2 DEF RequestDefaults, RequestFollows, Leaving, At
      <4>3. CASE ~job[r].first
        BY <1>3, <2>1, <3>2, <3>3, <3>4, <3>5, <4>1, <4>3 DEF RequestDefaults, RequestFollows, Leaving, At
      <4> QED BY <4>2, <4>3
    <3> QED BY <1>0, <1>3, <2>1, <3>2, <3>6 DEF RowsAttached
  <2>4. CASE job[r].pm \notin gateway.attached
    <3>1. UNCHANGED gateway /\ Throw(r)
      BY <1>11, <2>4 DEF DetachAtGateway
    <3> QED BY <1>0, <1>6, <2>1, <3>1, RequestStops
  <2> QED BY <2>3, <2>4
<1>12. CASE FindNext(r)
  <2>1. UNCHANGED <<gateway, method>> /\ job[r].pc = "next"
    BY <1>12 DEF FindNext, rows, At
  <2>2. job'[r].pm = job[r].pm /\ job'[r].pc \in {"detached", "prefer next"}
    BY <1>12, NextJob
  <2>3. ActiveDefault \subseteq {job[r].pm} /\ job[r].pm \in gateway.gone
    BY <1>0, <2>1 DEF RequestDefaults, Leaving
  <2>4. RequestDefaults(r)'
    <3>1. AtMostOne(ActiveDefault) /\ AtMostOne(ActiveDefault \ {job[r].pm})
      BY <2>3 DEF AtMostOne
    <3> QED BY <1>3, <2>1, <2>2, <2>3, <3>1 DEF RequestDefaults, Leaving, At
  <2> QED BY <1>5, <2>1, <2>2, <2>4
<1>13. CASE PreferNext(r)
  <2>1. UNCHANGED method /\ job[r].pc = "prefer next" /\ GatewayDefault(r, job[r].next, "mark next")
    BY <1>13 DEF PreferNext, At, rows
  <2>2. job[r].pm \in Method /\ job[r].next \in Method /\ "mark next" \in RequestPhase
    BY <2>1, RequestAt DEF RequestPhase
  <2>3. CASE UNCHANGED gateway /\ job'[r] = NoJob
    BY <1>6, <2>1, <2>3, NoJobType
  <2>4. CASE /\ gateway'.default = job[r].next
             /\ gateway'.attached = gateway.attached /\ gateway'.gone = gateway.gone
             /\ job'[r].pc = "mark next" /\ job'[r].pm = job[r].pm /\ job'[r].next = job[r].next
    <3>1. /\ ActiveDefault \subseteq {job[r].pm} /\ job[r].pm \in gateway.gone
          /\ AtMostOne(ActiveDefault) /\ job[r].pm \notin gateway.attached
      BY <1>0, <2>1 DEF RequestDefaults, Leaving, RowsAttached
    <3>2. RequestDefaults(r)'
      BY <1>3, <2>1, <2>4, <3>1 DEF RequestDefaults, Leaving, At
    <3>3. RequestFollows(r)'
      BY <1>3, <2>1, <2>4, <3>1 DEF RequestFollows, At, Followed
    <3> QED BY <1>0, <1>3, <2>1, <2>4, <3>2, <3>3 DEF RowsAttached
  <2> QED BY <2>1, <2>2, <2>3, <2>4, DefaultAsked
<1>14. CASE MarkNext(r)
  <2>1. /\ UNCHANGED gateway /\ job[r].pc = "mark next"
        /\ Go(r, "detached") /\ method' = [method EXCEPT ![job[r].next].default = TRUE]
    BY <1>14 DEF MarkNext, At
  <2>2. job[r].pm \in Method /\ job[r].next \in Method /\ "detached" \in RequestPhase
    BY <2>1, RequestAt DEF RequestPhase
  <2>3. /\ method'[job[r].next].status = method[job[r].next].status
        /\ \A n \in Method : n # job[r].next => method'[n] = method[n]
    BY <1>0, <2>1, <2>2, FlagRow
  <2>4. job'[r].pc = "detached" /\ job'[r].pm = job[r].pm
    BY <1>0, <2>1, <2>2, RequestGoes
  <2>5. ActiveDefault' \subseteq ActiveDefault \cup {job[r].next}
    BY <2>3 DEF ActiveDefault, Active
  <2>6. /\ ActiveDefault \subseteq {job[r].pm} /\ job[r].pm \in gateway.gone
        /\ Followed(job[r].next) /\ \A m \in ActiveDefault : Followed(m)
    BY <1>0, <2>1 DEF RequestDefaults, RequestFollows, Leaving, At
  <2>7. RequestDefaults(r)'
    <3>1. AtMostOne(ActiveDefault' \ {job[r].pm})
      BY <2>5, <2>6 DEF AtMostOne
    <3> QED BY <2>1, <2>4, <2>6, <3>1 DEF RequestDefaults, Leaving, At
  <2>8. RequestFollows(r)'
    BY <2>1, <2>4, <2>5, <2>6 DEF RequestFollows, At, Followed
  <2> QED BY <1>0, <2>1, <2>3, <2>7, <2>8 DEF RowsAttached
<1>15. CASE MarkDetached(r)
  <2>1. /\ UNCHANGED gateway /\ job[r].pc = "detached" /\ Go(r, "recalculate")
        /\ method' = [method EXCEPT ![job[r].pm] = [status |-> "detached", default |-> FALSE]]
    BY <1>15 DEF MarkDetached, At
  <2>2. job[r].pm \in Method
    BY <2>1, RequestAt DEF RequestPhase
  <2>3. /\ method'[job[r].pm].status = "detached"
        /\ \A n \in Method : n # job[r].pm => method'[n] = method[n]
    BY <1>0, <2>1, <2>2 DEF RowsOK
  <2>4. job'[r].pc = "recalculate"
    BY <1>0, <2>1, RequestGoes DEF RequestPhase
  <2>5. ActiveDefault' \subseteq ActiveDefault \ {job[r].pm}
    BY <2>3 DEF ActiveDefault, Active
  <2>6. job[r].pm \in gateway.gone /\ AtMostOne(ActiveDefault \ {job[r].pm})
        /\ \A m \in ActiveDefault : Followed(m)
    BY <1>0, <2>1 DEF RequestDefaults, RequestFollows, Leaving, At
  <2>7. RequestDefaults(r)' /\ RequestFollows(r)'
    <3>1. AtMostOne(ActiveDefault')
      BY <2>5, <2>6 DEF AtMostOne
    <3> QED BY <2>1, <2>4, <2>5, <2>6, <3>1 DEF RequestDefaults, RequestFollows, Leaving, At, Followed
  <2> QED BY <1>0, <2>1, <2>3, <2>6, <2>7 DEF RowsAttached
<1>16. CASE Prefer(r)
  <2>1. UNCHANGED method /\ job[r].pc = "set default" /\ GatewayDefault(r, job[r].pm, "clear")
    BY <1>16 DEF Prefer, At, rows
  <2>2. job[r].pm \in Method /\ "clear" \in RequestPhase
    BY <2>1, RequestAt DEF RequestPhase
  <2>3. CASE UNCHANGED gateway /\ job'[r] = NoJob
    BY <1>6, <2>1, <2>3, NoJobType
  <2>4. CASE /\ gateway'.default = job[r].pm
             /\ gateway'.attached = gateway.attached /\ gateway'.gone = gateway.gone
             /\ job'[r].pc = "clear" /\ job'[r].pm = job[r].pm
    <3>1. RequestDefaults(r)' /\ RequestFollows(r)'
      BY <1>0, <1>3, <2>1, <2>4 DEF RequestDefaults, RequestFollows, Leaving, At, Followed
    <3> QED BY <1>0, <1>3, <2>1, <2>4, <3>1 DEF RowsAttached
  <2> QED BY <2>1, <2>2, <2>3, <2>4, DefaultAsked
<1>17. CASE ClearDefaults(r)
  <2>1. UNCHANGED gateway /\ job[r].pc = "clear" /\ Go(r, "mark default") /\ method' = Cleared
    BY <1>17 DEF ClearDefaults, At
  <2>2. job[r].pm \in Method /\ "mark default" \in RequestPhase
    BY <2>1, RequestAt DEF RequestPhase
  <2>3. \A m \in Method : method'[m].status = method[m].status /\ method'[m].default = FALSE
    BY <1>0, <2>1, ClearRows
  <2>4. job'[r].pc = "mark default" /\ job'[r].pm = job[r].pm
    BY <1>0, <2>1, <2>2, RequestGoes
  <2>5. ActiveDefault' = {}
    BY <2>3 DEF ActiveDefault, Active
  <2>6. RequestDefaults(r)' /\ RequestFollows(r)'
    BY <1>0, <2>1, <2>4, <2>5 DEF RequestDefaults, RequestFollows, Leaving, At, Followed, AtMostOne
  <2> QED BY <1>0, <2>1, <2>3, <2>6 DEF RowsAttached
<1>18. CASE MarkDefault(r)
  <2>1. /\ UNCHANGED gateway /\ job[r].pc = "mark default"
        /\ Go(r, "recalculate") /\ method' = [method EXCEPT ![job[r].pm].default = TRUE]
    BY <1>18 DEF MarkDefault, At
  <2>2. job[r].pm \in Method
    BY <2>1, RequestAt DEF RequestPhase
  <2>3. /\ method'[job[r].pm].status = method[job[r].pm].status
        /\ \A n \in Method : n # job[r].pm => method'[n] = method[n]
    BY <1>0, <2>1, <2>2, FlagRow
  <2>4. job'[r].pc = "recalculate"
    BY <1>0, <2>1, RequestGoes DEF RequestPhase
  <2>5. ActiveDefault = {} /\ Followed(job[r].pm)
    BY <1>0, <2>1 DEF RequestDefaults, RequestFollows, At
  <2>6. ActiveDefault' \subseteq {job[r].pm}
    BY <2>3, <2>5 DEF ActiveDefault, Active
  <2>7. RequestDefaults(r)' /\ RequestFollows(r)'
    BY <2>1, <2>4, <2>5, <2>6 DEF RequestDefaults, RequestFollows, Leaving, At, Followed, AtMostOne
  <2> QED BY <1>0, <2>1, <2>3, <2>7 DEF RowsAttached
<1> QED
  BY <1>4, <1>7, <1>8, <1>9, <1>10, <1>11, <1>12, <1>13, <1>14, <1>15, <1>16, <1>17, <1>18
  DEF RequestStep

LEMMA DefaultsStep ==
  ASSUME \A r, s \in Request : r = s, ~RequestsFail, TypeInv, DefaultsInv, [Next]_vars
  PROVE  DefaultsInv'
<1>1. \A r \in Request :
        /\ At(r, "insert") \/ Leaving(r) \/ job[r].pc \in {"clear", "mark default"}
             => job[r].pm \in Method
        /\ At(r, "mark next") => job[r].next \in Method
  BY RequestAt DEF At, Leaving, RequestPhase
<1>2. \A c \in Consumer : job[c].pc = "drop" =>
        method[job[c].message.value].status # "none" /\ job[c].message.value \in Method
  BY ConsumerAt DEF DefaultsInv, RowsAttached, At, Value
<1>3. gateway.attached \cap gateway.gone = {}
  BY DEF DefaultsInv, RowsAttached
<1>4. ASSUME UNCHANGED <<gateway, method>>, \A c \in Consumer : job'[c] = job[c] \/ job'[c].pc # "drop",
             \A r \in Request : \/ job'[r] = job[r]
                                \/ /\ job[r].pc \in {"recalculate", "rewrite"}
                                   /\ job'[r].pc \in {"idle", "rewrite"}
      PROVE  DefaultsInv'
  <2>1. ActiveDefault' = ActiveDefault
    BY <1>4 DEF ActiveDefault, Active
  <2>2. \A c \in Consumer : job'[c].pc = "drop" =>
          method[job'[c].message.value].status # "none" /\ job'[c].message.value \in Method
    BY <1>2, <1>4
  <2> QED BY <1>1, <1>3, <1>4, <2>1, <2>2, DefaultsShrink
<1>5. CASE UNCHANGED vars \/ CreateDraft \/ SchedulerPass \/ \E i \in DOMAIN invoices : FinalizeCycle(i)
  <2>1. UNCHANGED <<gateway, method, job>>
    BY <1>5, InvoiceTypes DEF vars, rows
  <2> QED BY <1>4, <2>1
<1>6. ASSUME NEW a \in Actor, ReadOpenInvoice(a) \/ RewriteSurcharge(a) \/ Crash(a)
      PROVE  DefaultsInv'
  <2>1. UNCHANGED <<gateway, method>>
    BY <1>6 DEF ReadOpenInvoice, RewriteSurcharge, Crash, rows
  <2>2. /\ \A b \in Actor : b # a => job'[b] = job[b]
        /\ job'[a].pc \in {"idle", "mark", "rewrite"}
        /\ a \notin Consumer => job'[a].pc \in {"idle", "rewrite"}
    BY <1>6, SharedTypes
  <2>3. a \notin Consumer => job[a].pc \in {"recalculate", "rewrite"}
    BY <1>6 DEF ReadOpenInvoice, RewriteSurcharge, Crash, At
  <2> QED BY <1>4, <2>1, <2>2, <2>3, ConsumerIsActor, RequestIsActor
<1> QED BY <1>5, <1>6, RequestDefaultsStep, ConsumerDefaults DEF Next

LEMMA DefaultsInit == Init => DefaultsInv
<1> SUFFICES ASSUME Init PROVE DefaultsInv
  OBVIOUS
<1>1. \A a \in Actor : job[a].pc = "idle"
  BY NoJobType DEF Init
<1>2. ActiveDefault = {}
  BY DEF Init, ActiveDefault, Active
<1>3. \A r \in Request : RequestDefaults(r) /\ RequestFollows(r)
  BY <1>1, <1>2, RequestIsActor DEF RequestDefaults, RequestFollows, Leaving, At, AtMostOne
<1>4. RowsAttached
  BY <1>1, ConsumerIsActor DEF Init, RowsAttached, At
<1> QED BY <1>2, <1>3, <1>4 DEF DefaultsInv

\* With one request at a time that ends unharmed, between requests at most one
\* active method is the default, whatever the mandate webhooks take away meanwhile.
THEOREM OneDefault ==
  ASSUME \A r, s \in Request : r = s, ~RequestsFail
  PROVE  Spec => []OneActiveDefault
<1>1. TypeInv /\ DefaultsInv /\ [Next]_vars => DefaultsInv'
  BY DefaultsStep
<1>2. TypeInv /\ DefaultsInv => OneActiveDefault
  <2> SUFFICES ASSUME TypeInv, DefaultsInv, Quiet(Request)
               PROVE  Cardinality(ActiveDefault) <= 1
    BY DEF OneActiveDefault
  <2>1. AtMostOne(ActiveDefault)
    BY DEF DefaultsInv, RequestDefaults, Quiet, At, AtMostOne
  <2>2. CASE ActiveDefault = {}
    BY <2>2, FS_EmptySet
  <2>3. ASSUME NEW m \in ActiveDefault PROVE Cardinality(ActiveDefault) <= 1
    <3>1. ActiveDefault = {m}
      BY <2>1, <2>3 DEF AtMostOne
    <3>2. Cardinality({m}) = 1
      BY FS_Singleton
    <3> QED BY <3>1, <3>2
  <2> QED BY <2>2, <2>3
<1>3. Spec => [](TypeInv /\ DefaultsInv)
  BY TypesInit, TypesStep, DefaultsInit, <1>1, PTL DEF Spec
<1> QED BY <1>2, <1>3, PTL

\* With one request at a time that ends unharmed, whenever nothing is under way
\* the active default of the rows is the gateway's default, if it still has it.
THEOREM GatewayFollows ==
  ASSUME \A r, s \in Request : r = s, ~RequestsFail
  PROVE  Spec => []GatewayFollowsDefault
<1>1. TypeInv /\ DefaultsInv /\ [Next]_vars => DefaultsInv'
  BY DefaultsStep
<1>2. TypeInv /\ DefaultsInv => GatewayFollowsDefault
  <2> SUFFICES ASSUME TypeInv, DefaultsInv, Quiet(Actor), NEW m \in ActiveDefault, m \in gateway.attached
               PROVE  m = gateway.default
    BY DEF GatewayFollowsDefault
  <2>1. PICK r \in Request : job[r].pc = "idle"
    BY RequestIsActor DEF Quiet, At, DefaultsInv
  <2>2. Followed(m)
    BY <2>1 DEF DefaultsInv, RequestFollows
  <2> QED BY <2>2 DEF Followed
<1>3. Spec => [](TypeInv /\ DefaultsInv)
  BY TypesInit, TypesStep, DefaultsInit, <1>1, PTL DEF Spec
<1> QED BY <1>2, <1>3, PTL
=============================================================================
