---------------------------- MODULE DunningProofs ----------------------------
(***************************************************************************)
(* Proofs about Dunning for every set of invoices, workers, runners and    *)
(* payment methods and every length of the retry schedule.  Dunning only   *)
(* makes calls Collection allows, so what is proved there carries over.    *)
(* On top of it come the types of the rows and handlers, why a row that    *)
(* says recovered has its payment in the ledger (for any number of         *)
(* runners), and, for a single runner, why the rows of an invoice form one *)
(* chain that ends before anybody is escalated.                            *)
(***************************************************************************)
EXTENDS Dunning, CollectionProofs, SequenceTheorems

-----------------------------------------------------------------------------
(* The invariants *)

\* Layer 1.  A handler that took a row keeps pointing at it, and while it waits
\* for the charge, the charge is the one of that row.
HandlersHaveRow ==
    \A r \in Runner : run[r].pc \notin {"idle", "next"} => run[r].row \in Row
CallsItsRow ==
    \A r \in Runner :
        In(r, "calling") => /\ call[r].pc # "idle"
                            /\ call[r].key = <<Subject(r).inv, Subject(r).n>>

DunningInv == DunningTypeOK /\ HandlersHaveRow /\ CallsItsRow

\* Layer 2.  A charge, or a call, that is said to have succeeded is booked, and so
\* is the charge of a row about to be recorded as recovered.
SuccessIsBooked ==
    /\ \A k \in Key : charge[k] = "succeeded" => booked[k] > 0
    /\ \A w \in Worker :
          At(w, "done") /\ call[w].outcome = "succeeded" => booked[call[w].key] > 0
RecoveryIsBooked ==
    \A r \in Runner :
        In(r, "recovered") => booked[<<Subject(r).inv, Subject(r).n>>] > 0

RecoveredInv == RecoveryIsBooked /\ RecoveredMeansBooked

\* Layer 3, for one runner.  The first row of an invoice is inserted by the owner
\* of its first charge, which nobody can own again.
Rows(i) == {j \in Row : retries[j].inv = i}

FirstChargeFirst ==
    /\ \A w \in Worker : At(w, "rescue") => call[w].key[2] = 1
    /\ \A i \in Invoice : Rows(i) # {} => charge[<<i, 1>>] # "none"
    /\ \A w \in Worker, i \in Invoice :
          Owner(w) /\ call[w].key = <<i, 1>> => Rows(i) = {}

\* Until it records something the handler's row is scheduled; once it escalates,
\* no row of the invoice is, and none is for an invoice that was escalated.
InHand == {"loaded", "skipping", "selecting", "charging", "calling",
              "recovered", "unpaid", "givingUp"}
Escalating == {"skippingRest", "escalating", "announcing"}

RowInHand ==
    \A r \in Runner : run[r].pc \in InHand => run[r].row \in Scheduled
NothingLeft(i) == Rows(i) # {} /\ Rows(i) \cap Scheduled = {}
EscalatingIsLast ==
    \A r \in Runner, i \in Invoice :
        run[r].pc \in Escalating /\ Subject(r).inv = i => NothingLeft(i)
EscalatedIsLast == \A i \in escalated \cup pastDue : NothingLeft(i)

ChainInv ==
    OneChain /\ RowInHand /\ EscalatingIsLast /\ EscalatedIsLast

-----------------------------------------------------------------------------
(* What is done to the rows *)

\* Rows stay where they are, and keep their invoice and their number.
RowsPersist ==
    /\ retries' \in Seq(Retry)
    /\ \A j \in Row : /\ j \in Row'
                      /\ retries'[j].inv = retries[j].inv
                      /\ retries'[j].n = retries[j].n

LEMMA RowType ==
    ASSUME retries \in Seq(Retry), NEW j \in Row
    PROVE  /\ retries[j] \in Retry
           /\ retries[j].inv \in Invoice /\ retries[j].n \in Attempt
           /\ retries[j].status \in RetryStatus
           /\ retries[j].method \in Method \cup {"none"}
           /\ j \in Nat
<1>1. Row = 1..Len(retries) /\ Len(retries) \in Nat
  BY DEF Row
<1>2. retries[j] \in Retry /\ j \in Nat
  BY <1>1
<1> QED BY <1>2 DEF Retry

LEMMA NewRetryType ==
    ASSUME NEW i \in Invoice, NEW n \in Attempt
    PROVE  /\ NewRetry(i, n) \in Retry
           /\ NewRetry(i, n).inv = i /\ NewRetry(i, n).n = n
           /\ NewRetry(i, n).status = "scheduled"
BY DEF NewRetry, Retry, RetryStatus

\* A row is closed with the others of its invoice that are scheduled.
LEMMA ClosingRows ==
    ASSUME retries \in Seq(Retry), NEW j \in Row, NEW s \in RetryStatus,
           NEW m \in Method \cup {"none"}, CloseAll(j, s, m)
    PROVE  /\ RowsPersist
           /\ Row' = Row
           /\ retries'[j].status = s
           /\ \A l \in Row : l # j =>
                 retries'[l].status = IF l \in Scheduled /\ retries[l].inv = retries[j].inv
                                      THEN "skipped" ELSE retries[l].status
<1> DEFINE e(l) == IF l = j THEN [retries[l] EXCEPT !.status = s, !.method = m]
                   ELSE IF l \in Scheduled /\ retries[l].inv = retries[j].inv
                        THEN [retries[l] EXCEPT !.status = "skipped"]
                        ELSE retries[l]
<1>1. retries' = [l \in Row |-> e(l)]
  BY DEF CloseAll
<1>2. ASSUME NEW l \in Row
      PROVE  /\ e(l) \in Retry
             /\ e(l).inv = retries[l].inv /\ e(l).n = retries[l].n
             /\ l = j => e(l).status = s
             /\ l # j => e(l).status = IF l \in Scheduled /\ retries[l].inv = retries[j].inv
                                       THEN "skipped" ELSE retries[l].status
  BY RowType DEF Retry, RetryStatus
<1> HIDE DEF e
<1>3. Len(retries) \in Nat /\ Row = 1..Len(retries)
  BY DEF Row
<1>4. retries' \in Seq(Retry)
  <2>1. retries' \in [1..Len(retries) -> Retry]
    BY <1>1, <1>2, <1>3
  <2> QED BY <2>1, <1>3
<1>5. Row' = Row
  BY <1>1 DEF Row
<1> QED BY <1>1, <1>2, <1>4, <1>5 DEF RowsPersist

\* A row that is made failed, whatever method is noted with it.
Failed(j)      == [retries EXCEPT ![j].status = "failed"]
FailedBy(j, m) == [retries EXCEPT ![j].status = "failed", ![j].method = m]

LEMMA FailingRow ==
    ASSUME retries \in Seq(Retry), NEW j \in Row, NEW m \in Method \cup {"none"}, NEW f,
           f = Failed(j) \/ f = FailedBy(j, m)
    PROVE  /\ f \in Seq(Retry)
           /\ Len(f) = Len(retries)
           /\ DOMAIN f = Row
           /\ \A l \in Row : f[l].inv = retries[l].inv /\ f[l].n = retries[l].n
           /\ f[j].status = "failed"
           /\ \A l \in Row : l # j => f[l].status = retries[l].status
<1>0. \/ f = [retries EXCEPT ![j].status = "failed"]
      \/ f = [retries EXCEPT ![j].status = "failed", ![j].method = m]
  BY DEF Failed, FailedBy
<1>1. Len(retries) \in Nat /\ Row = 1..Len(retries) /\ retries \in [Row -> Retry]
  BY DEF Row
<1>2. /\ DOMAIN f = Row
      /\ \A l \in Row : l # j => f[l] = retries[l]
      /\ f[j].status = "failed" /\ f[j].inv = retries[j].inv /\ f[j].n = retries[j].n
      /\ f[j] \in Retry
  <2> DEFINE e == [retries[j] EXCEPT !.status = "failed"]
             g == [retries[j] EXCEPT !.status = "failed", !.method = m]
  <2>0. retries[j] \in Retry
    BY RowType
  <2>1. /\ e \in Retry /\ e.status = "failed" /\ e.inv = retries[j].inv /\ e.n = retries[j].n
        /\ g \in Retry /\ g.status = "failed" /\ g.inv = retries[j].inv /\ g.n = retries[j].n
    BY <2>0 DEF Retry, RetryStatus
  <2>2. f = [retries EXCEPT ![j] = e] \/ f = [retries EXCEPT ![j] = g]
    BY <1>0
  <2> HIDE DEF e, g
  <2> QED BY <1>1, <2>1, <2>2
<1>3. f \in [1..Len(retries) -> Retry]
  <2>1. \A l \in Row : f[l] \in Retry
    BY <1>1, <1>2
  <2>2. f = [l \in Row |-> f[l]]
    <3>1. CASE f = [retries EXCEPT ![j].status = "failed"]
      BY <3>1, <1>1
    <3>2. CASE f = [retries EXCEPT ![j].status = "failed", ![j].method = m]
      BY <3>2, <1>1
    <3> QED BY <1>0, <3>1, <3>2
  <2> QED BY <2>1, <2>2, <1>1
<1>4. f \in Seq(Retry) /\ Len(f) = Len(retries)
  BY <1>1, <1>3
<1> QED BY <1>2, <1>4

\* A row is added at the end.
LEMMA AddingRow ==
    ASSUME NEW f \in Seq(Retry), NEW e \in Retry
    PROVE  /\ Append(f, e) \in Seq(Retry)
           /\ DOMAIN Append(f, e) = DOMAIN f \cup {Len(f) + 1}
           /\ Len(f) + 1 \notin DOMAIN f
           /\ \A l \in DOMAIN f : Append(f, e)[l] = f[l] /\ l < Len(f) + 1
           /\ Append(f, e)[Len(f) + 1] = e
OBVIOUS

-----------------------------------------------------------------------------
(* How a handler moves *)

Handlers(rows) == {Resting} \cup [pc : RunPhase, todo : SUBSET rows, row : rows \cup {0},
                                  method : Method \cup {"none"}]

LEMMA HandlerShape ==
    ASSUME NEW rows, NEW t \in Handlers(rows), t.pc # "idle"
    PROVE  /\ t \in [pc : RunPhase, todo : SUBSET rows, row : rows \cup {0},
                     method : Method \cup {"none"}]
           /\ t.pc \in RunPhase /\ t.todo \subseteq rows /\ t.row \in rows \cup {0}
           /\ t.method \in Method \cup {"none"}
BY DEF Handlers, Resting

LEMMA MoreRows ==
    ASSUME NEW few, NEW many, few \subseteq many
    PROVE  Handlers(few) \subseteq Handlers(many)
BY DEF Handlers

LEMMA BatchType ==
    ASSUME NEW rows, NEW due \in SUBSET rows
    PROVE  /\ [Resting EXCEPT !.pc = "next", !.todo = due] \in Handlers(rows)
           /\ [Resting EXCEPT !.pc = "next", !.todo = due].pc = "next"
BY DEF Handlers, Resting, RunPhase

LEMMA Entering ==
    ASSUME NEW rows, run \in [Runner -> Handlers(rows)], NEW r \in Runner, ~In(r, "idle"),
           NEW p \in RunPhase, Enter(r, p)
    PROVE  /\ run' \in [Runner -> Handlers(rows)]
           /\ In(r, p)' /\ run'[r].row = run[r].row
           /\ \A s \in Runner : s # r => run'[s] = run[s]
<1> DEFINE t == [run[r] EXCEPT !.pc = p]
<1>1. t \in Handlers(rows) /\ t.pc = p /\ t.row = run[r].row
  <2>1. run[r] \in Handlers(rows) /\ run[r].pc # "idle"
    BY DEF In
  <2>2. run[r] \in [pc : RunPhase, todo : SUBSET rows, row : rows \cup {0},
                    method : Method \cup {"none"}]
    BY <2>1, HandlerShape
  <2> QED BY <2>2 DEF Handlers
<1> HIDE DEF t
<1>2. run' = [run EXCEPT ![r] = t]
  BY DEF Enter, t
<1> QED BY <1>1, <1>2 DEF In

LEMMA GoingOn ==
    ASSUME NEW rows, run \in [Runner -> Handlers(rows)], NEW r \in Runner, ~In(r, "idle"),
           Onward(r)
    PROVE  /\ run' \in [Runner -> Handlers(rows)]
           /\ run'[r].pc \in {"idle", "next"}
           /\ \A s \in Runner : s # r => run'[s] = run[s]
<1> DEFINE t == IF run[r].todo = {} THEN Resting
                ELSE [Resting EXCEPT !.pc = "next", !.todo = run[r].todo]
<1>1. t \in Handlers(rows) /\ t.pc \in {"idle", "next"}
  <2>1. run[r].todo \subseteq rows
    BY HandlerShape DEF In
  <2>2. CASE run[r].todo = {}
    BY <2>2 DEF Handlers, Resting
  <2>3. CASE run[r].todo # {}
    BY <2>1, <2>3, BatchType
  <2> QED BY <2>2, <2>3
<1> HIDE DEF t
<1>2. run' = [run EXCEPT ![r] = t]
  BY DEF Onward, t
<1> QED BY <1>1, <1>2

LEMMA LoadingRow ==
    ASSUME NEW r \in Runner, run \in [Runner -> Handlers(Row)], LoadRetry(r)
    PROVE  /\ run' \in [Runner -> Handlers(Row)]
           /\ \/ run'[r].pc \in {"idle", "next"}
              \/ In(r, "loaded")' /\ run'[r].row \in Scheduled
           /\ \A s \in Runner : s # r => run'[s] = run[s]
<1> PICK j \in run[r].todo :
      run' = [run EXCEPT ![r] =
                IF j \in Scheduled
                THEN [Resting EXCEPT !.pc = "loaded", !.todo = run[r].todo \ {j}, !.row = j]
                ELSE IF run[r].todo \ {j} = {} THEN Resting
                     ELSE [@ EXCEPT !.todo = run[r].todo \ {j}]]
  BY DEF LoadRetry
<1>1. In(r, "next") /\ run[r].pc = "next"
  BY DEF LoadRetry, In
<1>2. run[r].todo \subseteq Row /\ run[r].todo \ {j} \subseteq Row
  BY <1>1, HandlerShape
<1>3. CASE j \in Scheduled
  <2> DEFINE t == [Resting EXCEPT !.pc = "loaded", !.todo = run[r].todo \ {j}, !.row = j]
  <2>1. t \in Handlers(Row) /\ t.pc = "loaded" /\ t.row = j
    BY <1>2, <1>3 DEF Handlers, Resting, RunPhase, Scheduled
  <2> HIDE DEF t
  <2>2. run' = [run EXCEPT ![r] = t]
    BY <1>3 DEF t
  <2> QED BY <1>3, <2>1, <2>2 DEF In
<1>4. CASE j \notin Scheduled
  <2> DEFINE t == IF run[r].todo \ {j} = {} THEN Resting
                  ELSE [run[r] EXCEPT !.todo = run[r].todo \ {j}]
  <2>1. t \in Handlers(Row) /\ t.pc \in {"idle", "next"}
    BY <1>1, <1>2, HandlerShape DEF Handlers, Resting
  <2> HIDE DEF t
  <2>2. run' = [run EXCEPT ![r] = t]
    BY <1>4 DEF t
  <2> QED BY <2>1, <2>2
<1> QED BY <1>3, <1>4

LEMMA ChoosingMethod ==
    ASSUME NEW r \in Runner, run \in [Runner -> Handlers(Row)], SelectMethod(r)
    PROVE  /\ run' \in [Runner -> Handlers(Row)]
           /\ In(r, "charging")' \/ In(r, "givingUp")'
           /\ run'[r].row = run[r].row
           /\ \A s \in Runner : s # r => run'[s] = run[s]
<1>1. ~In(r, "idle") /\ run[r].pc # "idle"
  BY DEF SelectMethod, In
<1>2. CASE Enter(r, "givingUp")
  BY <1>1, <1>2, Entering DEF RunPhase
<1>3. ASSUME NEW m \in Method,
             run' = [run EXCEPT ![r].pc = "charging", ![r].method = m]
      PROVE  /\ run' \in [Runner -> Handlers(Row)]
             /\ In(r, "charging")' /\ run'[r].row = run[r].row
             /\ \A s \in Runner : s # r => run'[s] = run[s]
  <2> DEFINE t == [run[r] EXCEPT !.pc = "charging", !.method = m]
  <2>1. t \in Handlers(Row) /\ t.pc = "charging" /\ t.row = run[r].row
    <3>1. run[r] \in [pc : RunPhase, todo : SUBSET Row, row : Row \cup {0},
                      method : Method \cup {"none"}]
      BY <1>1, HandlerShape
    <3>2. "charging" \in RunPhase /\ m \in Method \cup {"none"}
      BY DEF RunPhase
    <3> QED BY <3>1, <3>2 DEF Handlers
  <2> HIDE DEF t
  <2>2. run' = [run EXCEPT ![r] = t]
    BY <1>3 DEF t
  <2> QED BY <2>1, <2>2 DEF In
<1>4. \/ Enter(r, "givingUp")
      \/ \E m \in Method : run' = [run EXCEPT ![r].pc = "charging", ![r].method = m]
  BY DEF SelectMethod, Usable
<1> QED BY <1>2, <1>3, <1>4

-----------------------------------------------------------------------------
(* Dunning makes only calls Collection allows *)

LEMMA SubjectType ==
    ASSUME DunningInv, NEW r \in Runner, run[r].pc \notin {"idle", "next"}
    PROVE  /\ run[r].row \in Row
           /\ Subject(r).inv \in Invoice /\ Subject(r).n \in Attempt
           /\ Subject(r).status \in RetryStatus
           /\ Subject(r).method \in Method \cup {"none"}
           /\ run[r].method \in Method \cup {"none"}
<1>1. run[r].row \in Row /\ retries \in Seq(Retry)
  BY DEF DunningInv, DunningTypeOK, HandlersHaveRow
<1>2. run[r] \in Handlers(Row)
  BY DEF DunningInv, DunningTypeOK, Handlers
<1> QED BY <1>1, <1>2, RowType, HandlerShape DEF Subject

LEMMA RunsType == DunningInv => run \in [Runner -> Handlers(Row)]
BY DEF DunningInv, DunningTypeOK, Handlers

\* A handler that dies drops its charge at any point: a crash of Collection, a
\* return nobody takes, or nothing.
LEMMA CrashIsCollection ==
    ASSUME DunningInv, NEW r \in Runner, CrashRun(r)
    PROVE  [Next]_vars
<1>1. r \in Worker /\ call \in [Worker -> Call]
  BY DunningAssumption DEF DunningInv, DunningTypeOK, TypeOK
<1>2. call[r] = Idle \/ call[r].pc \in WorkerPhase \/ At(r, "done")
  BY <1>1 DEF Call, At
<1>3. CASE call[r] = Idle
  <2>1. UNCHANGED call
    BY <1>1, <1>3 DEF CrashRun
  <2> QED BY <2>1 DEF CrashRun, vars
<1>4. CASE call[r].pc \in WorkerPhase
  BY <1>1, <1>4 DEF CrashRun, Crash, Next, WorkerStep
<1>5. CASE At(r, "done")
  BY <1>1, <1>5 DEF CrashRun, Return, Next, WorkerStep
<1> QED BY <1>2, <1>3, <1>4, <1>5

LEMMA RunnerIsCollection ==
    ASSUME DunningInv, NEW r \in Runner, RunnerStep(r)
    PROVE  [Next]_vars
<1>1. r \in Worker
  BY DunningAssumption
<1>2. CASE ChargeAgain(r)
  <2>1. Subject(r).inv \in Invoice /\ Subject(r).n \in Attempt
    BY <1>2, SubjectType DEF ChargeAgain, In
  <2> QED BY <1>1, <1>2, <2>1 DEF ChargeAgain, Next, WorkerStep
<1>3. CASE TakeResult(r)
  BY <1>1, <1>3 DEF TakeResult, Next, WorkerStep
<1>4. CASE WorkerProgress(r)
  BY <1>1, <1>4 DEF Next, WorkerStep
<1>5. CASE UNCHANGED collection
  BY <1>5 DEF collection
<1> QED
  BY <1>2, <1>3, <1>4, <1>5, CrashIsCollection
     DEF RunnerStep, RunnerProgress, StartRun, LoadRetry, ReadInvoiceForRetry, SkipRetries,
         SelectMethod, RecordRecovered, RecordUnpaid, GiveUp, SkipRest, MovePastDue,
         Announce, RetryThrows

LEMMA DunningIsCollection ==
    DunningInv /\ [DunningNext]_dunningVars => [Next]_vars
<1> SUFFICES ASSUME DunningInv, [DunningNext]_dunningVars PROVE [Next]_vars
  OBVIOUS
<1>1. ASSUME NEW w \in Worker \ Runner, CallerStep(w) PROVE [Next]_vars
  <2>1. 1 \in Attempt
    BY CollectionAssumption DEF Attempt
  <2> QED BY <1>1, <2>1 DEF CallerStep, Next, WorkerStep
<1>2. ASSUME NEW w \in Worker, ScheduleDunning(w) PROVE [Next]_vars
  BY <1>2 DEF ScheduleDunning, Next, WorkerStep
<1>3. CASE OtherStep
  BY <1>3 DEF OtherStep, Next
<1>4. CASE UNCHANGED dunningVars
  BY <1>4 DEF dunningVars, collection
<1> QED BY <1>1, <1>2, <1>3, <1>4, RunnerIsCollection DEF DunningNext

-----------------------------------------------------------------------------
(* Layer 1 *)

LEMMA DunningInvInit == DunningInit => DunningInv
<1> SUFFICES ASSUME DunningInit PROVE DunningInv
  OBVIOUS
<1>1. TypeOK
  BY TypeInvInit DEF DunningInit, TypeInv
<1>2. retries \in Seq(Retry) /\ pastDue \subseteq Recurring /\ escalated \subseteq Invoice
  BY DEF DunningInit
<1>3. run \in [Runner -> Handlers(Row)]
  BY DEF DunningInit, Handlers
<1>4. \A r \in Runner : run[r].pc = "idle"
  BY DEF DunningInit, Resting
<1> QED
  BY <1>1, <1>2, <1>3, <1>4
     DEF DunningInv, DunningTypeOK, Handlers, HandlersHaveRow, CallsItsRow, In

\* One handler moves; the others keep their rows and their charges.
LEMMA OneHandlerMoves ==
    ASSUME DunningInv, TypeOK', RowsPersist, NEW r \in Runner,
           NEW rows, rows = Row', run' \in [Runner -> Handlers(rows)],
           \A s \in Runner : s # r => run'[s] = run[s] /\ call'[s] = call[s],
           run'[r].pc \notin {"idle", "next"} => run'[r].row \in rows,
           In(r, "calling")' => /\ call'[r].pc # "idle"
                                /\ call'[r].key = <<Subject(r)'.inv, Subject(r)'.n>>,
           pastDue' \subseteq Recurring, escalated' \subseteq Invoice
    PROVE  DunningInv'
<1>1. DunningTypeOK'
  BY DEF DunningTypeOK, Handlers, RowsPersist
<1>2. HandlersHaveRow'
  <2> SUFFICES ASSUME NEW s \in Runner, (run[s].pc \notin {"idle", "next"})'
               PROVE  (run[s].row \in Row)'
    BY DEF HandlersHaveRow
  <2>1. CASE s = r
    BY <2>1
  <2>2. CASE s # r
    BY <2>2 DEF DunningInv, HandlersHaveRow, RowsPersist
  <2> QED BY <2>1, <2>2
<1>3. CallsItsRow'
  <2> SUFFICES ASSUME NEW s \in Runner, In(s, "calling")'
               PROVE  /\ call'[s].pc # "idle"
                      /\ call'[s].key = <<Subject(s)'.inv, Subject(s)'.n>>
    BY DEF CallsItsRow
  <2>1. CASE s = r
    BY <2>1
  <2>2. CASE s # r
    <3>1. In(s, "calling") /\ run'[s].row = run[s].row
      BY <2>2 DEF In
    <3>2. run[s].row \in Row
      BY <3>1 DEF In, DunningInv, HandlersHaveRow
    <3>3. Subject(s)'.inv = Subject(s).inv /\ Subject(s)'.n = Subject(s).n
      BY <3>1, <3>2 DEF Subject, RowsPersist
    <3> QED BY <2>2, <3>1, <3>3 DEF DunningInv, CallsItsRow
  <2> QED BY <2>1, <2>2
<1> QED BY <1>1, <1>2, <1>3 DEF DunningInv

LEMMA SameRows ==
    ASSUME retries \in Seq(Retry), UNCHANGED retries
    PROVE  /\ RowsPersist /\ Row' = Row /\ Scheduled' = Scheduled
           /\ \A l \in Row : retries'[l].status = retries[l].status
BY DEF RowsPersist, Row, Scheduled

\* A retry that did not get the money: the row fails, and while the schedule goes
\* on the next one is added at the end.
LEMMA UnpaidRow ==
    ASSUME DunningInv, NEW r \in Runner, RecordUnpaid(r)
    PROVE  /\ RowsPersist
           /\ retries'[run[r].row].status = "failed"
           /\ \A l \in Row : l # run[r].row => retries'[l].status = retries[l].status
           /\ \/ /\ Row' = Row /\ Enter(r, "escalating")
              \/ /\ Row' = Row \cup {Len(retries) + 1} /\ Onward(r)
                 /\ Len(retries) + 1 \notin Row
                 /\ \A l \in Row : l < Len(retries) + 1
                 /\ retries'[Len(retries) + 1].inv = Subject(r).inv
                 /\ retries'[Len(retries) + 1].n = Subject(r).n + 1
                 /\ retries'[Len(retries) + 1].status = "scheduled"
<1> DEFINE f == [retries EXCEPT ![run[r].row].status = "failed",
                                ![run[r].row].method = run[r].method]
           e == NewRetry(Subject(r).inv, Subject(r).n + 1)
<1>1. /\ run[r].row \in Row /\ run[r].method \in Method \cup {"none"}
      /\ Subject(r).inv \in Invoice /\ Subject(r).n \in Attempt
      /\ retries \in Seq(Retry)
  BY SubjectType DEF RecordUnpaid, In, DunningInv, DunningTypeOK
<1>2. /\ f \in Seq(Retry) /\ Len(f) = Len(retries) /\ DOMAIN f = Row
      /\ \A l \in Row : f[l].inv = retries[l].inv /\ f[l].n = retries[l].n
      /\ f[run[r].row].status = "failed"
      /\ \A l \in Row : l # run[r].row => f[l].status = retries[l].status
  <2>1. f = FailedBy(run[r].row, run[r].method)
    BY DEF FailedBy
  <2> HIDE DEF f
  <2> QED BY <1>1, <2>1, FailingRow
<1>3. \/ retries' = f /\ Enter(r, "escalating")
      \/ Subject(r).n < MaxAttempts /\ retries' = Append(f, e) /\ Onward(r)
  BY DEF RecordUnpaid
<1> HIDE DEF f
<1>4. CASE retries' = f /\ Enter(r, "escalating")
  BY <1>1, <1>2, <1>4 DEF RowsPersist, Row
<1>5. CASE Subject(r).n < MaxAttempts /\ retries' = Append(f, e) /\ Onward(r)
  <2>1. Subject(r).n + 1 \in Attempt
    BY <1>1, <1>5, CollectionAssumption DEF Attempt
  <2>2. /\ e \in Retry /\ e.inv = Subject(r).inv /\ e.n = Subject(r).n + 1
        /\ e.status = "scheduled"
    BY <1>1, <2>1, NewRetryType
  <2> HIDE DEF e
  <2>3. /\ retries' \in Seq(Retry)
        /\ Row' = Row \cup {Len(retries) + 1}
        /\ Len(retries) + 1 \notin Row
        /\ \A l \in Row : retries'[l] = f[l] /\ l < Len(retries) + 1
        /\ retries'[Len(retries) + 1] = e
    BY <1>2, <1>5, <2>2, AddingRow DEF Row
  <2>4. RowsPersist
    BY <1>2, <2>3 DEF RowsPersist
  <2> QED BY <1>1, <1>2, <1>5, <2>2, <2>3, <2>4
<1> QED BY <1>3, <1>4, <1>5

\* Nothing usable to charge: the row fails on its own.
LEMMA GivenUpRow ==
    ASSUME DunningInv, NEW r \in Runner, GiveUp(r)
    PROVE  /\ RowsPersist /\ Row' = Row
           /\ retries'[run[r].row].status = "failed"
           /\ \A l \in Row : l # run[r].row => retries'[l].status = retries[l].status
<1>1. /\ run[r].row \in Row /\ run[r].method \in Method \cup {"none"}
      /\ retries \in Seq(Retry)
  BY SubjectType DEF GiveUp, In, DunningInv, DunningTypeOK
<1>2. retries' = Failed(run[r].row)
  BY DEF GiveUp, Failed
<1>3. /\ retries' \in Seq(Retry) /\ DOMAIN retries' = Row
      /\ \A l \in Row : retries'[l].inv = retries[l].inv /\ retries'[l].n = retries[l].n
      /\ retries'[run[r].row].status = "failed"
      /\ \A l \in Row : l # run[r].row => retries'[l].status = retries[l].status
  BY <1>1, <1>2, FailingRow
<1> QED BY <1>3 DEF RowsPersist, Row

\* scheduleDunningAttempt adds row 1, if it adds anything.
LEMMA FirstRow ==
    ASSUME DunningInv, NEW w \in Worker, ScheduleDunning(w)
    PROVE  /\ call[w].key[1] \in Invoice
           /\ RowsPersist
           /\ \/ UNCHANGED retries
              \/ /\ Row' = Row \cup {Len(retries) + 1}
                 /\ Len(retries) + 1 \notin Row
                 /\ \A l \in Row : /\ l < Len(retries) + 1
                                   /\ retries'[l].status = retries[l].status
                 /\ retries'[Len(retries) + 1].inv = call[w].key[1]
                 /\ retries'[Len(retries) + 1].n = 1
                 /\ retries'[Len(retries) + 1].status = "scheduled"
<1> DEFINE e == NewRetry(call[w].key[1], 1)
<1>1. call[w].key[1] \in Invoice /\ retries \in Seq(Retry)
  <2>1. TypeOK /\ retries \in Seq(Retry)
    BY DEF DunningInv, DunningTypeOK
  <2>2. call[w].key \in Key
    BY <2>1, CallShape DEF ScheduleDunning, Rescued, At, WorkerPhase
  <2> QED BY <2>1, <2>2, KeyParts
<1>2. CASE UNCHANGED retries
  BY <1>1, <1>2, SameRows
<1>3. CASE retries' = Append(retries, e)
  <2>1. e \in Retry /\ e.inv = call[w].key[1] /\ e.n = 1 /\ e.status = "scheduled"
    <3>1. 1 \in Attempt
      BY CollectionAssumption DEF Attempt
    <3> QED BY <1>1, <3>1, NewRetryType
  <2> HIDE DEF e
  <2>2. /\ retries' \in Seq(Retry)
        /\ Row' = Row \cup {Len(retries) + 1}
        /\ Len(retries) + 1 \notin Row
        /\ \A l \in Row : retries'[l] = retries[l] /\ l < Len(retries) + 1
        /\ retries'[Len(retries) + 1] = e
    BY <1>1, <1>3, <2>1, AddingRow DEF Row
  <2> QED BY <1>1, <2>1, <2>2 DEF RowsPersist
<1> QED BY <1>2, <1>3 DEF ScheduleDunning

\* Each step of a handler, with the charge it may be making.
LEMMA RunnerKeepsDunning ==
    ASSUME DunningInv, TypeOK', NEW r \in Runner, RunnerStep(r)
    PROVE  DunningInv'
<1> DEFINE rows == Row'
<1>0. /\ r \in Worker /\ retries \in Seq(Retry) /\ run \in [Runner -> Handlers(Row)]
      /\ pastDue \subseteq Recurring /\ escalated \subseteq Invoice
      /\ run[r].pc \notin {"idle", "next"} => run[r].row \in Row
      /\ TypeOK
  BY DunningAssumption, RunsType DEF DunningInv, DunningTypeOK, HandlersHaveRow
<1>q. UNCHANGED retries => RowsPersist /\ rows = Row
  BY <1>0, SameRows
<1> HIDE DEF rows
<1>1. ASSUME NEW due \in SUBSET Scheduled, StartRun(r, due) PROVE DunningInv'
  <2> DEFINE t == [Resting EXCEPT !.pc = "next", !.todo = due]
  <2>1. due \subseteq Row
    BY DEF Scheduled
  <2>2. t \in Handlers(Row) /\ t.pc = "next"
    BY <2>1, BatchType
  <2> HIDE DEF t
  <2>3. run' = [run EXCEPT ![r] = t]
    BY <1>1 DEF StartRun, t
  <2>4. run' \in [Runner -> Handlers(Row)] /\ run'[r].pc = "next"
        /\ \A s \in Runner : s # r => run'[s] = run[s]
    BY <1>0, <2>2, <2>3
  <2> QED
    BY <1>0, <1>q, <1>1, <2>4, OneHandlerMoves DEF StartRun, collection, vars, In, rows
<1>2. CASE LoadRetry(r)
  <2>1. /\ run' \in [Runner -> Handlers(Row)]
        /\ run'[r].pc \in {"idle", "next", "loaded"}
        /\ In(r, "loaded")' => run'[r].row \in Row
        /\ \A s \in Runner : s # r => run'[s] = run[s]
    BY <1>0, <1>2, LoadingRow DEF In, Scheduled
  <2> QED
    BY <1>0, <1>q, <1>2, <2>1, OneHandlerMoves DEF LoadRetry, collection, vars, In, rows
<1>3. CASE ReadInvoiceForRetry(r)
  <2>1. ~In(r, "idle") /\ run[r].pc \notin {"idle", "next"}
        /\ (Enter(r, "skipping") \/ Enter(r, "selecting"))
    BY <1>3 DEF ReadInvoiceForRetry, In
  <2>2. /\ run' \in [Runner -> Handlers(Row)]
        /\ run'[r].pc \in {"skipping", "selecting"} /\ run'[r].row = run[r].row
        /\ \A s \in Runner : s # r => run'[s] = run[s]
    BY <1>0, <2>1, Entering DEF In, RunPhase
  <2> QED
    BY <1>0, <1>q, <1>3, <2>1, <2>2, OneHandlerMoves
       DEF ReadInvoiceForRetry, collection, vars, In, rows
<1>4. CASE SelectMethod(r)
  <2>1. run[r].pc \notin {"idle", "next"}
    BY <1>4 DEF SelectMethod, In
  <2>2. /\ run' \in [Runner -> Handlers(Row)]
        /\ run'[r].pc \in {"charging", "givingUp"} /\ run'[r].row = run[r].row
        /\ \A s \in Runner : s # r => run'[s] = run[s]
    BY <1>0, <1>4, ChoosingMethod DEF In
  <2> QED
    BY <1>0, <1>q, <1>4, <2>1, <2>2, OneHandlerMoves
       DEF SelectMethod, collection, vars, In, rows
<1>5. CASE ChargeAgain(r)
  <2>1. run[r].pc \notin {"idle", "next"} /\ ~In(r, "idle")
    BY <1>5 DEF ChargeAgain, In
  <2>2. /\ run' \in [Runner -> Handlers(Row)]
        /\ run'[r].pc = "calling" /\ run'[r].row = run[r].row
        /\ \A s \in Runner : s # r => run'[s] = run[s]
    BY <1>0, <1>5, <2>1, Entering DEF ChargeAgain, In, RunPhase
  <2>3. /\ call'[r].pc # "idle" /\ call'[r].key = <<Subject(r).inv, Subject(r).n>>
        /\ \A s \in Runner : s # r => call'[s] = call[s]
    BY <1>0, <1>5, DunningAssumption DEF ChargeAgain, Admit, Refuse, Finish, TypeOK
  <2>4. Subject(r)'.inv = Subject(r).inv /\ Subject(r)'.n = Subject(r).n
    BY <1>5, <2>2 DEF ChargeAgain, Subject
  <2> QED
    BY <1>0, <1>q, <1>5, <2>1, <2>2, <2>3, <2>4, OneHandlerMoves DEF ChargeAgain, rows
<1>6. CASE TakeResult(r)
  <2>1. run[r].pc \notin {"idle", "next"} /\ ~In(r, "idle")
    BY <1>6 DEF TakeResult, In
  <2>2. \A s \in Runner : s # r => call'[s] = call[s]
    BY <1>0, <1>6, DunningAssumption DEF TakeResult, Return, TypeOK
  <2>3. ASSUME NEW p \in {"skipping", "recovered", "unpaid"}, Enter(r, p)
        PROVE  DunningInv'
    <3>1. /\ run' \in [Runner -> Handlers(Row)]
          /\ run'[r].pc = p /\ run'[r].row = run[r].row
          /\ \A s \in Runner : s # r => run'[s] = run[s]
      BY <1>0, <2>1, <2>3, Entering DEF In, RunPhase
    <3> QED
      BY <1>0, <1>q, <1>6, <2>1, <2>2, <3>1, OneHandlerMoves DEF TakeResult, In, rows
  <2>4. CASE Onward(r)
    <3>1. /\ run' \in [Runner -> Handlers(Row)]
          /\ run'[r].pc \in {"idle", "next"}
          /\ \A s \in Runner : s # r => run'[s] = run[s]
      BY <1>0, <2>1, <2>4, GoingOn
    <3> QED
      BY <1>0, <1>q, <1>6, <2>2, <3>1, OneHandlerMoves DEF TakeResult, In, rows
  <2> QED BY <1>6, <2>3, <2>4 DEF TakeResult
<1>7. CASE SkipRetries(r) \/ RecordRecovered(r)
  <2>1. run[r].pc \notin {"idle", "next"} /\ ~In(r, "idle") /\ Onward(r)
    BY <1>7 DEF SkipRetries, RecordRecovered, In
  <2>2. RowsPersist /\ rows = Row
    BY <1>0, <1>7, <2>1, SubjectType, ClosingRows
       DEF SkipRetries, RecordRecovered, RetryStatus, rows
  <2>3. /\ run' \in [Runner -> Handlers(Row)]
        /\ run'[r].pc \in {"idle", "next"}
        /\ \A s \in Runner : s # r => run'[s] = run[s]
    BY <1>0, <2>1, GoingOn
  <2>4. UNCHANGED <<collection, pastDue, escalated>>
    BY <1>7 DEF SkipRetries, RecordRecovered
  <2> QED
    BY <1>0, <2>2, <2>3, <2>4, OneHandlerMoves DEF collection, vars, In, rows
<1>8. CASE RecordUnpaid(r)
  <2>1. ~In(r, "idle") /\ run[r].pc \notin {"idle", "next"}
    BY <1>8 DEF RecordUnpaid, In
  <2>2. RowsPersist /\ Row \subseteq rows /\ (Enter(r, "escalating") \/ Onward(r))
    BY <1>8, UnpaidRow DEF rows
  <2>3. run \in [Runner -> Handlers(rows)]
    BY <1>0, <2>2, MoreRows
  <2>4. /\ run' \in [Runner -> Handlers(rows)]
        /\ run'[r].pc \in {"idle", "next", "escalating"}
        /\ In(r, "escalating")' => run'[r].row = run[r].row
        /\ \A s \in Runner : s # r => run'[s] = run[s]
    BY <2>1, <2>2, <2>3, Entering, GoingOn DEF In, RunPhase
  <2> QED
    BY <1>0, <1>8, <2>1, <2>2, <2>4, OneHandlerMoves
       DEF RecordUnpaid, collection, vars, In, rows
<1>9. CASE GiveUp(r) \/ SkipRest(r)
  <2>1. run[r].pc \notin {"idle", "next"} /\ ~In(r, "idle")
    BY <1>9 DEF GiveUp, SkipRest, In
  <2>2. RowsPersist /\ rows = Row
    BY <1>0, <1>9, <2>1, SubjectType, ClosingRows, GivenUpRow DEF SkipRest, rows
  <2>3. /\ run' \in [Runner -> Handlers(Row)]
        /\ run'[r].pc \in {"skippingRest", "escalating"} /\ run'[r].row = run[r].row
        /\ \A s \in Runner : s # r => run'[s] = run[s]
    BY <1>0, <1>9, <2>1, Entering DEF GiveUp, SkipRest, In, RunPhase
  <2>4. UNCHANGED <<collection, pastDue, escalated>>
    BY <1>9 DEF GiveUp, SkipRest
  <2> QED
    BY <1>0, <2>1, <2>2, <2>3, <2>4, OneHandlerMoves DEF collection, vars, In, rows
<1>10. CASE MovePastDue(r)
  <2>1. run[r].pc \notin {"idle", "next"} /\ ~In(r, "idle")
    BY <1>10 DEF MovePastDue, In
  <2>2. /\ run' \in [Runner -> Handlers(Row)]
        /\ run'[r].pc = "announcing" /\ run'[r].row = run[r].row
        /\ \A s \in Runner : s # r => run'[s] = run[s]
    BY <1>0, <1>10, <2>1, Entering DEF MovePastDue, In, RunPhase
  <2>3. pastDue' \subseteq Recurring /\ escalated' \subseteq Invoice
    BY <1>0, <1>10 DEF MovePastDue
  <2> QED
    BY <1>0, <1>q, <1>10, <2>1, <2>2, <2>3, OneHandlerMoves
       DEF MovePastDue, collection, vars, In, rows
<1>11. CASE Announce(r)
  <2>1. run[r].pc \notin {"idle", "next"} /\ ~In(r, "idle")
    BY <1>11 DEF Announce, In
  <2>2. /\ run' \in [Runner -> Handlers(Row)]
        /\ run'[r].pc \in {"idle", "next"}
        /\ \A s \in Runner : s # r => run'[s] = run[s]
    BY <1>0, <1>11, <2>1, GoingOn DEF Announce
  <2>3. pastDue' \subseteq Recurring /\ escalated' \subseteq Invoice
    BY <1>0, <1>11, <2>1, SubjectType DEF Announce
  <2> QED
    BY <1>0, <1>q, <1>11, <2>2, <2>3, OneHandlerMoves
       DEF Announce, collection, vars, In, rows
<1>12. CASE RetryThrows(r)
  <2>1. ~In(r, "idle")
    BY <1>12 DEF RetryThrows, In, RunPhase
  <2>2. /\ run' \in [Runner -> Handlers(Row)]
        /\ run'[r].pc \in {"idle", "next"}
        /\ \A s \in Runner : s # r => run'[s] = run[s]
    BY <1>0, <1>12, <2>1, GoingOn DEF RetryThrows
  <2> QED
    BY <1>0, <1>q, <1>12, <2>2, OneHandlerMoves
       DEF RetryThrows, collection, vars, In, rows
<1>13. CASE CrashRun(r)
  <2>1. /\ run' \in [Runner -> Handlers(Row)] /\ run'[r].pc = "idle"
        /\ \A s \in Runner : s # r => run'[s] = run[s] /\ call'[s] = call[s]
    BY <1>0, <1>13, DunningAssumption DEF CrashRun, Handlers, Resting, TypeOK
  <2> QED
    BY <1>0, <1>q, <1>13, <2>1, OneHandlerMoves DEF CrashRun, In, rows
<1>14. CASE WorkerProgress(r) /\ UNCHANGED dunning
  <2>1. /\ run' = run /\ retries' = retries /\ pastDue' = pastDue /\ escalated' = escalated
    BY <1>14 DEF dunning
  <2>2. /\ call'[r].pc # "idle" /\ call'[r].key = call[r].key
        /\ \A s \in Runner : s # r => call'[s] = call[s]
    BY <1>0, <1>14, DunningAssumption
       DEF WorkerProgress, NoPaymentMethod, InsertCharge, ReturnExisting, SendRequest,
           ReceiveAnswer, GatewayThrows, SettleDirectly, RecordPending, RecordDeclined,
           StoreThrows, PublishPayment, PublishPaid, PublishThrows, MarkFailed,
           PublishFailed, CatchThrows, GoTo, Finish, TypeOK, AnswerPhase
  <2>3. Subject(r)' = Subject(r)
    BY <2>1 DEF Subject
  <2>4. In(r, "calling") => call[r].key = <<Subject(r).inv, Subject(r).n>>
    BY DEF DunningInv, CallsItsRow
  <2> QED
    BY <1>0, <1>q, <2>1, <2>2, <2>3, <2>4, OneHandlerMoves DEF In, rows
<1> QED
  BY <1>1, <1>2, <1>3, <1>4, <1>5, <1>6, <1>7, <1>8, <1>9, <1>10, <1>11, <1>12, <1>13,
     <1>14 DEF RunnerStep, RunnerProgress

LEMMA DunningInvStep ==
    TypeInv /\ DunningInv /\ [DunningNext]_dunningVars => DunningInv'
<1> SUFFICES ASSUME TypeInv, DunningInv, [DunningNext]_dunningVars PROVE DunningInv'
  OBVIOUS
<1>1. TypeOK'
  BY DunningIsCollection, TypeInvStep DEF TypeInv
<1>2. /\ retries \in Seq(Retry) /\ run \in [Runner -> Handlers(Row)]
      /\ pastDue \subseteq Recurring /\ escalated \subseteq Invoice
  BY RunsType DEF DunningInv, DunningTypeOK
\* Whoever is no handler leaves the handlers and their charges alone.
<1>3. ASSUME RowsPersist, UNCHANGED <<run, pastDue, escalated>>,
             \A r \in Runner : In(r, "calling") =>
                 call'[r].pc # "idle" /\ call'[r].key = call[r].key
      PROVE  DunningInv'
  <2>1. Row \subseteq Row'
    BY <1>3 DEF RowsPersist
  <2>2. DunningTypeOK'
    <3> DEFINE rows == Row'
    <3>1. run' \in [Runner -> Handlers(rows)]
      BY <1>2, <1>3, <2>1, MoreRows
    <3> QED BY <1>1, <1>2, <1>3, <3>1 DEF DunningTypeOK, Handlers, RowsPersist
  <2>3. HandlersHaveRow'
    BY <1>3, <2>1 DEF DunningInv, HandlersHaveRow
  <2>4. CallsItsRow'
    <3> SUFFICES ASSUME NEW r \in Runner, In(r, "calling")'
                 PROVE  /\ call'[r].pc # "idle"
                        /\ call'[r].key = <<Subject(r)'.inv, Subject(r)'.n>>
      BY DEF CallsItsRow
    <3>1. In(r, "calling") /\ run'[r].row = run[r].row
      BY <1>3 DEF In
    <3>2. run[r].row \in Row
      BY <3>1 DEF In, DunningInv, HandlersHaveRow
    <3>3. Subject(r)'.inv = Subject(r).inv /\ Subject(r)'.n = Subject(r).n
      BY <1>3, <3>1, <3>2 DEF Subject, RowsPersist
    <3> QED BY <1>3, <3>1, <3>3 DEF DunningInv, CallsItsRow
  <2> QED BY <2>2, <2>3, <2>4 DEF DunningInv
<1>4. ASSUME NEW w \in Worker \ Runner, CallerStep(w) PROVE DunningInv'
  <2>1. UNCHANGED dunning
    BY <1>4 DEF CallerStep
  <2>2. \A r \in Runner : call'[r] = call[r]
    BY <1>4, DunningAssumption
       DEF CallerStep, Admit, Refuse, WorkerProgress, NoPaymentMethod, InsertCharge,
           ReturnExisting, SendRequest, ReceiveAnswer, GatewayThrows, SettleDirectly,
           RecordPending, RecordDeclined, StoreThrows, PublishPayment, PublishPaid,
           PublishThrows, MarkFailed, PublishFailed, CatchThrows, Return, Crash,
           GoTo, Finish, TypeInv, TypeOK
  <2> QED BY <1>2, <1>3, <2>1, <2>2, SameRows DEF dunning, DunningInv, CallsItsRow
<1>5. ASSUME NEW w \in Worker, ScheduleDunning(w) PROVE DunningInv'
  <2>1. RowsPersist
    BY <1>5, FirstRow
  <2>2. \A r \in Runner : In(r, "calling") =>
            call'[r].pc # "idle" /\ call'[r].key = call[r].key
    BY <1>5, DunningAssumption
       DEF ScheduleDunning, Rescued, Finish, TypeInv, TypeOK, DunningInv, CallsItsRow
  <2> QED BY <1>3, <1>5, <2>1, <2>2 DEF ScheduleDunning
<1>6. CASE OtherStep
  <2>1. UNCHANGED <<call, dunning>>
    BY <1>6 DEF OtherStep, ConsumerStep, ConsumerProgress, Receive, FindCharge, ReadInvoice,
                SettleByWebhook, NotifyPayment, NotifyPaid, RejectByWebhook, NotifyFailed,
                MarkProcessed, DropDelivery, GatewayStep, GatewayAccepts, GatewayDecides,
                VoidInvoice
  <2> QED BY <1>2, <1>3, <2>1, SameRows DEF dunning, DunningInv, CallsItsRow
<1>7. CASE UNCHANGED dunningVars
  BY <1>2, <1>3, <1>7, SameRows
     DEF dunningVars, collection, vars, dunning, DunningInv, CallsItsRow
<1> QED BY <1>1, <1>4, <1>5, <1>6, <1>7, RunnerKeepsDunning DEF DunningNext

LEMMA DunningInvariant == DunningSpec => [](TypeInv /\ DunningInv)
<1>1. DunningInit => TypeInv
  BY TypeInvInit DEF DunningInit
<1>2. TypeInv /\ DunningInv /\ [DunningNext]_dunningVars => TypeInv'
  BY DunningIsCollection, TypeInvStep
<1> QED BY <1>1, <1>2, DunningInvInit, DunningInvStep, PTL DEF DunningSpec

\* Every variable of dunning keeps its type: a row has a number of the schedule,
\* however often rows are executed.
THEOREM DunningTypes == DunningSpec => []DunningTypeOK
<1>1. DunningInv => DunningTypeOK
  BY DEF DunningInv
<1> QED BY <1>1, DunningInvariant, PTL

\* Dunning implements Collection: whatever runners do, and wherever they die, the
\* charges they make are calls of executePaymentForInvoice like any other, each
\* asked for only after the charge of the attempt before it exists.  So every
\* theorem about Collection holds of it.
THEOREM DunningKeepsCollection == DunningSpec => Spec
<1>1. DunningInit => Init
  BY DEF DunningInit
<1> QED BY <1>1, DunningIsCollection, DunningInvariant, PTL DEF DunningSpec, Spec

-----------------------------------------------------------------------------
(* Layer 2: success is booked *)

LEMMA SuccessInit == Init => SuccessIsBooked
BY DEF Init, SuccessIsBooked, At, Idle

LEMMA DoneShape ==
    ASSUME NEW w \in Worker, TypeOK, At(w, "done")
    PROVE  call[w].key \in Key
BY DEF At, TypeOK, Call, Idle, WorkerPhase

LEMMA SuccessStep ==
    TypeInv /\ BooksInv /\ SuccessIsBooked /\ [Next]_vars => SuccessIsBooked'
<1> SUFFICES ASSUME TypeInv, BooksInv, SuccessIsBooked, [Next]_vars
             PROVE  SuccessIsBooked'
  OBVIOUS
<1> USE DEF TypeInv, TypeOK, BooksInv, AnnouncersBooked, SuccessIsBooked, At, Handling,
            WorkerPhase, ConsumerPhase, books, bank, inbox
<1>1. ASSUME NEW w \in Worker, WorkerStep(w) PROVE SuccessIsBooked'
  <2>1. CASE InsertCharge(w) \/ MarkFailed(w)
    BY <2>1, CallShape, DoneShape DEF InsertCharge, MarkFailed, GoTo
  <2>2. CASE SettleDirectly(w)
    BY <2>2, CallShape, DoneShape DEF SettleDirectly, GoTo
  <2>3. CASE RecordDeclined(w)
    BY <2>3, CallShape, DoneShape DEF RecordDeclined, Finish
  <2>4. CASE PublishPaid(w)
    BY <2>4, CallShape, DoneShape DEF PublishPaid, Finish
  <2>5. CASE ReturnExisting(w)
    BY <2>5, CallShape, DoneShape DEF ReturnExisting, Finish
  <2>6. CASE PublishFailed(w)
    BY <2>6, CallShape, DoneShape DEF PublishFailed, GoTo, Finish
  <2>7. CASE \/ SendRequest(w) \/ GatewayThrows(w) \/ StoreThrows(w) \/ PublishPayment(w)
             \/ PublishThrows(w)
    BY <2>7, CallShape, DoneShape
       DEF SendRequest, GatewayThrows, StoreThrows, PublishPayment, PublishThrows, GoTo
  <2>8. CASE ReceiveAnswer(w)
    BY <2>8, CallShape, DoneShape DEF ReceiveAnswer, AnswerPhase, GoTo
  <2>9. CASE \/ NoPaymentMethod(w) \/ RecordPending(w) \/ CatchThrows(w) \/ Rescued(w)
    BY <2>9, CallShape, DoneShape DEF NoPaymentMethod, RecordPending, CatchThrows, Rescued, Finish
  <2>10. CASE Return(w) \/ Crash(w)
    BY <2>10 DEF Return, Crash, Idle
  <2>11. CASE \E i \in Invoice, n \in Attempt : Admit(w, i, n) \/ Refuse(w, i, n)
    BY <2>11, DoneShape DEF Admit, Refuse, Finish
  <2> QED
    BY <1>1, <2>1, <2>2, <2>3, <2>4, <2>5, <2>6, <2>7, <2>8, <2>9, <2>10, <2>11
       DEF WorkerStep, WorkerProgress
<1>2. ASSUME NEW c \in Consumer, ConsumerStep(c) PROVE SuccessIsBooked'
  <2>1. CASE SettleByWebhook(c)
    BY <2>1, DeliveryShape, DoneShape DEF SettleByWebhook
  <2>2. CASE RejectByWebhook(c)
    BY <2>2, DeliveryShape DEF RejectByWebhook
  <2>3. CASE UNCHANGED <<charge, booked, call>>
    BY <2>3
  <2> QED
    BY <1>2, <2>1, <2>2, <2>3
       DEF ConsumerStep, ConsumerProgress, Receive, FindCharge, ReadInvoice,
           NotifyPayment, NotifyPaid, NotifyFailed, MarkProcessed, DropDelivery
<1>3. CASE GatewayStep
  BY <1>3 DEF GatewayStep, GatewayAccepts, GatewayDecides
<1>4. ASSUME NEW i \in Invoice, VoidInvoice(i) PROVE SuccessIsBooked'
  BY <1>4 DEF VoidInvoice
<1>5. CASE UNCHANGED vars
  BY <1>5 DEF vars
<1> QED BY <1>1, <1>2, <1>3, <1>4, <1>5 DEF Next

\* What is booked stays booked.
LEMMA BookedStays ==
    ASSUME TypeInv, [Next]_vars, NEW k \in Key, booked[k] > 0
    PROVE  booked'[k] > 0
<1> USE DEF TypeInv, TypeOK, books
<1>1. ASSUME NEW w \in Worker, SettleDirectly(w) PROVE booked'[k] > 0
  BY <1>1, CallShape DEF SettleDirectly, At, WorkerPhase
<1>2. ASSUME NEW c \in Consumer, SettleByWebhook(c) PROVE booked'[k] > 0
  BY <1>2, DeliveryShape DEF SettleByWebhook, Handling, ConsumerPhase
<1>3. CASE UNCHANGED booked
  BY <1>3
<1>4. ASSUME NEW w \in Worker, WorkerStep(w) PROVE booked'[k] > 0
  BY <1>1, <1>3, <1>4
     DEF WorkerStep, WorkerProgress, Admit, Refuse, NoPaymentMethod, InsertCharge,
         ReturnExisting, SendRequest, ReceiveAnswer, GatewayThrows,
         RecordPending, RecordDeclined, StoreThrows, PublishPayment, PublishPaid,
         PublishThrows, MarkFailed, PublishFailed, CatchThrows, Rescued, Return, Crash
<1>5. ASSUME NEW c \in Consumer, ConsumerStep(c) PROVE booked'[k] > 0
  BY <1>2, <1>3, <1>5
     DEF ConsumerStep, ConsumerProgress, Receive, FindCharge, ReadInvoice,
         NotifyPayment, NotifyPaid, RejectByWebhook, NotifyFailed,
         MarkProcessed, DropDelivery
<1>6. CASE GatewayStep
  BY <1>3, <1>6 DEF GatewayStep, GatewayAccepts, GatewayDecides
<1>7. ASSUME NEW i \in Invoice, VoidInvoice(i) PROVE booked'[k] > 0
  BY <1>3, <1>7 DEF VoidInvoice
<1>8. CASE UNCHANGED vars
  BY <1>3, <1>8 DEF vars
<1> QED BY <1>4, <1>5, <1>6, <1>7, <1>8 DEF Next

\* A handler moves only by a step of its own.
LEMMA OthersRest ==
    ASSUME DunningInv, [DunningNext]_dunningVars, NEW s \in Runner, ~RunnerStep(s)
    PROVE  run'[s] = run[s]
<1>1. run \in [Runner -> Handlers(Row)]
  BY RunsType
<1>2. ASSUME NEW r \in Runner, RunnerStep(r) PROVE run'[s] = run[s]
  <2>1. r # s
    BY <1>2
  <2> QED
    BY <1>1, <1>2, <2>1
       DEF RunnerStep, RunnerProgress, StartRun, LoadRetry, ReadInvoiceForRetry,
           SkipRetries, SelectMethod, ChargeAgain, TakeResult, RecordRecovered,
           RecordUnpaid, GiveUp, SkipRest, MovePastDue, Announce, RetryThrows, CrashRun,
           Enter, Onward, dunning
<1>3. CASE UNCHANGED run
  BY <1>3
<1> QED
  BY <1>2, <1>3 DEF DunningNext, CallerStep, ScheduleDunning, OtherStep, dunningVars, dunning

\* A charge reaches the record of a recovery only as a success of the charge of
\* the row.
LEMMA OnlySuccessRecovers ==
    ASSUME DunningInv, NEW s \in Runner, RunnerStep(s), In(s, "recovered")'
    PROVE  /\ run[s].row \in Row /\ run'[s].row = run[s].row
           /\ \/ In(s, "recovered")
              \/ /\ In(s, "calling") /\ At(s, "done") /\ call[s].outcome = "succeeded"
<1>1. run \in [Runner -> Handlers(Row)]
  BY RunsType
<1>2. CASE WorkerProgress(s) /\ UNCHANGED dunning
  BY <1>2 DEF dunning, In, DunningInv, HandlersHaveRow
<1>3. CASE TakeResult(s)
  <2>1. ~In(s, "idle") /\ In(s, "calling") /\ At(s, "done")
    BY <1>3 DEF TakeResult, In
  <2>2. ASSUME NEW p \in {"skipping", "unpaid", "recovered"}, Enter(s, p)
        PROVE  p = "recovered" /\ run'[s].row = run[s].row
    BY <1>1, <2>1, <2>2, Entering DEF In, RunPhase
  <2>3. ~Onward(s)
    BY <1>1, <2>1, GoingOn DEF In
  <2>4. Enter(s, "recovered") /\ call[s].outcome = "succeeded"
    BY <1>3, <2>2, <2>3 DEF TakeResult
  <2> QED BY <2>1, <2>2, <2>4 DEF DunningInv, HandlersHaveRow, In
<1>4. ASSUME NEW due \in SUBSET Scheduled, StartRun(s, due) PROVE FALSE
  BY <1>1, <1>4, BatchType DEF StartRun, In, Scheduled
<1>5. ~LoadRetry(s)
  BY <1>1, LoadingRow DEF In
<1>6. ~SelectMethod(s)
  BY <1>1, ChoosingMethod DEF In
<1>7. ~CrashRun(s)
  BY <1>1 DEF CrashRun, In, Resting
<1>8. ASSUME Onward(s), ~In(s, "idle") PROVE FALSE
  BY <1>1, <1>8, GoingOn DEF In
<1>9. ASSUME NEW p \in RunPhase \ {"recovered"}, Enter(s, p), ~In(s, "idle") PROVE FALSE
  BY <1>1, <1>9, Entering DEF In
<1>10. ~(SkipRetries(s) \/ RecordRecovered(s) \/ Announce(s) \/ RetryThrows(s))
  BY <1>8 DEF SkipRetries, RecordRecovered, Announce, RetryThrows, In, RunPhase
<1>11. ~(ReadInvoiceForRetry(s) \/ ChargeAgain(s) \/ GiveUp(s) \/ SkipRest(s)
           \/ MovePastDue(s))
  BY <1>9 DEF ReadInvoiceForRetry, ChargeAgain, GiveUp, SkipRest, MovePastDue, In, RunPhase
<1>12. ~RecordUnpaid(s)
  BY <1>8, <1>9 DEF RecordUnpaid, In, RunPhase
<1> QED
  BY <1>2, <1>3, <1>4, <1>5, <1>6, <1>7, <1>10, <1>11, <1>12 DEF RunnerStep, RunnerProgress

\* A row becomes succeeded only when its handler records the recovery.
LEMMA OnlyRecoverySucceeds ==
    ASSUME DunningInv, [DunningNext]_dunningVars,
           NEW j \in Row', (retries[j].status = "succeeded")'
    PROVE  /\ j \in Row
           /\ \/ retries[j].status = "succeeded"
              \/ \E r \in Runner : In(r, "recovered") /\ j = run[r].row
<1>0. retries \in Seq(Retry)
  BY DEF DunningInv, DunningTypeOK
<1>1. CASE UNCHANGED retries
  BY <1>1 DEF Row
<1>2. ASSUME NEW w \in Worker, ScheduleDunning(w)
      PROVE  j \in Row /\ retries[j].status = "succeeded"
  BY <1>1, <1>2, FirstRow DEF Row
<1>3. ASSUME NEW r \in Runner, RecordUnpaid(r)
      PROVE  j \in Row /\ retries[j].status = "succeeded"
  BY <1>3, UnpaidRow
<1>4. ASSUME NEW r \in Runner, GiveUp(r)
      PROVE  j \in Row /\ retries[j].status = "succeeded"
  BY <1>4, GivenUpRow
<1>5. ASSUME NEW r \in Runner, SkipRetries(r) \/ SkipRest(r) \/ RecordRecovered(r)
      PROVE  j \in Row /\ (\/ retries[j].status = "succeeded"
                           \/ In(r, "recovered") /\ j = run[r].row)
  <2>1. /\ run[r].row \in Row
        /\ run[r].method \in Method \cup {"none"}
        /\ Subject(r).method \in Method \cup {"none"} /\ Subject(r).status \in RetryStatus
    BY <1>5, SubjectType DEF SkipRetries, SkipRest, RecordRecovered, In
  <2>2. CASE SkipRetries(r)
    BY <1>0, <2>1, <2>2, ClosingRows DEF SkipRetries, RetryStatus
  <2>3. CASE SkipRest(r)
    BY <1>0, <2>1, <2>3, ClosingRows DEF SkipRest, Subject
  <2>4. CASE RecordRecovered(r)
    BY <1>0, <2>1, <2>4, ClosingRows DEF RecordRecovered, RetryStatus
  <2> QED BY <1>5, <2>2, <2>3, <2>4
<1>6. ASSUME NEW r \in Runner, RunnerStep(r)
      PROVE  \/ UNCHANGED retries
             \/ RecordUnpaid(r) \/ GiveUp(r)
             \/ SkipRetries(r) \/ SkipRest(r) \/ RecordRecovered(r)
  BY <1>6
     DEF RunnerStep, RunnerProgress, StartRun, LoadRetry, ReadInvoiceForRetry, SelectMethod,
         ChargeAgain, TakeResult, MovePastDue, Announce, RetryThrows, CrashRun, dunning
<1>7. ASSUME NEW r \in Runner, RunnerStep(r)
      PROVE  j \in Row /\ (\/ retries[j].status = "succeeded"
                           \/ In(r, "recovered") /\ j = run[r].row)
  BY <1>1, <1>3, <1>4, <1>5, <1>6, <1>7 DEF Row
<1>8. CASE \E w \in Worker \ Runner : CallerStep(w)
  BY <1>1, <1>8 DEF CallerStep, dunning
<1>9. CASE OtherStep \/ UNCHANGED dunningVars
  BY <1>1, <1>9 DEF OtherStep, dunningVars, dunning
<1> QED BY <1>2, <1>7, <1>8, <1>9 DEF DunningNext

\* Whatever the step, the rows stay and keep their invoice and their number.
LEMMA RowsPersistAlways ==
    ASSUME DunningInv, [DunningNext]_dunningVars
    PROVE  RowsPersist
<1>0. retries \in Seq(Retry)
  BY DEF DunningInv, DunningTypeOK
<1>1. CASE UNCHANGED retries
  BY <1>0, <1>1, SameRows
<1>2. ASSUME NEW w \in Worker, ScheduleDunning(w) PROVE RowsPersist
  BY <1>2, FirstRow
<1>3. ASSUME NEW r \in Runner, RecordUnpaid(r) \/ GiveUp(r) PROVE RowsPersist
  BY <1>3, UnpaidRow, GivenUpRow
<1>4. ASSUME NEW r \in Runner, SkipRetries(r) \/ SkipRest(r) \/ RecordRecovered(r)
      PROVE  RowsPersist
  <2>1. /\ run[r].row \in Row
        /\ run[r].method \in Method \cup {"none"}
        /\ Subject(r).method \in Method \cup {"none"} /\ Subject(r).status \in RetryStatus
    BY <1>4, SubjectType DEF SkipRetries, SkipRest, RecordRecovered, In
  <2> QED
    BY <1>0, <1>4, <2>1, ClosingRows DEF SkipRetries, SkipRest, RecordRecovered, RetryStatus
<1>5. ASSUME NEW r \in Runner, RunnerStep(r) PROVE RowsPersist
  BY <1>1, <1>3, <1>4, <1>5
     DEF RunnerStep, RunnerProgress, StartRun, LoadRetry, ReadInvoiceForRetry, SelectMethod,
         ChargeAgain, TakeResult, MovePastDue, Announce, RetryThrows, CrashRun, dunning
<1>6. CASE \E w \in Worker \ Runner : CallerStep(w)
  BY <1>1, <1>6 DEF CallerStep, dunning
<1>7. CASE OtherStep \/ UNCHANGED dunningVars
  BY <1>1, <1>7 DEF OtherStep, dunningVars, dunning
<1> QED BY <1>2, <1>5, <1>6, <1>7 DEF DunningNext

LEMMA RecoveredStep ==
    TypeInv /\ SuccessIsBooked /\ DunningInv /\ RecoveredInv /\ [DunningNext]_dunningVars
        => RecoveredInv'
<1> SUFFICES ASSUME TypeInv, SuccessIsBooked, DunningInv, RecoveredInv,
                    [DunningNext]_dunningVars
             PROVE  RecoveredInv'
  OBVIOUS
<1>1. [Next]_vars /\ RowsPersist /\ retries \in Seq(Retry)
  BY DunningIsCollection, RowsPersistAlways DEF DunningInv, DunningTypeOK
\* What is booked for a row stays booked for it.
<1>2. ASSUME NEW j \in Row, booked[<<retries[j].inv, retries[j].n>>] > 0
      PROVE  (booked[<<retries[j].inv, retries[j].n>>] > 0)'
  <2>1. <<retries[j].inv, retries[j].n>> \in Key
    BY <1>1, RowType DEF Key
  <2>2. booked'[<<retries[j].inv, retries[j].n>>] > 0
    BY <1>1, <1>2, <2>1, BookedStays
  <2> QED BY <1>1, <2>2 DEF RowsPersist
<1>3. RecoveryIsBooked'
  <2> SUFFICES ASSUME NEW s \in Runner, In(s, "recovered")'
               PROVE  (booked[<<Subject(s).inv, Subject(s).n>>] > 0)'
    BY DEF RecoveryIsBooked
  <2>1. /\ run[s].row \in Row /\ run'[s].row = run[s].row
        /\ \/ In(s, "recovered")
           \/ In(s, "calling") /\ At(s, "done") /\ call[s].outcome = "succeeded"
    <3>1. CASE RunnerStep(s)
      BY <3>1, OnlySuccessRecovers
    <3>2. CASE ~RunnerStep(s)
      BY <3>2, OthersRest DEF In, DunningInv, HandlersHaveRow
    <3> QED BY <3>1, <3>2
  <2>2. booked[<<Subject(s).inv, Subject(s).n>>] > 0
    BY <2>1, DunningAssumption
       DEF RecoveredInv, RecoveryIsBooked, SuccessIsBooked, DunningInv, CallsItsRow
  <2> QED BY <1>2, <2>1, <2>2 DEF Subject
<1>4. RecoveredMeansBooked'
  <2> SUFFICES ASSUME NEW j \in Row', (retries[j].status = "succeeded")'
               PROVE  (booked[<<retries[j].inv, retries[j].n>>] > 0)'
    BY DEF RecoveredMeansBooked
  <2>1. /\ j \in Row
        /\ \/ retries[j].status = "succeeded"
           \/ \E r \in Runner : In(r, "recovered") /\ j = run[r].row
    BY OnlyRecoverySucceeds
  <2>2. booked[<<retries[j].inv, retries[j].n>>] > 0
    BY <2>1 DEF RecoveredInv, RecoveredMeansBooked, RecoveryIsBooked, Subject
  <2> QED BY <1>2, <2>1, <2>2
<1> QED BY <1>3, <1>4 DEF RecoveredInv

\* A row that says the money was recovered has a payment in the ledger behind it,
\* for the charge of that very attempt: for any number of runners that work on the
\* same rows, die with their charges or take an answer given to somebody else.
THEOREM RecoveredIsBooked == DunningSpec => []RecoveredMeansBooked
<1>1. DunningInit => SuccessIsBooked
  BY SuccessInit DEF DunningInit
<1>2. DunningInit => RecoveredInv
  BY DEF DunningInit, RecoveredInv, RecoveryIsBooked, RecoveredMeansBooked, Row, In, Resting
<1>3. DunningSpec => [](TypeInv /\ BooksInv)
  BY DunningKeepsCollection, BooksInvariant, PTL
<1>4. TypeInv /\ BooksInv /\ DunningInv /\ SuccessIsBooked /\ [DunningNext]_dunningVars
          => SuccessIsBooked'
  BY DunningIsCollection, SuccessStep
<1>5. RecoveredInv => RecoveredMeansBooked
  BY DEF RecoveredInv
<1> QED
  BY <1>1, <1>2, <1>3, <1>4, <1>5, RecoveredStep, DunningInvariant, PTL DEF DunningSpec

-----------------------------------------------------------------------------
(* Layer 3: where the first row comes from *)

LEMMA ChargeStays ==
    ASSUME TypeInv, [Next]_vars, NEW k \in Key, charge[k] # "none"
    PROVE  charge'[k] # "none"
<1> USE DEF TypeInv, TypeOK
<1>1. ASSUME NEW w \in Worker,
             InsertCharge(w) \/ SettleDirectly(w) \/ RecordDeclined(w) \/ MarkFailed(w)
      PROVE  charge'[k] # "none"
  BY <1>1 DEF InsertCharge, SettleDirectly, RecordDeclined, MarkFailed
<1>2. ASSUME NEW c \in Consumer, SettleByWebhook(c) \/ RejectByWebhook(c)
      PROVE  charge'[k] # "none"
  BY <1>2 DEF SettleByWebhook, RejectByWebhook
<1>3. CASE UNCHANGED charge
  BY <1>3
<1>4. ASSUME NEW w \in Worker, WorkerStep(w) PROVE charge'[k] # "none"
  BY <1>1, <1>3, <1>4
     DEF WorkerStep, WorkerProgress, Admit, Refuse, NoPaymentMethod,
         ReturnExisting, SendRequest, ReceiveAnswer, GatewayThrows,
         RecordPending, StoreThrows, PublishPayment, PublishPaid,
         PublishThrows, PublishFailed, CatchThrows, Rescued, Return, Crash
<1>5. ASSUME NEW c \in Consumer, ConsumerStep(c) PROVE charge'[k] # "none"
  BY <1>2, <1>3, <1>5
     DEF ConsumerStep, ConsumerProgress, Receive, FindCharge, ReadInvoice,
         NotifyPayment, NotifyPaid, NotifyFailed, MarkProcessed, DropDelivery
<1>6. CASE GatewayStep
  BY <1>3, <1>6 DEF GatewayStep, GatewayAccepts, GatewayDecides
<1>7. ASSUME NEW i \in Invoice, VoidInvoice(i) PROVE charge'[k] # "none"
  BY <1>3, <1>7 DEF VoidInvoice
<1>8. CASE UNCHANGED vars
  BY <1>3, <1>8 DEF vars
<1> QED BY <1>4, <1>5, <1>6, <1>7, <1>8 DEF Next

\* A worker becomes the owner of a key by inserting its charge row, and reaches
\* scheduleDunningAttempt with attempt 1 only.
LEMMA OwnershipArises ==
    ASSUME TypeInv, [Next]_vars, NEW w \in Worker, Owner(w)'
    PROVE  /\ \/ Owner(w) /\ call'[w].key = call[w].key
              \/ call'[w].key \in Key /\ charge[call'[w].key] = "none"
           /\ At(w, "rescue")' => call'[w] = call[w] \/ call'[w].key[2] = 1
<1> USE DEF TypeInv, TypeOK, Owner, At, WorkerPhase
<1>1. CASE call'[w] = call[w]
  BY <1>1
<1>2. ASSUME NEW v \in Worker, WorkerStep(v), v # w PROVE call'[w] = call[w]
  BY <1>2
     DEF WorkerStep, WorkerProgress, Admit, Refuse, NoPaymentMethod, InsertCharge,
         ReturnExisting, SendRequest, ReceiveAnswer, GatewayThrows, SettleDirectly,
         RecordPending, RecordDeclined, StoreThrows, PublishPayment, PublishPaid,
         PublishThrows, MarkFailed, PublishFailed, CatchThrows, Rescued, Return, Crash,
         GoTo, Finish
<1>3. CASE WorkerStep(w)
  <2>1. CASE InsertCharge(w)
    BY <2>1, CallShape DEF InsertCharge, GoTo
  <2>2. CASE ReceiveAnswer(w)
    BY <2>2 DEF ReceiveAnswer, AnswerPhase, GoTo
  <2>3. CASE PublishFailed(w)
    BY <2>3 DEF PublishFailed, GoTo, Finish
  <2>4. CASE \/ SendRequest(w) \/ GatewayThrows(w) \/ SettleDirectly(w) \/ StoreThrows(w)
             \/ PublishPayment(w) \/ PublishThrows(w) \/ MarkFailed(w)
    BY <2>4
       DEF SendRequest, GatewayThrows, SettleDirectly, StoreThrows, PublishPayment,
           PublishThrows, MarkFailed, GoTo
  <2>5. ~(\/ NoPaymentMethod(w) \/ ReturnExisting(w) \/ RecordPending(w)
          \/ RecordDeclined(w) \/ PublishPaid(w) \/ CatchThrows(w) \/ Rescued(w)
          \/ Return(w) \/ Crash(w))
    BY DEF NoPaymentMethod, ReturnExisting, RecordPending, RecordDeclined, PublishPaid,
           CatchThrows, Rescued, Return, Crash, Finish, Idle
  <2>6. ~(\E i \in Invoice, n \in Attempt : Admit(w, i, n) \/ Refuse(w, i, n))
    BY DEF Admit, Refuse, Finish
  <2> QED
    BY <1>3, <2>1, <2>2, <2>3, <2>4, <2>5, <2>6 DEF WorkerStep, WorkerProgress
<1>4. ASSUME NEW c \in Consumer, ConsumerStep(c) PROVE call'[w] = call[w]
  BY <1>4
     DEF ConsumerStep, ConsumerProgress, Receive, FindCharge, ReadInvoice,
         SettleByWebhook, NotifyPayment, NotifyPaid, RejectByWebhook, NotifyFailed,
         MarkProcessed, DropDelivery
<1>5. CASE GatewayStep
  BY <1>1, <1>5 DEF GatewayStep, GatewayAccepts, GatewayDecides
<1>6. ASSUME NEW i \in Invoice, VoidInvoice(i) PROVE call'[w] = call[w]
  BY <1>6 DEF VoidInvoice
<1>7. CASE UNCHANGED vars
  BY <1>1, <1>7 DEF vars
<1> QED BY <1>1, <1>2, <1>3, <1>4, <1>5, <1>6, <1>7 DEF Next

\* A new row is the first one, made by the owner of the first charge, or the
\* successor of a row of the same invoice.
LEMMA NewRowsCome ==
    ASSUME TypeInv, DunningInv, FirstChargeFirst, [DunningNext]_dunningVars,
           NEW j \in Row', j \notin Row, NEW i, retries'[j].inv = i
    PROVE  \/ Rows(i) # {}
           \/ \E w \in Worker : /\ i \in Invoice /\ Owner(w) /\ call[w].key = <<i, 1>>
                                /\ ~Owner(w)'
<1>0. retries \in Seq(Retry)
  BY DEF DunningInv, DunningTypeOK
<1>1. ~UNCHANGED retries
  BY DEF Row
<1>2. ASSUME NEW w \in Worker, ScheduleDunning(w)
      PROVE  /\ i \in Invoice /\ Owner(w) /\ call[w].key = <<i, 1>>
             /\ ~Owner(w)'
  <2>1. i = call[w].key[1] /\ i \in Invoice
    BY <1>1, <1>2, FirstRow
  <2>2. At(w, "rescue") /\ Owner(w) /\ call[w].key \in Key /\ call[w].key[2] = 1
    BY <1>2, CallShape
       DEF ScheduleDunning, Rescued, At, Owner, WorkerPhase, TypeInv, FirstChargeFirst
  <2>3. call[w].key = <<i, 1>>
    BY <2>1, <2>2, KeyParts
  <2>4. ~Owner(w)'
    BY <1>2 DEF ScheduleDunning, Rescued, Finish, Owner, WorkerPhase, TypeInv, TypeOK
  <2> QED BY <2>1, <2>2, <2>3, <2>4
<1>3. ASSUME NEW r \in Runner, RecordUnpaid(r) PROVE Rows(i) # {}
  <2>1. run[r].row \in Row
    BY <1>3, SubjectType DEF RecordUnpaid, In
  <2>2. Subject(r).inv = i
    BY <1>3, UnpaidRow
  <2> QED BY <2>1, <2>2 DEF Rows, Subject
<1>4. ASSUME NEW r \in Runner, SkipRetries(r) \/ SkipRest(r) \/ RecordRecovered(r)
      PROVE  FALSE
  <2>1. /\ run[r].row \in Row
        /\ run[r].method \in Method \cup {"none"}
        /\ Subject(r).method \in Method \cup {"none"} /\ Subject(r).status \in RetryStatus
    BY <1>4, SubjectType DEF SkipRetries, SkipRest, RecordRecovered, In
  <2> QED
    BY <1>0, <1>4, <2>1, ClosingRows DEF SkipRetries, SkipRest, RecordRecovered, RetryStatus
<1>5. ASSUME NEW r \in Runner, RunnerStep(r) PROVE RecordUnpaid(r)
  <2>1. ~GiveUp(r)
    BY GivenUpRow
  <2> QED
    BY <1>1, <1>4, <1>5, <2>1
       DEF RunnerStep, RunnerProgress, StartRun, LoadRetry, ReadInvoiceForRetry,
           SelectMethod, ChargeAgain, TakeResult, MovePastDue, Announce, RetryThrows,
           CrashRun, dunning
<1>6. ~(\E w \in Worker \ Runner : CallerStep(w)) /\ ~OtherStep /\ ~UNCHANGED dunningVars
  BY <1>1 DEF CallerStep, OtherStep, dunning, dunningVars
<1> QED BY <1>2, <1>3, <1>5, <1>6 DEF DunningNext

LEMMA FirstChargeStep ==
    TypeInv /\ OwnInv /\ DunningInv /\ FirstChargeFirst /\ [DunningNext]_dunningVars
        => FirstChargeFirst'
<1> SUFFICES ASSUME TypeInv, OwnInv, DunningInv, FirstChargeFirst, [DunningNext]_dunningVars
             PROVE  FirstChargeFirst'
  OBVIOUS
<1>1. [Next]_vars /\ RowsPersist
  BY DunningIsCollection, RowsPersistAlways
<1>2. ASSUME NEW w \in Worker, At(w, "rescue")' PROVE call'[w].key[2] = 1
  BY <1>1, <1>2, OwnershipArises DEF Owner, At, WorkerPhase, FirstChargeFirst
<1>3. \A i \in Invoice : <<i, 1>> \in Key
  BY CollectionAssumption DEF Key, Attempt
<1>4. ASSUME NEW i \in Invoice, Rows(i)' # {} PROVE charge'[<<i, 1>>] # "none"
  <2>1. PICK j \in Row' : retries'[j].inv = i
    BY <1>4 DEF Rows
  <2>2. Rows(i) # {} \/ \E w \in Worker : Owner(w) /\ call[w].key = <<i, 1>>
    <3>1. CASE j \in Row
      BY <1>1, <2>1, <3>1 DEF Rows, RowsPersist
    <3>2. CASE j \notin Row
      BY <2>1, <3>2, NewRowsCome
    <3> QED BY <3>1, <3>2
  <2>3. charge[<<i, 1>>] # "none"
    BY <2>2 DEF FirstChargeFirst, TypeInv, OwnersHaveCharge
  <2> QED BY <1>1, <1>3, <2>3, ChargeStays
<1>5. ASSUME NEW w \in Worker, NEW i \in Invoice, Owner(w)', call'[w].key = <<i, 1>>
      PROVE  Rows(i)' = {}
  <2>1. (Owner(w) /\ call[w].key = <<i, 1>>) \/ charge[<<i, 1>>] = "none"
    BY <1>1, <1>5, OwnershipArises
  <2>2. Rows(i) = {}
    BY <2>1 DEF FirstChargeFirst
  <2>3. ASSUME NEW v \in Worker, Owner(v), call[v].key = <<i, 1>>, ~Owner(v)'
        PROVE  FALSE
    BY <1>5, <2>1, <2>3 DEF OwnInv, UniqueOwner, TypeInv, OwnersHaveCharge
  <2>4. ASSUME NEW j \in Row', retries'[j].inv = i PROVE FALSE
    <3>1. j \notin Row
      BY <1>1, <2>2, <2>4 DEF Rows, RowsPersist
    <3> QED BY <2>2, <2>3, <2>4, <3>1, NewRowsCome
  <2> QED BY <2>4 DEF Rows
<1> QED BY <1>2, <1>4, <1>5 DEF FirstChargeFirst

LEMMA FirstChargeInvariant ==
    DunningSpec => [](TypeInv /\ OwnInv /\ DunningInv /\ FirstChargeFirst)
<1>1. DunningInit => OwnInv
  BY OwnInvInit DEF DunningInit
<1>2. DunningInit => FirstChargeFirst
  BY DEF DunningInit, Init, FirstChargeFirst, Rows, Row, Owner, At, Idle, WorkerPhase
<1>3. TypeInv /\ OwnInv /\ DunningInv /\ [DunningNext]_dunningVars => OwnInv'
  BY DunningIsCollection, OwnInvStep
<1> QED BY <1>1, <1>2, <1>3, FirstChargeStep, DunningInvariant, PTL DEF DunningSpec

-----------------------------------------------------------------------------
(* Layer 3: one runner *)

\* The row in hand is the last of its invoice, and the only one scheduled.
LEMMA LastInHand ==
    ASSUME retries \in Seq(Retry), OneChain, NEW j \in Scheduled, NEW l \in Row, l # j,
           retries[l].inv = retries[j].inv
    PROVE  l < j /\ retries[l].n < retries[j].n /\ l \notin Scheduled
<1>1. j \in Row /\ retries[j].status = "scheduled" /\ j \in Nat /\ l \in Nat
  BY RowType DEF Scheduled
<1>2. ~(j < l)
  BY <1>1 DEF OneChain
<1>3. l < j
  BY <1>1, <1>2
<1> QED BY <1>1, <1>3 DEF OneChain, Scheduled

\* Rows that are only closed keep the chain, and nothing is left where nothing was.
LEMMA WaningRows ==
    ASSUME RowsPersist, Row' = Row,
           \A l \in Row : retries'[l].status = "scheduled" => retries[l].status = "scheduled"
    PROVE  /\ OneChain => OneChain'
           /\ \A i \in Invoice : NothingLeft(i) => NothingLeft(i)'
<1>1. OneChain => OneChain'
  BY DEF RowsPersist, OneChain
<1>2. ASSUME NEW i \in Invoice, NothingLeft(i) PROVE NothingLeft(i)'
  BY <1>2 DEF RowsPersist, NothingLeft, Rows, Scheduled
<1> QED BY <1>1, <1>2

\* A new row after those of its invoice, of which none is scheduled any more, is the
\* end of the chain, and leaves other invoices as they are.
LEMMA GrowingChain ==
    ASSUME OneChain, RowsPersist, retries \in Seq(Retry),
           NEW new, Row' = Row \cup {new}, new \notin Row,
           \A l \in Row : l < new,
           \A l \in Row : retries'[l].status = "scheduled" => retries[l].status = "scheduled",
           \A l \in Row : retries[l].inv = retries'[new].inv =>
                 retries[l].n < retries'[new].n /\ retries'[l].status # "scheduled"
    PROVE  /\ OneChain'
           /\ \A i \in Invoice : NothingLeft(i) /\ i # retries'[new].inv => NothingLeft(i)'
<1>1. OneChain'
  <2> SUFFICES ASSUME NEW j \in Row', NEW l \in Row', j < l,
                      retries'[j].inv = retries'[l].inv
               PROVE  retries'[j].n < retries'[l].n /\ retries'[j].status # "scheduled"
    BY DEF OneChain
  <2>1. new \in Nat
    BY DEF RowsPersist, Row
  <2>2. \A k \in Row : k \in Nat
    BY RowType
  <2>3. CASE l = new
    <3>1. j \in Row
      BY <2>1, <2>3
    <3> QED BY <2>3, <3>1 DEF RowsPersist
  <2>4. CASE l # new
    <3>1. l \in Row /\ l < new /\ l \in Nat
      BY <2>2, <2>4
    <3>2. j # new
      BY <2>1, <3>1
    <3>3. j \in Row
      BY <3>2
    <3> QED BY <3>1, <3>3 DEF OneChain, RowsPersist
  <2> QED BY <2>3, <2>4
<1>2. ASSUME NEW i \in Invoice, NothingLeft(i), i # retries'[new].inv PROVE NothingLeft(i)'
  BY <1>2 DEF RowsPersist, NothingLeft, Rows, Scheduled
<1> QED BY <1>1, <1>2

\* Where a handler is after its step, if the step leaves the rows alone.
LEMMA HandlerMoves ==
    ASSUME DunningInv, NEW r \in Runner, RunnerStep(r), RowInHand, UNCHANGED retries
    PROVE  /\ run'[r].pc \in InHand => run'[r].row \in Scheduled
           /\ run'[r].pc \in Escalating =>
                 run[r].pc \in Escalating /\ run'[r].row = run[r].row
<1>0. run \in [Runner -> Handlers(Row)] /\ (run[r].pc \in InHand => run[r].row \in Scheduled)
  BY RunsType DEF RowInHand
<1> USE DEF InHand, Escalating
<1>1. CASE UNCHANGED run
  BY <1>0, <1>1
<1>2. CASE LoadRetry(r)
  BY <1>0, <1>2, LoadingRow DEF In
<1>3. CASE SelectMethod(r)
  BY <1>0, <1>3, ChoosingMethod DEF In, SelectMethod
<1>4. ASSUME NEW due \in SUBSET Scheduled, StartRun(r, due)
      PROVE  run'[r].pc = "next"
  BY <1>0, <1>4, BatchType DEF StartRun, Scheduled
<1>5. CASE CrashRun(r)
  BY <1>0, <1>5 DEF CrashRun, Resting
<1>6. ASSUME Onward(r), ~In(r, "idle") PROVE run'[r].pc \in {"idle", "next"}
  BY <1>0, <1>6, GoingOn
<1>7. ASSUME NEW p \in RunPhase, Enter(r, p), ~In(r, "idle")
      PROVE  run'[r].pc = p /\ run'[r].row = run[r].row
  BY <1>0, <1>7, Entering DEF In
<1>8. CASE ReadInvoiceForRetry(r)
  BY <1>0, <1>7, <1>8 DEF ReadInvoiceForRetry, In, RunPhase
<1>9. CASE ChargeAgain(r)
  BY <1>0, <1>7, <1>9 DEF ChargeAgain, In, RunPhase
<1>10. CASE TakeResult(r)
  <2>1. \/ Onward(r)
        \/ \E p \in {"skipping", "recovered", "unpaid"} : Enter(r, p)
    BY <1>10 DEF TakeResult
  <2> QED BY <1>0, <1>6, <1>7, <1>10, <2>1 DEF TakeResult, In, RunPhase
<1>11. CASE MovePastDue(r)
  BY <1>0, <1>7, <1>11 DEF MovePastDue, In, RunPhase
<1>12. CASE \/ SkipRetries(r) \/ RecordRecovered(r) \/ Announce(r) \/ RetryThrows(r)
  BY <1>6, <1>12 DEF SkipRetries, RecordRecovered, Announce, RetryThrows, In, RunPhase
<1>13. CASE SkipRest(r)
  BY <1>7, <1>13 DEF SkipRest, In, RunPhase
<1>14. ~GiveUp(r) /\ ~(RecordUnpaid(r))
  <2>1. ASSUME GiveUp(r) PROVE FALSE
    <3>1. run[r].row \in Scheduled
      BY <1>0, <2>1 DEF GiveUp, In
    <3> QED BY <2>1, <3>1, GivenUpRow DEF Scheduled
  <2>2. ASSUME RecordUnpaid(r) PROVE FALSE
    <3>1. run[r].row \in Scheduled
      BY <1>0, <2>2 DEF RecordUnpaid, In
    <3> QED BY <2>2, <3>1, UnpaidRow DEF Scheduled
  <2> QED BY <2>1, <2>2
<1> QED
  BY <1>1, <1>2, <1>3, <1>4, <1>5, <1>8, <1>9, <1>10, <1>11, <1>12, <1>13, <1>14
     DEF RunnerStep, RunnerProgress, dunning

\* The steps of the only runner.
LEMMA RunnerKeepsChain ==
    ASSUME \A r, s \in Runner : r = s,
           DunningInv, ChainInv, [DunningNext]_dunningVars, NEW r \in Runner, RunnerStep(r)
    PROVE  ChainInv'
<1>0. /\ retries \in Seq(Retry) /\ RowsPersist
      /\ \A s \in Runner : s = r
      /\ run \in [Runner -> Handlers(Row)]
      /\ run[r].pc \notin {"idle", "next"} =>
            run[r].row \in Row /\ Subject(r).inv \in Invoice
      /\ escalated \subseteq Invoice /\ pastDue \subseteq Invoice
  BY RowsPersistAlways, RunsType, SubjectType, CollectionAssumption
     DEF DunningInv, DunningTypeOK
<1> USE DEF ChainInv
<1>1. CASE UNCHANGED retries
  <2>1. Row' = Row /\ Scheduled' = Scheduled /\ OneChain'
    BY <1>0, <1>1, SameRows DEF OneChain
  <2>2. \A i \in Invoice : NothingLeft(i) => NothingLeft(i)'
    BY <1>1, <2>1 DEF NothingLeft, Rows
  <2>3. /\ run'[r].pc \in InHand => run'[r].row \in Scheduled
        /\ run'[r].pc \in Escalating =>
              run[r].pc \in Escalating /\ run'[r].row = run[r].row
    BY <1>1, HandlerMoves
  <2>4. RowInHand'
    BY <1>0, <2>1, <2>3 DEF RowInHand
  <2>5. EscalatingIsLast'
    BY <1>0, <1>1, <2>2, <2>3 DEF EscalatingIsLast, Subject
  <2>6. \A i \in escalated' \cup pastDue' : i \in Invoice /\ NothingLeft(i)
    <3>1. UNCHANGED <<escalated, pastDue>> \/ MovePastDue(r) \/ Announce(r)
      BY DEF RunnerStep, RunnerProgress, StartRun, LoadRetry, ReadInvoiceForRetry,
             SkipRetries, SelectMethod, ChargeAgain, TakeResult, RecordRecovered,
             RecordUnpaid, GiveUp, SkipRest, RetryThrows, CrashRun, dunning
    <3>2. MovePastDue(r) \/ Announce(r) => NothingLeft(Subject(r).inv) /\ Subject(r).inv \in Invoice
      BY <1>0 DEF MovePastDue, Announce, In, EscalatingIsLast, Escalating
    <3>3. escalated' \cup pastDue' \subseteq escalated \cup pastDue \cup {Subject(r).inv}
      BY <3>1 DEF MovePastDue, Announce
    <3> QED BY <1>0, <3>1, <3>2, <3>3 DEF EscalatedIsLast
  <2> QED BY <2>1, <2>2, <2>4, <2>5, <2>6 DEF EscalatedIsLast
\* A row is closed: no row becomes scheduled, and no handler is undecided.
<1>2. ASSUME Row' = Row,
             \A l \in Row : retries'[l].status = "scheduled" => retries[l].status = "scheduled",
             run'[r].pc \notin InHand,
             run'[r].pc \in Escalating =>
                 /\ run[r].row \in Row /\ run'[r].row = run[r].row
                 /\ NothingLeft(Subject(r).inv) \/ run[r].row \in Scheduled
                 /\ retries'[run[r].row].status # "scheduled",
             UNCHANGED <<pastDue, escalated>>
      PROVE  ChainInv'
  <2>1. OneChain' /\ \A i \in Invoice : NothingLeft(i) => NothingLeft(i)'
    BY <1>0, <1>2, WaningRows
  <2>2. RowInHand'
    BY <1>0, <1>2 DEF RowInHand
  <2>3. EscalatingIsLast'
    <3> SUFFICES ASSUME NEW i \in Invoice, run'[r].pc \in Escalating, Subject(r)'.inv = i
                 PROVE  NothingLeft(i)'
      BY <1>0 DEF EscalatingIsLast
    <3>1. Subject(r).inv = i /\ run[r].row \in Row /\ retries[run[r].row].inv = i
      BY <1>0, <1>2 DEF Subject, RowsPersist
    <3>2. CASE NothingLeft(Subject(r).inv)
      BY <2>1, <3>1, <3>2
    <3>3. CASE run[r].row \in Scheduled
      <4>1. ASSUME NEW l \in Row, retries[l].inv = i PROVE retries'[l].status # "scheduled"
        <5>1. CASE l = run[r].row
          BY <1>2, <5>1
        <5>2. CASE l # run[r].row
          BY <1>0, <1>2, <3>1, <3>3, <4>1, <5>2, LastInHand DEF Scheduled
        <5> QED BY <5>1, <5>2
      <4> QED BY <1>0, <1>2, <3>1, <4>1 DEF NothingLeft, Rows, Scheduled, RowsPersist
    <3> QED BY <1>2, <3>2, <3>3
  <2>4. EscalatedIsLast'
    BY <1>0, <1>2, <2>1 DEF EscalatedIsLast
  <2> QED BY <2>1, <2>2, <2>3, <2>4
<1>3. CASE SkipRetries(r) \/ RecordRecovered(r)
  <2>1. /\ run[r].row \in Row
        /\ run[r].method \in Method \cup {"none"}
        /\ Subject(r).method \in Method \cup {"none"}
    BY <1>3, SubjectType DEF SkipRetries, RecordRecovered, In
  <2>2. \E s \in {"skipped", "succeeded"}, m \in Method \cup {"none"} : CloseAll(run[r].row, s, m)
    BY <1>3, <2>1 DEF SkipRetries, RecordRecovered
  <2>3. /\ Row' = Row
        /\ \A l \in Row : retries'[l].status = "scheduled" => retries[l].status = "scheduled"
    BY <1>0, <2>1, <2>2, ClosingRows DEF RetryStatus
  <2>4. run'[r].pc \in {"idle", "next"}
    BY <1>0, <1>3, GoingOn DEF SkipRetries, RecordRecovered, In
  <2> QED BY <1>2, <1>3, <2>3, <2>4 DEF SkipRetries, RecordRecovered, InHand, Escalating
<1>4. CASE GiveUp(r)
  <2>1. /\ Row' = Row
        /\ \A l \in Row : retries'[l].status = "scheduled" => retries[l].status = "scheduled"
        /\ retries'[run[r].row].status # "scheduled"
    BY <1>4, GivenUpRow
  <2>2. run'[r].pc = "skippingRest" /\ run'[r].row = run[r].row
    BY <1>0, <1>4, Entering DEF GiveUp, In, RunPhase
  <2>3. run[r].row \in Row /\ run[r].row \in Scheduled
    BY <1>0, <1>4 DEF GiveUp, In, RowInHand, InHand
  <2> QED BY <1>2, <1>4, <2>1, <2>2, <2>3 DEF GiveUp, InHand
<1>5. CASE SkipRest(r)
  <2>1. /\ run[r].row \in Row /\ Subject(r).inv \in Invoice
        /\ Subject(r).status \in RetryStatus /\ Subject(r).method \in Method \cup {"none"}
    BY <1>5, SubjectType DEF SkipRest, In
  <2>2. NothingLeft(Subject(r).inv)
    BY <1>5, <2>1 DEF SkipRest, In, EscalatingIsLast, Escalating
  <2>3. retries[run[r].row].status # "scheduled"
    BY <2>1, <2>2 DEF NothingLeft, Rows, Scheduled, Subject
  <2>4. /\ Row' = Row
        /\ \A l \in Row : retries'[l].status = "scheduled" => retries[l].status = "scheduled"
        /\ retries'[run[r].row].status # "scheduled"
    BY <1>0, <1>5, <2>1, <2>3, ClosingRows DEF SkipRest, Subject
  <2>5. run'[r].pc = "escalating" /\ run'[r].row = run[r].row
    BY <1>0, <1>5, Entering DEF SkipRest, In, RunPhase
  <2> QED BY <1>2, <1>5, <2>1, <2>2, <2>4, <2>5 DEF SkipRest, InHand
<1>6. CASE RecordUnpaid(r)
  <2>1. /\ retries'[run[r].row].status = "failed"
        /\ \A l \in Row : l # run[r].row => retries'[l].status = retries[l].status
        /\ \/ Row' = Row /\ Enter(r, "escalating")
           \/ /\ Row' = Row \cup {Len(retries) + 1} /\ Onward(r)
              /\ Len(retries) + 1 \notin Row
              /\ \A l \in Row : l < Len(retries) + 1
              /\ retries'[Len(retries) + 1].inv = Subject(r).inv
              /\ retries'[Len(retries) + 1].n = Subject(r).n + 1
    BY <1>6, UnpaidRow
  <2>2. run[r].row \in Row /\ run[r].row \in Scheduled /\ ~In(r, "idle")
    BY <1>0, <1>6 DEF RecordUnpaid, In, RowInHand, InHand
  <2>3. UNCHANGED <<pastDue, escalated>>
    BY <1>6 DEF RecordUnpaid
  <2>4. CASE Row' = Row /\ Enter(r, "escalating")
    <3>1. run'[r].pc = "escalating" /\ run'[r].row = run[r].row
      BY <1>0, <2>2, <2>4, Entering DEF RunPhase, In
    <3> QED BY <1>2, <2>1, <2>2, <2>3, <2>4, <3>1 DEF InHand
  <2>5. ASSUME NEW new, new = Len(retries) + 1, Row' = Row \cup {new}, Onward(r), new \notin Row,
               \A l \in Row : l < new,
               retries'[new].inv = Subject(r).inv, retries'[new].n = Subject(r).n + 1
        PROVE  ChainInv'
    <3>1. run'[r].pc \in {"idle", "next"}
      BY <1>0, <2>2, <2>5, GoingOn
    <3>2. RowInHand' /\ EscalatingIsLast'
      BY <1>0, <3>1 DEF RowInHand, EscalatingIsLast, InHand, Escalating
    <3>3. ASSUME NEW l \in Row, retries[l].inv = retries'[new].inv
          PROVE  retries[l].n < retries'[new].n /\ retries'[l].status # "scheduled"
      <4>1. Subject(r).n \in Nat /\ retries[l].n \in Nat
        BY <1>0, <2>2, RowType, CollectionAssumption DEF Subject, Attempt
      <4>2. CASE l = run[r].row
        BY <2>1, <2>5, <4>1, <4>2 DEF Subject
      <4>3. CASE l # run[r].row
        <5>1. retries[l].n < Subject(r).n /\ l \notin Scheduled
          BY <1>0, <2>2, <2>5, <3>3, <4>3, LastInHand DEF Subject
        <5> QED BY <2>1, <2>5, <4>1, <4>3, <5>1 DEF Scheduled
      <4> QED BY <4>2, <4>3
    <3>4. \A l \in Row : retries'[l].status = "scheduled" => retries[l].status = "scheduled"
      BY <2>1
    <3>5. /\ OneChain'
          /\ \A i \in Invoice : NothingLeft(i) /\ i # retries'[new].inv => NothingLeft(i)'
      BY <1>0, <2>5, <3>3, <3>4, GrowingChain
    <3>6. ~NothingLeft(Subject(r).inv)
      BY <2>2 DEF NothingLeft, Rows, Subject
    <3>7. EscalatedIsLast'
      BY <1>0, <2>3, <2>5, <3>5, <3>6 DEF EscalatedIsLast
    <3> QED BY <3>2, <3>5, <3>7
  <2> QED BY <2>1, <2>4, <2>5
<1> QED
  BY <1>1, <1>3, <1>4, <1>5, <1>6
     DEF RunnerStep, RunnerProgress, StartRun, LoadRetry, ReadInvoiceForRetry, SelectMethod,
         ChargeAgain, TakeResult, MovePastDue, Announce, RetryThrows, CrashRun, dunning

LEMMA ChainStep ==
    ASSUME \A r, s \in Runner : r = s
    PROVE  TypeInv /\ DunningInv /\ FirstChargeFirst /\ ChainInv /\ [DunningNext]_dunningVars
               => ChainInv'
<1> SUFFICES ASSUME TypeInv, DunningInv, FirstChargeFirst, ChainInv,
                    [DunningNext]_dunningVars
             PROVE  ChainInv'
  OBVIOUS
<1>0. retries \in Seq(Retry) /\ escalated \subseteq Invoice /\ pastDue \subseteq Invoice
  BY CollectionAssumption DEF DunningInv, DunningTypeOK
<1>1. CASE UNCHANGED dunning
  <2>1. Row' = Row /\ Scheduled' = Scheduled
    BY <1>0, <1>1, SameRows DEF dunning
  <2> QED
    BY <1>1, <2>1
       DEF ChainInv, OneChain, RowInHand, EscalatingIsLast, EscalatedIsLast, NothingLeft,
           Rows, Subject, dunning
<1>2. ASSUME NEW w \in Worker, ScheduleDunning(w) PROVE ChainInv'
  <2>0. UNCHANGED <<run, pastDue, escalated>>
    BY <1>2 DEF ScheduleDunning
  <2>1. CASE UNCHANGED retries
    BY <1>1, <2>0, <2>1 DEF dunning
  <2>2. ASSUME NEW new, NEW i, i = call[w].key[1], new = Len(retries) + 1, i \in Invoice,
               RowsPersist, Row' = Row \cup {new}, new \notin Row,
               \A l \in Row : l < new /\ retries'[l].status = retries[l].status,
               retries'[new].inv = i
        PROVE  ChainInv'
    <3>1. Rows(i) = {}
      <4>1. At(w, "rescue") /\ Owner(w) /\ call[w].key \in Key /\ call[w].key[2] = 1
        BY <1>2, CallShape
           DEF ScheduleDunning, Rescued, At, Owner, WorkerPhase, TypeInv, FirstChargeFirst
      <4>2. call[w].key = <<i, 1>>
        BY <2>2, <4>1, KeyParts
      <4> QED BY <2>2, <4>1, <4>2 DEF FirstChargeFirst
    <3>2. \A l \in Row : retries[l].inv # i
      BY <3>1 DEF Rows
    <3>3. /\ OneChain'
          /\ \A k \in Invoice : NothingLeft(k) /\ k # i => NothingLeft(k)'
      BY <1>0, <2>2, <3>2, GrowingChain DEF ChainInv
    <3>4. ~NothingLeft(i)
      BY <3>1 DEF NothingLeft
    <3>5. Scheduled \subseteq Scheduled'
      BY <2>2 DEF Scheduled
    <3>6. RowInHand'
      BY <2>0, <3>5 DEF ChainInv, RowInHand
    <3>7. EscalatingIsLast'
      <4> SUFFICES ASSUME NEW r \in Runner, NEW k \in Invoice,
                          run'[r].pc \in Escalating, Subject(r)'.inv = k
                   PROVE  NothingLeft(k)'
        BY DEF EscalatingIsLast
      <4>1. run[r].pc \in Escalating /\ run[r].row \in Row
        BY <2>0 DEF DunningInv, HandlersHaveRow, Escalating
      <4>2. Subject(r).inv = k
        BY <2>0, <2>2, <4>1 DEF Subject, RowsPersist
      <4> QED BY <3>3, <3>4, <4>1, <4>2 DEF ChainInv, EscalatingIsLast
    <3>8. EscalatedIsLast'
      BY <1>0, <2>0, <3>3, <3>4 DEF ChainInv, EscalatedIsLast
    <3> QED BY <3>3, <3>6, <3>7, <3>8 DEF ChainInv
  <2> QED BY <1>2, <2>1, <2>2, FirstRow
<1> QED
  BY <1>1, <1>2, RunnerKeepsChain
     DEF DunningNext, CallerStep, OtherStep, dunningVars, dunning

LEMMA ChainInvariant ==
    ASSUME \A r, s \in Runner : r = s
    PROVE  DunningSpec => []ChainInv
<1>1. DunningInit => ChainInv
  BY DEF DunningInit, ChainInv, OneChain, RowInHand, EscalatingIsLast, EscalatedIsLast,
         Row, Resting, InHand, Escalating
<1> QED BY <1>1, ChainStep, FirstChargeInvariant, PTL DEF DunningSpec

\* With one runner, whatever callers, crashes and exceptions there are, the rows of
\* an invoice form one chain: no attempt number comes twice, and only the last row
\* can still be scheduled.
THEOREM RowsFormAChain ==
    ASSUME \A r, s \in Runner : r = s
    PROVE  DunningSpec => []OneChain
<1>1. ChainInv => OneChain
  BY DEF ChainInv
<1> QED BY <1>1, ChainInvariant, PTL

\* With one runner nobody is told that dunning was given up, and no subscription
\* made past due, while a retry of the invoice is still to come.
THEOREM EscalatedLast ==
    ASSUME \A r, s \in Runner : r = s
    PROVE  DunningSpec => []EscalatedAfterLastRetry
<1>1. ChainInv => EscalatedAfterLastRetry
  <2> SUFFICES ASSUME ChainInv, NEW j \in Row, retries[j].inv \in escalated \cup pastDue,
                      j \in Scheduled
               PROVE  FALSE
    BY DEF EscalatedAfterLastRetry
  <2> QED BY DEF ChainInv, EscalatedIsLast, NothingLeft, Rows
<1> QED BY <1>1, ChainInvariant, PTL
=============================================================================
