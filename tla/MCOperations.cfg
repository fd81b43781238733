CONSTANTS
 Key = {k1}
 Card = {k1}
 Caller = {c1, c2}
 NoKey = NoKey
 MaxBills = 2
 LastDay = 1
 RefundKey = {r1, r2}
 Refunder = {f1, f2}
 NoRefund = NoRefund
 Price = 1
 Reconciler = {h1}
 MaxReports = 1
 MaxBusy = 2
SYMMETRY Alike
SPECIFICATION Spec
INVARIANTS TypeOK OnePaidBillPerKey RefundsWithinPayment RefundsAreTraceable 
CHECK_DEADLOCK FALSE
