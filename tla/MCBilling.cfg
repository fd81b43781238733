CONSTANTS
 Sub = {s1}
 Enrolled = {}
 NoSub = NoSub
 Runner = {r1}
 Handler = {h1}
 Request <- MixedRequests
 Amount = {1}
 Note = {1}
 Faults = {"announce", "setStatus"}
 MaxRows = 2
 MaxGranted = 1
 MaxPeriod = 1
SPECIFICATION Spec
INVARIANTS TypeOK BilledOnce CreditConserved
