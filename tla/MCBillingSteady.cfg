CONSTANTS
 Sub = {s1}
 Enrolled = {s1}
 NoSub = NoSub
 Runner = {r1}
 Handler = {h1}
 Request <- SteadyRequests
 Amount = {1, 2}
 Note = {1}
 Faults = {}
 MaxRows = 2
 MaxGranted = 2
 MaxPeriod = 2
SPECIFICATION FairSpec
INVARIANT LedgerMatchesInvoice
PROPERTIES NoPeriodSkipped StandingDraft
