CONSTANTS
 Invoice = {i1}
 Recurring = {i1}
 MaxAttempts = 2
 Worker = {w1, r1}
 Runner = {r1}
 Method = {m1, m2}
 Consumer = {}
SPECIFICATION DunningSpec
INVARIANT RetriesAreCharges
