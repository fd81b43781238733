CONSTANTS
 Invoice = {i1}
 Recurring = {i1}
 MaxAttempts = 1
 Worker = {w1, w2}
 Consumer = {c1}
SPECIFICATION FairSpec
PROPERTIES EveryCallEnds StoredIntentSettles
