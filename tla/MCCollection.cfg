CONSTANTS
 Invoice = {i1}
 Recurring = {i1}
 MaxAttempts = 2
 Worker = {w1, w2}
 Consumer = {c1}
SPECIFICATION Spec
INVARIANTS TypeOK OneRequestPerKey BooksFollowMoney PaidExactlyWhenBooked EventsFollowBooks BookedOnce
PROPERTIES ReversedOnce OnlyItsCallFailsACharge KeepsPromise
SYMMETRY WorkerSymmetry
