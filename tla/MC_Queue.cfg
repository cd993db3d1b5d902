\* Two producers, two consumers, a ring of two slots, blocking and
\* non-blocking calls, spurious wakeups.
CONSTANTS
    p1 = p1
    p2 = p2
    c1 = c1
    c2 = c2
    v1 = v1
    v2 = v2
    Nil = Nil
    Cap = 2
    Vals <- MCVals
    Producers <- MCProducers
    Consumers <- MCConsumers
    Blocking = {TRUE, FALSE}
    Spurious = TRUE
SPECIFICATION Spec
SYMMETRY ThreadSymmetry
INVARIANT TypeOK
INVARIANT RingConsistent
INVARIANT NoLostWakeup
PROPERTY ImplementsFIFO
