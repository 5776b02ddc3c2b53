------------------------------ MODULE MCOutbox ------------------------------
\* Small instances of Outbox.  A tick is 10 s: an item may take one, a lease
\* of 30 s is three.
EXTENDS Outbox, TLC

CONSTANTS i1, i2, i3, w1, w2

AnyItemAnyWorker == Permutations(Items) \cup Permutations(Workers)
=============================================================================
