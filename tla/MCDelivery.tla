----------------------------- MODULE MCDelivery -----------------------------
\* Small instances of message delivery for TLC: requests, contents and keys that are
\* not too long are interchangeable.
EXTENDS Delivery, TLC

Symmetry == Permutations(Calls) \cup Permutations(Keys \ LongKeys) \cup Permutations(Digests)
=============================================================================
