--------------------------- MODULE MCNonceSource ---------------------------
EXTENDS NonceSource, TLC

\* The threads are interchangeable.
Interchangeable == Permutations(Threads)

=============================================================================
