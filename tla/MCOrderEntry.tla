---------------------------- MODULE MCOrderEntry ----------------------------
(* OrderEntry for TLC: prices around a change of magnitude, in 10^-4.       *)
EXTENDS OrderEntry

CONSTANTS A, B

TwoCoins == <<A, B>>
OneAndNoDecimal == [c \in {A, B} |-> IF c = A THEN 1 ELSE 0]
BooksAroundTen ==
  {[bid |-> 90000, ask |-> 99000], [bid |-> 97000, ask |-> 110000], [bid |-> 100000, ask |-> 0]}
SmallAndLarge == {400, 20000}

=============================================================================
