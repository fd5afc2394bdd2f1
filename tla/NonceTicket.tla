----------------------------- MODULE NonceTicket -----------------------------
(***************************************************************************)
(* What nextNonce() (src/src/hyperliquid_exchange_client.cpp) promises its *)
(* callers: each takes, in one step, a number above every number taken so  *)
(* far.                                                                    *)
(***************************************************************************)
EXTENDS Naturals

CONSTANT Threads

VARIABLES
  last,   \* the highest ticket taken
  ticket  \* ticket[t]: the last one t took (0: none)

TicketInit ==
  /\ last = 0
  /\ ticket = [t \in Threads |-> 0]

Take(t) ==
  /\ last' \in Nat
  /\ last' > last
  /\ ticket' = [ticket EXCEPT ![t] = last']

TicketNext == \E t \in Threads : Take(t)

TicketSpec == TicketInit /\ [][TicketNext]_<<last, ticket>>

=============================================================================
