------------------------------- MODULE Escrow -------------------------------
(***************************************************************************)
(* What a market promises to the owner of a budget: a sum is held for a    *)
(* deal, and each held sum is, once and for all, either paid or given      *)
(* back.  No deal is paid that was not held, and nothing is held beyond    *)
(* the deposit.                                                            *)
(***************************************************************************)
EXTENDS Values

CONSTANTS Deals, Prices

VARIABLES
  free,      \* what can still be held
  deals,     \* deal -> "open", "held", "paid" or "returned"
  sums       \* deal -> the sum held for it

escrowVars == <<free, deals, sums>>

EscrowInit ==
  /\ free \in Nat
  /\ deals = [d \in Deals |-> "open"]
  /\ sums = [d \in Deals |-> 0]

Hold(d, n) ==
  /\ deals[d] = "open"
  /\ n <= free
  /\ free' = free - n
  /\ deals' = [deals EXCEPT ![d] = "held"]
  /\ sums' = [sums EXCEPT ![d] = n]

Pay(d) ==
  /\ deals[d] = "held"
  /\ deals' = [deals EXCEPT ![d] = "paid"]
  /\ UNCHANGED <<free, sums>>

Return(d) ==
  /\ deals[d] = "held"
  /\ deals' = [deals EXCEPT ![d] = "returned"]
  /\ free' = free + sums[d]
  /\ UNCHANGED sums

\* The owner deposits more.
Refill == free' \in Nat /\ free' > free /\ UNCHANGED <<deals, sums>>

EscrowNext ==
  \/ \E d \in Deals : Pay(d) \/ Return(d) \/ \E n \in Prices : Hold(d, n)
  \/ Refill

EscrowSpec == EscrowInit /\ [][EscrowNext]_escrowVars
=============================================================================
