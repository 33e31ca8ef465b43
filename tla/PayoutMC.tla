-------------------------------- MODULE PayoutMC --------------------------------
(* The constants of Payout for TLC: all withdrawals are of one seller, so that  *)
(* they are as interchangeable as workers and handlers.                         *)
EXTENDS Payout, TLC

MCSellerOf == [w \in Withdrawals |-> CHOOSE s \in Sellers : TRUE]
MCEarnings == [s \in Sellers |-> 2 * Amount]
Symmetry == Permutations(Withdrawals) \cup Permutations(Workers) \cup Permutations(Hooks)

================================================================================
