------------------------------ MODULE MCService ------------------------------
(***************************************************************************)
(* Service on small instances.                                               *)
(***************************************************************************)
EXTENDS Service, TLC

CONSTANTS alice, bob       \* users

(* YES of an answer pays alice, NO pays bob; after N/A bob pays for shares he sold. *)
ThePayments ==
    [m \in 1..3, result \in {"YES", "NO", "N/A"} |->
        CASE result = "YES" -> <<[user |-> alice, amount |-> 3]>>
          [] result = "NO"  -> <<[user |-> bob, amount |-> 1]>>
          [] OTHER          -> <<[user |-> alice, amount |-> 2], [user |-> bob, amount |-> -1]>>]

TheBettors  == [m \in 1..3 |-> {alice}]
TheBalances == (alice :> 1) @@ (bob :> 0)
TheSwings   == {-1}
=============================================================================
