----------------------------- MODULE MCCreateTx -----------------------------
(* An instance of CreateTx for TLC. *)
EXTENDS CreateTx

(* Single and double payments, nothing at all, and an invalid amount.      *)
MCPairs == {<<3>>, <<2, 5>>, <<>>, <<0>>}

MCAmounts == {[op \in {"a", "b", "cb", "sh"} |->
                 CASE op = "a" -> x [] op = "b" -> y [] OTHER -> 4] :
                <<x, y>> \in {<<3, 5>>, <<4, 4>>}}
=============================================================================
