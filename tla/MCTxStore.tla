----------------------------- MODULE MCTxStore -----------------------------
(* Instances of TxStore, with the reading and writing of it, for TLC. *)
EXTENDS TxSerialization, TLC

(* a is a payment to the wallet, b a payment by the wallet with change, c  *)
(* spends the change, cb is a coinbase of the wallet.                      *)
MCTx == {"a", "b", "c", "cb"}
MCTxIn == [t \in MCTx |-> CASE t = "a"  -> <<<<"foreign", 0>>>>
                            [] t = "b"  -> <<<<"a", 0>>>>
                            [] t = "c"  -> <<<<"a", 1>>, <<"b", 0>>, <<"cb", 0>>>>
                            [] t = "cb" -> <<>>]
MCWalletOut == {<<"a", 0>>, <<"a", 1>>, <<"b", 0>>, <<"cb", 0>>}
MCValue == [op \in MCWalletOut |-> CASE op[1] = "a"  -> 7 + op[2]
                                     [] op[1] = "b"  -> 5
                                     [] op[1] = "cb" -> 20]
MCIndex == [t \in MCTx |-> CASE t = "cb" -> 0 [] t = "a" -> 1
                             [] t = "b" -> 2 [] t = "c" -> 3]
MCLate == {}
MCOwn == {"b", "c"}

(* Double spends: b and d both spend output 0 of a, b also output 1; c     *)
(* spends the change of b.                                                 *)
DSTx == {"a", "b", "c", "d"}
DSTxIn == [t \in DSTx |-> CASE t = "a" -> <<<<"foreign", 0>>>>
                            [] t = "b" -> <<<<"a", 0>>, <<"a", 1>>>>
                            [] t = "c" -> <<<<"b", 0>>, <<"b", 1>>>>
                            [] t = "d" -> <<<<"a", 0>>>>]
DSWalletOut == {<<"a", 0>>, <<"a", 1>>, <<"b", 0>>, <<"b", 1>>, <<"d", 0>>}
DSValue == [op \in DSWalletOut |-> CASE op[1] = "a" -> 7 + op[2]
                                     [] op[1] = "b" -> 9 + op[2]
                                     [] op[1] = "d" -> 6]
DSIndex == [t \in DSTx |-> CASE t = "a" -> 1 [] t = "b" -> 2
                             [] t = "c" -> 3 [] t = "d" -> 4]
DSLate == {<<"a", 1>>}
DSOwn == {"b", "c"}
=============================================================================
