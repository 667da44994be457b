---------------------------- MODULE MCRpcServer ----------------------------
(* A websocket client with one of these scripts, and a POST client.        *)
EXTENDS RpcServer

MCPreauthed == {<<"wallet", "bad", "bad">>, <<"junk", "pass">>, <<"stop">>}
MCScripts == MCPreauthed \cup {<<"auth", "wallet">>, <<"badauth", "wallet", "wallet">>}
=============================================================================
