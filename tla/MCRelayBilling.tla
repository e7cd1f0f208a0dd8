---------------------------- MODULE MCRelayBilling ----------------------------
(* An instance of RelayBilling for TLC: request 1 is relayed, request 2 is *)
(* a plain task or an image task, and the user prefers the subscription    *)
(* and falls back to the wallet.                                           *)
EXTENDS RelayBilling

MCKinds == <<{"relay"}, {"task", "image"}>>

MCPlans == {<<"subscription", "wallet">>}
=============================================================================
