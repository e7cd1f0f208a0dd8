--------------------------- MODULE MCWildFlowLedger ---------------------------
(* Instances of WildFlowLedger for TLC.  Operation 1 is billed by audio     *)
(* duration, operation 2 is not; there is quota for one of the two in the   *)
(* wallet and in each subscription, so that every fallback is needed.       *)
EXTENDS WildFlowLedger

MCQuote == <<3, 2>>
MCUnits == <<4, 0>>
MCTotal == <<4, 3>>
=============================================================================
