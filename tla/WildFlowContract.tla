--------------------------- MODULE WildFlowContract ---------------------------
(***************************************************************************)
(* What a WildFlow operation promises its user about work and money: the   *)
(* job at the inference service is only asked for once quota is reserved   *)
(* for it, quota is consumed only by a job that succeeded, and given back  *)
(* only when no job can produce anything any more.  Leases, handlers,      *)
(* pollers, crashes and message loss are absent; WildFlowSubmission and    *)
(* WildFlowExecution each implement this specification.  Work of an        *)
(* internal trial offering is free.                                        *)
(***************************************************************************)

VARIABLES
    job,      \* the work: none, sent, accepted, succeeded or failed
    billing   \* its quota: free, pending, reserved, settled or refunded

vars == <<job, billing>>

(* Work may only exist when it is paid for. *)
Paid == billing \in {"reserved", "free"}

(* The row of an earlier release may already have its reservation and its  *)
(* job request.                                                            *)
Init ==
    \/ job = "none" /\ billing = "pending"
    \/ job \in {"none", "sent", "accepted", "failed"} /\ billing = "reserved"
    \/ job \in {"none", "sent", "accepted"} /\ billing = "free"

Reserve ==
    /\ billing = "pending"
    /\ billing' = "reserved"
    /\ UNCHANGED job

Submit ==
    /\ job = "none" /\ Paid
    /\ job' = "sent"
    /\ UNCHANGED billing

(* The request was refused, or never arrived. *)
Refuse ==
    /\ job = "sent"
    /\ job' = "none"
    /\ UNCHANGED billing

Accept ==
    /\ job = "sent"
    /\ job' = "accepted"
    /\ UNCHANGED billing

Finish ==
    /\ job = "accepted"
    /\ job' \in {"succeeded", "failed"}
    /\ UNCHANGED billing

Settle ==
    /\ job = "succeeded" /\ billing = "reserved"
    /\ billing' = "settled"
    /\ UNCHANGED job

Refund ==
    /\ job \in {"none", "failed"} /\ billing = "reserved"
    /\ billing' = "refunded"
    /\ UNCHANGED job

Next == Reserve \/ Submit \/ Refuse \/ Accept \/ Finish \/ Settle \/ Refund

Spec == Init /\ [][Next]_vars
=============================================================================
