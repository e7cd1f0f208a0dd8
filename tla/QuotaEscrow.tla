----------------------------- MODULE QuotaEscrow -----------------------------
(***************************************************************************)
(* What a quota reservation promises, whatever it is implemented by: each  *)
(* request takes quota out of one balance before it does anything, may     *)
(* take more while it is open, and is closed once with what it finally     *)
(* costs (nothing, when it is released).  Every step moves quota between   *)
(* the balance and one request, and never out of an empty balance.         *)
(***************************************************************************)
EXTENDS Integers

CONSTANTS
    Requests,   \* requests, each with one reservation
    Initial     \* the balance at the beginning

VARIABLES
    balance,    \* quota nobody has taken
    hold,       \* hold[r]: quota request r holds or has paid
    phase       \* phase[r]: "none", "held" or "closed"

escrowVars == <<balance, hold, phase>>

Init ==
    /\ balance = Initial
    /\ hold = [r \in Requests |-> 0]
    /\ phase = [r \in Requests |-> "none"]

(* What leaves the balance is added to what r holds, and what enters it is *)
(* taken from r.                                                           *)
Move(r) == hold' = [hold EXCEPT ![r] = @ + balance - balance']

Open(r) ==
    /\ phase[r] = "none"
    /\ balance' \in 0..balance
    /\ Move(r)
    /\ phase' = [phase EXCEPT ![r] = "held"]

Extend(r) ==
    /\ phase[r] = "held"
    /\ balance' \in 0..balance
    /\ Move(r)
    /\ UNCHANGED phase

(* The final cost may be less than what is held, down to nothing, or more. *)
Close(r) ==
    /\ phase[r] = "held"
    /\ balance' \in 0..(balance + hold[r])
    /\ Move(r)
    /\ phase' = [phase EXCEPT ![r] = "closed"]

Next == \E r \in Requests : Open(r) \/ Extend(r) \/ Close(r)

Spec == Init /\ [][Next]_escrowVars

=============================================================================
