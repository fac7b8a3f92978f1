----------------------------- MODULE CodeParams -----------------------------
(* The parameters of the code step, and what is assumed of them. *)
EXTENDS Naturals

CONSTANTS
  Wait,         \* the wait between codes, in ticks: RESEND_COOLDOWN and RESEND_WAIT
  Tries,        \* wrong tries that lock a code: MAX_WRONG_TRIES
  MaxCodes,     \* codes an hour: CODES_PER_HOUR
  MaxMade       \* codes made in all, those that did not go out too: the bound of an instance

ASSUME WaitAssumption == Wait \in Nat
ASSUME TriesAssumption == Tries \in Nat
ASSUME CodesAssumption == MaxCodes \in Nat /\ MaxMade \in Nat

=============================================================================
