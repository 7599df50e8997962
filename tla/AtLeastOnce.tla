----------------------------- MODULE AtLeastOnce -----------------------------
(***************************************************************************)
(* What a module may rely on when it makes one call of the cloud: at most  *)
(* Budget attempts are made; a call that returned had its effect at least  *)
(* once and at most once per attempt; a call that failed may have had it   *)
(* too.  "Exactly once" is not promised.                                   *)
(***************************************************************************)
EXTENDS Naturals

CONSTANT Budget

VARIABLES status, attempts, effects

vars == <<status, attempts, effects>>

Init ==
  /\ status = "open"
  /\ attempts = 0
  /\ effects = 0

Attempt ==
  /\ status = "open"
  /\ attempts < Budget
  /\ attempts' = attempts + 1
  /\ \/ effects' = effects + 1 /\ status' = "ok"
     \/ effects' \in {effects, effects + 1} /\ status' \in {"open", "failed"}

Next == Attempt

Safety == Init /\ [][Next]_vars

Spec == Safety /\ WF_vars(Next)

=============================================================================
