-------------------------------- MODULE Judge -------------------------------
(***************************************************************************)
(* What semantic analysis promises: one verdict per program, given once,   *)
(* and given to every program: "accepted" for the well-formed ones.        *)
(***************************************************************************)
CONSTANT WellFormed(_)     \* Typing's

VARIABLES prog, verdict

Init == verdict = "pending"          \* for any prog

Decide ==
  /\ verdict = "pending"
  /\ verdict' \in {"accepted", "rejected"}
  /\ (verdict' = "accepted") <=> WellFormed(prog)
  /\ UNCHANGED prog

Spec == Init /\ [][Decide]_<<prog, verdict>> /\ WF_<<prog, verdict>>(Decide)
=============================================================================
