------------------------- MODULE ResponseLifecycle -------------------------
(***************************************************************************)
(* What the response plane promises about one containment lifecycle,       *)
(* whatever crashes, storage faults and adapter failures happen below.     *)
(* The audit state machine is `_ALLOWED` and `validate_transition` of      *)
(* response/orchestrator/audit.py; the rest is what a client of the        *)
(* orchestrator may observe: the durable claim to apply, and whether the   *)
(* containment is in force on the enforcement point.                       *)
(***************************************************************************)
EXTENDS Naturals

CONSTANTS Response,   \* response ids
          TargetOf    \* the (action, normalised target) of a response

VARIABLES status,     \* the state of the latest audit event, "NONE" before it
          claimed,    \* responses with a durable apply intent
          touched,    \* responses whose adapter has been asked to apply
          contained   \* responses whose containment is in force

vars == <<status, claimed, touched, contained>>

State == {"REQUESTED", "APPLIED", "VERIFIED", "EXPIRED", "ROLLED_BACK", "FAILED"}
Terminal == {"EXPIRED", "ROLLED_BACK"}

\* The states an audit event may move a response to.
Allowed(s) ==
  CASE s = "NONE"      -> {"REQUESTED"}
    [] s = "REQUESTED" -> {"APPLIED", "FAILED", "ROLLED_BACK"}
    [] s = "APPLIED"   -> {"VERIFIED", "ROLLED_BACK", "FAILED"}
    [] s = "VERIFIED"  -> {"EXPIRED", "ROLLED_BACK", "FAILED"}
    [] s = "FAILED"    -> {"FAILED", "ROLLED_BACK"}
    [] OTHER           -> {}

\* A response that may have, or may get, a containment in force.
Engaged(r) == r \in claimed /\ status[r] \notin Terminal

Init == /\ status = [r \in Response |-> "NONE"]
        /\ claimed = {}
        /\ touched = {}
        /\ contained = [r \in Response |-> FALSE]

\* One audited transition. A lifecycle ends only once nothing is in force, and
\* only a claimed response is ever reported applied or rolled back.
Record(r, s) ==
  /\ s \in Allowed(status[r])
  /\ s \in Terminal => ~contained[r]
  /\ s \in Terminal \cup {"APPLIED"} => r \in claimed
  /\ status' = [status EXCEPT ![r] = s]
  /\ UNCHANGED <<claimed, touched, contained>>

\* A claim is durable before the adapter is touched, is taken once, and only
\* while no other response on the same target is engaged.
Claim(r) ==
  /\ status[r] = "REQUESTED"
  /\ r \notin claimed
  /\ \A o \in Response \ {r} : TargetOf[o] = TargetOf[r] => ~Engaged(o)
  /\ claimed' = claimed \cup {r}
  /\ UNCHANGED <<status, touched, contained>>

\* The adapter is asked to apply, with any outcome, at most once per claim.
Touch(r) ==
  /\ status[r] = "REQUESTED"
  /\ r \in claimed \ touched
  /\ touched' = touched \cup {r}
  /\ \E inForce \in BOOLEAN : contained' = [contained EXCEPT ![r] = inForce]
  /\ UNCHANGED <<status, claimed>>

\* A containment stops being in force: reverted, expired on the device, lost.
Release(r) ==
  /\ contained[r]
  /\ contained' = [contained EXCEPT ![r] = FALSE]
  /\ UNCHANGED <<status, claimed, touched>>

Next == \E r \in Response : \/ \E s \in State : Record(r, s)
                            \/ Claim(r)
                            \/ Touch(r)
                            \/ Release(r)

Spec == Init /\ [][Next]_vars
=============================================================================
