--------------------------- MODULE TrustedVerdict ---------------------------
(***************************************************************************)
(* What a caller of the verifier is promised, and nothing about how.  Each *)
(* request carries a claim; it is answered once; an answer that decides    *)
(* the claim decides it correctly, and any request may end undecided.      *)
(* This is the contract behind specification.py's VerificationStatus.      *)
(***************************************************************************)
CONSTANT Requests

VARIABLES
  claim,    \* what is the case about each request's theorem
  verdict   \* what the verifier has said of it

verdictVars == <<claim, verdict>>

(* A "broken" source does not elaborate: it is neither proved nor refuted. *)
Claims   == {"true", "false", "broken"}
Decided  == {"checked_success", "mathematical_rejection"}
Verdicts == Decided \cup {"pending", "operational_error"}

(* The verdicts that are not a lie about a claim.                          *)
Permitted(c) ==
  {"operational_error"}
    \cup {v \in {"checked_success"} : c = "true"}
    \cup {v \in {"mathematical_rejection"} : c = "false"}

VerdictInit ==
  /\ claim \in [Requests -> Claims]
  /\ verdict = [r \in Requests |-> "pending"]

Answer(r) ==
  /\ verdict[r] = "pending"
  /\ \E v \in Permitted(claim[r]) : verdict' = [verdict EXCEPT ![r] = v]
  /\ UNCHANGED claim

VerdictNext == \E r \in Requests : Answer(r)

VerdictSafety == VerdictInit /\ [][VerdictNext]_verdictVars

(* Every request is answered.                                              *)
VerdictSpec == VerdictSafety /\ \A r \in Requests : WF_verdictVars(Answer(r))
=============================================================================
