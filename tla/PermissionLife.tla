--------------------------- MODULE PermissionLife ---------------------------
(***************************************************************************)
(* What permission prompts promise whoever watches a session: a request is *)
(* asked once, the agent is told one outcome, and what is on record of it  *)
(* agrees with what the agent was told.  How the record is written (several *)
(* processes, versions, retries, lost connections) is in                   *)
(* PermissionRequests, which implements this specification.                *)
(***************************************************************************)
CONSTANTS
    Req,   \* permission requests
    None   \* not told yet

VARIABLES
    life,      \* what the session shows of each request
    told,      \* what the agent was told of it
    contested  \* two processes run the session at the same time: nothing is promised of life

vars == <<life, told, contested>>

Outcome == {"allow", "reject", "cancelled"}
Lives == {"new", "asked", "approved", "denied", "canceled"}

Init == life = [r \in Req |-> "new"] /\ told = [r \in Req |-> None] /\ contested = FALSE

(* An agent is told at most once. *)
Tell(r) == told'[r] = told[r] \/ (told[r] = None /\ told'[r] \in Outcome)

(* A request is shown once, recorded as approved or denied only after the agent was told so, and *)
(* once it is recorded it is not asked again.  An abort first cancels everything, then records its *)
(* own denial. *)
Live(r) ==
    \/ life'[r] = life[r]
    \/ life[r] = "new" /\ life'[r] = "asked"
    \/ life[r] \in {"new", "asked"} /\ life'[r] = "approved" /\ told[r] = "allow"
    \/ life[r] = "new" /\ life'[r] = "canceled" /\ told[r] = "cancelled"
    \/ life[r] = "asked" /\ life'[r] = "canceled"
    \/ life[r] \in {"asked", "canceled"} /\ life'[r] = "denied" /\ told[r] \in {"reject", "cancelled"}

Next ==
    /\ contested => contested'
    /\ told' \in [Req -> Outcome \cup {None}] /\ life' \in [Req -> Lives] /\ contested' \in BOOLEAN
    /\ \A r \in Req: Tell(r) /\ (contested' \/ Live(r))

Spec == Init /\ [][Next]_vars
=============================================================================
