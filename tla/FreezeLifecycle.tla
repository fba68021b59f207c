--------------------------- MODULE FreezeLifecycle ---------------------------
(***************************************************************************)
(* What the freeze-request workflow promises, told without sessions,       *)
(* snapshots or an audit table: a request is drafted, submitted, decided   *)
(* by an approver who is not the person who raised it, and dispatched only *)
(* once approved.  A decided request never goes back.                      *)
(*                                                                         *)
(* FreezeWorkflow implements this when one handler runs at a time          *)
(* (property SerialLifecycle there); with two it does not.                 *)
(***************************************************************************)
CONSTANTS
    Users,      \* officers
    Approvers,  \* the officers whose role may decide
    Requests,   \* freeze requests that may ever be drafted
    NULL

VARIABLES
    status,     \* [Requests -> lifecycle state]; "none" before the draft
    requester,  \* [Requests -> who drafted it]
    decider     \* [Requests -> who approved or rejected it]

vars == <<status, requester, decider>>

Init ==
    /\ status    = [r \in Requests |-> "none"]
    /\ requester = [r \in Requests |-> NULL]
    /\ decider   = [r \in Requests |-> NULL]

Move(r, from, to) ==
    /\ status[r] \in from
    /\ status' = [status EXCEPT ![r] = to]

Draft(r, u) ==
    /\ Move(r, {"none"}, "draft")
    /\ requester' = [requester EXCEPT ![r] = u]
    /\ UNCHANGED decider

Submit(r) ==
    /\ Move(r, {"draft"}, "pending_approval")
    /\ UNCHANGED <<requester, decider>>

Approve(r, u) ==
    /\ u \in Approvers
    /\ u # requester[r]
    /\ Move(r, {"pending_approval"}, "approved")
    /\ decider' = [decider EXCEPT ![r] = u]
    /\ UNCHANGED requester

Reject(r, u) ==
    /\ u \in Approvers
    /\ Move(r, {"draft", "pending_approval"}, "rejected")
    /\ decider' = [decider EXCEPT ![r] = u]
    /\ UNCHANGED requester

Dispatch(r) ==
    /\ Move(r, {"approved"}, "dispatched")
    /\ UNCHANGED <<requester, decider>>

Next ==
    \E r \in Requests :
        \/ Submit(r)
        \/ Dispatch(r)
        \/ \E u \in Users : Draft(r, u) \/ Approve(r, u) \/ Reject(r, u)

Spec == Init /\ [][Next]_vars
=============================================================================
