---------------------------- MODULE FreezeWorkflow ----------------------------
(***************************************************************************)
(* The freeze-request endpoints (api/v1/freeze.py) over PostgreSQL.        *)
(*                                                                         *)
(* Every endpoint is a synchronous handler on a thread pool, in several    *)
(* worker processes, with a session of its own.  A handler authenticates   *)
(* its caller, loads the row, checks the row it loaded, changes the loaded *)
(* copy and commits.  Nothing locks the row and there is no version        *)
(* column, and the database runs at READ COMMITTED, so another handler may *)
(* commit between the steps.                                               *)
(*                                                                         *)
(* The commit itself is two statements: the flush INSERTs the audit entry, *)
(* which draws the entry's id, and then the row's UPDATE waits for whoever *)
(* has updated the row and not yet committed.  So the ids of the audit log *)
(* are not in the order of the commits, and neither is created_at, which   *)
(* is the start of the transaction.  Only ids are modelled.                *)
(***************************************************************************)
EXTENDS Naturals, Sequences

CONSTANTS
    Users,      \* officers who may be given an account
    Role,       \* [Users -> Roles]; no code path changes an account's role
    DemoUsers,  \* the accounts seed_demo_users creates and re-enables
    Requests,   \* freeze requests that may ever be drafted
    Workers,    \* handler threads; their number bounds the calls in flight
    MaxAudit,   \* bound on the audit ids drawn
    NULL

Roles == {"investigator", "supervisor", "admin"}
APPROVER_ROLES == {"supervisor", "admin"}
Approvers == {u \in Users : Role[u] \in APPROVER_ROLES}

ASSUME RoleAssumption == Role \in [Users -> Roles]
ASSUME DemoAssumption == DemoUsers \subseteq Users
ASSUME NullAssumption == NULL \notin Users /\ NULL \notin Requests
ASSUME MaxAuditAssumption == MaxAudit \in Nat

VARIABLES
    account,    \* the users table: [Users -> {"none", "active", "disabled"}]
    freeze,     \* the freeze_requests table
    audit,      \* the audit_log table: the entry with each id drawn so far
    call        \* [Workers -> the handler the worker is running]

vars == <<account, freeze, audit, call>>

-----------------------------------------------------------------------------
(* Tables *)

Statuses == {"none", "draft", "pending_approval", "approved", "rejected", "dispatched"}

FreezeRequest ==
    [status           : Statuses,
     requested_by     : Users \cup {NULL},
     approved_by      : Users \cup {NULL},
     rejection_reason : {NULL, "reason"}]

NoRow ==
    [status |-> "none", requested_by |-> NULL,
     approved_by |-> NULL, rejection_reason |-> NULL]

ApproverOps == {"approve", "reject", "dispatch"}
RowOps == ApproverOps \cup {"submit"}
Ops == RowOps \cup {"create"}

\* record_audit: what is committed with the row.  "create" is recorded before
\* the row has an id, so its entry names no request.  An entry that is not
\* committed is seen by nobody; one rolled back leaves a gap in the ids.
AuditLog ==
    [action : Ops, request : Requests \cup {NULL}, actor : Users \cup {NULL},
     committed : BOOLEAN]

Gap == [action |-> "create", request |-> NULL, actor |-> NULL, committed |-> FALSE]

Call ==
    [phase : {"idle", "authenticated", "loaded", "recorded"}, op : Ops,
     request : Requests \cup {NULL}, actor : Users \cup {NULL}, loaded : FreezeRequest,
     entry : Nat]

Idle ==
    [phase |-> "idle", op |-> "create", request |-> NULL, actor |-> NULL,
     loaded |-> NoRow, entry |-> 0]

-----------------------------------------------------------------------------
(* What each handler checks on the row it loaded, for the actor a. *)

\* Slips a later change could make, each run in place of the definition after
\* it: resubmitting, approving one's own request, dispatching early.
CanResubmit(row)        == row.status \in {"draft", "rejected"}
CanApproveOwn(row, a)   == row.status = "pending_approval"
CanDispatchEarly(row)   == row.status \in {"approved", "pending_approval"}

CanSubmit(row)     == row.status = "draft"
CanApprove(row, a) == row.status = "pending_approval" /\ row.requested_by # a
CanReject(row)     == row.status \in {"pending_approval", "draft"}
CanDispatch(row)   == row.status = "approved"

\* Slips: a state approval_t does not have, a rejection nobody signs.
SubmittedUnknown(row)   == [row EXCEPT !.status = "submitted"]
RejectedUnsigned(row, a) == [row EXCEPT !.status = "rejected", !.rejection_reason = "reason"]

\* What it sets on its copy of the row.
Submitted(row)      == [row EXCEPT !.status = "pending_approval"]
Approved(row, a)    == [row EXCEPT !.status = "approved", !.approved_by = a]
Rejected(row, a)    == [row EXCEPT !.status = "rejected", !.approved_by = a,
                                   !.rejection_reason = "reason"]
Dispatched(row)     == [row EXCEPT !.status = "dispatched"]

Allowed(op, row, a) ==
    CASE op = "submit"   -> CanSubmit(row)
      [] op = "approve"  -> CanApprove(row, a)
      [] op = "reject"   -> CanReject(row)
      [] op = "dispatch" -> CanDispatch(row)

\* The unit of work: UPDATE names only the columns whose value differs from
\* the loaded one, and finds the row by its key alone.
Column(current, loaded, changed) == IF changed = loaded THEN current ELSE changed

Flush(current, loaded, changed) ==
    [status           |-> Column(current.status, loaded.status, changed.status),
     requested_by     |-> Column(current.requested_by, loaded.requested_by,
                                 changed.requested_by),
     approved_by      |-> Column(current.approved_by, loaded.approved_by,
                                 changed.approved_by),
     rejection_reason |-> Column(current.rejection_reason, loaded.rejection_reason,
                                 changed.rejection_reason)]

-----------------------------------------------------------------------------
(* Accounts: scripts/manage_users.py and the demo seed at startup. *)

CreateUser(u) ==
    /\ account[u] = "none"
    /\ account' = [account EXCEPT ![u] = "active"]
    /\ UNCHANGED <<freeze, audit, call>>

Deactivate(u) ==
    /\ account[u] = "active"
    /\ account' = [account EXCEPT ![u] = "disabled"]
    /\ UNCHANGED <<freeze, audit, call>>

SeedDemoUsers ==
    /\ account' = [u \in Users |-> IF u \in DemoUsers THEN "active" ELSE account[u]]
    /\ account' # account
    /\ UNCHANGED <<freeze, audit, call>>

-----------------------------------------------------------------------------
(* A handler's life. *)

\* get_current_user and require_approver: the account is read once, here.
MayCall(u, op) ==
    /\ account[u] = "active"
    /\ op \in ApproverOps => Role[u] \in APPROVER_ROLES

Authenticate(w, u, op, r) ==
    /\ Len(audit) < MaxAudit
    /\ call[w].phase = "idle"
    /\ MayCall(u, op)
    /\ op = "create" <=> r = NULL
    /\ call' = [call EXCEPT ![w] = [phase |-> "authenticated", op |-> op, request |-> r,
                                    actor |-> u, loaded |-> NoRow, entry |-> 0]]
    /\ UNCHANGED <<account, freeze, audit>>

\* db.get, then the handler's own checks.
Load(w) ==
    LET c == call[w] IN
    /\ c.phase = "authenticated"
    /\ c.op \in RowOps
    /\ Allowed(c.op, freeze[c.request], c.actor)
    /\ call' = [call EXCEPT ![w].phase = "loaded", ![w].loaded = freeze[c.request]]
    /\ UNCHANGED <<account, freeze, audit>>

\* 404, 409 or 403: nothing was changed.
Refuse(w) ==
    LET c == call[w] IN
    /\ c.phase = "authenticated"
    /\ c.op \in RowOps
    /\ ~Allowed(c.op, freeze[c.request], c.actor)
    /\ call' = [call EXCEPT ![w] = Idle]
    /\ UNCHANGED <<account, freeze, audit>>

\* The flush INSERTs the audit entry first (the unit of work sorts the two
\* unrelated tables by class name), which draws its id.
RecordAudit(w) ==
    LET c == call[w] IN
    /\ Len(audit) < MaxAudit
    /\ c.phase = "loaded"
    /\ audit' = Append(audit, [action |-> c.op, request |-> c.request,
                               actor |-> c.actor, committed |-> FALSE])
    /\ call' = [call EXCEPT ![w].phase = "recorded", ![w].entry = Len(audit) + 1]
    /\ UNCHANGED <<account, freeze>>

\* Slip: the entry goes its own way and is lost.
CommitUnaudited(w, op, changed) ==
    LET c == call[w] IN
    /\ c.phase = "recorded"
    /\ c.op = op
    /\ freeze' = [freeze EXCEPT ![c.request] = Flush(@, c.loaded, changed)]
    /\ call' = [call EXCEPT ![w] = Idle]
    /\ UNCHANGED <<account, audit>>

\* Then the row, and both become visible in one transaction.
Commit(w, op, changed) ==
    LET c == call[w] IN
    /\ c.phase = "recorded"
    /\ c.op = op
    /\ freeze' = [freeze EXCEPT ![c.request] = Flush(@, c.loaded, changed)]
    /\ audit' = [audit EXCEPT ![c.entry].committed = TRUE]
    /\ call' = [call EXCEPT ![w] = Idle]
    /\ UNCHANGED account

SubmitForApproval(w) == Commit(w, "submit", Submitted(call[w].loaded))
ApproveRequest(w)    == Commit(w, "approve", Approved(call[w].loaded, call[w].actor))
RejectRequest(w)     == Commit(w, "reject", Rejected(call[w].loaded, call[w].actor))
DispatchRequest(w)   == Commit(w, "dispatch", Dispatched(call[w].loaded))

\* The new row takes a fresh id.  Its entry names no request, so its place
\* among the ids tells nothing, and both INSERTs are one step.
CreateRequest(w, r) ==
    /\ Len(audit) < MaxAudit
    /\ call[w].phase = "authenticated"
    /\ call[w].op = "create"
    /\ freeze[r].status = "none"
    /\ freeze' = [freeze EXCEPT ![r] = [NoRow EXCEPT !.status = "draft",
                                                     !.requested_by = call[w].actor]]
    /\ audit' = Append(audit, [action |-> "create", request |-> NULL,
                               actor |-> call[w].actor, committed |-> TRUE])
    /\ call' = [call EXCEPT ![w] = Idle]
    /\ UNCHANGED account

\* The process dies or the database refuses before the commit: get_db closes
\* the session and everything the handler did is rolled back, except that
\* the id it drew is not drawn again.
Abort(w) ==
    /\ call[w].phase # "idle"
    /\ audit' = IF call[w].phase = "recorded"
                THEN [audit EXCEPT ![call[w].entry] = Gap]
                ELSE audit
    /\ call' = [call EXCEPT ![w] = Idle]
    /\ UNCHANGED <<account, freeze>>

-----------------------------------------------------------------------------
Init ==
    /\ account = [u \in Users |-> "none"]
    /\ freeze = [r \in Requests |-> NoRow]
    /\ audit = <<>>
    /\ call = [w \in Workers |-> Idle]

Handler(w) ==
    \/ \E u \in Users, op \in Ops, r \in Requests \cup {NULL} : Authenticate(w, u, op, r)
    \/ Load(w)
    \/ Refuse(w)
    \/ RecordAudit(w)
    \/ SubmitForApproval(w)
    \/ ApproveRequest(w)
    \/ RejectRequest(w)
    \/ DispatchRequest(w)
    \/ \E r \in Requests : CreateRequest(w, r)
    \/ Abort(w)

Next ==
    \/ \E u \in Users : CreateUser(u) \/ Deactivate(u)
    \/ SeedDemoUsers
    \/ \E w \in Workers : Handler(w)

Spec == Init /\ [][Next]_vars

-----------------------------------------------------------------------------
(* Properties that hold however the handlers interleave. *)

\* Every table and every call in flight has the shape its definition says.
TypeOK ==
    /\ account \in [Users -> {"none", "active", "disabled"}]
    /\ freeze \in [Requests -> FreezeRequest]
    /\ audit \in Seq(AuditLog)
    /\ call \in [Workers -> Call]

\* The state a committed entry of the audit log leaves its request in.
Target(op) ==
    CASE op = "submit"   -> "pending_approval"
      [] op = "approve"  -> "approved"
      [] op = "reject"   -> "rejected"
      [] op = "dispatch" -> "dispatched"

\* The committed entries about r, by id.
Trail(r) == {i \in 1..Len(audit) : audit[i].committed /\ audit[i].request = r}

\* The row shows what its trail holds.
TrailExplains(r) ==
    /\ freeze[r].status \in {"none", "draft"} <=> Trail(r) = {}
    /\ freeze[r].status \notin {"none", "draft"}
          => \E i \in Trail(r) : freeze[r].status = Target(audit[i].action)
    /\ freeze[r].approved_by # NULL
          => \E i \in Trail(r) : /\ audit[i].action \in {"approve", "reject"}
                                 /\ audit[i].actor = freeze[r].approved_by
    /\ freeze[r].rejection_reason # NULL
          => \E i \in Trail(r) : audit[i].action = "reject"
    /\ \A i \in Trail(r) :
          audit[i].action = "approve"
              => \E j \in Trail(r) : j < i /\ audit[j].action = "submit"

\* The audit log accounts for the row (freeze.py rule 5: every transition is
\* written there).  A request nobody moved, and no other, is a draft; every
\* value a row shows was logged by the officer who set it, whichever of two
\* racing handlers set which column; and an approval is logged after the
\* submission it needed.  Not promised, because the code does not give it:
\* that the entry with the highest id names the state the row is in.
TrailExplainsRow == \A r \in Requests : TrailExplains(r)

\* Entry j is the approval of r by an approver who did not raise it.
Approves(j, r) ==
    /\ j \in Trail(r)
    /\ audit[j].action = "approve"
    /\ audit[j].actor \in Approvers
    /\ audit[j].actor # freeze[r].requested_by

\* No request is dispatched that some approver, other than the officer who
\* raised it, has not approved at some earlier time, under a lower id of the
\* audit log (freeze.py rules 2-4): this survives every race, because only the
\* approve handler can write "approved" and only a handler that loaded
\* "approved" dispatches.
DispatchIndependentlyApproved ==
    \A r \in Requests : \A i \in Trail(r) :
        audit[i].action = "dispatch" => \E j \in Trail(r) : j < i /\ Approves(j, r)

\* A decided row names an approver, a rejected one its reason, also when the
\* decision was written over another.  ck_freeze_approved_needs_actor in
\* init.sql only asks it of "approved", so the constraint never fires.
DecidedRowIsAttributed ==
    \A r \in Requests :
        /\ freeze[r].status \in {"approved", "rejected", "dispatched"}
              => freeze[r].approved_by \in Approvers
        /\ freeze[r].status = "rejected" => freeze[r].rejection_reason = "reason"

\* Whatever two handlers write over each other, the audit log accounts for every
\* value of the row, and the row itself names who decided it and, if rejected,
\* why.
RowIsExplained == TrailExplainsRow /\ DecidedRowIsAttributed

-----------------------------------------------------------------------------
(* What the documentation says of the row.  True while one handler runs at *)
(* a time, false with two in flight.                                       *)

\* "The requester cannot approve their own request - even a supervisor": no
\* approved or dispatched row names its requester as the approver.
RequesterIsNotApprover ==
    \A r \in Requests :
        freeze[r].status \in {"approved", "dispatched"}
            => freeze[r].approved_by # freeze[r].requested_by

\* With one worker the endpoints implement the lifecycle they document.
Lifecycle ==
    INSTANCE FreezeLifecycle WITH
        status    <- [r \in Requests |-> freeze[r].status],
        requester <- [r \in Requests |-> freeze[r].requested_by],
        decider   <- [r \in Requests |-> freeze[r].approved_by]

\* One handler at a time, every commit is a step of the lifecycle, and every
\* other step leaves the requests alone.
SerialLifecycle == Lifecycle!Spec
=============================================================================
