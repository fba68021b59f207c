------------------------- MODULE FreezeWorkflowProofs -------------------------
(***************************************************************************)
(* What survives every interleaving of the freeze handlers, for any        *)
(* number of officers, requests and workers: the tables keep their types,  *)
(* a decided row is attributed, a dispatch always follows an independent   *)
(* approval, and the audit log accounts for whatever the row shows.        *)
(***************************************************************************)
EXTENDS FreezeWorkflow, SequenceTheorems, TLAPS

-----------------------------------------------------------------------------
(* The inductive invariant. *)

\* A call between its load and its commit holds a copy of the row.
HoldsCopy(w) == call[w].phase \in {"loaded", "recorded"}

\* A call in flight carries what the guards of the earlier steps checked; in
\* particular a loaded copy was taken from a row that exists, and the
\* requester it names is still the row's.
CallInv ==
    \A w \in Workers :
        /\ call[w].phase # "idle" =>
              /\ call[w].actor \in Users
              /\ call[w].op = "create" <=> call[w].request = NULL
              /\ call[w].op \in ApproverOps => call[w].actor \in Approvers
        /\ HoldsCopy(w) =>
              /\ call[w].op \in RowOps
              /\ Allowed(call[w].op, call[w].loaded, call[w].actor)
              /\ freeze[call[w].request].status # "none"
              /\ call[w].loaded.requested_by = freeze[call[w].request].requested_by

\* approved_by and rejection_reason are never cleared, so what a stale copy
\* holds in them the row holds too, if with another approver's name.
AttributionInv ==
    /\ \A r \in Requests : freeze[r].approved_by \in Approvers \cup {NULL}
    /\ \A w \in Workers : HoldsCopy(w) =>
          /\ call[w].loaded.approved_by # NULL
                => freeze[call[w].request].approved_by \in Approvers
          /\ call[w].loaded.rejection_reason = "reason"
                => freeze[call[w].request].rejection_reason = "reason"
          /\ call[w].loaded.status = "approved" => call[w].loaded.approved_by # NULL
    /\ DecidedRowIsAttributed

\* Every entry but a creation or a gap names a request that exists.
EntriesNameRows ==
    \A i \in 1..Len(audit) :
        \/ audit[i].request = NULL
        \/ /\ audit[i].action \in RowOps
           /\ audit[i].request \in Requests
           /\ freeze[audit[i].request].status # "none"

\* A call between its two statements has an entry of its own, seen by nobody.
Drawn(w) ==
    call[w].phase = "recorded" =>
        /\ call[w].entry \in 1..Len(audit)
        /\ audit[call[w].entry].action = call[w].op
        /\ audit[call[w].entry].request = call[w].request
        /\ audit[call[w].entry].actor = call[w].actor
        /\ ~audit[call[w].entry].committed

DrawnOnce ==
    \A v, w \in Workers :
        /\ v # w
        /\ call[v].phase = "recorded"
        /\ call[w].phase = "recorded"
        => call[v].entry # call[w].entry

\* Whoever sees "approved", in the row or in a stale copy of it, comes after
\* an independent approval in the audit log.
ApprovedOnRecord ==
    \A r \in Requests :
        freeze[r].status = "approved" => \E j \in Trail(r) : Approves(j, r)

\* What a copy shows was logged before its holder draws an id.
CopyOnRecord(w) ==
    LET c == call[w]
        Below(j) == c.phase = "recorded" => j < c.entry IN
    HoldsCopy(w) =>
        /\ c.loaded.status = "approved"
              => \E j \in Trail(c.request) : Approves(j, c.request) /\ Below(j)
        /\ c.loaded.status = "pending_approval"
              => \E j \in Trail(c.request) : audit[j].action = "submit" /\ Below(j)

LogInv ==
    /\ EntriesNameRows
    /\ \A w \in Workers : Drawn(w) /\ CopyOnRecord(w)
    /\ DrawnOnce
    /\ ApprovedOnRecord
    /\ TrailExplainsRow
    /\ DispatchIndependentlyApproved

-----------------------------------------------------------------------------
(* The shape of a step.                                                    *)

\* What the four committing handlers have in common: the copy they write
\* back keeps the requester, takes the status of the entry they log, and
\* changes the approver only to themselves.
Change(w, op, changed) ==
    /\ op \in RowOps
    /\ changed \in FreezeRequest
    /\ changed.requested_by = call[w].loaded.requested_by
    /\ changed.status = Target(op)
    /\ changed.status # call[w].loaded.status
    /\ changed.approved_by =
          IF op \in {"approve", "reject"} THEN call[w].actor ELSE call[w].loaded.approved_by
    /\ changed.rejection_reason =
          IF op = "reject" THEN "reason" ELSE call[w].loaded.rejection_reason

\* The steps that end a call before it has drawn an id, or after.
Drop(w) == Refuse(w) \/ (Abort(w) /\ call[w].phase # "recorded")
Rollback(w) == Abort(w) /\ call[w].phase = "recorded"

Accounts == SeedDemoUsers \/ \E u \in Users : CreateUser(u) \/ Deactivate(u)

\* A call that holds a copy has a request, an actor and a typed copy of the row.
LEMMA LoadedCall ==
    ASSUME TypeOK, CallInv, NEW w \in Workers, HoldsCopy(w)
    PROVE  /\ call[w].request \in Requests
           /\ call[w].actor \in Users
           /\ call[w].loaded \in FreezeRequest
           /\ freeze[call[w].request] \in FreezeRequest
           /\ call[w].op \in RowOps
           /\ call[w].op \in ApproverOps => call[w].actor \in Approvers
<1>1. call[w] \in Call
  BY DEF TypeOK
<1>2. call[w].request # NULL
  BY DEF CallInv, HoldsCopy, RowOps, ApproverOps
<1>3. call[w].request \in Requests
  BY <1>1, <1>2 DEF Call
<1>. QED
  BY <1>1, <1>3 DEF CallInv, HoldsCopy, Call, TypeOK

\* Each committing handler is a Commit whose change has that common form.
LEMMA CommitForm ==
    ASSUME TypeOK, CallInv, NEW w \in Workers,
           \/ SubmitForApproval(w) \/ ApproveRequest(w)
           \/ RejectRequest(w) \/ DispatchRequest(w)
    PROVE  \E op \in RowOps, changed \in FreezeRequest :
              Commit(w, op, changed) /\ Change(w, op, changed)
<1> DEFINE row == call[w].loaded
           a == call[w].actor
<1>1. HoldsCopy(w)
  BY DEF SubmitForApproval, ApproveRequest, RejectRequest, DispatchRequest, Commit,
         HoldsCopy
<1>2. row \in FreezeRequest /\ a \in Users /\ Allowed(call[w].op, row, a)
  BY <1>1, LoadedCall DEF CallInv
<1>3. CASE SubmitForApproval(w)
  <2>1. Commit(w, "submit", Submitted(row)) /\ call[w].op = "submit"
    BY <1>3 DEF SubmitForApproval, Commit
  <2>2. Submitted(row) \in FreezeRequest
    BY <1>2 DEF Submitted, FreezeRequest, Statuses
  <2>3. Change(w, "submit", Submitted(row))
    BY <1>2, <2>1, <2>2
       DEF Change, Submitted, FreezeRequest, Target, RowOps, Allowed, CanSubmit
  <2>. QED
    BY <2>1, <2>2, <2>3 DEF RowOps
<1>4. CASE ApproveRequest(w)
  <2>1. Commit(w, "approve", Approved(row, a)) /\ call[w].op = "approve"
    BY <1>4 DEF ApproveRequest, Commit
  <2>2. Approved(row, a) \in FreezeRequest
    BY <1>2 DEF Approved, FreezeRequest, Statuses
  <2>3. Change(w, "approve", Approved(row, a))
    BY <1>2, <2>1, <2>2
       DEF Change, Approved, FreezeRequest, Target, RowOps, ApproverOps, Allowed, CanApprove
  <2>. QED
    BY <2>1, <2>2, <2>3 DEF RowOps, ApproverOps
<1>5. CASE RejectRequest(w)
  <2>1. Commit(w, "reject", Rejected(row, a)) /\ call[w].op = "reject"
    BY <1>5 DEF RejectRequest, Commit
  <2>2. Rejected(row, a) \in FreezeRequest
    BY <1>2 DEF Rejected, FreezeRequest, Statuses
  <2>3. Change(w, "reject", Rejected(row, a))
    BY <1>2, <2>1, <2>2
       DEF Change, Rejected, FreezeRequest, Target, RowOps, ApproverOps, Allowed, CanReject
  <2>. QED
    BY <2>1, <2>2, <2>3 DEF RowOps, ApproverOps
<1>6. CASE DispatchRequest(w)
  <2>1. Commit(w, "dispatch", Dispatched(row)) /\ call[w].op = "dispatch"
    BY <1>6 DEF DispatchRequest, Commit
  <2>2. Dispatched(row) \in FreezeRequest
    BY <1>2 DEF Dispatched, FreezeRequest, Statuses
  <2>3. Change(w, "dispatch", Dispatched(row))
    BY <1>2, <2>1, <2>2
       DEF Change, Dispatched, FreezeRequest, Target, RowOps, ApproverOps, Allowed, CanDispatch
  <2>. QED
    BY <2>1, <2>2, <2>3 DEF RowOps, ApproverOps
<1>. QED
  BY <1>3, <1>4, <1>5, <1>6

\* The step cases every invariance proof below goes through.
LEMMA StepCases ==
    ASSUME TypeOK, CallInv, [Next]_vars
    PROVE  \/ UNCHANGED <<freeze, audit, call>> /\ (Accounts \/ UNCHANGED account)
           \/ \E w \in Workers :
                 \/ \E u \in Users, op \in Ops, r \in Requests \cup {NULL} :
                       Authenticate(w, u, op, r)
                 \/ Load(w)
                 \/ Drop(w)
                 \/ Rollback(w)
                 \/ RecordAudit(w)
                 \/ \E r \in Requests : CreateRequest(w, r)
                 \/ \E op \in RowOps, changed \in FreezeRequest :
                       Commit(w, op, changed) /\ Change(w, op, changed)
<1>1. CASE UNCHANGED vars
  BY <1>1 DEF vars
<1>2. CASE Accounts
  BY <1>2 DEF Accounts, SeedDemoUsers, CreateUser, Deactivate
<1>3. ASSUME NEW w \in Workers, Handler(w)
      PROVE  \/ \E u \in Users, op \in Ops, r \in Requests \cup {NULL} :
                   Authenticate(w, u, op, r)
             \/ Load(w)
             \/ Drop(w)
             \/ Rollback(w)
             \/ RecordAudit(w)
             \/ \E r \in Requests : CreateRequest(w, r)
             \/ \E op \in RowOps, changed \in FreezeRequest :
                   Commit(w, op, changed) /\ Change(w, op, changed)
  BY <1>3, CommitForm DEF Handler, Drop, Rollback
<1>. QED
  BY <1>1, <1>2, <1>3 DEF Next, Accounts

-----------------------------------------------------------------------------
(* Types. *)

\* Flush only ever mixes columns of two rows of the table.
LEMMA FlushType ==
    ASSUME NEW current \in FreezeRequest, NEW loaded \in FreezeRequest,
           NEW changed \in FreezeRequest
    PROVE  Flush(current, loaded, changed) \in FreezeRequest
  BY DEF Flush, Column, FreezeRequest

LEMMA InitTypes == Init => TypeOK /\ CallInv
<1>1. NoRow \in FreezeRequest
  BY DEF NoRow, FreezeRequest, Statuses
<1>2. Idle \in Call
  BY <1>1 DEF Idle, Call, Ops
<1>3. <<>> \in Seq(AuditLog)
  OBVIOUS
<1>. QED
  BY <1>1, <1>2, <1>3 DEF Init, TypeOK, CallInv, HoldsCopy, Idle

\* Replacing an entry keeps the log and every other entry.
Replaced(n, e) == [audit EXCEPT ![n] = e]

LEMMA ReplacedLog ==
    ASSUME TypeOK, NEW n, NEW e, n \in 1..Len(audit) => e \in AuditLog
    PROVE  /\ Replaced(n, e) \in Seq(AuditLog)
           /\ Len(Replaced(n, e)) = Len(audit)
           /\ \A i \in 1..Len(audit) : Replaced(n, e)[i] = IF i = n THEN e ELSE audit[i]
<1>1. audit \in Seq(AuditLog)
  BY DEF TypeOK
<1>2. CASE n \in 1..Len(audit)
  BY <1>1, <1>2, ExceptSeq DEF Replaced
<1>3. CASE n \notin 1..Len(audit)
  <2>1. audit \in [1..Len(audit) -> AuditLog]
    BY <1>1, LenProperties
  <2>2. Replaced(n, e) = audit
    BY <1>3, <2>1 DEF Replaced
  <2>. QED
    BY <1>1, <1>3, <2>2
<1>. QED
  BY <1>2, <1>3

\* Making an entry visible changes nothing else of the log.
Committed(n) == [audit EXCEPT ![n].committed = TRUE]

LEMMA CommittedLog ==
    ASSUME TypeOK, NEW n
    PROVE  /\ Committed(n) \in Seq(AuditLog)
           /\ Len(Committed(n)) = Len(audit)
           /\ \A i \in 1..Len(audit) :
                 /\ Committed(n)[i].action = audit[i].action
                 /\ Committed(n)[i].request = audit[i].request
                 /\ Committed(n)[i].actor = audit[i].actor
                 /\ Committed(n)[i].committed <=> (i = n \/ audit[i].committed)
                 /\ i # n => Committed(n)[i] = audit[i]
<1>1. \A i \in 1..Len(audit) : audit[i] \in AuditLog
  BY ElementOfSeq DEF TypeOK
<1>2. PICK new : new = [audit[n] EXCEPT !.committed = TRUE]
  OBVIOUS
<1>3. n \in 1..Len(audit) =>
         /\ new \in AuditLog
         /\ new.action = audit[n].action /\ new.request = audit[n].request
         /\ new.actor = audit[n].actor /\ new.committed = TRUE
  BY <1>1, <1>2 DEF AuditLog
<1>4. Committed(n) = Replaced(n, new)
  BY <1>2 DEF Committed, Replaced
<1>5. /\ Replaced(n, new) \in Seq(AuditLog)
      /\ Len(Replaced(n, new)) = Len(audit)
      /\ \A i \in 1..Len(audit) : Replaced(n, new)[i] = IF i = n THEN new ELSE audit[i]
  BY <1>3, ReplacedLog
<1>. QED
  BY <1>3, <1>4, <1>5

\* The calls of the other workers keep their invariant when the rows only
\* ever gain a status and never change their requester.
LEMMA CallInvKept ==
    ASSUME TypeOK, CallInv, NEW w \in Workers, call' \in [Workers -> Call],
           \A v \in Workers : v # w => call'[v] = call[v],
           \A r \in Requests :
              freeze[r].status # "none" =>
                 /\ freeze'[r].status # "none"
                 /\ freeze'[r].requested_by = freeze[r].requested_by,
           call'[w] = Idle
    PROVE  CallInv'
<1> SUFFICES ASSUME NEW v \in Workers, v # w
             PROVE  CallInv!(v)'
  BY DEF CallInv, HoldsCopy, Idle
<1>1. call'[v] = call[v] /\ CallInv!(v)
  BY DEF CallInv
<1>2. HoldsCopy(v) => call[v].request \in Requests
  BY LoadedCall
<1>. QED
  BY <1>1, <1>2 DEF HoldsCopy

LEMMA StepTypes == TypeOK /\ CallInv /\ [Next]_vars => TypeOK' /\ CallInv'
<1> SUFFICES ASSUME TypeOK, CallInv, [Next]_vars
             PROVE  TypeOK' /\ CallInv'
  OBVIOUS
<1>1. CASE UNCHANGED <<freeze, audit, call>> /\ (Accounts \/ UNCHANGED account)
  <2>1. account' \in [Users -> {"none", "active", "disabled"}]
    BY <1>1 DEF Accounts, SeedDemoUsers, CreateUser, Deactivate, TypeOK
  <2>. QED
    BY <1>1, <2>1 DEF TypeOK, CallInv, HoldsCopy
<1>2. ASSUME NEW w \in Workers, NEW u \in Users, NEW op \in Ops,
             NEW r \in Requests \cup {NULL}, Authenticate(w, u, op, r)
      PROVE  TypeOK' /\ CallInv'
  <2> DEFINE c == [phase |-> "authenticated", op |-> op, request |-> r,
                   actor |-> u, loaded |-> NoRow, entry |-> 0]
  <2>1. c \in Call
    BY DEF Call, NoRow, FreezeRequest, Statuses
  <2>2. call' = [call EXCEPT ![w] = c] /\ UNCHANGED <<account, freeze, audit>>
    BY <1>2 DEF Authenticate
  <2>3. TypeOK'
    BY <2>1, <2>2 DEF TypeOK
  <2>4. op \in ApproverOps => u \in Approvers
    BY <1>2 DEF Authenticate, MayCall, Approvers
  <2>5. op = "create" <=> r = NULL
    BY <1>2 DEF Authenticate
  <2>. QED
    BY <2>2, <2>3, <2>4, <2>5 DEF CallInv, HoldsCopy, TypeOK
<1>3. ASSUME NEW w \in Workers, Load(w)
      PROVE  TypeOK' /\ CallInv'
  <2> DEFINE c == call[w]
             row == freeze[c.request]
  <2>1. c \in Call /\ c.phase = "authenticated" /\ c.op \in RowOps /\ Allowed(c.op, row, c.actor)
    BY <1>3 DEF Load, TypeOK
  <2>2. c.request # NULL
    BY <2>1 DEF CallInv, RowOps, ApproverOps
  <2>3. c.request \in Requests /\ row \in FreezeRequest
    BY <2>1, <2>2 DEF Call, TypeOK
  <2>4. /\ call' = [call EXCEPT ![w] = [c EXCEPT !.phase = "loaded", !.loaded = row]]
        /\ UNCHANGED <<account, freeze, audit>>
    BY <1>3 DEF Load, TypeOK
  <2>5. [c EXCEPT !.phase = "loaded", !.loaded = row] \in Call
    BY <2>1, <2>3 DEF Call
  <2>6. row.status # "none"
    BY <2>1 DEF RowOps, ApproverOps, Allowed, CanSubmit, CanApprove, CanReject, CanDispatch
  <2>7. TypeOK'
    BY <2>4, <2>5 DEF TypeOK
  <2>8. CallInv'
    BY <2>1, <2>4, <2>6, <2>7 DEF CallInv, HoldsCopy, TypeOK, Call
  <2>. QED
    BY <2>7, <2>8
<1>4. ASSUME NEW w \in Workers, Drop(w)
      PROVE  TypeOK' /\ CallInv'
  <2>1. call' = [call EXCEPT ![w] = Idle] /\ UNCHANGED <<account, freeze, audit>>
    BY <1>4 DEF Drop, Refuse, Abort
  <2>2. Idle \in Call
    BY DEF Idle, Call, Ops, NoRow, FreezeRequest, Statuses
  <2>3. TypeOK'
    BY <2>1, <2>2 DEF TypeOK
  <2>. QED
    BY <2>1, <2>3, CallInvKept DEF TypeOK
<1>5. ASSUME NEW w \in Workers, NEW r \in Requests, CreateRequest(w, r)
      PROVE  TypeOK' /\ CallInv'
  <2> DEFINE row == [NoRow EXCEPT !.status = "draft", !.requested_by = call[w].actor]
             entry == [action |-> "create", request |-> NULL, actor |-> call[w].actor,
                       committed |-> TRUE]
  <2>1. call[w].actor \in Users
    BY <1>5 DEF CreateRequest, CallInv
  <2>2. row \in FreezeRequest /\ entry \in AuditLog
    BY <2>1 DEF NoRow, FreezeRequest, Statuses, AuditLog, Ops
  <2>3. /\ freeze[r].status = "none"
        /\ freeze' = [freeze EXCEPT ![r] = row]
        /\ audit' = Append(audit, entry)
        /\ call' = [call EXCEPT ![w] = Idle]
        /\ UNCHANGED account
    BY <1>5 DEF CreateRequest
  <2>4. Idle \in Call
    BY DEF Idle, Call, Ops, NoRow, FreezeRequest, Statuses
  <2>5. TypeOK'
    BY <2>2, <2>3, <2>4 DEF TypeOK
  <2>. QED
    BY <2>3, <2>5, CallInvKept DEF TypeOK
<1>6. ASSUME NEW w \in Workers, NEW op \in RowOps, NEW changed \in FreezeRequest,
             Commit(w, op, changed), Change(w, op, changed)
      PROVE  TypeOK' /\ CallInv'
  <2> DEFINE c == call[w]
             row == Flush(freeze[c.request], c.loaded, changed)
  <2>1. /\ HoldsCopy(w)
        /\ freeze' = [freeze EXCEPT ![c.request] = row]
        /\ audit' = Committed(c.entry)
        /\ call' = [call EXCEPT ![w] = Idle]
        /\ UNCHANGED account
    BY <1>6 DEF Commit, Committed, HoldsCopy
  <2>2. /\ c.request \in Requests /\ c.actor \in Users
        /\ c.loaded \in FreezeRequest /\ freeze[c.request] \in FreezeRequest
    BY <2>1, LoadedCall
  <2>3. row \in FreezeRequest
    BY <2>2, FlushType
  <2>4. Idle \in Call
    BY DEF Idle, Call, Ops, NoRow, FreezeRequest, Statuses
  <2>5. audit' \in Seq(AuditLog)
    BY <2>1, CommittedLog
  <2>6. TypeOK'
    BY <2>1, <2>2, <2>3, <2>4, <2>5 DEF TypeOK
  <2>7. row.status # "none" /\ row.requested_by = freeze[c.request].requested_by
    BY <1>6 DEF Change, Flush, Column, Target, RowOps, ApproverOps
  <2>. QED
    BY <2>1, <2>2, <2>6, <2>7, CallInvKept DEF TypeOK
<1>7. ASSUME NEW w \in Workers, RecordAudit(w)
      PROVE  TypeOK' /\ CallInv'
  <2>0. PICK c \in Call : c = call[w]
    BY DEF TypeOK
  <2> DEFINE new == [c EXCEPT !.phase = "recorded", !.entry = Len(audit) + 1]
             e == [action |-> c.op, request |-> c.request, actor |-> c.actor,
                   committed |-> FALSE]
  <2>1. /\ HoldsCopy(w)
        /\ audit' = Append(audit, e)
        /\ call' = [call EXCEPT ![w] = new]
        /\ UNCHANGED <<account, freeze>>
    BY <1>7, <2>0 DEF RecordAudit, HoldsCopy, TypeOK
  <2>2. c.request \in Requests /\ c.actor \in Users /\ c.op \in RowOps
    BY <2>0, <2>1, LoadedCall
  <2>3. e \in AuditLog
    BY <2>2 DEF AuditLog, Ops
  <2>6. new \in Call
    <3>1. Len(audit) + 1 \in Nat
      BY DEF TypeOK
    <3>. QED
      BY <3>1 DEF Call
  <2>4. TypeOK'
    BY <2>1, <2>3, <2>6 DEF TypeOK
  <2>5. CallInv'
    BY <2>0, <2>1, <2>4 DEF CallInv, HoldsCopy, TypeOK, Call
  <2>. QED
    BY <2>4, <2>5
<1>8. ASSUME NEW w \in Workers, Rollback(w)
      PROVE  TypeOK' /\ CallInv'
  <2>1. /\ audit' = Replaced(call[w].entry, Gap)
        /\ call' = [call EXCEPT ![w] = Idle]
        /\ UNCHANGED <<account, freeze>>
    BY <1>8 DEF Rollback, Abort, Replaced
  <2>2. Idle \in Call /\ Gap \in AuditLog
    BY DEF Idle, Gap, Call, AuditLog, Ops, NoRow, FreezeRequest, Statuses
  <2>4. audit' \in Seq(AuditLog)
    BY <2>1, <2>2, ReplacedLog
  <2>3. TypeOK'
    BY <2>1, <2>2, <2>4 DEF TypeOK
  <2>. QED
    BY <2>1, <2>3, CallInvKept DEF TypeOK
<1>. QED
  BY <1>1, <1>2, <1>3, <1>4, <1>5, <1>6, <1>7, <1>8, StepCases

\* Type correctness, with the facts a call in flight carries.
THEOREM TypeCorrect == Spec => [](TypeOK /\ CallInv)
<1>. QED
  BY InitTypes, StepTypes, PTL DEF Spec

-----------------------------------------------------------------------------
(* Attribution. *)

LEMMA AttributionStep ==
    ASSUME TypeOK, CallInv, AttributionInv, [Next]_vars
    PROVE  AttributionInv'
<1> USE DEF AttributionInv, DecidedRowIsAttributed, HoldsCopy
<1>1. CASE UNCHANGED <<freeze, audit, call>>
  BY <1>1
<1>2. ASSUME NEW w \in Workers, NEW u \in Users, NEW op \in Ops,
             NEW r \in Requests \cup {NULL}, Authenticate(w, u, op, r)
      PROVE  AttributionInv'
  BY <1>2 DEF Authenticate, TypeOK
<1>3. ASSUME NEW w \in Workers, Load(w)
      PROVE  AttributionInv'
  <2> DEFINE c == call[w]
             row == freeze[c.request]
  <2>1. c \in Call /\ c.request # NULL
    BY <1>3 DEF Load, TypeOK, CallInv, RowOps, ApproverOps
  <2>2. c.request \in Requests /\ row \in FreezeRequest
    BY <2>1 DEF Call, TypeOK
  <2>3. /\ call' = [call EXCEPT ![w] = [c EXCEPT !.phase = "loaded", !.loaded = row]]
        /\ UNCHANGED freeze
    BY <1>3 DEF Load, TypeOK
  <2>4. /\ row.approved_by # NULL => row.approved_by \in Approvers
        /\ row.status = "approved" => row.approved_by # NULL
    BY <2>2, NullAssumption DEF Approvers
  <2>. QED
    BY <2>1, <2>2, <2>3, <2>4 DEF TypeOK, Call
<1>4. ASSUME NEW w \in Workers, Drop(w) \/ Rollback(w)
      PROVE  AttributionInv'
  BY <1>4 DEF Drop, Rollback, Refuse, Abort, Idle, TypeOK
<1>5. ASSUME NEW w \in Workers, NEW r \in Requests, CreateRequest(w, r)
      PROVE  AttributionInv'
  <2>1. /\ freeze[r].status = "none"
        /\ freeze' = [freeze EXCEPT ![r] = [NoRow EXCEPT !.status = "draft",
                                                         !.requested_by = call[w].actor]]
        /\ call' = [call EXCEPT ![w] = Idle]
    BY <1>5 DEF CreateRequest
  <2>2. \A v \in Workers : HoldsCopy(v)
           => call[v].request # r /\ call[v].request \in Requests
    BY <2>1, LoadedCall DEF CallInv
  <2>. QED
    BY <2>1, <2>2 DEF TypeOK, NoRow, Idle
<1>6. ASSUME NEW w \in Workers, NEW op \in RowOps, NEW changed \in FreezeRequest,
             Commit(w, op, changed), Change(w, op, changed)
      PROVE  AttributionInv'
  <2> DEFINE c == call[w]
             old == freeze[c.request]
             new == Flush(old, c.loaded, changed)
  <2>1. /\ HoldsCopy(w) /\ c.op = op
        /\ freeze' = [freeze EXCEPT ![c.request] = new]
        /\ call' = [call EXCEPT ![w] = Idle]
    BY <1>6 DEF Commit
  <2>2. /\ c.request \in Requests /\ c.actor \in Users
        /\ c.loaded \in FreezeRequest /\ old \in FreezeRequest
        /\ op \in {"approve", "reject", "dispatch"} => c.actor \in Approvers
    BY <2>1, LoadedCall DEF ApproverOps
  <2>3. old.approved_by \in Approvers => new.approved_by \in Approvers
    BY <1>6, <2>2 DEF Change, Flush, Column
  <2>4. old.rejection_reason = "reason" => new.rejection_reason = "reason"
    BY <1>6, <2>2 DEF Change, Flush, Column
  <2>5. new.approved_by \in Approvers \cup {NULL}
    BY <1>6, <2>2 DEF Change, Flush, Column
  <2>6. op \in {"approve", "reject"} => new.approved_by \in Approvers
    BY <1>6, <2>1, <2>2, NullAssumption DEF Change, Flush, Column, Approvers
  <2>7. op = "reject" => new.rejection_reason = "reason"
    BY <1>6, <2>1, <2>2 DEF Change, Flush, Column
  <2>8. op = "dispatch" => new.approved_by \in Approvers
    <3>1. op = "dispatch" => c.loaded.status = "approved"
      BY <2>1 DEF CallInv, Allowed, CanDispatch
    <3>. QED
      BY <2>1, <2>3, <3>1
  <2>9. new.status = Target(op)
    BY <1>6 DEF Change, Flush, Column
  <2>10. /\ new.status \in {"approved", "rejected", "dispatched"} => new.approved_by \in Approvers
         /\ new.status = "rejected" => new.rejection_reason = "reason"
    BY <2>6, <2>7, <2>8, <2>9 DEF Target, RowOps, ApproverOps
  <2>11. \A v \in Workers : HoldsCopy(v) => call[v].request \in Requests
    BY LoadedCall
  <2>. QED
    BY <2>1, <2>2, <2>3, <2>4, <2>5, <2>10, <2>11 DEF TypeOK, Idle
<1>7. ASSUME NEW w \in Workers, RecordAudit(w)
      PROVE  AttributionInv'
  <2>1. PICK c \in Call : c = call[w]
    BY DEF TypeOK
  <2>2. /\ c.phase = "loaded"
        /\ call' = [call EXCEPT ![w] = [c EXCEPT !.phase = "recorded",
                                                 !.entry = Len(audit) + 1]]
        /\ UNCHANGED freeze
    BY <1>7, <2>1 DEF RecordAudit, TypeOK
  <2>. QED
    BY <2>1, <2>2 DEF TypeOK, Call
<1>. QED
  BY <1>1, <1>2, <1>3, <1>4, <1>5, <1>6, <1>7, StepCases

\* Every decided row names an approver, and every rejected row its reason,
\* whatever stale copies were written over it.
THEOREM Attribution == Spec => []DecidedRowIsAttributed
<1>1. Init => AttributionInv
  BY DEF Init, AttributionInv, DecidedRowIsAttributed, HoldsCopy, NoRow, Idle
<1>. QED
  BY <1>1, TypeCorrect, AttributionStep, PTL DEF Spec, AttributionInv

-----------------------------------------------------------------------------
(* The audit log. *)

\* What is on record about r stays on record.
TrailKept(r) ==
    /\ Trail(r) \subseteq Trail(r)'
    /\ \A i \in Trail(r) : /\ audit'[i].action = audit[i].action
                           /\ audit'[i].actor = audit[i].actor
    /\ Trail(r) # {} => freeze'[r].requested_by = freeze[r].requested_by

DispatchExplained(r) ==
    \A i \in Trail(r) :
        audit[i].action = "dispatch" => \E j \in Trail(r) : j < i /\ Approves(j, r)

ApprovalOnRecord(r) ==
    freeze[r].status = "approved" => \E j \in Trail(r) : Approves(j, r)

LEMMA ApprovesKept ==
    ASSUME NEW r, TrailKept(r), NEW j \in Trail(r), Approves(j, r)
    PROVE  j \in Trail(r)' /\ Approves(j, r)'
<1>1. /\ j \in Trail(r)'
      /\ audit'[j].action = audit[j].action
      /\ audit'[j].actor = audit[j].actor
      /\ freeze'[r].requested_by = freeze[r].requested_by
  BY DEF TrailKept
<1>. QED
  BY <1>1 DEF Approves

\* A request whose row and entries a step leaves alone stays explained.
LEMMA ExplainedKept ==
    ASSUME NEW r, Trail(r)' = Trail(r), TrailKept(r), freeze'[r] = freeze[r],
           TrailExplains(r), DispatchExplained(r), ApprovalOnRecord(r)
    PROVE  TrailExplains(r)' /\ DispatchExplained(r)' /\ ApprovalOnRecord(r)'
<1>1. TrailExplains(r)'
  BY DEF TrailExplains, TrailKept
<1>2. DispatchExplained(r)'
  BY ApprovesKept DEF DispatchExplained, TrailKept
<1>3. ApprovalOnRecord(r)'
  BY ApprovesKept DEF ApprovalOnRecord
<1>. QED
  BY <1>1, <1>2, <1>3

\* A copy nobody touches stays on record.
LEMMA CopyKept ==
    ASSUME NEW v \in Workers, call'[v] = call[v], CopyOnRecord(v),
           HoldsCopy(v) => TrailKept(call[v].request)
    PROVE  CopyOnRecord(v)'
<1> DEFINE r == call[v].request
<1> SUFFICES ASSUME HoldsCopy(v)
             PROVE  CopyOnRecord(v)'
  BY DEF CopyOnRecord, HoldsCopy
<1>1. TrailKept(r)
  OBVIOUS
<1>2. ASSUME call[v].loaded.status = "approved"
      PROVE  \E j \in Trail(r)' : Approves(j, r)' /\ (call[v].phase = "recorded" => j < call[v].entry)
  BY <1>1, <1>2, ApprovesKept DEF CopyOnRecord
<1>3. ASSUME call[v].loaded.status = "pending_approval"
      PROVE  \E j \in Trail(r)' : /\ audit'[j].action = "submit"
                                  /\ call[v].phase = "recorded" => j < call[v].entry
  BY <1>1, <1>3 DEF CopyOnRecord, TrailKept
<1>4. call'[v].request = r
  OBVIOUS
<1>. QED
  BY <1>2, <1>3, <1>4 DEF CopyOnRecord, HoldsCopy

LEMMA DrawnKept ==
    ASSUME NEW v \in Workers, call'[v] = call[v], Drawn(v),
           \A i \in 1..Len(audit) : i \in 1..Len(audit'),
           call[v].phase = "recorded" => audit'[call[v].entry] = audit[call[v].entry]
    PROVE  Drawn(v)'
  BY DEF Drawn

\* The parts of LogInv that speak of one request at a time.
LEMMA LogParts ==
    LogInv <=>
      /\ EntriesNameRows
      /\ \A w \in Workers : Drawn(w) /\ CopyOnRecord(w)
      /\ DrawnOnce
      /\ \A r \in Requests : TrailExplains(r) /\ DispatchExplained(r) /\ ApprovalOnRecord(r)
  BY DEF LogInv, ApprovedOnRecord, TrailExplainsRow, DispatchIndependentlyApproved,
         DispatchExplained, ApprovalOnRecord

LEMMA JoinLog ==
    ASSUME EntriesNameRows',
           \A w \in Workers : (Drawn(w) /\ CopyOnRecord(w))',
           DrawnOnce',
           \A r \in Requests :
              (TrailExplains(r) /\ DispatchExplained(r) /\ ApprovalOnRecord(r))'
    PROVE  LogInv'
  BY DEF LogInv, ApprovedOnRecord, TrailExplainsRow, DispatchIndependentlyApproved,
         DispatchExplained, ApprovalOnRecord

\* A trail that nobody adds to.
LEMMA SameLog ==
    ASSUME UNCHANGED <<freeze, audit>>
    PROVE  /\ \A r : Trail(r)' = Trail(r) /\ TrailKept(r)
           /\ EntriesNameRows' = EntriesNameRows
<1>1. \A r : Trail(r)' = Trail(r)
  BY Zenon DEF Trail
<1>. QED
  BY <1>1 DEF TrailKept, EntriesNameRows

\* An append nobody can see yet, or that names no request.
LEMMA AppendedLog ==
    ASSUME TypeOK, NEW e \in AuditLog, audit' = Append(audit, e)
    PROVE  /\ Len(audit) \in Nat
           /\ Len(audit') = Len(audit) + 1
           /\ \A i \in 1..Len(audit) : i \in 1..Len(audit') /\ audit'[i] = audit[i]
           /\ \A i \in 1..Len(audit') : i \notin 1..Len(audit) => i = Len(audit) + 1
           /\ Len(audit) + 1 \in 1..Len(audit')
           /\ audit'[Len(audit) + 1] = e
  BY DEF TypeOK

LEMMA UnseenAppend ==
    ASSUME TypeOK, NEW e \in AuditLog, audit' = Append(audit, e),
           NEW r \in Requests, ~e.committed \/ e.request # r
    PROVE  Trail(r)' = Trail(r) /\ \A i \in Trail(r) : audit'[i] = audit[i]
<1>1. \A i \in 1..Len(audit') : i \in Trail(r)' <=> i \in Trail(r)
  BY AppendedLog DEF Trail
<1>2. \A i \in Trail(r) : i \in 1..Len(audit') /\ audit'[i] = audit[i]
  BY AppendedLog DEF Trail
<1>3. \A i : i \in Trail(r)' => i \in 1..Len(audit')
  BY DEF Trail
<1>. QED
  BY <1>1, <1>2, <1>3

\* A status that was logged was logged by the operation that sets it.
LEMMA LoggedBy ==
    ASSUME LogInv, NEW r \in Requests, freeze[r].status = "pending_approval"
    PROVE  \E j \in Trail(r) : audit[j].action = "submit"
<1>1. PICK j \in Trail(r) : "pending_approval" = Target(audit[j].action)
  BY LogParts DEF TrailExplains
<1>2. audit[j].action \in RowOps
  BY NullAssumption DEF LogInv, EntriesNameRows, Trail
<1>. QED
  BY <1>1, <1>2 DEF Target, RowOps, ApproverOps

LEMMA LogStepSame ==
    ASSUME TypeOK, CallInv, LogInv, UNCHANGED <<freeze, audit>>,
           \A v \in Workers : \/ call'[v] = call[v]
                              \/ call'[v].phase \in {"idle", "authenticated"}
                              \/ /\ call'[v].phase = "loaded"
                                 /\ call'[v].request \in Requests
                                 /\ call'[v].loaded = freeze[call'[v].request]
    PROVE  LogInv'
<1>1. \A r : Trail(r)' = Trail(r) /\ TrailKept(r)
  BY SameLog
<1>2. EntriesNameRows'
  BY SameLog DEF LogInv
<1>3. \A r \in Requests : (TrailExplains(r) /\ DispatchExplained(r) /\ ApprovalOnRecord(r))'
  BY <1>1, LogParts, ExplainedKept
<1>4. ASSUME NEW v \in Workers
      PROVE  (Drawn(v) /\ CopyOnRecord(v))'
  <2>1. CASE call'[v] = call[v]
    BY <1>1, <2>1, CopyKept, DrawnKept DEF LogInv
  <2>2. CASE call'[v].phase \in {"idle", "authenticated"}
    BY <2>2 DEF Drawn, CopyOnRecord, HoldsCopy
  <2>3. CASE /\ call'[v].phase = "loaded"
             /\ call'[v].request \in Requests
             /\ call'[v].loaded = freeze[call'[v].request]
    <3>1. PICK r \in Requests : r = call'[v].request
      BY <2>3
    <3>2. freeze[r].status = "approved" => \E j \in Trail(r)' : Approves(j, r)'
      BY <1>1, LogParts, ApprovesKept DEF ApprovalOnRecord
    <3>3. freeze[r].status = "pending_approval" => \E j \in Trail(r)' : audit'[j].action = "submit"
      BY <1>1, LoggedBy
    <3>. QED
      BY <2>3, <3>1, <3>2, <3>3 DEF Drawn, CopyOnRecord, HoldsCopy
  <2>. QED
    BY <2>1, <2>2, <2>3
<1>5. DrawnOnce'
  <2>1. \A v \in Workers : call'[v].phase = "recorded" => call'[v] = call[v]
    OBVIOUS
  <2>. QED
    BY <2>1 DEF LogInv, DrawnOnce
<1>. QED
  BY <1>2, <1>3, <1>4, <1>5, JoinLog

\* The INSERT of the entry: nobody sees it yet.
LEMMA LogStepRecord ==
    ASSUME TypeOK, CallInv, LogInv, NEW w \in Workers, RecordAudit(w)
    PROVE  LogInv'
<1>0. PICK c \in Call : c = call[w]
  BY DEF TypeOK
<1> DEFINE e == [action |-> c.op, request |-> c.request, actor |-> c.actor,
                 committed |-> FALSE]
           n == Len(audit) + 1
           new == [c EXCEPT !.phase = "recorded", !.entry = n]
<1>1. /\ c.phase = "loaded"
      /\ audit' = Append(audit, e)
      /\ call' = [call EXCEPT ![w] = new]
      /\ UNCHANGED <<account, freeze>>
  BY <1>0 DEF RecordAudit, TypeOK
<1>2. /\ c.request \in Requests /\ c.actor \in Users /\ c.op \in RowOps
      /\ freeze[c.request].status # "none"
  BY <1>0, <1>1, LoadedCall DEF HoldsCopy, CallInv
<1>3. e \in AuditLog
  BY <1>2 DEF AuditLog, Ops
<1>4. ASSUME NEW r \in Requests
      PROVE  Trail(r)' = Trail(r) /\ TrailKept(r)
  BY <1>1, <1>3, UnseenAppend DEF TrailKept
<1>5. EntriesNameRows'
  BY <1>1, <1>2, <1>3, AppendedLog DEF LogInv, EntriesNameRows
<1>6. \A r \in Requests : (TrailExplains(r) /\ DispatchExplained(r) /\ ApprovalOnRecord(r))'
  BY <1>1, <1>4, LogParts, ExplainedKept
<1>7. /\ new.phase = "recorded" /\ new.entry = n /\ new.op = c.op
      /\ new.request = c.request /\ new.actor = c.actor /\ new.loaded = c.loaded
  BY DEF Call
<1>8. call'[w] = new /\ \A v \in Workers : v # w => call'[v] = call[v]
  BY <1>1 DEF TypeOK
<1>9. ASSUME NEW v \in Workers, v # w
      PROVE  (Drawn(v) /\ CopyOnRecord(v))'
  <2>1. call'[v] = call[v] /\ Drawn(v) /\ CopyOnRecord(v)
    BY <1>8, <1>9 DEF LogInv
  <2>2. HoldsCopy(v) => TrailKept(call[v].request)
    BY <1>4, LoadedCall
  <2>3. call[v].phase = "recorded" => audit'[call[v].entry] = audit[call[v].entry]
    BY <1>1, <1>3, <2>1, AppendedLog DEF Drawn
  <2>4. \A i \in 1..Len(audit) : i \in 1..Len(audit')
    BY <1>1, <1>3, AppendedLog
  <2>. QED
    BY <2>1, <2>2, <2>3, <2>4, CopyKept, DrawnKept
<1>10. Drawn(w)'
  <2>1. n \in 1..Len(audit') /\ audit'[n] = e
    BY <1>1, <1>3, AppendedLog
  <2>2. /\ e.action = c.op /\ e.request = c.request
        /\ e.actor = c.actor /\ ~e.committed
    OBVIOUS
  <2> HIDE DEF e, n, new
  <2>. QED
    BY <1>7, <1>8, <2>1, <2>2 DEF Drawn
<1>11. CopyOnRecord(w)'
  <2> DEFINE r == c.request
  <2>1. \A i \in Trail(r) : i < n
    BY DEF Trail, TypeOK
  <2>2. CopyOnRecord(w) /\ HoldsCopy(w)
    BY <1>0, <1>1 DEF LogInv, HoldsCopy
  <2>3. c.loaded.status = "approved" => \E j \in Trail(r)' : Approves(j, r)' /\ j < n
    BY <1>0, <1>2, <1>4, <2>1, <2>2, ApprovesKept DEF CopyOnRecord
  <2>4. c.loaded.status = "pending_approval"
           => \E j \in Trail(r)' : audit'[j].action = "submit" /\ j < n
    BY <1>0, <1>2, <1>4, <2>1, <2>2 DEF CopyOnRecord, TrailKept
  <2>. QED
    BY <1>7, <1>8, <2>3, <2>4 DEF CopyOnRecord
<1>12. DrawnOnce'
  <2>1. \A v \in Workers : v # w /\ call'[v].phase = "recorded" => call'[v].entry # n
    BY <1>8, AppendedLog, <1>1, <1>3 DEF LogInv, Drawn
  <2>2. DrawnOnce
    BY DEF LogInv
  <2> HIDE DEF n, new
  <2>. QED
    BY <1>7, <1>8, <2>1, <2>2 DEF DrawnOnce
<1>. QED
  BY <1>5, <1>6, <1>9, <1>10, <1>11, <1>12, JoinLog

\* An id that is drawn and rolled back: the entry was never seen.
LEMMA LogStepRollback ==
    ASSUME TypeOK, CallInv, LogInv, NEW w \in Workers, Rollback(w)
    PROVE  LogInv'
<1> DEFINE n == call[w].entry
<1>1. /\ audit' = Replaced(n, Gap)
      /\ call' = [call EXCEPT ![w] = Idle]
      /\ UNCHANGED <<account, freeze>>
      /\ call[w].phase = "recorded"
  BY DEF Rollback, Abort, Replaced
<1>2. Gap \in AuditLog /\ Gap.request = NULL /\ ~Gap.committed
  BY DEF Gap, AuditLog, Ops
<1>3. /\ Len(audit') = Len(audit)
      /\ \A i \in 1..Len(audit) : audit'[i] = IF i = n THEN Gap ELSE audit[i]
  BY <1>1, <1>2, ReplacedLog
<1>4. n \in 1..Len(audit) /\ ~audit[n].committed
  BY <1>1 DEF LogInv, Drawn
<1>5. ASSUME NEW r \in Requests
      PROVE  Trail(r)' = Trail(r) /\ TrailKept(r)
  <2>1. \A i \in 1..Len(audit) : i \in Trail(r)' <=> i \in Trail(r)
    BY <1>2, <1>3, <1>4 DEF Trail
  <2>2. Trail(r)' \subseteq 1..Len(audit) /\ Trail(r) \subseteq 1..Len(audit)
    BY <1>3 DEF Trail
  <2>3. \A i \in Trail(r) : audit'[i] = audit[i]
    BY <1>3, <1>4 DEF Trail
  <2>. QED
    BY <1>1, <2>1, <2>2, <2>3 DEF TrailKept
<1>6. EntriesNameRows'
  BY <1>1, <1>2, <1>3 DEF LogInv, EntriesNameRows
<1>7. \A r \in Requests : (TrailExplains(r) /\ DispatchExplained(r) /\ ApprovalOnRecord(r))'
  BY <1>1, <1>5, LogParts, ExplainedKept
<1>8. call'[w] = Idle /\ \A v \in Workers : v # w => call'[v] = call[v]
  BY <1>1 DEF TypeOK
<1>9. ASSUME NEW v \in Workers, v # w
      PROVE  (Drawn(v) /\ CopyOnRecord(v))'
  <2>1. call'[v] = call[v] /\ Drawn(v) /\ CopyOnRecord(v)
    BY <1>8, <1>9 DEF LogInv
  <2>2. HoldsCopy(v) => TrailKept(call[v].request)
    BY <1>5, LoadedCall
  <2>3. call[v].phase = "recorded" => audit'[call[v].entry] = audit[call[v].entry]
    BY <1>1, <1>3, <1>9, <2>1 DEF Drawn, LogInv, DrawnOnce
  <2>. QED
    BY <1>3, <2>1, <2>2, <2>3, CopyKept, DrawnKept
<1>10. (Drawn(w) /\ CopyOnRecord(w))'
  BY <1>8 DEF Drawn, CopyOnRecord, HoldsCopy, Idle
<1>11. DrawnOnce'
  BY <1>8 DEF LogInv, DrawnOnce, Idle
<1>. QED
  BY <1>6, <1>7, <1>9, <1>10, <1>11, JoinLog

LEMMA LogStepCreate ==
    ASSUME TypeOK, CallInv, LogInv, NEW w \in Workers, NEW q \in Requests,
           CreateRequest(w, q)
    PROVE  LogInv'
<1> DEFINE e == [action |-> "create", request |-> NULL, actor |-> call[w].actor,
                 committed |-> TRUE]
<1>1. /\ freeze[q].status = "none"
      /\ freeze' = [freeze EXCEPT ![q] = [NoRow EXCEPT !.status = "draft",
                                                       !.requested_by = call[w].actor]]
      /\ audit' = Append(audit, e)
      /\ call' = [call EXCEPT ![w] = Idle]
  BY DEF CreateRequest
<1>2. e \in AuditLog
  BY DEF AuditLog, Ops, CreateRequest, CallInv
<1>3. /\ \A r \in Requests : r # q => freeze'[r] = freeze[r]
      /\ freeze'[q].status = "draft"
      /\ freeze'[q].approved_by = NULL /\ freeze'[q].rejection_reason = NULL
  BY <1>1 DEF TypeOK, NoRow
<1>4. Trail(q) = {}
  BY <1>1, NullAssumption DEF Trail, LogInv, EntriesNameRows
<1>5. ASSUME NEW r \in Requests
      PROVE  Trail(r)' = Trail(r) /\ TrailKept(r)
  <2>1. Trail(r)' = Trail(r) /\ \A i \in Trail(r) : audit'[i] = audit[i]
    BY <1>1, <1>2, NullAssumption, UnseenAppend
  <2>. QED
    BY <1>3, <1>4, <2>1 DEF TrailKept
<1>6. EntriesNameRows'
  BY <1>1, <1>2, <1>3, AppendedLog DEF LogInv, EntriesNameRows
<1>7. ASSUME NEW r \in Requests
      PROVE  (TrailExplains(r) /\ DispatchExplained(r) /\ ApprovalOnRecord(r))'
  <2>1. CASE r = q
    BY <1>3, <1>4, <1>5, <2>1 DEF TrailExplains, DispatchExplained, ApprovalOnRecord
  <2>2. CASE r # q
    BY <1>3, <1>5, <2>2, LogParts, ExplainedKept
  <2>. QED
    BY <2>1, <2>2
<1>8. call'[w] = Idle /\ \A v \in Workers : v # w => call'[v] = call[v]
  BY <1>1 DEF TypeOK
<1>9. ASSUME NEW v \in Workers, v # w
      PROVE  (Drawn(v) /\ CopyOnRecord(v))'
  <2>1. call'[v] = call[v] /\ Drawn(v) /\ CopyOnRecord(v)
    BY <1>8, <1>9 DEF LogInv
  <2>2. HoldsCopy(v) => TrailKept(call[v].request)
    BY <1>5, LoadedCall
  <2>3. call[v].phase = "recorded" => audit'[call[v].entry] = audit[call[v].entry]
    BY <1>1, <1>2, <2>1, AppendedLog DEF Drawn
  <2>4. \A i \in 1..Len(audit) : i \in 1..Len(audit')
    BY <1>1, <1>2, AppendedLog
  <2>. QED
    BY <2>1, <2>2, <2>3, <2>4, CopyKept, DrawnKept
<1>10. (Drawn(w) /\ CopyOnRecord(w))'
  BY <1>8 DEF Drawn, CopyOnRecord, HoldsCopy, Idle
<1>11. DrawnOnce'
  BY <1>8 DEF LogInv, DrawnOnce, Idle
<1>. QED
  BY <1>6, <1>7, <1>9, <1>10, <1>11, JoinLog

\* The commit: the entry joins the trail of its request, wherever its id
\* stands among those of the entries committed before.
LEMMA LogStepCommit ==
    ASSUME TypeOK, CallInv, LogInv, NEW w \in Workers, NEW op \in RowOps,
           NEW changed \in FreezeRequest, Commit(w, op, changed), Change(w, op, changed)
    PROVE  LogInv'
<1> DEFINE c == call[w]
           old == freeze[c.request]
           new == Flush(old, c.loaded, changed)
<1>23. PICK n : n = c.entry
  OBVIOUS
<1>1. /\ c.phase = "recorded" /\ c.op = op
      /\ freeze' = [freeze EXCEPT ![c.request] = new]
      /\ audit' = Committed(n)
      /\ call' = [call EXCEPT ![w] = Idle]
  BY <1>23 DEF Commit, Committed
<1>2. /\ c.request \in Requests /\ c.actor \in Users
      /\ c.loaded \in FreezeRequest /\ old \in FreezeRequest
      /\ op \in ApproverOps => c.actor \in Approvers
      /\ Allowed(op, c.loaded, c.actor)
      /\ c.loaded.requested_by = old.requested_by
      /\ HoldsCopy(w)
  BY <1>1, LoadedCall DEF HoldsCopy, CallInv
<1>0. PICK q \in Requests, a \in Users : q = c.request /\ a = c.actor
  BY <1>2
<1>3. /\ new.status = Target(op) /\ new.status \notin {"none", "draft"}
      /\ new.requested_by = old.requested_by
  BY DEF Change, Flush, Column, Target, RowOps, ApproverOps
<1>4. /\ new.approved_by = old.approved_by
         \/ (op \in {"approve", "reject"} /\ new.approved_by = a)
      /\ new.rejection_reason = old.rejection_reason \/ op = "reject"
  BY <1>0, <1>2 DEF Change, Flush, Column
<1>5. /\ \A r \in Requests : r # q => freeze'[r] = freeze[r]
      /\ freeze'[q] = new
  BY <1>0, <1>1 DEF TypeOK
<1>6. /\ n \in 1..Len(audit) /\ audit[n].action = op /\ audit[n].request = q
      /\ audit[n].actor = a /\ ~audit[n].committed
  BY <1>0, <1>1, <1>23 DEF LogInv, Drawn
<1>7. /\ Len(audit') = Len(audit)
      /\ \A i \in 1..Len(audit) :
            /\ audit'[i].action = audit[i].action
            /\ audit'[i].request = audit[i].request
            /\ audit'[i].actor = audit[i].actor
            /\ audit'[i].committed <=> (i = n \/ audit[i].committed)
            /\ i # n => audit'[i] = audit[i]
  BY <1>1, CommittedLog
<1>8. Trail(q)' = Trail(q) \cup {n} /\ n \notin Trail(q)
  BY <1>6, <1>7 DEF Trail
<1>9. ASSUME NEW r \in Requests, r # q
      PROVE  Trail(r)' = Trail(r)
  BY <1>6, <1>7, <1>9 DEF Trail
<1>10. ASSUME NEW r \in Requests
       PROVE  TrailKept(r)
  <2>1. \A i \in Trail(r) : i \in 1..Len(audit)
    BY DEF Trail
  <2>2. freeze'[r].requested_by = freeze[r].requested_by
    BY <1>0, <1>3, <1>5
  <2>. QED
    BY <1>7, <1>8, <1>9, <2>1, <2>2 DEF TrailKept
<1>11. EntriesNameRows'
  <2>1. \A r \in Requests : freeze[r].status # "none" => freeze'[r].status # "none"
    BY <1>3, <1>5
  <2>. QED
    BY <1>7, <2>1 DEF LogInv, EntriesNameRows
<1>12. CopyOnRecord(w)
  BY DEF LogInv
<1>13. TrailExplains(q) /\ DispatchExplained(q) /\ ApprovalOnRecord(q)
  BY LogParts
<1>14. n \in Trail(q)' /\ audit'[n].action = op /\ audit'[n].actor = a
  BY <1>6, <1>7, <1>8
<1>15. TrailExplains(q)'
  <2>1. (freeze[q].status \in {"none", "draft"} <=> Trail(q) = {})'
    BY <1>3, <1>5, <1>8
  <2>2. \E i \in Trail(q)' : freeze'[q].status = Target(audit'[i].action)
    BY <1>3, <1>5, <1>14
  <2>3. freeze'[q].approved_by # NULL
           => \E i \in Trail(q)' : /\ audit'[i].action \in {"approve", "reject"}
                                   /\ audit'[i].actor = freeze'[q].approved_by
    <3>1. CASE new.approved_by = old.approved_by
      BY <1>0, <1>5, <1>10, <1>13, <3>1 DEF TrailExplains, TrailKept
    <3>2. CASE op \in {"approve", "reject"} /\ new.approved_by = a
      BY <1>5, <1>14, <3>2
    <3>. QED
      BY <1>4, <3>1, <3>2
  <2>4. freeze'[q].rejection_reason # NULL
           => \E i \in Trail(q)' : audit'[i].action = "reject"
    <3>1. CASE new.rejection_reason = old.rejection_reason
      BY <1>0, <1>5, <1>10, <1>13, <3>1 DEF TrailExplains, TrailKept
    <3>2. CASE op = "reject"
      BY <1>14, <3>2
    <3>. QED
      BY <1>4, <3>1, <3>2
  <2>5. ASSUME NEW i \in Trail(q)', audit'[i].action = "approve"
        PROVE  \E j \in Trail(q)' : j < i /\ audit'[j].action = "submit"
    <3>1. CASE i \in Trail(q)
      <4>1. audit[i].action = "approve"
        BY <1>10, <2>5, <3>1 DEF TrailKept
      <4>2. PICK j \in Trail(q) : j < i /\ audit[j].action = "submit"
        BY <1>13, <3>1, <4>1 DEF TrailExplains
      <4>. QED
        BY <1>10, <4>2 DEF TrailKept
    <3>2. CASE i = n
      <4>1. c.loaded.status = "pending_approval"
        BY <1>2, <1>14, <2>5, <3>2 DEF Allowed, CanApprove
      <4>2. PICK j \in Trail(q) : audit[j].action = "submit" /\ j < n
        BY <1>0, <1>1, <1>2, <1>12, <1>23, <4>1 DEF CopyOnRecord
      <4>. QED
        BY <1>10, <3>2, <4>2 DEF TrailKept
    <3>. QED
      BY <1>8, <3>1, <3>2
  <2>. QED
    BY <2>1, <2>2, <2>3, <2>4, <2>5 DEF TrailExplains
<1>16. DispatchExplained(q)'
  <2> SUFFICES ASSUME NEW i \in Trail(q)', audit'[i].action = "dispatch"
               PROVE  \E j \in Trail(q)' : j < i /\ Approves(j, q)'
    BY DEF DispatchExplained
  <2>1. CASE i \in Trail(q)
    <3>1. audit[i].action = "dispatch"
      BY <1>10, <2>1 DEF TrailKept
    <3>2. PICK j \in Trail(q) : j < i /\ Approves(j, q)
      BY <1>13, <2>1, <3>1 DEF DispatchExplained
    <3>. QED
      BY <1>10, <3>2, ApprovesKept
  <2>2. CASE i = n
    <3>1. c.loaded.status = "approved"
      BY <1>2, <1>14, <2>2 DEF Allowed, CanDispatch
    <3>2. PICK j \in Trail(q) : Approves(j, q) /\ j < n
      BY <1>0, <1>1, <1>2, <1>12, <1>23, <3>1 DEF CopyOnRecord
    <3>. QED
      BY <1>10, <2>2, <3>2, ApprovesKept
  <2>. QED
    BY <1>8, <2>1, <2>2
<1>17. ApprovalOnRecord(q)'
  <2> SUFFICES ASSUME op = "approve"
               PROVE  ApprovalOnRecord(q)'
    BY <1>3, <1>5 DEF ApprovalOnRecord, Target, RowOps, ApproverOps
  <2>1. a \in Approvers /\ a # freeze'[q].requested_by
    BY <1>0, <1>2, <1>3, <1>5 DEF ApproverOps, Allowed, CanApprove
  <2>2. Approves(n, q)'
    BY <1>14, <2>1 DEF Approves
  <2>. QED
    BY <1>14, <2>2 DEF ApprovalOnRecord
<1>18. ASSUME NEW r \in Requests
       PROVE  (TrailExplains(r) /\ DispatchExplained(r) /\ ApprovalOnRecord(r))'
  <2>1. CASE r = q
    BY <1>15, <1>16, <1>17, <2>1
  <2>2. CASE r # q
    BY <1>5, <1>9, <1>10, <2>2, LogParts, ExplainedKept
  <2>. QED
    BY <2>1, <2>2
<1>19. call'[w] = Idle /\ \A v \in Workers : v # w => call'[v] = call[v]
  BY <1>1 DEF TypeOK
<1>20. ASSUME NEW v \in Workers, v # w
       PROVE  (Drawn(v) /\ CopyOnRecord(v))'
  <2>1. call'[v] = call[v] /\ Drawn(v) /\ CopyOnRecord(v)
    BY <1>19, <1>20 DEF LogInv
  <2>2. HoldsCopy(v) => TrailKept(call[v].request)
    BY <1>10, LoadedCall
  <2>3. call[v].phase = "recorded" => audit'[call[v].entry] = audit[call[v].entry]
    BY <1>1, <1>7, <1>20, <1>23, <2>1 DEF Drawn, LogInv, DrawnOnce
  <2>. QED
    BY <1>7, <2>1, <2>2, <2>3, CopyKept, DrawnKept
<1>21. (Drawn(w) /\ CopyOnRecord(w))'
  BY <1>19 DEF Drawn, CopyOnRecord, HoldsCopy, Idle
<1>22. DrawnOnce'
  BY <1>19 DEF LogInv, DrawnOnce, Idle
<1>. QED
  BY <1>11, <1>18, <1>20, <1>21, <1>22, JoinLog

LEMMA LogStep ==
    ASSUME TypeOK, CallInv, LogInv, [Next]_vars
    PROVE  LogInv'
<1>1. CASE UNCHANGED <<freeze, audit, call>>
  BY <1>1, LogStepSame
<1>2. ASSUME NEW w \in Workers, NEW u \in Users, NEW op \in Ops,
             NEW r \in Requests \cup {NULL}, Authenticate(w, u, op, r)
      PROVE  LogInv'
  <2>1. /\ UNCHANGED <<freeze, audit>>
        /\ call'[w].phase = "authenticated"
        /\ \A v \in Workers : v # w => call'[v] = call[v]
    BY <1>2 DEF Authenticate, TypeOK
  <2>. QED
    BY <2>1, LogStepSame
<1>3. ASSUME NEW w \in Workers, Load(w)
      PROVE  LogInv'
  <2>1. PICK c \in Call : c = call[w]
    BY DEF TypeOK
  <2>2. c.request \in Requests
    BY <1>3, <2>1 DEF Load, CallInv, Call, RowOps, ApproverOps
  <2>3. /\ call' = [call EXCEPT ![w] = [c EXCEPT !.phase = "loaded",
                                                !.loaded = freeze[c.request]]]
        /\ UNCHANGED <<freeze, audit>>
    BY <1>3, <2>1 DEF Load, TypeOK
  <2>4. /\ \A v \in Workers : v # w => call'[v] = call[v]
        /\ call'[w].phase = "loaded" /\ call'[w].request = c.request
        /\ call'[w].loaded = freeze[c.request]
    BY <2>3 DEF TypeOK, Call
  <2>. QED
    BY <2>2, <2>3, <2>4, LogStepSame
<1>4. ASSUME NEW w \in Workers, Drop(w)
      PROVE  LogInv'
  <2>1. /\ UNCHANGED <<freeze, audit>>
        /\ call'[w].phase = "idle"
        /\ \A v \in Workers : v # w => call'[v] = call[v]
    BY <1>4 DEF Drop, Refuse, Abort, TypeOK, Idle
  <2>. QED
    BY <2>1, LogStepSame
<1>. QED
  BY <1>1, <1>2, <1>3, <1>4, StepCases,
     LogStepRecord, LogStepRollback, LogStepCreate, LogStepCommit

LEMMA InitLog == Init => LogInv
<1> SUFFICES ASSUME Init PROVE LogInv
  OBVIOUS
<1>1. \A r : Trail(r) = {}
  BY DEF Init, Trail
<1>2. \A r \in Requests : TrailExplains(r) /\ DispatchExplained(r) /\ ApprovalOnRecord(r)
  BY <1>1 DEF Init, TrailExplains, DispatchExplained, ApprovalOnRecord, NoRow
<1>3. EntriesNameRows /\ DrawnOnce /\ \A w \in Workers : Drawn(w) /\ CopyOnRecord(w)
  BY DEF Init, EntriesNameRows, DrawnOnce, Drawn, CopyOnRecord, HoldsCopy, Idle
<1>. QED
  BY <1>2, <1>3, LogParts

LEMMA LogCorrect == Spec => []LogInv
  BY InitLog, TypeCorrect, LogStep, PTL DEF Spec

\* Nothing is dispatched without an approval, on record before it, by an
\* approver who did not raise the request: however many handlers race.
THEOREM IndependentApproval == Spec => []DispatchIndependentlyApproved
  BY LogCorrect, PTL DEF LogInv

\* Every value a row shows was logged by the officer who set it, and an
\* approval is logged after the submission it needed, although the ids of the
\* log are not in the order of the commits.
THEOREM TrailExplainsRows == Spec => []TrailExplainsRow
  BY LogCorrect, PTL DEF LogInv

\* The log accounts for every row, and the row itself names who decided it,
\* however many handlers race and whatever they write over each other.
THEOREM RowsAreExplained == Spec => []RowIsExplained
  BY TrailExplainsRows, Attribution, PTL DEF RowIsExplained

-----------------------------------------------------------------------------
(* One worker: the documented lifecycle. *)

\* With nobody else to commit, a loaded copy is the row.
LoadedIsCurrent ==
    \A w \in Workers :
        HoldsCopy(w) => call[w].loaded = freeze[call[w].request]

OneWorker == \A v, w \in Workers : v = w

LEMMA SerialStep ==
    ASSUME OneWorker, TypeOK, CallInv, LoadedIsCurrent, [Next]_vars
    PROVE  LoadedIsCurrent'
<1>1. CASE UNCHANGED <<freeze, audit, call>>
  BY <1>1 DEF LoadedIsCurrent, HoldsCopy
<1>2. ASSUME NEW w \in Workers, call' = [call EXCEPT ![w] = Idle]
      PROVE  LoadedIsCurrent'
  BY <1>2 DEF LoadedIsCurrent, HoldsCopy, OneWorker, TypeOK, Idle
<1>3. ASSUME NEW w \in Workers, NEW u \in Users, NEW op \in Ops,
             NEW r \in Requests \cup {NULL}, Authenticate(w, u, op, r)
      PROVE  LoadedIsCurrent'
  BY <1>3 DEF Authenticate, LoadedIsCurrent, HoldsCopy, OneWorker, TypeOK
<1>4. ASSUME NEW w \in Workers, Load(w)
      PROVE  LoadedIsCurrent'
  <2>1. call[w] \in Call
    BY DEF TypeOK
  <2>2. /\ call' = [call EXCEPT ![w] = [call[w] EXCEPT !.phase = "loaded",
                                                      !.loaded = freeze[call[w].request]]]
        /\ UNCHANGED freeze
    BY <1>4 DEF Load, TypeOK
  <2>. QED
    BY <2>1, <2>2 DEF LoadedIsCurrent, HoldsCopy, OneWorker, TypeOK, Call
<1>5. ASSUME NEW w \in Workers, RecordAudit(w)
      PROVE  LoadedIsCurrent'
  <2>1. PICK c \in Call : c = call[w]
    BY DEF TypeOK
  <2>2. /\ call' = [call EXCEPT ![w] = [c EXCEPT !.phase = "recorded",
                                                 !.entry = Len(audit) + 1]]
        /\ c.phase = "loaded" /\ UNCHANGED freeze
    BY <1>5, <2>1 DEF RecordAudit, TypeOK
  <2>. QED
    BY <2>1, <2>2 DEF LoadedIsCurrent, HoldsCopy, OneWorker, TypeOK, Call
<1>. QED
  BY <1>1, <1>2, <1>3, <1>4, <1>5, StepCases
     DEF Drop, Rollback, Refuse, Abort, CreateRequest, Commit

\* A commit over the row it loaded is the lifecycle's step.
LEMMA SerialCommit ==
    ASSUME TypeOK, CallInv, LoadedIsCurrent, NEW w \in Workers, NEW op \in RowOps,
           NEW changed \in FreezeRequest, Commit(w, op, changed), Change(w, op, changed)
    PROVE  Lifecycle!Next
<1> DEFINE c == call[w]
           old == freeze[c.request]
           new == Flush(old, c.loaded, changed)
<1>1. /\ HoldsCopy(w) /\ c.op = op
      /\ freeze' = [freeze EXCEPT ![c.request] = new]
  BY DEF Commit, HoldsCopy
<1>2. /\ c.request \in Requests /\ c.actor \in Users /\ c.loaded = old
      /\ old \in FreezeRequest
      /\ Allowed(op, old, c.actor)
      /\ op \in ApproverOps => c.actor \in Approvers
  BY <1>1, LoadedCall DEF LoadedIsCurrent, CallInv
<1>3. /\ new.status = Target(op)
      /\ new.requested_by = old.requested_by
      /\ op \in {"approve", "reject"} => new.approved_by = c.actor
      /\ op \notin {"approve", "reject"} => new.approved_by = old.approved_by
  BY <1>2 DEF Change, Flush, Column
<1>0. PICK r \in Requests, a \in Users : r = c.request /\ a = c.actor
  BY <1>2
<1> DEFINE status == [q \in Requests |-> freeze[q].status]
           requester == [q \in Requests |-> freeze[q].requested_by]
           decider == [q \in Requests |-> freeze[q].approved_by]
<1>4. /\ status[r] = old.status
      /\ requester[r] = old.requested_by
      /\ status' = [status EXCEPT ![r] = Target(op)]
      /\ requester' = requester
      /\ decider' = [decider EXCEPT ![r] = new.approved_by]
      /\ op \in {"approve", "reject"} => new.approved_by = a
      /\ Allowed(op, old, a)
      /\ op \in ApproverOps => a \in Approvers
  BY <1>0, <1>1, <1>2, <1>3 DEF TypeOK
<1>5. op \notin {"approve", "reject"} => decider' = decider
  <2>1. decider[r] = old.approved_by /\ DOMAIN decider = Requests
    BY <1>0
  <2>2. op \notin {"approve", "reject"} => decider' = [decider EXCEPT ![r] = decider[r]]
    BY <1>3, <1>4, <2>1
  <2>. QED
    BY <2>2
<1>6. CASE op = "submit"
  <2>1. Lifecycle!Submit(r)
    BY <1>4, <1>5, <1>6 DEF Lifecycle!Submit, Lifecycle!Move, Allowed, CanSubmit, Target
  <2>. QED
    BY <2>1 DEF Lifecycle!Next
<1>7. CASE op = "approve"
  <2>1. Lifecycle!Approve(r, a)
    BY <1>4, <1>7
       DEF Lifecycle!Approve, Lifecycle!Move, Allowed, CanApprove, Target, ApproverOps
  <2>. QED
    BY <2>1 DEF Lifecycle!Next
<1>8. CASE op = "reject"
  <2>1. Lifecycle!Reject(r, a)
    BY <1>4, <1>8
       DEF Lifecycle!Reject, Lifecycle!Move, Allowed, CanReject, Target, ApproverOps
  <2>. QED
    BY <2>1 DEF Lifecycle!Next
<1>9. CASE op = "dispatch"
  <2>1. Lifecycle!Dispatch(r)
    BY <1>4, <1>5, <1>9 DEF Lifecycle!Dispatch, Lifecycle!Move, Allowed, CanDispatch, Target
  <2>. QED
    BY <2>1 DEF Lifecycle!Next
<1>. QED
  BY <1>6, <1>7, <1>8, <1>9 DEF RowOps, ApproverOps

\* A request that was never drafted has no values either.
UnbornIsEmpty ==
    \A r \in Requests : freeze[r].status = "none" => freeze[r] = NoRow

LEMMA UnbornStep ==
    ASSUME TypeOK, CallInv, UnbornIsEmpty, [Next]_vars
    PROVE  UnbornIsEmpty'
<1>1. CASE UNCHANGED freeze
  BY <1>1 DEF UnbornIsEmpty
<1>2. ASSUME NEW w \in Workers, NEW r \in Requests, CreateRequest(w, r)
      PROVE  UnbornIsEmpty'
  BY <1>2 DEF CreateRequest, UnbornIsEmpty, TypeOK, NoRow
<1>3. ASSUME NEW w \in Workers, NEW op \in RowOps, NEW changed \in FreezeRequest,
             Commit(w, op, changed), Change(w, op, changed)
      PROVE  UnbornIsEmpty'
  <2> DEFINE new == Flush(freeze[call[w].request], call[w].loaded, changed)
  <2>1. new.status # "none"
    BY <1>3 DEF Change, Flush, Column, Target, RowOps, ApproverOps
  <2>2. freeze' = [freeze EXCEPT ![call[w].request] = new] /\ call[w].request \in Requests
    BY <1>3, LoadedCall DEF Commit, HoldsCopy
  <2>. QED
    BY <2>1, <2>2 DEF UnbornIsEmpty, TypeOK
<1>. QED
  BY <1>1, <1>2, <1>3, StepCases
     DEF Authenticate, Load, Drop, Rollback, RecordAudit, Refuse, Abort

LEMMA SerialCreate ==
    ASSUME TypeOK, CallInv, UnbornIsEmpty, NEW w \in Workers, NEW r \in Requests,
           CreateRequest(w, r)
    PROVE  Lifecycle!Next
<1> DEFINE status == [q \in Requests |-> freeze[q].status]
           requester == [q \in Requests |-> freeze[q].requested_by]
           decider == [q \in Requests |-> freeze[q].approved_by]
<1>1. PICK u \in Users : u = call[w].actor
  BY DEF CreateRequest, CallInv
<1>2. PICK row : /\ row.status = "draft"
                 /\ row.requested_by = u
                 /\ row.approved_by = NULL
                 /\ freeze' = [freeze EXCEPT ![r] = row]
  BY <1>1 DEF CreateRequest, NoRow
<1>3. /\ status[r] = "none"
      /\ status' = [status EXCEPT ![r] = "draft"]
      /\ requester' = [requester EXCEPT ![r] = u]
  BY <1>2 DEF TypeOK, CreateRequest
<1>4. decider' = decider
  <2>1. freeze[r].approved_by = NULL
    BY DEF CreateRequest, UnbornIsEmpty, NoRow
  <2>2. \A q \in Requests : freeze'[q].approved_by = freeze[q].approved_by
    BY <1>2, <2>1 DEF TypeOK
  <2>. QED
    BY <2>2
<1>5. Lifecycle!Draft(r, u)
  BY <1>3, <1>4 DEF Lifecycle!Draft, Lifecycle!Move
<1>. QED
  BY <1>5 DEF Lifecycle!Next

LEMMA SerialNext ==
    ASSUME TypeOK, CallInv, LoadedIsCurrent, UnbornIsEmpty, [Next]_vars
    PROVE  [Lifecycle!Next]_(Lifecycle!vars)
<1>1. CASE UNCHANGED freeze
  BY <1>1 DEF Lifecycle!vars
<1>2. CASE ~UNCHANGED freeze
  BY <1>2, StepCases, SerialCommit, SerialCreate
     DEF Authenticate, Load, Drop, Rollback, RecordAudit, Refuse, Abort
<1>. QED
  BY <1>1, <1>2

\* A single worker implements the lifecycle: handlers that never overlap
\* only ever draft, submit, decide and dispatch as the documentation says.
THEOREM SerialRefinement == OneWorker => (Spec => SerialLifecycle)
<1> SUFFICES ASSUME OneWorker PROVE Spec => SerialLifecycle
  OBVIOUS
<1>1. Init => LoadedIsCurrent /\ UnbornIsEmpty
  BY DEF Init, LoadedIsCurrent, HoldsCopy, UnbornIsEmpty, Idle
<1>2. Init => Lifecycle!Init
  BY DEF Init, Lifecycle!Init, NoRow
<1>3. TypeOK /\ CallInv /\ LoadedIsCurrent /\ UnbornIsEmpty /\ [Next]_vars
         => LoadedIsCurrent' /\ UnbornIsEmpty'
  BY SerialStep, UnbornStep
<1>4. TypeOK /\ CallInv /\ LoadedIsCurrent /\ UnbornIsEmpty /\ [Next]_vars
         => [Lifecycle!Next]_(Lifecycle!vars)
  BY SerialNext
<1>. QED
  BY <1>1, <1>2, <1>3, <1>4, TypeCorrect, PTL DEF Spec, SerialLifecycle, Lifecycle!Spec
=============================================================================
