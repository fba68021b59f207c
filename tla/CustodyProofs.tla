---------------------------- MODULE CustodyProofs ----------------------------
(***************************************************************************)
(* Proofs about Custody, for any number of officers, workers and calls.    *)
(***************************************************************************)
EXTENDS Custody, TLAPS

Busy(w) == call[w].at # "idle"

\* Where a call of each kind can be.
Places(op) ==
    CASE op = "note"    -> {"began"}
      [] op = "upload"  -> {"began", "written"}
      [] op = "report"  -> {"began", "noted", "gathered", "written", "committed"}
      [] op = "str"     -> {"began", "committed"}
      [] op = "approve" -> {"began", "reviewed"}
      [] op = "verify"  -> {"began", "found"}

\* A call in flight has an officer, a number of its own, and an approver's
\* authority if it approves.
CallInv ==
    \A w \in Workers : Busy(w) =>
        /\ call[w].id \in 1..calls /\ call[w].by \in Users
        /\ call[w].at \in Places(call[w].op)
        /\ call[w].op = "approve" => call[w].by \in Approvers
        /\ \A v \in Workers : Busy(v) /\ v # w => call[v].id # call[w].id

\* What a call acts upon exists, and was touched if it was touched when asked.
ArgInv ==
    \A w \in Workers : Busy(w) =>
        /\ call[w].op = "approve" => call[w].arg \in {d \in Ids : drafts[d].status # "none"}
        /\ call[w].op = "verify"  => call[w].arg \in IdsOf(evidence) \cup IdsOf(reports)
        /\ call[w].op = "verify" /\ call[w].altered => call[w].arg \in touched

\* A call changes its own entry only: it ends, or it goes on with what it began
\* with.
GoesOn(w, c) ==
    /\ Busy(w) /\ call[w].at # "committed"
    /\ c.at # "idle" /\ c.at \in Places(c.op)
    /\ c.op = call[w].op /\ c.id = call[w].id /\ c.by = call[w].by
    /\ c.arg = call[w].arg /\ c.due = call[w].due /\ c.altered = call[w].altered

Works(w) == Attach(w) \/ Export(w) \/ Review(w) \/ Verify(w) \/ Fail(w) \/ WriteFails(w)

LEMMA IdleType == Idle \in Call
BY MaxCallsAssumption DEF Idle, Call, Ops, Ids

LEMMA WorkingSteps ==
    ASSUME TypeOK, CallInv, NEW w \in Workers, Works(w)
    PROVE  \E c \in Call : /\ c = Idle \/ GoesOn(w, c)
                           /\ call' = [call EXCEPT ![w] = c]
                           /\ calls' = calls
<1>1. call[w] \in Call  BY DEF TypeOK
<1>2. ASSUME End(w), calls' = calls
      PROVE  \E c \in Call : c = Idle /\ call' = [call EXCEPT ![w] = c] /\ calls' = calls
  BY <1>2, IdleType DEF End
<1>3. ASSUME NEW where \in {"noted", "gathered", "written", "committed", "found", "reviewed"},
             GoTo(w, where), Busy(w), calls' = calls, where \in Places(call[w].op),
             call[w].at # "committed"
      PROVE  \E c \in Call : /\ GoesOn(w, c)
                             /\ call' = [call EXCEPT ![w] = c] /\ calls' = calls
  <2>1. PICK c \in Call : c = [call[w] EXCEPT !.at = where]  BY <1>1 DEF Call
  <2>2. call' = [call EXCEPT ![w] = c]  BY <1>3, <2>1 DEF GoTo
  <2>3. GoesOn(w, c)  BY <1>1, <1>3, <2>1 DEF GoesOn, Places, Call
  <2>4. QED  BY <1>3, <2>2, <2>3
<1>4. CASE AddNote(w)         BY <1>2, <1>4 DEF AddNote
<1>5. CASE RefuseUpload(w)    BY <1>2, <1>5 DEF RefuseUpload
<1>6. CASE StoreExhibit(w)
  BY <1>3, <1>6 DEF StoreExhibit, At, Busy, Places
<1>7. CASE RecordExhibit(w)   BY <1>2, <1>7 DEF RecordExhibit
<1>8. CASE GatherNotes(w)
  <2>1. PICK c \in Call : c = [call[w] EXCEPT !.at = "noted", !.notes = IdsOf(notes)]
    <3>1. IdsOf(notes) \in SUBSET Ids  BY DEF TypeOK, IdsOf
    <3>2. QED  BY <1>1, <3>1 DEF Call
  <2>2. call' = [call EXCEPT ![w] = c]  BY <1>8, <2>1 DEF GatherNotes
  <2>3. GoesOn(w, c)
    BY <1>1, <1>8, <2>1 DEF GoesOn, GatherNotes, At, Busy, Places, Call
  <2>4. QED  BY <1>8, <2>2, <2>3 DEF GatherNotes
<1>9. CASE GatherExhibits(w)
  <2>1. PICK c \in Call : c = [call[w] EXCEPT !.at = "gathered", !.exhibits = IdsOf(evidence)]
    <3>1. IdsOf(evidence) \in SUBSET Ids  BY DEF TypeOK, IdsOf, Row
    <3>2. QED  BY <1>1, <3>1 DEF Call
  <2>2. call' = [call EXCEPT ![w] = c]  BY <1>9, <2>1 DEF GatherExhibits
  <2>3. GoesOn(w, c)
    BY <1>1, <1>9, <2>1 DEF GoesOn, GatherExhibits, At, Busy, Places, Call
  <2>4. QED  BY <1>9, <2>2, <2>3 DEF GatherExhibits
<1>10. CASE StoreReport(w)    BY <1>3, <1>10 DEF StoreReport, At, Busy, Places
<1>11. CASE RecordReport(w)   BY <1>3, <1>11 DEF RecordReport, At, Busy, Places
<1>12. CASE CreateDraft(w)    BY <1>3, <1>12 DEF CreateDraft, At, Busy, Places
<1>13. CASE RecordExport(w)   BY <1>2, <1>13 DEF RecordExport
<1>14. CASE LoadDraft(w)      BY <1>3, <1>14 DEF LoadDraft, At, Busy, Places
<1>15. CASE RefuseApproval(w) BY <1>2, <1>15 DEF RefuseApproval
<1>16. CASE ApproveDraft(w)   BY <1>2, <1>16 DEF ApproveDraft
<1>17. CASE FindFile(w)
  BY <1>2, <1>3, <1>17 DEF FindFile, At, Busy, Places
<1>18. CASE CompareDigest(w)  BY <1>2, <1>18 DEF CompareDigest
<1>19. CASE Fail(w)           BY <1>2, <1>19 DEF Fail
<1>20. CASE WriteFails(w)     BY <1>2, <1>20 DEF WriteFails
<1>21. QED
  BY <1>4, <1>5, <1>6, <1>7, <1>8, <1>9, <1>10, <1>11, <1>12, <1>13, <1>14, <1>15,
     <1>16, <1>17, <1>18, <1>19, <1>20 DEF Works, Attach, Export, Review, Verify

LEMMA Numbers == calls \in 0..MaxCalls /\ calls < MaxCalls => calls + 1 \in Ids
BY MaxCallsAssumption DEF Ids

LEMMA StartingSteps ==
    ASSUME TypeOK, NEW w \in Workers, NEW op \in Ops, NEW u \in Users, NEW arg \in Args(op),
           Start(w, op, u, arg)
    PROVE  \E c \in Call :
              /\ call' = [call EXCEPT ![w] = c]
              /\ c.op = op /\ c.at = "began" /\ c.id = calls + 1 /\ c.by = u /\ c.arg = arg
              /\ c.due = IdsOf(notes) \cup IdsOf(evidence) /\ c.altered = (arg \in touched)
<1>1. calls + 1 \in Ids  BY Numbers DEF TypeOK, Start
<1>2. arg \in Nat
  <2>1. Sizes \subseteq Nat /\ Ids \subseteq Nat /\ 0 \in Nat
    BY SizesAssumption DEF Ids
  <2>2. IdsOf(evidence) \subseteq Ids /\ IdsOf(reports) \subseteq Ids
    BY DEF TypeOK, IdsOf, Row, Report
  <2>3. QED  BY <2>1, <2>2 DEF Args
<1>3. IdsOf(notes) \cup IdsOf(evidence) \in SUBSET Ids  BY DEF TypeOK, IdsOf, Row
<1>4. PICK c : c = [Idle EXCEPT !.op = op, !.at = "began", !.id = calls + 1, !.by = u,
                                !.arg = arg,
                                !.due = IdsOf(notes) \cup IdsOf(evidence),
                                !.altered = arg \in touched]
  OBVIOUS
<1>5. c = [op |-> op, at |-> "began", id |-> calls + 1, by |-> u, arg |-> arg,
           due |-> IdsOf(notes) \cup IdsOf(evidence), notes |-> {}, exhibits |-> {},
           altered |-> arg \in touched]
  BY <1>4 DEF Idle
<1>6. c \in Call  BY <1>1, <1>2, <1>3, <1>5 DEF Call, Ids
<1>7. QED  BY <1>4, <1>5, <1>6 DEF Start

\* How a step changes the calls, whatever else it changes.
LEMMA CallStep ==
    ASSUME TypeOK, CallInv, [Next]_vars
    PROVE  \/ UNCHANGED <<call, calls>>
           \/ \E w \in Workers, c \in Call :
                 /\ c = Idle \/ GoesOn(w, c)
                 /\ call' = [call EXCEPT ![w] = c] /\ calls' = calls
           \/ \E w \in Workers, c \in Call :
                 /\ call[w].at = "idle" /\ calls < MaxCalls
                 /\ c.at = "began" /\ c.id = calls + 1 /\ c.by \in Users /\ c.op \in Ops
                 /\ c.op = "approve" => c.by \in Approvers
                 /\ call' = [call EXCEPT ![w] = c] /\ calls' = calls + 1
<1>1. CASE UNCHANGED vars  BY <1>1 DEF vars
<1>2. ASSUME NEW w \in Workers, Works(w)
      PROVE  \E c \in Call : /\ c = Idle \/ GoesOn(w, c)
                             /\ call' = [call EXCEPT ![w] = c] /\ calls' = calls
  BY <1>2, WorkingSteps
<1>3. ASSUME NEW w \in Workers, NEW op \in Ops, NEW u \in Users, NEW arg \in Args(op),
             Start(w, op, u, arg)
      PROVE  \E c \in Call :
                 /\ call[w].at = "idle" /\ calls < MaxCalls
                 /\ c.at = "began" /\ c.id = calls + 1 /\ c.by \in Users /\ c.op \in Ops
                 /\ c.op = "approve" => c.by \in Approvers
                 /\ call' = [call EXCEPT ![w] = c] /\ calls' = calls + 1
  <2>1. PICK c \in Call : /\ call' = [call EXCEPT ![w] = c]
                          /\ c.op = op /\ c.at = "began" /\ c.id = calls + 1 /\ c.by = u
    BY <1>3, StartingSteps
  <2>2. QED  BY <1>3, <2>1 DEF Start
<1>4. ASSUME NEW f \in Ids, Tamper(f)  PROVE UNCHANGED <<call, calls>>
  BY <1>4 DEF Tamper
<1>5. QED  BY <1>1, <1>2, <1>3, <1>4 DEF Next, Works

LEMMA CallInvStep ==
    ASSUME TypeOK, CallInv, [Next]_vars
    PROVE  CallInv'
<1>1. CASE UNCHANGED <<call, calls>>  BY <1>1 DEF CallInv, Busy
<1>2. ASSUME NEW w \in Workers, NEW c \in Call, c = Idle \/ GoesOn(w, c),
             call' = [call EXCEPT ![w] = c], calls' = calls
      PROVE  CallInv'
  <2>1. call'[w] = c /\ \A v \in Workers \ {w} : call'[v] = call[v]  BY <1>2 DEF TypeOK
  <2>2. CASE c = Idle
    BY <1>2, <2>1, <2>2 DEF CallInv, Busy, Idle
  <2>3. CASE GoesOn(w, c)
    <3>1. c.at \in Places(c.op) /\ c.op = call[w].op /\ c.id = call[w].id /\ c.by = call[w].by /\ Busy(w)
      BY <2>3 DEF GoesOn
    <3>2. QED  BY <1>2, <2>1, <3>1 DEF CallInv, Busy
  <2>4. QED  BY <1>2, <2>2, <2>3
<1>3. ASSUME NEW w \in Workers, NEW c \in Call,
             call[w].at = "idle", calls < MaxCalls,
             c.at = "began", c.id = calls + 1, c.by \in Users, c.op \in Ops,
             c.op = "approve" => c.by \in Approvers,
             call' = [call EXCEPT ![w] = c], calls' = calls + 1
      PROVE  CallInv'
  <2>1. call'[w] = c /\ \A v \in Workers \ {w} : call'[v] = call[v]  BY <1>3 DEF TypeOK
  <2>2. calls \in Nat  BY MaxCallsAssumption DEF TypeOK
  <2>3. \A v \in Workers \ {w} : Busy(v) => call[v].id \in 1..calls  BY DEF CallInv
  <2>4. c.at \in Places(c.op)  BY <1>3 DEF Places, Ops
  <2>5. 1..calls \subseteq 1..calls' /\ calls + 1 \in 1..calls' /\ calls + 1 \notin 1..calls
    BY <1>3, <2>2
  <2>6. QED  BY <1>3, <2>1, <2>3, <2>4, <2>5 DEF CallInv, Busy
<1>4. QED  BY <1>1, <1>2, <1>3, CallStep

-----------------------------------------------------------------------------
LEMMA ContentsType ==
    \A n \in Ids : {Exhibit(n), Pdf(n), Partial(n), Altered(n), Missing} \subseteq Contents
BY DEF Exhibit, Pdf, Partial, Altered, Missing, Contents

LEMMA EntryType ==
    ASSUME TypeOK, CallInv, NEW w \in Workers, Busy(w), NEW e \in Ids
    PROVE  Entry(w, e) \in AuditLog
<1>1. call[w] \in Call /\ call[w].by \in Users /\ call[w].id \in Ids
  <2>1. calls \in 0..MaxCalls /\ call[w].id \in 1..calls  BY DEF TypeOK, CallInv
  <2>2. QED  BY <2>1, MaxCallsAssumption DEF TypeOK, CallInv, Ids
<1>2. QED  BY <1>1 DEF Entry, AuditLog, Call

LEMMA IdType ==
    ASSUME TypeOK, CallInv, NEW w \in Workers, Busy(w)
    PROVE  call[w] \in Call /\ call[w].by \in Users /\ call[w].id \in Ids
<1>1. calls \in 0..MaxCalls /\ call[w].id \in 1..calls  BY DEF TypeOK, CallInv
<1>2. QED  BY <1>1, MaxCallsAssumption DEF TypeOK, CallInv, Ids

LEMMA RowIds ==
    ASSUME TypeOK
    PROVE  /\ IdsOf(notes) \in SUBSET Ids /\ IdsOf(evidence) \in SUBSET Ids
           /\ IdsOf(reports) \in SUBSET Ids
BY DEF TypeOK, IdsOf, Row, Report

LEMMA ArgType ==
    ASSUME TypeOK, ArgInv, NEW w \in Workers, Busy(w), call[w].op \in {"approve", "verify"}
    PROVE  call[w].arg \in Ids
BY RowIds DEF ArgInv

LEMMA TypeStep ==
    ASSUME TypeOK, CallInv, ArgInv, [Next]_vars
    PROVE  TypeOK'
<1>1. call' \in [Workers -> Call] /\ calls' \in 0..MaxCalls
  <2>1. CASE UNCHANGED <<call, calls>>  BY <2>1 DEF TypeOK
  <2>2. ASSUME NEW w \in Workers, NEW c \in Call, call' = [call EXCEPT ![w] = c], calls' = calls
        PROVE  call' \in [Workers -> Call] /\ calls' \in 0..MaxCalls
    BY <2>2 DEF TypeOK
  <2>3. ASSUME NEW w \in Workers, NEW c \in Call, call' = [call EXCEPT ![w] = c],
               calls < MaxCalls, calls' = calls + 1
        PROVE  call' \in [Workers -> Call] /\ calls' \in 0..MaxCalls
    BY <2>3, MaxCallsAssumption DEF TypeOK
  <2>4. QED  BY <2>1, <2>2, <2>3, CallStep
<1>2. \A w \in Workers : Busy(w) =>
          call[w] \in Call /\ call[w].by \in Users /\ call[w].id \in Ids
  BY IdType
<1>3. \A w \in Workers, e \in Ids : Busy(w) => Entry(w, e) \in AuditLog
  BY EntryType
<1>4. ASSUME NEW w \in Workers, NEW op \in Ops, NEW u \in Users, NEW arg \in Args(op),
             Start(w, op, u, arg)
      PROVE  TypeOK'
  BY <1>1, <1>4 DEF TypeOK, Start, tables
<1>5. ASSUME NEW w \in Workers, Works(w)  PROVE TypeOK'
  <2>1. CASE AddNote(w)
    <3>1. Entry(w, call[w].id) \in AuditLog /\ call[w].by \in Users /\ call[w].id \in Ids
      BY <1>2, <1>3, <2>1 DEF AddNote, At, Busy
    <3>2. QED  BY <1>1, <2>1, <3>1 DEF TypeOK, AddNote
  <2>2. CASE RefuseUpload(w)  BY <1>1, <2>2 DEF TypeOK, RefuseUpload, tables
  <2>3. CASE StoreExhibit(w)
    <3>1. Exhibit(call[w].id) \in Contents
      BY <1>2, <2>3, ContentsType DEF StoreExhibit, At, Busy
    <3>2. QED  BY <1>1, <2>3, <3>1 DEF TypeOK, StoreExhibit, tables
  <2>4. CASE RecordExhibit(w)
    <3>1. Entry(w, call[w].id) \in AuditLog /\ call[w].by \in Users /\ call[w].id \in Ids
      BY <1>2, <1>3, <2>4 DEF RecordExhibit, At, Busy
    <3>2. NewRow(w, Exhibit(call[w].id)) \in Row
      BY <3>1, ContentsType DEF NewRow, Row
    <3>3. QED  BY <1>1, <2>4, <3>1, <3>2 DEF TypeOK, RecordExhibit
  <2>5. CASE GatherNotes(w)  BY <1>1, <2>5 DEF TypeOK, GatherNotes, tables
  <2>6. CASE GatherExhibits(w)  BY <1>1, <2>6 DEF TypeOK, GatherExhibits, tables
  <2>7. CASE StoreReport(w)
    <3>1. Pdf(call[w].id) \in Contents
      BY <1>2, <2>7, ContentsType DEF StoreReport, At, Busy
    <3>2. QED  BY <1>1, <2>7, <3>1 DEF TypeOK, StoreReport, tables
  <2>8. CASE RecordReport(w)
    <3>1. call[w] \in Call /\ call[w].by \in Users /\ call[w].id \in Ids
      BY <1>2, <2>8 DEF RecordReport, At, Busy
    <3>2. call[w].notes \in SUBSET Ids /\ call[w].exhibits \in SUBSET Ids /\ call[w].due \in SUBSET Ids
      BY <3>1 DEF Call
    <3>3. Digest(Pdf(call[w].id)) \in {Digest(b) : b \in Contents}
      BY <3>1, ContentsType
    <3>4. ReportRow(w) \in Report  BY <3>1, <3>2, <3>3 DEF ReportRow, Report
    <3>5. QED  BY <1>1, <2>8, <3>4 DEF TypeOK, RecordReport
  <2>9. CASE CreateDraft(w)
    <3>1. call[w].by \in Users  BY <1>2, <2>9 DEF CreateDraft, At, Busy
    <3>2. [status |-> "draft", created_by |-> call[w].by, approved_by |-> NULL] \in StrDraft
      BY <3>1 DEF StrDraft
    <3>3. QED  BY <1>1, <2>9, <3>2 DEF TypeOK, CreateDraft
  <2>10. CASE RecordExport(w)
    <3>1. Entry(w, call[w].id) \in AuditLog  BY <1>2, <1>3, <2>10 DEF RecordExport, Busy
    <3>2. QED  BY <1>1, <2>10, <3>1 DEF TypeOK, RecordExport
  <2>11. CASE LoadDraft(w)  BY <1>1, <2>11 DEF TypeOK, LoadDraft, tables
  <2>12. CASE RefuseApproval(w)  BY <1>1, <2>12 DEF TypeOK, RefuseApproval, tables
  <2>13. CASE ApproveDraft(w)
    <3>1. Busy(w) /\ call[w].op = "approve"  BY <2>13 DEF ApproveDraft, At, Busy
    <3>2. call[w].arg \in Ids /\ call[w].by \in Users  BY <1>2, <3>1, ArgType
    <3>3. Entry(w, call[w].arg) \in AuditLog  BY <1>3, <3>1, <3>2
    <3>4. drafts' \in [Ids -> StrDraft]  BY <2>13, <3>2 DEF TypeOK, ApproveDraft, StrDraft
    <3>5. QED  BY <1>1, <2>13, <3>3, <3>4 DEF TypeOK, ApproveDraft
  <2>14. ASSUME FindFile(w) \/ CompareDigest(w)  PROVE TypeOK'
    <3>1. Busy(w) /\ call[w].op = "verify"
      BY <2>14 DEF FindFile, CompareDigest, At, Busy
    <3>2. call[w].arg \in Ids /\ call[w].altered \in BOOLEAN
      BY <1>2, <3>1, ArgType DEF Call
    <3>3. \A v \in BOOLEAN : Answer(w, v) => verdicts' \subseteq Verdict
      BY <3>2 DEF Answer, Verdict, TypeOK
    <3>4. verdicts' \subseteq Verdict
      <4>1. CASE FindFile(w)  BY <3>3, <4>1 DEF FindFile, TypeOK
      <4>2. CASE CompareDigest(w)
        <5>1. (Digest(disk[call[w].arg]) = RecordedDigest(call[w].arg)) \in BOOLEAN
          OBVIOUS
        <5>2. QED  BY <3>3, <4>2, <5>1 DEF CompareDigest
      <4>3. QED  BY <2>14, <4>1, <4>2
    <3>5. QED  BY <1>1, <2>14, <3>4 DEF TypeOK, FindFile, CompareDigest, tables
  <2>15. CASE Fail(w)  BY <1>1, <2>15 DEF TypeOK, Fail, tables
  <2>16. CASE WriteFails(w)
    <3>1. Partial(call[w].id) \in Contents
      BY <1>2, <2>16, ContentsType DEF WriteFails, At, Busy
    <3>2. QED  BY <1>1, <2>16, <3>1 DEF TypeOK, WriteFails, tables
  <2>17. QED
    BY <1>5, <2>1, <2>2, <2>3, <2>4, <2>5, <2>6, <2>7, <2>8, <2>9, <2>10, <2>11, <2>12,
       <2>13, <2>14, <2>15, <2>16 DEF Works, Attach, Export, Review, Verify
<1>6. ASSUME NEW f \in Ids, Tamper(f)  PROVE TypeOK'
  BY <1>1, <1>6, ContentsType DEF TypeOK, Tamper, tables
<1>7. CASE UNCHANGED vars  BY <1>1, <1>7 DEF TypeOK, vars, tables
<1>8. QED  BY <1>4, <1>5, <1>6, <1>7 DEF Next, Works

-----------------------------------------------------------------------------
\* Nothing recorded is ever forgotten, and the author of a draft stays.
Grows ==
    /\ notes \subseteq notes' /\ evidence \subseteq evidence' /\ reports \subseteq reports'
    /\ audit \subseteq audit' /\ touched \subseteq touched'
    /\ \A d \in Ids : drafts[d].status # "none" =>
          /\ drafts'[d].status # "none" /\ drafts'[d].created_by = drafts[d].created_by

\* A call that has not committed owns its number: no row bears it.
FreshInv ==
    \A w \in Workers : Busy(w) /\ call[w].at # "committed" =>
        /\ call[w].id \notin IdsOf(evidence) \cup IdsOf(reports)
        /\ drafts[call[w].id].status = "none"

\* Where a step leaves the drafts alone, or what it does to them.
LEMMA DraftSteps ==
    ASSUME [Next]_vars
    PROVE  drafts' = drafts \/ (\E w \in Workers : CreateDraft(w)) \/ (\E w \in Workers : ApproveDraft(w))
BY DEF Next, vars, tables, Start, Attach, Export, Review, Verify, AddNote, RefuseUpload,
       StoreExhibit, RecordExhibit, GatherNotes, GatherExhibits, StoreReport, RecordReport,
       RecordExport, LoadDraft, RefuseApproval, FindFile, CompareDigest, Fail, WriteFails, Tamper

\* The same for exhibits and reports.
LEMMA RowSteps ==
    ASSUME [Next]_vars
    PROVE  \/ UNCHANGED <<evidence, reports>>
           \/ \E w \in Workers : RecordExhibit(w) \/ RecordReport(w)
BY DEF Next, vars, tables, Start, Attach, Export, Review, Verify, AddNote, RefuseUpload,
       StoreExhibit, GatherNotes, GatherExhibits, StoreReport, CreateDraft,
       RecordExport, LoadDraft, RefuseApproval, ApproveDraft, FindFile, CompareDigest, Fail,
       WriteFails, Tamper

\* The same for notes and for the audit trail.
LEMMA TrailSteps ==
    ASSUME [Next]_vars
    PROVE  \/ UNCHANGED <<notes, audit>>
           \/ \E w \in Workers : \/ AddNote(w) \/ RecordExhibit(w) \/ RecordExport(w)
                                 \/ ApproveDraft(w)
BY DEF Next, vars, tables, Start, Attach, Export, Review, Verify, AddNote, RefuseUpload,
       StoreExhibit, RecordExhibit, GatherNotes, GatherExhibits, StoreReport, RecordReport,
       CreateDraft, RecordExport, LoadDraft, RefuseApproval, ApproveDraft, FindFile,
       CompareDigest, Fail, WriteFails, Tamper

\* The same for the storage directory.
LEMMA DiskSteps ==
    ASSUME [Next]_vars
    PROVE  \/ UNCHANGED <<disk, touched>>
           \/ \E w \in Workers : StoreExhibit(w) \/ StoreReport(w) \/ WriteFails(w)
           \/ \E f \in Ids : Tamper(f)
BY DEF Next, vars, tables, Start, Attach, Export, Review, Verify, AddNote, RefuseUpload,
       RecordExhibit, GatherNotes, GatherExhibits, RecordReport, CreateDraft,
       RecordExport, LoadDraft, RefuseApproval, ApproveDraft, FindFile, CompareDigest, Fail

LEMMA GrowsStep ==
    ASSUME TypeOK, CallInv, FreshInv, [Next]_vars
    PROVE  Grows
<1>1. evidence \subseteq evidence' /\ reports \subseteq reports'
  BY RowSteps DEF RecordExhibit, RecordReport
<1>2. notes \subseteq notes' /\ audit \subseteq audit'
  BY TrailSteps DEF AddNote, RecordExhibit, RecordExport, ApproveDraft
<1>3. touched \subseteq touched'
  BY DiskSteps DEF StoreExhibit, StoreReport, WriteFails, Tamper
<1>4. ASSUME NEW d \in Ids, drafts[d].status # "none"
      PROVE  drafts'[d].status # "none" /\ drafts'[d].created_by = drafts[d].created_by
  <2>1. CASE drafts' = drafts  BY <1>4, <2>1
  <2>2. ASSUME NEW w \in Workers, CreateDraft(w)
        PROVE  drafts'[d].status # "none" /\ drafts'[d].created_by = drafts[d].created_by
    <3>1. call[w].id # d  BY <1>4, <2>2 DEF FreshInv, CreateDraft, At, Busy
    <3>2. QED  BY <1>4, <2>2, <3>1 DEF CreateDraft, TypeOK
  <2>3. ASSUME NEW w \in Workers, ApproveDraft(w)
        PROVE  drafts'[d].status # "none" /\ drafts'[d].created_by = drafts[d].created_by
    BY <1>4, <2>3 DEF ApproveDraft, TypeOK, StrDraft
  <2>4. QED  BY <2>1, <2>2, <2>3, DraftSteps
<1>5. QED  BY <1>1, <1>2, <1>3, <1>4 DEF Grows

\* Rows carry numbers already given out and the digest of what was stored.
RowsInv ==
    /\ IdsOf(notes) \cup IdsOf(evidence) \cup IdsOf(reports) \subseteq 1..calls
    /\ \A d \in Ids : drafts[d].status # "none" => d \in 1..calls
    /\ \A r \in evidence : r.sha256 = Digest(Exhibit(r.id))
    /\ \A r \in reports : r.sha256 = Digest(Pdf(r.id))

LEMMA RowsStep ==
    ASSUME TypeOK, CallInv, ArgInv, RowsInv, [Next]_vars
    PROVE  RowsInv'
<1>1. 1..calls \subseteq 1..calls'
  <2>1. calls \in Nat  BY MaxCallsAssumption DEF TypeOK
  <2>2. calls' = calls \/ calls' = calls + 1  BY CallStep
  <2>3. QED  BY <2>1, <2>2
<1>2. IdsOf(notes') \subseteq 1..calls'
  <2>1. CASE notes' = notes  BY <1>1, <2>1 DEF RowsInv
  <2>2. ASSUME NEW w \in Workers, AddNote(w)  PROVE IdsOf(notes') \subseteq 1..calls'
    <3>1. call[w].id \in 1..calls  BY <2>2 DEF AddNote, At, CallInv, Busy
    <3>2. QED  BY <1>1, <2>2, <3>1 DEF AddNote, RowsInv, IdsOf
  <2>3. QED  BY <2>1, <2>2, TrailSteps DEF RecordExhibit, RecordExport, ApproveDraft
<1>3. /\ IdsOf(evidence') \cup IdsOf(reports') \subseteq 1..calls'
      /\ \A r \in evidence' : r.sha256 = Digest(Exhibit(r.id))
      /\ \A r \in reports' : r.sha256 = Digest(Pdf(r.id))
  <2>1. CASE UNCHANGED <<evidence, reports>>  BY <1>1, <2>1 DEF RowsInv
  <2>2. ASSUME NEW w \in Workers, RecordExhibit(w)
        PROVE  /\ IdsOf(evidence') \cup IdsOf(reports') \subseteq 1..calls'
               /\ \A r \in evidence' : r.sha256 = Digest(Exhibit(r.id))
               /\ \A r \in reports' : r.sha256 = Digest(Pdf(r.id))
    <3>1. call[w].id \in 1..calls  BY <2>2 DEF RecordExhibit, At, CallInv, Busy
    <3>2. QED  BY <1>1, <2>2, <3>1 DEF RecordExhibit, RowsInv, IdsOf, NewRow
  <2>3. ASSUME NEW w \in Workers, RecordReport(w)
        PROVE  /\ IdsOf(evidence') \cup IdsOf(reports') \subseteq 1..calls'
               /\ \A r \in evidence' : r.sha256 = Digest(Exhibit(r.id))
               /\ \A r \in reports' : r.sha256 = Digest(Pdf(r.id))
    <3>1. call[w].id \in 1..calls  BY <2>3 DEF RecordReport, At, CallInv, Busy
    <3>2. QED  BY <1>1, <2>3, <3>1 DEF RecordReport, RowsInv, IdsOf, ReportRow
  <2>4. QED  BY <2>1, <2>2, <2>3, RowSteps
<1>4. \A d \in Ids : drafts'[d].status # "none" => d \in 1..calls'
  <2>1. CASE drafts' = drafts  BY <1>1, <2>1 DEF RowsInv
  <2>2. ASSUME NEW w \in Workers, CreateDraft(w)
        PROVE  \A d \in Ids : drafts'[d].status # "none" => d \in 1..calls'
    <3>1. call[w].id \in 1..calls  BY <2>2 DEF CreateDraft, At, CallInv, Busy
    <3>2. QED  BY <1>1, <2>2, <3>1 DEF CreateDraft, RowsInv, TypeOK
  <2>3. ASSUME NEW w \in Workers, ApproveDraft(w)
        PROVE  \A d \in Ids : drafts'[d].status # "none" => d \in 1..calls'
    <3>1. drafts[call[w].arg].status # "none"  BY <2>3 DEF ApproveDraft, At, ArgInv, Busy
    <3>2. QED  BY <1>1, <2>3, <3>1 DEF ApproveDraft, RowsInv, TypeOK
  <2>4. QED  BY <2>1, <2>2, <2>3, DraftSteps
<1>5. QED  BY <1>2, <1>3, <1>4 DEF RowsInv, IdsOf

LEMMA FreshStep ==
    ASSUME TypeOK, CallInv, ArgInv, RowsInv, FreshInv, [Next]_vars
    PROVE  FreshInv'
<1> SUFFICES ASSUME NEW w \in Workers, Busy(w)', call'[w].at # "committed"
             PROVE  /\ call'[w].id \notin IdsOf(evidence') \cup IdsOf(reports')
                    /\ drafts'[call'[w].id].status = "none"
  BY DEF FreshInv, IdsOf
<1>1. /\ call'[w].id \notin IdsOf(evidence) \cup IdsOf(reports)
      /\ drafts[call'[w].id].status = "none"
  <2>1. CASE UNCHANGED <<call, calls>>  BY <2>1 DEF FreshInv, Busy
  <2>2. ASSUME NEW v \in Workers, NEW c \in Call, c = Idle \/ GoesOn(v, c),
               call' = [call EXCEPT ![v] = c]
        PROVE  /\ call'[w].id \notin IdsOf(evidence) \cup IdsOf(reports)
               /\ drafts[call'[w].id].status = "none"
    BY <2>2 DEF FreshInv, Busy, GoesOn, Idle, TypeOK
  <2>3. ASSUME NEW v \in Workers, NEW c \in Call, calls < MaxCalls, c.id = calls + 1,
               call' = [call EXCEPT ![v] = c]
        PROVE  /\ call'[w].id \notin IdsOf(evidence) \cup IdsOf(reports)
               /\ drafts[call'[w].id].status = "none"
    <3>1. calls \in Nat /\ calls + 1 \notin 1..calls /\ calls + 1 \in Ids
      BY <2>3, MaxCallsAssumption DEF TypeOK, Ids
    <3>2. CASE w = v
      <4>1. call'[w].id = calls + 1  BY <2>3, <3>2 DEF TypeOK
      <4>2. drafts[calls + 1] \in StrDraft  BY <3>1 DEF TypeOK
      <4>3. QED  BY <3>1, <4>1, <4>2 DEF RowsInv, StrDraft
    <3>3. CASE w # v
      BY <2>3, <3>3 DEF FreshInv, Busy, TypeOK
    <3>4. QED  BY <3>2, <3>3
  <2>4. QED  BY <2>1, <2>2, <2>3, CallStep
<1>2. \A v \in Workers : \/ At(v, "upload", "written") /\ End(v)
                         \/ At(v, "report", "written") /\ GoTo(v, "committed")
                         \/ At(v, "str", "began") /\ GoTo(v, "committed")
         => call'[w].id # call[v].id
  <2> TAKE v \in Workers
  <2> HAVE \/ At(v, "upload", "written") /\ End(v)
           \/ At(v, "report", "written") /\ GoTo(v, "committed")
           \/ At(v, "str", "began") /\ GoTo(v, "committed")
  <2>1. Busy(v)  BY DEF At, Busy
  <2>2. w # v  BY DEF End, GoTo, Idle, Busy, TypeOK, Call
  <2>3. call'[w] = call[w]  BY <2>2 DEF End, GoTo, TypeOK
  <2>4. QED  BY <2>1, <2>2, <2>3 DEF CallInv, Busy
<1>3. call'[w].id \notin IdsOf(evidence') \cup IdsOf(reports')
  <2>1. CASE UNCHANGED <<evidence, reports>>  BY <1>1, <2>1
  <2>2. ASSUME NEW v \in Workers, RecordExhibit(v) \/ RecordReport(v)
        PROVE  call'[w].id \notin IdsOf(evidence') \cup IdsOf(reports')
    <3>1. call'[w].id # call[v].id  BY <1>2, <2>2 DEF RecordExhibit, RecordReport
    <3>2. IdsOf(evidence') \cup IdsOf(reports')
             \subseteq IdsOf(evidence) \cup IdsOf(reports) \cup {call[v].id}
      BY <2>2 DEF RecordExhibit, RecordReport, NewRow, ReportRow, IdsOf
    <3>3. QED  BY <1>1, <3>1, <3>2
  <2>3. QED  BY <2>1, <2>2, RowSteps
<1>4. drafts'[call'[w].id].status = "none"
  <2>1. CASE drafts' = drafts  BY <1>1, <2>1
  <2>2. ASSUME NEW v \in Workers, CreateDraft(v)
        PROVE  drafts'[call'[w].id].status = "none"
    <3>1. call'[w].id # call[v].id  BY <1>2, <2>2 DEF CreateDraft
    <3>2. QED  BY <1>1, <2>2, <3>1 DEF CreateDraft, TypeOK
  <2>3. ASSUME NEW v \in Workers, ApproveDraft(v)
        PROVE  drafts'[call'[w].id].status = "none"
    <3>1. drafts[call[v].arg].status # "none"  BY <2>3 DEF ApproveDraft, At, ArgInv, Busy
    <3>2. call'[w].id \in Ids
      <4>1. calls' \in 0..MaxCalls  BY TypeStep DEF TypeOK
      <4>2. call'[w].id \in 1..calls'  BY CallInvStep DEF CallInv
      <4>3. QED  BY <4>1, <4>2, MaxCallsAssumption DEF Ids
    <3>3. call'[w].id # call[v].arg  BY <1>1, <3>1
    <3>4. drafts'[call'[w].id] = drafts[call'[w].id]
      BY <2>3, <3>2, <3>3 DEF ApproveDraft, TypeOK
    <3>5. QED  BY <1>1, <3>4
  <2>4. QED  BY <2>1, <2>2, <2>3, DraftSteps
<1>5. QED  BY <1>3, <1>4

LEMMA ArgStep ==
    ASSUME TypeOK, CallInv, ArgInv, FreshInv, [Next]_vars
    PROVE  ArgInv'
<1> SUFFICES ASSUME NEW w \in Workers, Busy(w)'
             PROVE  /\ call'[w].op = "approve" =>
                          call'[w].arg \in {d \in Ids : drafts'[d].status # "none"}
                    /\ call'[w].op = "verify" =>
                          call'[w].arg \in IdsOf(evidence') \cup IdsOf(reports')
                    /\ call'[w].op = "verify" /\ call'[w].altered => call'[w].arg \in touched'
  BY DEF ArgInv, IdsOf
<1>1. /\ \A d \in Ids : drafts[d].status # "none" => drafts'[d].status # "none"
      /\ IdsOf(evidence) \cup IdsOf(reports) \subseteq IdsOf(evidence') \cup IdsOf(reports')
      /\ touched \subseteq touched'
  BY GrowsStep DEF Grows, IdsOf
<1>2. SUFFICES /\ call'[w].op = "approve" =>
                     call'[w].arg \in {d \in Ids : drafts[d].status # "none"}
               /\ call'[w].op = "verify" =>
                     call'[w].arg \in IdsOf(evidence) \cup IdsOf(reports)
               /\ call'[w].op = "verify" /\ call'[w].altered => call'[w].arg \in touched
  BY <1>1
<1>3. CASE call'[w] = call[w]  BY <1>3 DEF ArgInv, Busy
<1>4. ASSUME NEW c \in Call, GoesOn(w, c), call' = [call EXCEPT ![w] = c]
      PROVE  /\ call'[w].op = "approve" =>
                     call'[w].arg \in {d \in Ids : drafts[d].status # "none"}
             /\ call'[w].op = "verify" =>
                     call'[w].arg \in IdsOf(evidence) \cup IdsOf(reports)
             /\ call'[w].op = "verify" /\ call'[w].altered => call'[w].arg \in touched
  BY <1>4 DEF ArgInv, Busy, GoesOn, TypeOK
<1>5. ASSUME NEW op \in Ops, NEW u \in Users, NEW arg \in Args(op), Start(w, op, u, arg)
      PROVE  /\ call'[w].op = "approve" =>
                     call'[w].arg \in {d \in Ids : drafts[d].status # "none"}
             /\ call'[w].op = "verify" =>
                     call'[w].arg \in IdsOf(evidence) \cup IdsOf(reports)
             /\ call'[w].op = "verify" /\ call'[w].altered => call'[w].arg \in touched
  <2>1. PICK c \in Call : /\ call' = [call EXCEPT ![w] = c]
                          /\ c.op = op /\ c.arg = arg /\ c.altered = (arg \in touched)
    BY <1>5, StartingSteps
  <2>2. call'[w] = c  BY <2>1 DEF TypeOK
  <2>3. op = "approve" => arg \in {d \in Ids : drafts[d].status # "none"}
    BY DEF Args
  <2>4. op = "verify" => arg \in IdsOf(evidence) \cup IdsOf(reports)
    BY DEF Args
  <2>5. QED  BY <2>1, <2>2, <2>3, <2>4
<1>6. ASSUME NEW v \in Workers, v # w, Works(v) \/ (\E op \in Ops, u \in Users : \E arg \in Args(op) : Start(v, op, u, arg))
      PROVE  call'[w] = call[w]
  <2>1. PICK c \in Call : call' = [call EXCEPT ![v] = c]
    BY <1>6, WorkingSteps, StartingSteps
  <2>2. QED  BY <1>6, <2>1 DEF TypeOK
<1>7. ASSUME Works(w)
      PROVE  \E c \in Call : GoesOn(w, c) /\ call' = [call EXCEPT ![w] = c]
  <2>1. PICK c \in Call : (c = Idle \/ GoesOn(w, c)) /\ call' = [call EXCEPT ![w] = c]
    BY <1>7, WorkingSteps
  <2>2. c # Idle  BY <2>1 DEF TypeOK, Busy, Idle
  <2>3. QED  BY <2>1, <2>2
<1>8. CASE UNCHANGED vars  BY <1>3, <1>8 DEF vars
<1>9. ASSUME NEW f \in Ids, Tamper(f)  PROVE call'[w] = call[w]  BY <1>9 DEF Tamper
<1>10. QED  BY <1>3, <1>4, <1>5, <1>6, <1>7, <1>8, <1>9 DEF Next, Works

-----------------------------------------------------------------------------
Starts(w) == \E op \in Ops, u \in Users : \E arg \in Args(op) : Start(w, op, u, arg)

\* How worker w comes to be where it is after a step.
LEMMA Moves ==
    ASSUME TypeOK, CallInv, [Next]_vars, NEW w \in Workers
    PROVE  \/ call'[w] = call[w]
           \/ call'[w].at \in {"idle", "committed", "found"}
           \/ Starts(w) \/ GatherNotes(w) \/ GatherExhibits(w)
           \/ StoreExhibit(w) \/ StoreReport(w) \/ LoadDraft(w)
<1>1. CASE UNCHANGED vars  BY <1>1 DEF vars
<1>2. ASSUME NEW f \in Ids, Tamper(f)  PROVE call'[w] = call[w]  BY <1>2 DEF Tamper
<1>3. ASSUME NEW v \in Workers, v # w, Works(v) \/ Starts(v)  PROVE call'[w] = call[w]
  <2>1. PICK c \in Call : call' = [call EXCEPT ![v] = c]
    BY <1>3, WorkingSteps, StartingSteps DEF Starts
  <2>2. QED  BY <1>3, <2>1 DEF TypeOK
<1>4. End(w) => call'[w].at = "idle"  BY DEF End, Idle, TypeOK
<1>5. GoTo(w, "committed") => call'[w].at = "committed"  BY DEF GoTo, TypeOK, Call
<1>6. GoTo(w, "found") => call'[w].at = "found"  BY DEF GoTo, TypeOK, Call
<1>7. ASSUME Works(w)
      PROVE  \/ call'[w].at \in {"idle", "committed", "found"}
             \/ GatherNotes(w) \/ GatherExhibits(w)
             \/ StoreExhibit(w) \/ StoreReport(w) \/ LoadDraft(w)
  BY <1>4, <1>5, <1>6, <1>7 DEF Works, Attach, Export, Review, Verify, AddNote, RefuseUpload,
     RecordExhibit, RecordReport, CreateDraft, RecordExport, RefuseApproval, ApproveDraft,
     FindFile, CompareDigest, Fail, WriteFails
<1>8. QED  BY <1>1, <1>2, <1>3, <1>7 DEF Next, Works, Starts

\* A file is in full on disk before its row is committed.
DiskInv ==
    \A w \in Workers : call[w].at = "written" =>
        disk[call[w].id] = IF call[w].op = "upload" THEN Exhibit(call[w].id)
                                                    ELSE Pdf(call[w].id)

\* Only files with a row are ever touched, and touched files are changed.
TouchInv ==
    /\ touched \subseteq IdsOf(evidence) \cup IdsOf(reports)
    /\ \A f \in touched : disk[f] \in {Altered(f), Missing}

\* A write to the storage directory hits one file: a fresh one, or one with a row.
LEMMA DiskWrites ==
    ASSUME TypeOK, CallInv, FreshInv, [Next]_vars
    PROVE  \/ UNCHANGED <<disk, touched>>
           \/ \E w \in Workers :
                 /\ Busy(w) /\ call[w].at # "committed" /\ touched' = touched
                 /\ \A f \in Ids : f # call[w].id => disk'[f] = disk[f]
                 /\ call[w].id \notin IdsOf(evidence) \cup IdsOf(reports)
           \/ \E g \in IdsOf(evidence) \cup IdsOf(reports) :
                 /\ touched' = touched \cup {g}
                 /\ disk'[g] \in {Altered(g), Missing}
                 /\ \A f \in Ids : f # g => disk'[f] = disk[f]
<1>1. ASSUME NEW w \in Workers, StoreExhibit(w) \/ StoreReport(w) \/ WriteFails(w)
      PROVE  /\ Busy(w) /\ call[w].at # "committed" /\ touched' = touched
             /\ \A f \in Ids : f # call[w].id => disk'[f] = disk[f]
             /\ call[w].id \notin IdsOf(evidence) \cup IdsOf(reports)
  <2>1. Busy(w) /\ call[w].at # "committed" /\ touched' = touched
    BY <1>1 DEF StoreExhibit, StoreReport, WriteFails, At, Busy
  <2>2. \A f \in Ids : f # call[w].id => disk'[f] = disk[f]
    BY <1>1 DEF StoreExhibit, StoreReport, WriteFails, TypeOK
  <2>3. QED  BY <2>1, <2>2 DEF FreshInv
<1>2. ASSUME NEW g \in Ids, Tamper(g)
      PROVE  /\ g \in IdsOf(evidence) \cup IdsOf(reports)
             /\ touched' = touched \cup {g}
             /\ disk'[g] \in {Altered(g), Missing}
             /\ \A f \in Ids : f # g => disk'[f] = disk[f]
  BY <1>2 DEF Tamper, TypeOK
<1>3. QED  BY <1>1, <1>2, DiskSteps

LEMMA DiskStep ==
    ASSUME TypeOK, CallInv, ArgInv, RowsInv, FreshInv, DiskInv, [Next]_vars
    PROVE  DiskInv'
<1> SUFFICES ASSUME NEW w \in Workers, call'[w].at = "written"
             PROVE  disk'[call'[w].id] = IF call'[w].op = "upload" THEN Exhibit(call'[w].id)
                                                                ELSE Pdf(call'[w].id)
  BY DEF DiskInv
<1>1. CASE call'[w] = call[w]
  <2>1. Busy(w) /\ call[w].id \in Ids /\ call[w].at # "committed"  BY <1>1, IdType DEF Busy
  <2>2. call[w].id \notin IdsOf(evidence) \cup IdsOf(reports)  BY <2>1 DEF FreshInv
  <2>3. \A v \in Workers : Busy(v) /\ v # w => call[v].id # call[w].id
    BY <2>1 DEF CallInv
  <2>4. ~(\E v \in Workers : v = w /\ (StoreExhibit(v) \/ StoreReport(v) \/ WriteFails(v)))
    BY <1>1 DEF StoreExhibit, StoreReport, WriteFails, At
  <2>5. disk'[call[w].id] = disk[call[w].id]
    <3>1. ASSUME NEW v \in Workers, StoreExhibit(v) \/ StoreReport(v) \/ WriteFails(v)
          PROVE  disk'[call[w].id] = disk[call[w].id]
      <4>1. Busy(v) /\ v # w
        BY <2>4, <3>1 DEF StoreExhibit, StoreReport, WriteFails, At, Busy
      <4>2. QED
        BY <2>1, <2>3, <3>1, <4>1 DEF StoreExhibit, StoreReport, WriteFails, TypeOK
    <3>2. ASSUME NEW g \in Ids, Tamper(g)  PROVE disk'[call[w].id] = disk[call[w].id]
      BY <2>1, <2>2, <3>2 DEF Tamper, TypeOK
    <3>3. QED  BY <3>1, <3>2, DiskSteps
  <2>6. QED  BY <1>1, <2>5 DEF DiskInv
<1>2. CASE StoreExhibit(w)
  <2>1. call[w].op = "upload" /\ call[w].id \in Ids
    BY <1>2, IdType DEF StoreExhibit, At, Busy
  <2>2. call'[w].op = "upload" /\ call'[w].id = call[w].id
    BY <1>2, <2>1 DEF StoreExhibit, GoTo, TypeOK, Call
  <2>3. QED  BY <1>2, <2>1, <2>2 DEF StoreExhibit, TypeOK
<1>3. CASE StoreReport(w)
  <2>1. call[w].op = "report" /\ call[w].id \in Ids
    BY <1>3, IdType DEF StoreReport, At, Busy
  <2>2. call'[w].op = "report" /\ call'[w].id = call[w].id
    BY <1>3, <2>1 DEF StoreReport, GoTo, TypeOK, Call
  <2>3. QED  BY <1>3, <2>1, <2>2 DEF StoreReport, TypeOK
<1>4. ASSUME Starts(w)  PROVE FALSE
  BY <1>4, StartingSteps DEF Starts, TypeOK
<1>5. ASSUME GatherNotes(w) \/ GatherExhibits(w) \/ LoadDraft(w)  PROVE FALSE
  BY <1>5 DEF GatherNotes, GatherExhibits, LoadDraft, GoTo, TypeOK, Call
<1>6. QED  BY <1>1, <1>2, <1>3, <1>4, <1>5, Moves

LEMMA TouchStep ==
    ASSUME TypeOK, CallInv, FreshInv, TouchInv, [Next]_vars
    PROVE  TouchInv'
<1>1. IdsOf(evidence) \cup IdsOf(reports) \subseteq IdsOf(evidence') \cup IdsOf(reports')
  BY GrowsStep DEF Grows, IdsOf
<1>2. /\ touched' \subseteq IdsOf(evidence) \cup IdsOf(reports)
      /\ \A f \in touched' : disk'[f] \in {Altered(f), Missing}
  BY DiskWrites, RowIds DEF TouchInv, TypeOK
<1>3. QED  BY <1>1, <1>2 DEF TouchInv, IdsOf

LEMMA StoredStep ==
    ASSUME TypeOK, CallInv, RowsInv, FreshInv, DiskInv, TouchInv, RecordedIsStored, [Next]_vars
    PROVE  RecordedIsStored'
<1>1. ASSUME NEW r \in evidence \cup reports, r.id \notin touched'
      PROVE  Digest(disk'[r.id]) = r.sha256
  <2>1. r.id \in Ids /\ r.id \in IdsOf(evidence) \cup IdsOf(reports)
    BY RowIds DEF IdsOf
  <2>2. disk'[r.id] = disk[r.id] /\ touched \subseteq touched'
    BY <1>1, <2>1, DiskWrites
  <2>3. QED  BY <1>1, <2>2 DEF RecordedIsStored
<1>2. CASE UNCHANGED <<evidence, reports>>  BY <1>1, <1>2 DEF RecordedIsStored
<1>3. ASSUME NEW w \in Workers, RecordExhibit(w)  PROVE RecordedIsStored'
  <2>1. call[w].at = "written" /\ call[w].op = "upload"  BY <1>3 DEF RecordExhibit, At
  <2>2. Digest(disk'[call[w].id]) = NewRow(w, Exhibit(call[w].id)).sha256
    BY <1>3, <2>1 DEF DiskInv, RecordExhibit, NewRow
  <2>3. QED  BY <1>1, <1>3, <2>2 DEF RecordedIsStored, RecordExhibit, NewRow
<1>4. ASSUME NEW w \in Workers, RecordReport(w)  PROVE RecordedIsStored'
  <2>1. call[w].at = "written" /\ call[w].op = "report"  BY <1>4 DEF RecordReport, At
  <2>2. Digest(disk'[call[w].id]) = ReportRow(w).sha256
    BY <1>4, <2>1 DEF DiskInv, RecordReport, ReportRow
  <2>3. QED  BY <1>1, <1>4, <2>2 DEF RecordedIsStored, RecordReport, ReportRow
<1>5. QED  BY <1>2, <1>3, <1>4, RowSteps

LEMMA AuditStep ==
    ASSUME TypeOK, CallInv, AttachmentIsAudited, [Next]_vars
    PROVE  AttachmentIsAudited'
<1>1. CASE UNCHANGED <<notes, evidence, audit>>  BY <1>1 DEF AttachmentIsAudited
<1>2. ASSUME NEW w \in Workers, AddNote(w)  PROVE AttachmentIsAudited'
  <2>1. Entry(w, call[w].id) =
          [action |-> "note", entity |-> call[w].id, actor |-> call[w].by, id |-> call[w].id]
    BY <1>2 DEF AddNote, At, Entry
  <2>2. PICK n, e : /\ n.id = call[w].id /\ n.by = call[w].by /\ e.action = "note"
                    /\ e = [action |-> "note", entity |-> n.id, actor |-> n.by, id |-> n.id]
                    /\ e.entity = n.id
                    /\ notes' = notes \cup {n} /\ audit' = audit \cup {e}
                    /\ evidence' = evidence
    BY <1>2, <2>1 DEF AddNote
  <2>3. QED  BY <2>2 DEF AttachmentIsAudited
<1>3. ASSUME NEW w \in Workers, RecordExhibit(w)  PROVE AttachmentIsAudited'
  <2>1. Entry(w, call[w].id) =
          [action |-> "upload", entity |-> call[w].id, actor |-> call[w].by, id |-> call[w].id]
    BY <1>3 DEF RecordExhibit, At, Entry
  <2>2. PICK n, e : /\ n.id = call[w].id /\ n.by = call[w].by /\ e.action = "upload"
                    /\ e = [action |-> "upload", entity |-> n.id, actor |-> n.by, id |-> n.id]
                    /\ e.entity = n.id
                    /\ evidence' = evidence \cup {n} /\ audit' = audit \cup {e}
                    /\ notes' = notes
    BY <1>3, <2>1 DEF RecordExhibit, NewRow
  <2>3. QED  BY <2>2 DEF AttachmentIsAudited
<1>4. ASSUME NEW w \in Workers, RecordExport(w) \/ ApproveDraft(w)
      PROVE  AttachmentIsAudited'
  <2>1. call[w].op \notin {"note", "upload"}
    <3>1. CASE RecordExport(w)
      <4>1. Busy(w) /\ call[w].at = "committed" /\ call[w].op \in Ops
        BY <3>1, IdType DEF RecordExport, Busy, Call
      <4>2. "committed" \in Places(call[w].op)  BY <4>1 DEF CallInv
      <4>3. QED  BY <4>1, <4>2 DEF Places, Ops
    <3>2. CASE ApproveDraft(w)  BY <3>2 DEF ApproveDraft, At
    <3>3. QED  BY <1>4, <3>1, <3>2
  <2>2. UNCHANGED <<notes, evidence>> /\ \E e : audit' = audit \cup {Entry(w, e)}
    BY <1>4 DEF RecordExport, ApproveDraft
  <2>3. \A e : Entry(w, e).action \notin {"note", "upload"}  BY <2>1 DEF Entry
  <2>4. QED  BY <2>2, <2>3 DEF AttachmentIsAudited
<1>5. QED
  <2>1. \/ UNCHANGED evidence \/ \E w \in Workers : RecordExhibit(w) \/ RecordReport(w)
    BY RowSteps
  <2>2. QED  BY <1>1, <1>2, <1>3, <1>4, <2>1, TrailSteps DEF RecordReport

-----------------------------------------------------------------------------
\* What was there when the call began still is; and, once a SELECT has run, is
\* in its result or among the rows a later SELECT reads.
GatherInv ==
    \A w \in Workers : Busy(w) =>
        /\ call[w].due \subseteq IdsOf(notes) \cup IdsOf(evidence)
        /\ call[w].at \in {"noted", "gathered", "written"} /\ call[w].op = "report" =>
              /\ call[w].notes \subseteq IdsOf(notes)
              /\ call[w].due \subseteq call[w].notes \cup IdsOf(evidence)
        /\ call[w].at \in {"gathered", "written"} /\ call[w].op = "report" =>
              /\ call[w].exhibits \subseteq IdsOf(evidence)
              /\ call[w].due \subseteq call[w].notes \cup call[w].exhibits

LEMMA GatherStep ==
    ASSUME TypeOK, CallInv, FreshInv, GatherInv, [Next]_vars
    PROVE  GatherInv'
<1>1. IdsOf(notes) \subseteq IdsOf(notes') /\ IdsOf(evidence) \subseteq IdsOf(evidence')
  BY GrowsStep DEF Grows, IdsOf
<1> DEFINE Due(c) ==
       /\ c.due \subseteq IdsOf(notes) \cup IdsOf(evidence)
       /\ c.at \in {"noted", "gathered", "written"} /\ c.op = "report" =>
             /\ c.notes \subseteq IdsOf(notes)
             /\ c.due \subseteq c.notes \cup IdsOf(evidence)
       /\ c.at \in {"gathered", "written"} /\ c.op = "report" =>
             /\ c.exhibits \subseteq IdsOf(evidence)
             /\ c.due \subseteq c.notes \cup c.exhibits
<1>2. ASSUME NEW w \in Workers, Busy(w)'  PROVE Due(call'[w])
  <2>1. Busy(w) => Due(call[w])  BY DEF GatherInv
  <2>2. CASE call'[w] = call[w]  BY <1>2, <2>1, <2>2 DEF Busy
  <2>3. CASE Starts(w)
    <3>1. PICK c \in Call : /\ call' = [call EXCEPT ![w] = c] /\ c.at = "began"
                            /\ c.due = IdsOf(notes) \cup IdsOf(evidence)
      BY <2>3, StartingSteps DEF Starts
    <3>2. call'[w] = c  BY <3>1 DEF TypeOK
    <3>3. QED  BY <3>1, <3>2
  <2>4. CASE GatherNotes(w)
    <3>1. Busy(w) /\ call[w].at = "began"  BY <2>4 DEF GatherNotes, At, Busy
    <3>2. call'[w] = [call[w] EXCEPT !.at = "noted", !.notes = IdsOf(notes)] /\ call[w] \in Call
      BY <2>4 DEF GatherNotes, TypeOK
    <3>3. /\ call'[w].at = "noted" /\ call'[w].due = call[w].due
          /\ call'[w].notes = IdsOf(notes)
      BY <3>2 DEF Call
    <3>4. QED  BY <2>1, <3>1, <3>3
  <2>5. CASE GatherExhibits(w)
    <3>1. Busy(w) /\ call[w].at = "noted" /\ call[w].op = "report"
      BY <2>5 DEF GatherExhibits, At, Busy
    <3>2. /\ call'[w] = [call[w] EXCEPT !.at = "gathered", !.exhibits = IdsOf(evidence)]
          /\ call[w] \in Call
      BY <2>5 DEF GatherExhibits, TypeOK
    <3>3. /\ call'[w].due = call[w].due /\ call'[w].notes = call[w].notes
          /\ call'[w].exhibits = IdsOf(evidence) /\ call'[w].at = "gathered"
      BY <3>2 DEF Call
    <3>4. QED  BY <2>1, <3>1, <3>3
  <2>6. CASE StoreReport(w)
    <3>1. Busy(w) /\ call[w].at = "gathered" /\ call[w].op = "report"
      BY <2>6 DEF StoreReport, At, Busy
    <3>2. call'[w] = [call[w] EXCEPT !.at = "written"] /\ call[w] \in Call
      BY <2>6 DEF StoreReport, GoTo, TypeOK
    <3>3. /\ call'[w].due = call[w].due /\ call'[w].notes = call[w].notes
          /\ call'[w].exhibits = call[w].exhibits
      BY <3>2 DEF Call
    <3>4. QED  BY <2>1, <3>1, <3>3
  <2>7. CASE call'[w].op # "report" \/ call'[w].at \in {"committed", "found"}
    <3>1. call'[w].due \subseteq IdsOf(notes) \cup IdsOf(evidence)
      <4>1. CASE UNCHANGED <<call, calls>>  BY <2>2, <4>1
      <4>2. ASSUME NEW v \in Workers, NEW c \in Call, c = Idle \/ GoesOn(v, c),
                   call' = [call EXCEPT ![v] = c]
            PROVE  call'[w].due \subseteq IdsOf(notes) \cup IdsOf(evidence)
        BY <1>2, <2>1, <4>2 DEF TypeOK, GoesOn, Idle, Busy
      <4>3. ASSUME NEW v \in Workers, NEW op \in Ops, NEW u \in Users, NEW arg \in Args(op),
                   Start(v, op, u, arg)
            PROVE  call'[w].due \subseteq IdsOf(notes) \cup IdsOf(evidence)
        BY <1>2, <2>1, <4>3, StartingSteps DEF TypeOK, Busy
      <4>4. ASSUME NEW v \in Workers, Works(v)
            PROVE  call'[w].due \subseteq IdsOf(notes) \cup IdsOf(evidence)
        BY <4>2, <4>4, WorkingSteps
      <4>5. CASE \E f \in Ids : Tamper(f)  BY <2>2, <4>5 DEF Tamper
      <4>6. QED  BY <4>1, <4>3, <4>4, <4>5 DEF Next, Works, vars
    <3>2. QED  BY <2>7, <3>1
  <2>8. CASE StoreExhibit(w) \/ LoadDraft(w)
    <3>1. call'[w].op # "report"
      BY <2>8 DEF StoreExhibit, LoadDraft, At, GoTo, TypeOK, Call
    <3>2. QED  BY <2>7, <3>1
  <2>9. QED
    BY <1>2, <2>2, <2>3, <2>4, <2>5, <2>6, <2>7, <2>8, Moves DEF Busy
<1>3. QED  BY <1>1, <1>2 DEF GatherInv, IdsOf, Busy

LEMMA CoverStep ==
    ASSUME TypeOK, CallInv, FreshInv, GatherInv, ReportCoversCase, [Next]_vars
    PROVE  ReportCoversCase'
<1>1. IdsOf(notes) \subseteq IdsOf(notes') /\ IdsOf(evidence) \subseteq IdsOf(evidence')
  BY GrowsStep DEF Grows, IdsOf
<1>2. ASSUME NEW r \in reports'
      PROVE  /\ r.due \subseteq r.notes \cup r.exhibits
             /\ r.notes \subseteq IdsOf(notes) /\ r.exhibits \subseteq IdsOf(evidence)
  <2>1. CASE r \in reports  BY <2>1 DEF ReportCoversCase
  <2>2. ASSUME NEW w \in Workers, RecordReport(w), r = ReportRow(w)
        PROVE  /\ r.due \subseteq r.notes \cup r.exhibits
               /\ r.notes \subseteq IdsOf(notes) /\ r.exhibits \subseteq IdsOf(evidence)
    BY <2>2 DEF RecordReport, At, Busy, GatherInv, ReportRow
  <2>3. QED  BY <2>1, <2>2, RowSteps DEF RecordExhibit, RecordReport
<1>3. QED  BY <1>1, <1>2 DEF ReportCoversCase, IdsOf

-----------------------------------------------------------------------------
\* A reviewer did not write the draft.
ReviewInv ==
    \A w \in Workers : call[w].at = "reviewed" => call[w].by # drafts[call[w].arg].created_by

LEMMA ReviewStep ==
    ASSUME TypeOK, CallInv, ArgInv, FreshInv, ReviewInv, [Next]_vars
    PROVE  ReviewInv'
<1> SUFFICES ASSUME NEW w \in Workers, call'[w].at = "reviewed"
             PROVE  call'[w].by # drafts'[call'[w].arg].created_by
  BY DEF ReviewInv
<1>1. \A d \in Ids : drafts[d].status # "none" => drafts'[d].created_by = drafts[d].created_by
  BY GrowsStep DEF Grows
<1>2. CASE call'[w] = call[w]
  <2>1. Busy(w) /\ call[w].op \in Ops /\ "reviewed" \in Places(call[w].op)
    BY <1>2, IdType DEF Busy, CallInv, Call
  <2>2. call[w].op = "approve"  BY <2>1 DEF Places, Ops
  <2>3. QED  BY <1>1, <1>2, <2>1, <2>2 DEF ArgInv, ReviewInv
<1>3. CASE LoadDraft(w)
  <2>1. Busy(w) /\ call[w].op = "approve"  BY <1>3 DEF LoadDraft, At, Busy
  <2>2. call'[w].arg = call[w].arg /\ call'[w].by = call[w].by
    BY <1>3 DEF LoadDraft, GoTo, TypeOK, Call
  <2>3. call[w].by # drafts[call[w].arg].created_by  BY <1>3 DEF LoadDraft, CanApprove
  <2>4. QED  BY <1>1, <2>1, <2>2, <2>3 DEF ArgInv
<1>4. ASSUME Starts(w)  PROVE FALSE
  BY <1>4, StartingSteps DEF Starts, TypeOK
<1>5. ASSUME GatherNotes(w) \/ GatherExhibits(w) \/ StoreExhibit(w) \/ StoreReport(w)
      PROVE  FALSE
  BY <1>5 DEF GatherNotes, GatherExhibits, StoreExhibit, StoreReport, GoTo, TypeOK, Call
<1>6. QED  BY <1>2, <1>3, <1>4, <1>5, Moves

LEMMA ApprovalStep ==
    ASSUME TypeOK, CallInv, ArgInv, FreshInv, ReviewInv, ApprovalIsIndependent, [Next]_vars
    PROVE  ApprovalIsIndependent'
<1> SUFFICES ASSUME NEW d \in Ids, drafts'[d].status = "approved"
             PROVE  /\ drafts'[d].approved_by \in Approvers \ {drafts'[d].created_by}
                    /\ \E a \in audit' : /\ a.action = "approve" /\ a.entity = d
                                         /\ a.actor = drafts'[d].approved_by
  BY DEF ApprovalIsIndependent
<1>1. audit \subseteq audit'  BY GrowsStep DEF Grows
<1>2. CASE drafts'[d] = drafts[d]  BY <1>1, <1>2 DEF ApprovalIsIndependent
<1>3. ASSUME NEW w \in Workers, CreateDraft(w)  PROVE drafts'[d] = drafts[d]
  BY <1>3 DEF CreateDraft, TypeOK
<1>4. ASSUME NEW w \in Workers, ApproveDraft(w), call[w].arg # d  PROVE drafts'[d] = drafts[d]
  BY <1>4 DEF ApproveDraft, TypeOK
<1>5. ASSUME NEW w \in Workers, ApproveDraft(w), call[w].arg = d
      PROVE  /\ drafts'[d].approved_by \in Approvers \ {drafts'[d].created_by}
             /\ \E a \in audit' : /\ a.action = "approve" /\ a.entity = d
                                  /\ a.actor = drafts'[d].approved_by
  <2>1. /\ Busy(w) /\ call[w].op = "approve" /\ call[w].at = "reviewed"
        /\ call[w].by \in Approvers /\ call[w].by # drafts[d].created_by
    BY <1>5 DEF ApproveDraft, At, Busy, CallInv, ReviewInv
  <2>2. drafts'[d].approved_by = call[w].by /\ drafts'[d].created_by = drafts[d].created_by
    BY <1>5 DEF ApproveDraft, TypeOK, StrDraft
  <2>3. Entry(w, d) \in audit'  BY <1>5 DEF ApproveDraft
  <2>4. Entry(w, d).action = "approve" /\ Entry(w, d).entity = d /\ Entry(w, d).actor = call[w].by
    BY <2>1 DEF Entry
  <2>5. QED  BY <2>1, <2>2, <2>3, <2>4
<1>6. QED  BY <1>2, <1>3, <1>4, <1>5, DraftSteps

-----------------------------------------------------------------------------
LEMMA VerdictSteps ==
    ASSUME [Next]_vars
    PROVE  verdicts' = verdicts \/ (\E w \in Workers : FindFile(w) \/ CompareDigest(w))
BY DEF Next, vars, tables, Start, Attach, Export, Review, Verify, AddNote, RefuseUpload,
       StoreExhibit, RecordExhibit, GatherNotes, GatherExhibits, StoreReport, RecordReport,
       CreateDraft, RecordExport, LoadDraft, RefuseApproval, ApproveDraft, Fail, WriteFails,
       Tamper

\* Every row of a file records the digest of a whole exhibit or a whole report.
LEMMA RecordedDigests ==
    ASSUME RowsInv, NEW f \in IdsOf(evidence) \cup IdsOf(reports)
    PROVE  /\ RecordedDigest(f) \in {Digest(Exhibit(f)), Digest(Pdf(f))}
           /\ \E r \in evidence \cup reports : r.id = f /\ r.sha256 = RecordedDigest(f)
<1>1. \E r \in evidence \cup reports : r.id = f  BY DEF IdsOf
<1>2. PICK r : r = CHOOSE s \in evidence \cup reports : s.id = f  OBVIOUS
<1>3. r \in evidence \cup reports /\ r.id = f  BY <1>1, <1>2
<1>4. RecordedDigest(f) = r.sha256  BY <1>2 DEF RecordedDigest
<1>5. QED  BY <1>3, <1>4 DEF RowsInv

\* What is stored and what is left after a hand has touched it differ in digest.
LEMMA DigestsDiffer ==
    \A m, n : \A whole \in {Exhibit(m), Pdf(m)}, changed \in {Altered(n), Missing} :
        Digest(whole) # Digest(changed)
<1>1. \A x, y : x.kind # y.kind => Digest(x) # Digest(y)
  <2>1. \A x : Digest(x).sha256 = x  BY DEF Digest
  <2>2. QED  BY <2>1
<1>2. \A m : Exhibit(m).kind = "exhibit" /\ Pdf(m).kind = "pdf" /\ Altered(m).kind = "altered"
  BY DEF Exhibit, Pdf, Altered
<1>3. Missing.kind = "missing"  BY DEF Missing
<1>4. QED  BY <1>1, <1>2, <1>3

LEMMA VerdictStep ==
    ASSUME TypeOK, CallInv, ArgInv, RowsInv, FreshInv, TouchInv, RecordedIsStored,
           VerdictIsSound, [Next]_vars
    PROVE  VerdictIsSound'
<1>1. touched \subseteq touched'  BY GrowsStep DEF Grows
<1>2. ASSUME NEW w \in Workers, Busy(w), call[w].op = "verify", NEW verdict \in BOOLEAN,
             Answer(w, verdict), call[w].altered => ~verdict,
             ~verdict => call[w].arg \in touched
      PROVE  VerdictIsSound'
  BY <1>1, <1>2 DEF Answer, VerdictIsSound
<1>3. ASSUME NEW w \in Workers, FindFile(w)  PROVE VerdictIsSound'
  <2>1. CASE disk[call[w].arg] = Missing
    <3>1. Busy(w) /\ call[w].op = "verify"  BY <1>3 DEF FindFile, At, Busy
    <3>2. PICK r \in evidence \cup reports :
              r.id = call[w].arg /\ r.sha256 = RecordedDigest(call[w].arg)
      BY <3>1, RecordedDigests DEF ArgInv
    <3>3. r.sha256 # Digest(Missing)
      <4>1. r.sha256 \in {Digest(Exhibit(r.id)), Digest(Pdf(r.id))}  BY <3>2 DEF RowsInv
      <4>2. QED  BY <4>1, DigestsDiffer
    <3>4. call[w].arg \in touched  BY <2>1, <3>2, <3>3 DEF RecordedIsStored
    <3>5. Answer(w, FALSE)  BY <1>3, <2>1 DEF FindFile
    <3>6. QED  BY <1>2, <3>1, <3>4, <3>5
  <2>2. CASE disk[call[w].arg] # Missing
    BY <1>1, <1>3, <2>2 DEF FindFile, VerdictIsSound
  <2>3. QED  BY <2>1, <2>2
<1>4. ASSUME NEW w \in Workers, CompareDigest(w)  PROVE VerdictIsSound'
  <2>1. Busy(w) /\ call[w].op = "verify"  BY <1>4 DEF CompareDigest, At, Busy
  <2>2. PICK r \in evidence \cup reports :
            r.id = call[w].arg /\ r.sha256 = RecordedDigest(call[w].arg)
    BY <2>1, RecordedDigests DEF ArgInv
  <2>3. PICK same \in BOOLEAN : same = (Digest(disk[call[w].arg]) = r.sha256)
    OBVIOUS
  <2>4. Answer(w, same)  BY <1>4, <2>2, <2>3 DEF CompareDigest
  <2>5. call[w].altered => ~same
    <3>1. SUFFICES ASSUME call[w].altered  PROVE ~same  OBVIOUS
    <3>2. disk[call[w].arg] \in {Altered(call[w].arg), Missing}
      BY <2>1, <3>1 DEF ArgInv, TouchInv
    <3>3. r.sha256 \in {Digest(Exhibit(r.id)), Digest(Pdf(r.id))}  BY DEF RowsInv
    <3>4. Digest(disk[call[w].arg]) # r.sha256  BY <3>2, <3>3, DigestsDiffer
    <3>5. QED  BY <2>3, <3>4
  <2>6. ~same => call[w].arg \in touched
    BY <2>2, <2>3 DEF RecordedIsStored
  <2>7. QED  BY <1>2, <2>1, <2>4, <2>5, <2>6
<1>5. CASE verdicts' = verdicts  BY <1>1, <1>5 DEF VerdictIsSound
<1>6. QED  BY <1>3, <1>4, <1>5, VerdictSteps

-----------------------------------------------------------------------------
\* The inductive invariant: the properties, and what each of them rests on.
Inv ==
    /\ TypeOK /\ CallInv /\ ArgInv /\ RowsInv /\ FreshInv
    /\ DiskInv /\ TouchInv /\ RecordedIsStored
    /\ AttachmentIsAudited
    /\ GatherInv /\ ReportCoversCase
    /\ ReviewInv /\ ApprovalIsIndependent
    /\ VerdictIsSound

LEMMA InitInv == Init => Inv
<1> SUFFICES ASSUME Init  PROVE Inv  OBVIOUS
<1>1. TypeOK
  <2>1. NoDraft \in StrDraft  BY DEF NoDraft, StrDraft
  <2>2. calls \in 0..MaxCalls  BY MaxCallsAssumption DEF Init
  <2>3. Missing \in Contents  BY DEF Contents
  <2>4. QED  BY <2>1, <2>2, <2>3, IdleType DEF Init, TypeOK
<1>2. \A w \in Workers : call[w].at = "idle"  BY DEF Init, Idle
<1>3. CallInv /\ ArgInv /\ FreshInv /\ DiskInv /\ GatherInv /\ ReviewInv
  BY <1>2 DEF CallInv, ArgInv, FreshInv, DiskInv, GatherInv, ReviewInv, Busy
<1>4. RowsInv /\ TouchInv /\ RecordedIsStored /\ AttachmentIsAudited /\ ReportCoversCase
  BY DEF Init, RowsInv, TouchInv, RecordedIsStored, AttachmentIsAudited, ReportCoversCase,
         IdsOf, NoDraft
<1>5. ApprovalIsIndependent /\ VerdictIsSound
  BY DEF Init, ApprovalIsIndependent, VerdictIsSound, NoDraft
<1>6. QED  BY <1>1, <1>3, <1>4, <1>5 DEF Inv

\* Inv holds in every reachable state of Custody.
THEOREM Invariance == Spec => []Inv
<1>1. Init => Inv  BY InitInv
<1>2. Inv /\ [Next]_vars => Inv'
  <2> SUFFICES ASSUME Inv, [Next]_vars  PROVE Inv'  OBVIOUS
  <2>1. TypeOK' /\ CallInv'  BY TypeStep, CallInvStep DEF Inv
  <2>2. ArgInv' /\ RowsInv' /\ FreshInv'  BY ArgStep, RowsStep, FreshStep DEF Inv
  <2>3. DiskInv' /\ TouchInv' /\ RecordedIsStored'
    BY DiskStep, TouchStep, StoredStep DEF Inv
  <2>4. AttachmentIsAudited' /\ GatherInv' /\ ReportCoversCase'
    BY AuditStep, GatherStep, CoverStep DEF Inv
  <2>5. ReviewInv' /\ ApprovalIsIndependent' /\ VerdictIsSound'
    BY ReviewStep, ApprovalStep, VerdictStep DEF Inv
  <2>6. QED  BY <2>1, <2>2, <2>3, <2>4, <2>5 DEF Inv
<1>3. QED  BY <1>1, <1>2, PTL DEF Spec

\* Every table, file and call keeps its type, for any number of officers,
\* workers and calls.
THEOREM TypeCorrect == Spec => []TypeOK
<1>1. Inv => TypeOK  BY DEF Inv
<1>2. QED  BY <1>1, Invariance, PTL

\* The digest in an exhibit's or a report's row is that of the bytes in storage
\* until something outside the system touches them (upload_evidence and
\* generate_report write the file before the row).
THEOREM RowsPromiseStoredBytes == Spec => []RecordedIsStored
<1>1. Inv => RecordedIsStored  BY DEF Inv
<1>2. QED  BY <1>1, Invariance, PTL

\* Exhibits, notes and their audit entries exist together and name the same
\* officer (add_note and upload_evidence commit both at once).
THEOREM AttachmentsAreAudited == Spec => []AttachmentIsAudited
<1>1. Inv => AttachmentIsAudited  BY DEF Inv
<1>2. QED  BY <1>1, Invariance, PTL

\* A report omits nothing committed before it was asked for (_gather's SELECTs
\* run one after the other).
THEOREM ReportsCoverTheCase == Spec => []ReportCoversCase
<1>1. Inv => ReportCoversCase  BY DEF Inv
<1>2. QED  BY <1>1, Invariance, PTL

\* An approved STR draft was approved by an approver other than its author.
THEOREM IndependentApproval == Spec => []ApprovalIsIndependent
<1>1. Inv => ApprovalIsIndependent  BY DEF Inv
<1>2. QED  BY <1>1, Invariance, PTL

\* The verify endpoints never clear a touched file and never accuse an
\* untouched one.
THEOREM VerdictsAreSound == Spec => []VerdictIsSound
<1>1. Inv => VerdictIsSound  BY DEF Inv
<1>2. QED  BY <1>1, Invariance, PTL
=============================================================================
