------------------------------- MODULE Custody -------------------------------
(***************************************************************************)
(* What an officer attaches to one case and exports from it: notes,        *)
(* exhibits, the hashed PDF report (api/v1/cases.py, services/reports.py)  *)
(* and the STR draft (api/v1/str_drafts.py, services/str_draft.py).        *)
(*                                                                         *)
(* A call writes to three places that share no transaction: the storage    *)
(* directory, the row it commits, and, for reports and STR drafts, an      *)
(* audit entry in a second commit.  A worker may fail or die between any   *)
(* two, and other workers' calls run in between.                           *)
(*                                                                         *)
(* A call's number stands for the ids it generates: its row's key and the  *)
(* name of the file it writes.  Names do not collide: an exhibit's ends in *)
(* random digits, a report's in the digest of a PDF that prints the        *)
(* microsecond it was rendered in.                                         *)
(***************************************************************************)
EXTENDS Naturals, FiniteSets

CONSTANTS
    Users,              \* officers with an active account
    Approvers,          \* those require_approver lets through
    Workers,            \* handlers running at once
    MAX_EVIDENCE_BYTES, \* upload limit
    Sizes,              \* sizes an uploaded file may have
    MaxCalls,           \* bound on the calls ever made
    NULL

ASSUME ApproversAssumption == Approvers \subseteq Users
ASSUME SizesAssumption == Sizes \subseteq Nat /\ MAX_EVIDENCE_BYTES \in Nat
ASSUME MaxCallsAssumption == MaxCalls \in Nat
ASSUME NullAssumption == NULL \notin Users

VARIABLES
    calls,      \* calls made so far
    disk,       \* the storage directory: [file -> its bytes]
    touched,    \* files something outside this system changed or removed
    notes,      \* the case_notes table
    evidence,   \* the evidence table
    reports,    \* the reports table
    drafts,     \* the str_drafts table, by the call that created the row
    audit,      \* the audit_log table
    verdicts,   \* answers of the verify endpoints
    call        \* [Workers -> the handler the worker is running]

tables == <<notes, evidence, reports, drafts, audit>>
vars == <<calls, disk, touched, tables, verdicts, call>>

Ids == 1..MaxCalls
Ops == {"note", "upload", "report", "verify", "str", "approve"}

-----------------------------------------------------------------------------
(* Files and digests *)

\* Contents: an exhibit, a rendered report, what an interrupted write or a
\* hand outside the system leaves; Missing is no file.
Exhibit(n)  == [kind |-> "exhibit", of |-> n]
Pdf(n)      == [kind |-> "pdf", of |-> n]
Partial(n)  == [kind |-> "partial", of |-> n]
Altered(n)  == [kind |-> "altered", of |-> n]
Missing     == [kind |-> "missing", of |-> 0]
Contents    == [kind : {"exhibit", "pdf", "partial", "altered"}, of : Ids] \cup {Missing}

\* SHA-256, taken to be free of collisions.
Digest(bytes) == [sha256 |-> bytes]

Row      == [id : Ids, sha256 : {Digest(b) : b \in Contents}, by : Users]
Report   == [id : Ids, sha256 : {Digest(b) : b \in Contents}, by : Users,
             notes : SUBSET Ids, exhibits : SUBSET Ids,  \* what the PDF lists
             due : SUBSET Ids]      \* rows committed before the call began
StrDraft == [status : {"none", "draft", "approved"},
             created_by : Users \cup {NULL}, approved_by : Users \cup {NULL}]
AuditLog == [action : Ops, entity : Ids, actor : Users, id : Ids]
Verdict  == [file : Ids, verified : BOOLEAN,
             altered : BOOLEAN]     \* the file had been touched when asked

NoDraft == [status |-> "none", created_by |-> NULL, approved_by |-> NULL]

IdsOf(rows) == {r.id : r \in rows}

Call ==
    [op : Ops, at : {"idle", "began", "noted", "gathered", "written", "committed",
                     "drafted", "found", "reviewed"},
     id : 0..MaxCalls, by : Users \cup {NULL},
     arg : Nat,                     \* upload's size, or the row acted upon
     due : SUBSET Ids, notes : SUBSET Ids, exhibits : SUBSET Ids, altered : BOOLEAN]

Idle ==
    [op |-> "note", at |-> "idle", id |-> 0, by |-> NULL, arg |-> 0,
     due |-> {}, notes |-> {}, exhibits |-> {}, altered |-> FALSE]

At(w, op, where) == call[w].op = op /\ call[w].at = where
GoTo(w, where)   == call' = [call EXCEPT ![w].at = where]
End(w)           == call' = [call EXCEPT ![w] = Idle]

\* record_audit: an entry about row e, written by w's call.
Entry(w, e) ==
    [action |-> call[w].op, entity |-> e, actor |-> call[w].by, id |-> call[w].id]

NewRow(w, bytes) == [id |-> call[w].id, sha256 |-> Digest(bytes), by |-> call[w].by]

-----------------------------------------------------------------------------
Init ==
    /\ calls = 0
    /\ disk = [f \in Ids |-> Missing]
    /\ touched = {}
    /\ notes = {} /\ evidence = {} /\ reports = {}
    /\ drafts = [d \in Ids |-> NoDraft]
    /\ audit = {}
    /\ verdicts = {}
    /\ call = [w \in Workers |-> Idle]

\* What a call may name: verify and approve answer 404 for an unknown row.
Args(op) ==
    CASE op = "upload"  -> Sizes
      [] op = "verify"  -> IdsOf(evidence) \cup IdsOf(reports)
      [] op = "approve" -> {d \in Ids : drafts[d].status # "none"}
      [] OTHER          -> {0}

\* A request arrives: get_current_user, and require_approver for an approval.
Start(w, op, u, arg) ==
    /\ call[w].at = "idle" /\ calls < MaxCalls
    /\ op = "approve" => u \in Approvers
    /\ calls' = calls + 1
    /\ call' = [call EXCEPT ![w] =
                   [Idle EXCEPT !.op = op, !.at = "began", !.id = calls + 1, !.by = u,
                                !.arg = arg,
                                !.due = IdsOf(notes) \cup IdsOf(evidence),
                                !.altered = arg \in touched]]
    /\ UNCHANGED <<disk, touched, tables, verdicts>>

\* add_note: the note and its audit entry in one commit.
AddNote(w) ==
    /\ At(w, "note", "began")
    /\ notes' = notes \cup {[id |-> call[w].id, by |-> call[w].by]}
    /\ audit' = audit \cup {Entry(w, call[w].id)}
    /\ End(w)
    /\ UNCHANGED <<calls, disk, touched, evidence, reports, drafts, verdicts>>

-----------------------------------------------------------------------------
(* upload_evidence: the file first, then the row and its audit entry. *)

Acceptable(size) == size # 0 /\ size <= MAX_EVIDENCE_BYTES

RefuseUpload(w) ==      \* 422 for an empty file, 413 over the limit
    /\ At(w, "upload", "began") /\ ~Acceptable(call[w].arg)
    /\ End(w)
    /\ UNCHANGED <<calls, disk, touched, tables, verdicts>>

StoreExhibit(w) ==
    /\ At(w, "upload", "began") /\ Acceptable(call[w].arg)
    /\ disk' = [disk EXCEPT ![call[w].id] = Exhibit(call[w].id)]
    /\ GoTo(w, "written")
    /\ UNCHANGED <<calls, touched, tables, verdicts>>

\* A slip: the audit entry left to a second commit.
RecordExhibitThenAudit(w) ==
    /\ At(w, "upload", "written")
    /\ evidence' = evidence \cup {NewRow(w, Exhibit(call[w].id))}
    /\ GoTo(w, "committed")
    /\ UNCHANGED <<calls, disk, touched, notes, reports, drafts, audit, verdicts>>

\* The digest is of the bytes received, not of those read back.
RecordExhibit(w) ==
    /\ At(w, "upload", "written")
    /\ evidence' = evidence \cup {NewRow(w, Exhibit(call[w].id))}
    /\ audit' = audit \cup {Entry(w, call[w].id)}
    /\ End(w)
    /\ UNCHANGED <<calls, disk, touched, notes, reports, drafts, verdicts>>

-----------------------------------------------------------------------------
(* generate_report: one SELECT after another, each of what is committed    *)
(* when it runs; the file; the row; and in a second commit the audit entry.*)
(* The attribution the report also prints is left out of it when it fails. *)

GatherNotes(w) ==
    /\ At(w, "report", "began")
    /\ call' = [call EXCEPT ![w].at = "noted", ![w].notes = IdsOf(notes)]
    /\ UNCHANGED <<calls, disk, touched, tables, verdicts>>

\* A slip: only the exhibits of the officer who asks.
GatherOwnExhibits(w) ==
    /\ At(w, "report", "noted")
    /\ call' = [call EXCEPT ![w].at = "gathered",
                            ![w].exhibits = IdsOf({e \in evidence : e.by = call[w].by})]
    /\ UNCHANGED <<calls, disk, touched, tables, verdicts>>

GatherExhibits(w) ==
    /\ At(w, "report", "noted")
    /\ call' = [call EXCEPT ![w].at = "gathered", ![w].exhibits = IdsOf(evidence)]
    /\ UNCHANGED <<calls, disk, touched, tables, verdicts>>

StoreReport(w) ==
    /\ At(w, "report", "gathered")
    /\ disk' = [disk EXCEPT ![call[w].id] = Pdf(call[w].id)]
    /\ GoTo(w, "written")
    /\ UNCHANGED <<calls, touched, tables, verdicts>>

ReportRow(w) ==
    [id |-> call[w].id, sha256 |-> Digest(Pdf(call[w].id)), by |-> call[w].by,
     notes |-> call[w].notes, exhibits |-> call[w].exhibits, due |-> call[w].due]

RecordReport(w) ==
    /\ At(w, "report", "written")
    /\ reports' = reports \cup {ReportRow(w)}
    /\ GoTo(w, "committed")
    /\ UNCHANGED <<calls, disk, touched, notes, evidence, drafts, audit, verdicts>>

\* A slip: a status approval_t does not have.
CreateDraftUnnamed(w) ==
    /\ At(w, "str", "began")
    /\ drafts' = [drafts EXCEPT ![call[w].id] =
                     [status |-> "new", created_by |-> call[w].by, approved_by |-> NULL]]
    /\ GoTo(w, "committed")
    /\ UNCHANGED <<calls, disk, touched, notes, evidence, reports, audit, verdicts>>

\* create_str_draft commits the draft; the endpoint then records it.
CreateDraft(w) ==
    /\ At(w, "str", "began")
    /\ drafts' = [drafts EXCEPT ![call[w].id] =
                     [status |-> "draft", created_by |-> call[w].by, approved_by |-> NULL]]
    /\ GoTo(w, "committed")
    /\ UNCHANGED <<calls, disk, touched, notes, evidence, reports, audit, verdicts>>

\* The second commit of generate_report and of the STR draft's generate.
RecordExport(w) ==
    /\ call[w].at = "committed"
    /\ audit' = audit \cup {Entry(w, call[w].id)}
    /\ End(w)
    /\ UNCHANGED <<calls, disk, touched, notes, evidence, reports, drafts, verdicts>>

-----------------------------------------------------------------------------
(* Approving an STR draft: checked on the row loaded, written at commit. *)

\* A slip: the author may approve too.
CanApproveOwn(d, u) == drafts[d].status = "draft"

CanApprove(d, u) == drafts[d].status = "draft" /\ drafts[d].created_by # u

LoadDraft(w) ==
    /\ At(w, "approve", "began") /\ CanApprove(call[w].arg, call[w].by)
    /\ GoTo(w, "reviewed")
    /\ UNCHANGED <<calls, disk, touched, tables, verdicts>>

RefuseApproval(w) ==    \* 409 already decided, 403 the draft's own author
    /\ At(w, "approve", "began") /\ ~CanApprove(call[w].arg, call[w].by)
    /\ End(w)
    /\ UNCHANGED <<calls, disk, touched, tables, verdicts>>

ApproveDraft(w) ==
    /\ At(w, "approve", "reviewed")
    /\ drafts' = [drafts EXCEPT ![call[w].arg].status = "approved",
                                ![call[w].arg].approved_by = call[w].by]
    /\ audit' = audit \cup {Entry(w, call[w].arg)}
    /\ End(w)
    /\ UNCHANGED <<calls, disk, touched, notes, evidence, reports, verdicts>>

-----------------------------------------------------------------------------
(* verify_evidence and verify_report: is the file there, and does its      *)
(* digest equal the row's?  Two reads of the storage directory.            *)

RecordedDigest(f) == (CHOOSE r \in evidence \cup reports : r.id = f).sha256

Answer(w, verdict) ==
    verdicts' = verdicts \cup
        {[file |-> call[w].arg, verified |-> verdict, altered |-> call[w].altered]}

FindFile(w) ==
    /\ At(w, "verify", "began")
    /\ IF disk[call[w].arg] = Missing
       THEN Answer(w, FALSE) /\ End(w)
       ELSE GoTo(w, "found") /\ UNCHANGED verdicts
    /\ UNCHANGED <<calls, disk, touched, tables>>

\* A slip: a file that is there is taken to be the one that was stored.
TrustFile(w) ==
    /\ At(w, "verify", "found")
    /\ Answer(w, TRUE)
    /\ End(w)
    /\ UNCHANGED <<calls, disk, touched, tables>>

CompareDigest(w) ==
    /\ At(w, "verify", "found")
    /\ disk[call[w].arg] # Missing      \* else FileNotFoundError: see Fail
    /\ Answer(w, Digest(disk[call[w].arg]) = RecordedDigest(call[w].arg))
    /\ End(w)
    /\ UNCHANGED <<calls, disk, touched, tables>>

-----------------------------------------------------------------------------
\* A statement, a commit or the process fails: get_db rolls back what was not
\* committed; a file already written stays.
Fail(w) ==
    /\ call[w].at # "idle"
    /\ End(w)
    /\ UNCHANGED <<calls, disk, touched, tables, verdicts>>

\* A slip: the error of write_bytes is logged and the handler goes on.
WriteErrorIgnored(w) ==
    /\ \/ At(w, "upload", "began") /\ Acceptable(call[w].arg)
       \/ At(w, "report", "gathered")
    /\ disk' = [disk EXCEPT ![call[w].id] = Partial(call[w].id)]
    /\ GoTo(w, "written")
    /\ UNCHANGED <<calls, touched, tables, verdicts>>

\* The same while write_bytes is at work: part of the file is left behind.
WriteFails(w) ==
    /\ \/ At(w, "upload", "began") /\ Acceptable(call[w].arg)
       \/ At(w, "report", "gathered")
    /\ disk' = [disk EXCEPT ![call[w].id] = Partial(call[w].id)]
    /\ End(w)
    /\ UNCHANGED <<calls, touched, tables, verdicts>>

\* A hand outside the system changes or removes a stored file, once.
Tamper(f) ==
    /\ f \notin touched /\ f \in IdsOf(evidence) \cup IdsOf(reports)
    /\ touched' = touched \cup {f}
    /\ disk' \in {[disk EXCEPT ![f] = Altered(f)], [disk EXCEPT ![f] = Missing]}
    /\ UNCHANGED <<calls, tables, verdicts, call>>

Attach(w)  == AddNote(w) \/ RefuseUpload(w) \/ StoreExhibit(w) \/ RecordExhibit(w)
Export(w)  == \/ GatherNotes(w) \/ GatherExhibits(w) \/ StoreReport(w) \/ RecordReport(w)
              \/ CreateDraft(w) \/ RecordExport(w)
Review(w)  == LoadDraft(w) \/ RefuseApproval(w) \/ ApproveDraft(w)
Verify(w)  == FindFile(w) \/ CompareDigest(w)

Next ==
    \/ \E w \in Workers :
          \/ \E op \in Ops, u \in Users : \E arg \in Args(op) : Start(w, op, u, arg)
          \/ Attach(w) \/ Export(w) \/ Review(w) \/ Verify(w)
          \/ Fail(w) \/ WriteFails(w)
    \/ \E f \in Ids : Tamper(f)

Spec == Init /\ [][Next]_vars

-----------------------------------------------------------------------------
TypeOK ==
    /\ calls \in 0..MaxCalls
    /\ disk \in [Ids -> Contents]
    /\ touched \subseteq Ids
    /\ notes \subseteq [id : Ids, by : Users]
    /\ evidence \subseteq Row /\ reports \subseteq Report
    /\ drafts \in [Ids -> StrDraft]
    /\ audit \subseteq AuditLog
    /\ verdicts \subseteq Verdict
    /\ call \in [Workers -> Call]

\* Whatever fails in between, a row never promises a file that was not
\* written in full: its digest is that of the bytes on disk until something
\* outside the system touches them.
RecordedIsStored ==
    \A r \in evidence \cup reports : r.id \notin touched => Digest(disk[r.id]) = r.sha256

\* An exhibit or a note and its audit entry exist together or not at all, and
\* name the same officer (one commit writes both).
AttachmentIsAudited ==
    /\ \A r \in evidence :
          [action |-> "upload", entity |-> r.id, actor |-> r.by, id |-> r.id] \in audit
    /\ \A r \in notes :
          [action |-> "note", entity |-> r.id, actor |-> r.by, id |-> r.id] \in audit
    /\ \A a \in audit : a.action = "upload" => \E r \in evidence : r.id = a.entity
    /\ \A a \in audit : a.action = "note" => \E r \in notes : r.id = a.entity

\* A report lists every note and exhibit committed before it was asked for,
\* and nothing that was rolled back, however the four SELECTs of _gather
\* interleave with other officers' uploads.
ReportCoversCase ==
    \A r \in reports :
        /\ r.due \subseteq r.notes \cup r.exhibits
        /\ r.notes \subseteq IdsOf(notes) /\ r.exhibits \subseteq IdsOf(evidence)

\* The verify endpoints never raise a false alarm over a file nobody touched,
\* and never clear one touched before they were asked.
VerdictIsSound ==
    \A v \in verdicts :
        /\ v.altered => ~v.verified
        /\ ~v.verified => v.file \in touched

\* An approved STR draft was reviewed by an approver who did not write it, and
\* the trail has that officer's entry, even when two approvals race.
ApprovalIsIndependent ==
    \A d \in Ids : drafts[d].status = "approved" =>
        /\ drafts[d].approved_by \in Approvers \ {drafts[d].created_by}
        /\ \E a \in audit : /\ a.action = "approve" /\ a.entity = d
                            /\ a.actor = drafts[d].approved_by
=============================================================================
