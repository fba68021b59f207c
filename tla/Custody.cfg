SPECIFICATION Spec
CONSTANTS
    Users = {inv, sup, adm}
    Approvers = {sup, adm}
    Workers = {w1, w2}
    NULL = NULL
    MAX_EVIDENCE_BYTES = 1
    Sizes = {0, 1, 2}
    MaxCalls = 3
SYMMETRY Symmetric
INVARIANTS TypeOK RecordedIsStored AttachmentIsAudited ReportCoversCase VerdictIsSound ApprovalIsIndependent
CHECK_DEADLOCK FALSE
