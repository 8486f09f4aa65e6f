SPECIFICATION MCDocumentsSpec
CONSTANTS
    Drivers = {d1, d2}
    Docs = {r1, r2}
    Files = {f1, f2}
    Tasks = {t1, t2}
    Decisions = {"APPROVED", "REJECTED"}
    NoOne = NoOne
SYMMETRY Symmetry
INVARIANTS
    DocumentsTypeOK
    FilesConsistent
    OneDocumentOfType
    ApprovedFileWasReviewed
    ApprovedWithDocuments
CHECK_DEADLOCK FALSE
