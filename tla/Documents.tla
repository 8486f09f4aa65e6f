------------------------------- MODULE Documents -------------------------------
(***************************************************************************)
(* Documents: DocumentsService with FileUploadService, what ProfilesService*)
(* does to the same rows, and what approves them.                          *)
(*                                                                         *)
(* A document is a row and a file, and an upload changes them one after    *)
(* the other: read the row to replace, delete its file, write the new file,*)
(* write the row.  Only the row is in the database.  The rows here are of  *)
(* one type.  The file's name holds the driver, the type and the           *)
(* millisecond: a name never comes back.  But the profile's own routes take*)
(* any string for the row's URL, and an upload deletes whatever file of    *)
(* uploads/documents the URL it read ends in: through URLs written by hand *)
(* drivers, and types of document, meet in each other's files.             *)
(***************************************************************************)
EXTENDS Naturals, FiniteSets

CONSTANTS
    Drivers,
    Docs,           \* ids that rows of driver_documents can get
    Files,          \* names that files of uploads/documents can get
    Tasks,          \* requests in progress together
    Decisions,      \* bound: the statuses that reviewers and owners write
    NoOne           \* NULL; as a file, a URL that names none of these

DocumentStatus == {"PENDING", "APPROVED", "REJECTED", "EXPIRED"}

ASSUME DocumentsAssumption ==
    /\ NoOne \notin Drivers \cup Docs \cup Files
    /\ Decisions \subseteq DocumentStatus

VARIABLES
    driver,         \* table driver_profiles: its status, or "GONE"
    \* table driver_documents
    of,             \* whose the row is; NoOne: not made yet
    status,
    file,
    disk,           \* the files of uploads/documents
    maker,          \* history: whose upload made a file; NoOne: not made yet
    named,          \* history: the files that a URL written by hand has named
    task,           \* the requests in progress: where they are and what they remember
    \* history: what happened that excuses a driver's documents
    past,
    reviewed,       \* the file an administrator had before them when they approved
    later           \* rows that were put to PENDING when their driver was approved already

rows == <<of, status, file>>
documentsVars == <<driver, rows, disk, maker, named, task, past, reviewed, later>>

Excuses == {"overlap", "cut", "edit", "second", "stale", "alone"}
TaskSteps == {"idle", "upload", "deleted", "saved", "review", "approve"}
NoTask == [step |-> "idle", driver |-> NoOne, doc |-> NoOne, old |-> NoOne, new |-> NoOne]

DocumentsTypeOK ==
    /\ driver \in [Drivers -> {"PENDING", "APPROVED", "GONE"}]
    /\ of \in [Docs -> Drivers \cup {NoOne}]
    /\ status \in [Docs -> DocumentStatus]
    /\ file \in [Docs -> Files \cup {NoOne}]
    /\ disk \subseteq Files
    /\ maker \in [Files -> Drivers \cup {NoOne}]
    /\ named \subseteq Files
    /\ task \in [Tasks -> [step : TaskSteps, driver : Drivers \cup {NoOne},
                           doc : Docs \cup {NoOne}, old : Files \cup {NoOne},
                           new : Files \cup {NoOne}]]
    /\ past \in [Drivers -> SUBSET Excuses]
    /\ reviewed \in [Docs -> Files \cup {NoOne}]
    /\ later \subseteq Docs

DocumentsInit ==
    /\ driver = [d \in Drivers |-> "PENDING"]
    /\ of = [r \in Docs |-> NoOne]
    /\ status = [r \in Docs |-> "PENDING"]
    /\ file = [r \in Docs |-> NoOne]
    /\ disk = {}
    /\ maker = [f \in Files |-> NoOne]
    /\ named = {}
    /\ task = [t \in Tasks |-> NoTask]
    /\ past = [d \in Drivers |-> {}]
    /\ reviewed = [r \in Docs |-> NoOne]
    /\ later = {}

\* A row goes with its driver, by cascade; ids of rows are not used again.
Row(r) == of[r] # NoOne /\ driver[of[r]] # "GONE"
Uploads(d) == {t \in Tasks : task[t].driver = d /\ task[t].step \in {"upload", "deleted", "saved"}}
Excuse(d, what) == past' = [past EXCEPT ![d] = @ \cup what]
End(t) == task' = [task EXCEPT ![t] = NoTask]
\* a rejected document comes back, perhaps beside its successor
Revived(r, new) == IF status[r] = "REJECTED" /\ new # "REJECTED" THEN {"second"} ELSE {}
Later(r, d, new) ==
    later' = IF new = "PENDING" /\ driver[d] = "APPROVED" THEN later \cup {r} ELSE later \ {r}

-------------------------------------------------------------------------------
(* uploadDocument *)

\* (variant) only an approved row is replaced
UploadReadApproved(t, d) ==
    LET replaceable == {r \in Docs : of[r] = d /\ status[r] = "APPROVED"} IN
    /\ task[t].step = "idle"
    /\ driver[d] # "GONE"
    /\ \E r \in IF replaceable = {} THEN {NoOne} ELSE replaceable :
        LET old == IF r = NoOne THEN NoOne ELSE file[r] IN
        task' = [task EXCEPT ![t] = [step |-> IF old = NoOne THEN "deleted" ELSE "upload",
                                     driver |-> d, doc |-> r, old |-> old, new |-> NoOne]]
    /\ Excuse(d, IF Uploads(d) = {} THEN {} ELSE {"overlap"})
    /\ UNCHANGED <<driver, rows, disk, maker, named, reviewed, later>>

\* The file is validated; findFirst: any row of this driver that is not rejected, or none.
UploadRead(t, d) ==
    LET replaceable == {r \in Docs : of[r] = d /\ status[r] # "REJECTED"} IN
    /\ task[t].step = "idle"
    /\ driver[d] # "GONE"
    /\ \E r \in IF replaceable = {} THEN {NoOne} ELSE replaceable :
        LET old == IF r = NoOne THEN NoOne ELSE file[r] IN
        task' = [task EXCEPT ![t] = [step |-> IF old = NoOne THEN "deleted" ELSE "upload",
                                     driver |-> d, doc |-> r, old |-> old, new |-> NoOne]]
    /\ Excuse(d, IF Uploads(d) = {} THEN {} ELSE {"overlap"})
    /\ UNCHANGED <<driver, rows, disk, maker, named, reviewed, later>>

\* deleteFile never throws: a file that is not there is only logged.
UploadDelete(t) ==
    /\ task[t].step = "upload"
    /\ disk' = disk \ {task[t].old}
    /\ task' = [task EXCEPT ![t].step = "deleted"]
    /\ UNCHANGED <<driver, rows, maker, named, past, reviewed, later>>

\* (variant) named after the row
UploadSaveForRow(t) ==
    /\ task[t].step = "deleted"
    /\ \E f \in Files :
        /\ maker[f] = NoOne
        /\ disk' = disk \cup {f}
        /\ maker' = [maker EXCEPT ![f] = task[t].doc]
        /\ task' = [task EXCEPT ![t].step = "saved", ![t].new = f]
    /\ UNCHANGED <<driver, rows, named, past, reviewed, later>>

\* The file gets a name that none had, though a URL may have guessed it.
UploadSave(t) ==
    /\ task[t].step = "deleted"
    /\ \E f \in Files :
        /\ maker[f] = NoOne
        /\ disk' = disk \cup {f}
        /\ maker' = [maker EXCEPT ![f] = task[t].driver]
        /\ task' = [task EXCEPT ![t].step = "saved", ![t].new = f]
    /\ UNCHANGED <<driver, rows, named, past, reviewed, later>>

\* (variant) the status is not reset
UploadUpdateKeepsStatus(t) ==
    LET r == task[t].doc IN
    /\ task[t].step = "saved" /\ r # NoOne
    /\ Row(r)
    /\ file' = [file EXCEPT ![r] = task[t].new]
    /\ Later(r, of[r], status[r])
    /\ Excuse(of[r], Revived(r, status[r]))
    /\ End(t)
    /\ UNCHANGED <<driver, of, status, disk, maker, named, reviewed>>

\* (variant) the row keeps its URL
UploadUpdateKeepsFile(t) ==
    LET r == task[t].doc IN
    /\ task[t].step = "saved" /\ r # NoOne
    /\ Row(r)
    /\ status' = [status EXCEPT ![r] = "PENDING"]
    /\ Later(r, of[r], "PENDING")
    /\ Excuse(of[r], Revived(r, "PENDING"))
    /\ reviewed' = [reviewed EXCEPT ![r] = NoOne]
    /\ End(t)
    /\ UNCHANGED <<driver, of, file, disk, maker, named>>

\* The remembered row, by id: back to PENDING, whatever has become of it meanwhile.
UploadUpdate(t) ==
    LET r == task[t].doc IN
    /\ task[t].step = "saved" /\ r # NoOne
    /\ Row(r)
    /\ status' = [status EXCEPT ![r] = "PENDING"]
    /\ file' = [file EXCEPT ![r] = task[t].new]
    /\ Later(r, of[r], "PENDING")
    /\ Excuse(of[r], Revived(r, "PENDING"))
    /\ reviewed' = [reviewed EXCEPT ![r] = NoOne]
    /\ End(t)
    /\ UNCHANGED <<driver, of, disk, maker, named>>

\* A new row; which id it gets does not matter.
Unborn == {r \in Docs : of[r] = NoOne}
NewRow(d, f) ==
    LET r == CHOOSE r \in Unborn : TRUE IN
    /\ Unborn # {}
    /\ of' = [of EXCEPT ![r] = d]
    /\ status' = [status EXCEPT ![r] = "PENDING"]
    /\ file' = [file EXCEPT ![r] = f]
    /\ reviewed' = [reviewed EXCEPT ![r] = NoOne]
    /\ Later(r, d, "PENDING")

\* A row no other replaces; the foreign key refuses it once the driver is gone.
UploadCreate(t) ==
    /\ task[t].step = "saved" /\ task[t].doc = NoOne
    /\ driver[task[t].driver] # "GONE"
    /\ NewRow(task[t].driver, task[t].new)
    /\ End(t)
    /\ UNCHANGED <<driver, disk, maker, named, past>>

\* A refused write, a full disk or a stopped process, with nothing undone.  So ends every
\* upload under the registered storage: it keeps no buffer, and writeFile throws.
Fail(t) ==
    /\ task[t].step # "idle"
    /\ past' = [past EXCEPT ![task[t].driver] = @ \cup
                  CASE task[t].step = "approve" -> {"alone"}
                    [] task[t].step \in {"deleted", "saved"} -> {"cut"}
                    [] OTHER -> {}]
    /\ End(t)
    /\ UNCHANGED <<driver, rows, disk, maker, named, reviewed, later>>

-------------------------------------------------------------------------------
(* reviewDocument, and the profile's own routes *)

ReviewRead(t, r) ==
    /\ task[t].step = "idle"
    /\ Row(r)
    /\ task' = [task EXCEPT ![t] = [NoTask EXCEPT !.step = "review", !.driver = of[r],
                                                  !.doc = r, !.old = file[r]]]
    /\ UNCHANGED <<driver, rows, disk, maker, named, past, reviewed, later>>

\* Any status, by id; a rejected document may come back beside its successor.
ReviewWrite(t, new) ==
    LET r == task[t].doc IN
    /\ task[t].step = "review"
    /\ Row(r)
    /\ status' = [status EXCEPT ![r] = new]
    /\ reviewed' = [reviewed EXCEPT ![r] = IF new = "APPROVED" THEN task[t].old ELSE NoOne]
    /\ Later(r, of[r], new)
    /\ Excuse(of[r], Revived(r, new) \cup IF file[r] = task[t].old THEN {} ELSE {"stale"})
    /\ End(t)
    /\ UNCHANGED <<driver, of, file, disk, maker, named>>

\* A URL is any string: it may end in the name of any file here, another driver's too.
Names(f) == named' = named \cup ({f} \cap Files)

\* createDriverDocument: a row with a URL of the owner's own, whatever rows there are.
CreateDriverDocument(d, f) ==
    /\ driver[d] # "GONE"
    /\ NewRow(d, f)
    /\ Names(f)
    /\ Excuse(d, {"second"})
    /\ UNCHANGED <<driver, disk, maker, task>>

\* updateDriverDocument: another URL, with the status as it was, or any status.
UpdateDriverDocumentUrl(r, f) ==
    /\ Row(r)
    /\ file' = [file EXCEPT ![r] = f]
    /\ Names(f)
    /\ Excuse(of[r], {"edit"})
    /\ UNCHANGED <<driver, of, status, disk, maker, task, reviewed, later>>

\* A row of another type was given this file's URL by hand, and an upload replaces it.
DeletedElsewhere(f) ==
    /\ disk' = disk \ {f}
    /\ Names(f)
    /\ UNCHANGED <<driver, rows, maker, task, past, reviewed, later>>

UpdateDriverDocumentStatus(r, new) ==
    /\ Row(r)
    /\ status' = [status EXCEPT ![r] = new]
    /\ reviewed' = [reviewed EXCEPT ![r] = IF new = "APPROVED" THEN file[r] ELSE NoOne]
    /\ Later(r, of[r], new)
    /\ Excuse(of[r], Revived(r, new))
    /\ UNCHANGED <<driver, of, file, disk, maker, named, task>>

-------------------------------------------------------------------------------
(* Approvals, and the end of a driver *)

\* (variant) the documents of drivers approved before
ApproveRowsOfApproved(ds) ==
    LET pending == {r \in Docs : Row(r) /\ of[r] \in ds /\ status[r] = "PENDING"
                                 /\ driver[of[r]] = "APPROVED"} IN
    /\ status' = [r \in Docs |-> IF r \in pending THEN "APPROVED" ELSE status[r]]
    /\ reviewed' = [r \in Docs |-> IF r \in pending THEN file[r] ELSE reviewed[r]]
    /\ later' = later \ pending

\* All rows of these drivers that wait for approval; nobody looks at their files.
ApproveRows(ds) ==
    LET pending == {r \in Docs : Row(r) /\ of[r] \in ds /\ status[r] = "PENDING"} IN
    /\ status' = [r \in Docs |-> IF r \in pending THEN "APPROVED" ELSE status[r]]
    /\ reviewed' = [r \in Docs |-> IF r \in pending THEN file[r] ELSE reviewed[r]]
    /\ later' = later \ pending

\* autoApproveAll: drivers, documents and vehicles in one transaction.
AutoApproveAll ==
    /\ driver' = [d \in Drivers |-> IF driver[d] = "PENDING" THEN "APPROVED" ELSE driver[d]]
    /\ ApproveRows(Drivers)
    /\ UNCHANGED <<of, file, disk, maker, named, task, past>>

\* approveDriver: the driver in one query, the documents (and vehicles) in another.
ApproveDriver(t, d) ==
    /\ task[t].step = "idle"
    /\ driver[d] # "GONE"
    /\ driver' = [driver EXCEPT ![d] = "APPROVED"]
    /\ task' = [task EXCEPT ![t] = [NoTask EXCEPT !.step = "approve", !.driver = d]]
    /\ UNCHANGED <<rows, disk, maker, named, past, reviewed, later>>

ApproveDriverDocuments(t) ==
    /\ task[t].step = "approve"
    /\ ApproveRows({task[t].driver})
    /\ End(t)
    /\ UNCHANGED <<driver, of, file, disk, maker, named, past>>

\* updateUserStatus approves a driver, or sends them back, without their documents.
UpdateUserStatus(d, new) ==
    /\ driver[d] # "GONE"
    /\ driver' = [driver EXCEPT ![d] = new]
    /\ Excuse(d, IF new = "APPROVED" THEN {"alone"} ELSE {})
    /\ UNCHANGED <<rows, disk, maker, named, task, reviewed, later>>

\* The rows go too, by cascade; the files stay.
DeleteDriver(d) ==
    /\ driver[d] # "GONE"
    /\ driver' = [driver EXCEPT ![d] = "GONE"]
    /\ status' = [r \in Docs |-> IF of[r] = d THEN "PENDING" ELSE status[r]]
    /\ file' = [r \in Docs |-> IF of[r] = d THEN NoOne ELSE file[r]]
    /\ reviewed' = [r \in Docs |-> IF of[r] = d THEN NoOne ELSE reviewed[r]]
    /\ later' = {r \in later : of[r] # d}
    /\ past' = [past EXCEPT ![d] = {}]
    /\ UNCHANGED <<of, disk, maker, named, task>>

DocumentsNext ==
    \/ \E t \in Tasks, d \in Drivers : UploadRead(t, d) \/ ApproveDriver(t, d)
    \/ \E t \in Tasks :
        \/ UploadDelete(t) \/ UploadSave(t) \/ UploadUpdate(t) \/ UploadCreate(t)
        \/ ApproveDriverDocuments(t) \/ Fail(t)
    \/ \E t \in Tasks, r \in Docs : ReviewRead(t, r)
    \/ \E t \in Tasks, new \in Decisions : ReviewWrite(t, new)
    \/ \E d \in Drivers, new \in {"APPROVED", "PENDING"} : UpdateUserStatus(d, new)
    \/ \E d \in Drivers : DeleteDriver(d)
    \/ \E d \in Drivers, f \in Files \cup {NoOne} : CreateDriverDocument(d, f)
    \/ \E r \in Docs, f \in Files \cup {NoOne} : UpdateDriverDocumentUrl(r, f)
    \/ \E f \in Files : DeletedElsewhere(f)
    \/ \E r \in Docs, new \in Decisions : UpdateDriverDocumentStatus(r, new)
    \/ AutoApproveAll

DocumentsSpec == DocumentsInit /\ [][DocumentsNext]_documentsVars

-------------------------------------------------------------------------------
(* Properties *)

\* The old file is deleted before the new one is written and before the row changes: a
\* row names a file that is there, unless an upload is between the two, or was cut there,
\* or somebody wrote the file's URL by hand, so that another row's upload may delete it.
RowFileExists ==
    \A r \in Docs :
        Row(r) /\ file[r] \in Files =>
            \/ file[r] \in disk
            \/ \E t \in Tasks : task[t].step \in {"deleted", "saved"} /\ task[t].old = file[r]
            \/ "cut" \in past[of[r]]
            \/ file[r] \in named

\* Nothing sweeps uploads/documents: a file on disk is named by a row of the driver whose
\* upload made it, or about to be, unless his uploads overlapped or were cut, he gave a
\* row another URL, or is gone.  That others name it too changes nothing.
FilesNamed ==
    \A f \in disk :
        \/ \E r \in Docs : Row(r) /\ of[r] = maker[f] /\ file[r] = f
        \/ \E t \in Tasks : task[t].step = "saved" /\ task[t].new = f
        \/ past[maker[f]] \cap {"overlap", "cut", "edit"} # {}
        \/ driver[maker[f]] = "GONE"

\* Rows and files, which no transaction holds together, name each other, but for uploads
\* under way, cut off or overlapping, and URLs written by hand.
FilesConsistent == RowFileExists /\ FilesNamed

\* One document of a type that is not rejected, unless first uploads overlapped, the
\* profile's route made one, or a rejected one came back.
OneDocumentOfType ==
    \A d \in Drivers :
        Cardinality({r \in Docs : Row(r) /\ of[r] = d /\ status[r] # "REJECTED"}) > 1 =>
            past[d] \cap {"overlap", "second"} # {}

\* An approved document is the file that was looked at (or swept in), unless the upload
\* replaced it while it was reviewed, or its owner changed the URL of an approved one.
ApprovedFileWasReviewed ==
    \A r \in Docs :
        Row(r) /\ status[r] = "APPROVED" =>
            file[r] = reviewed[r] \/ past[of[r]] \cap {"stale", "edit"} # {}

\* An approved driver's documents are approved, but those put to PENDING since, unless
\* approveDriver is between its two queries or was cut there, or only the account was
\* activated.
ApprovedWithDocuments ==
    \A r \in Docs :
        Row(r) /\ status[r] = "PENDING" /\ driver[of[r]] = "APPROVED" =>
            \/ r \in later
            \/ \E t \in Tasks : task[t].step = "approve" /\ task[t].driver = of[r]
            \/ "alone" \in past[of[r]]

================================================================================
