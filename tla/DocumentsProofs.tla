--------------------------- MODULE DocumentsProofs ---------------------------
(***************************************************************************)
(* Theorems about Documents, for every number of drivers, rows, files and  *)
(* requests in progress: types, rows and files that name each other, one   *)
(* document of a type, and what approvals mean.                            *)
(*                                                                         *)
(* The argument: a file's name never comes back, so a file whose URL nobody*)
(* wrote by hand belongs to one upload until a row names it, and to one row*)
(* after; and an upload that did not meet another of its driver finds its  *)
(* row as it read it, whoever else names the file.                         *)
(***************************************************************************)
EXTENDS Documents, FiniteSetTheorems, TLAPS

Uploading(t) == task[t].step \in {"upload", "deleted", "saved"}

\* What a request in progress remembers: rows and files of its driver; the file it has
\* deleted, which stays away; and the file it has written, which nobody else knows; of
\* files whose URL nobody wrote by hand.
RemembersIn(t) ==
    LET m == task[t] IN
    /\ m.step = "idle" => m = NoTask
    /\ m.step # "idle" => m.driver \in Drivers
    /\ m.doc # NoOne => of[m.doc] = m.driver
    /\ m.step = "review" => m.doc # NoOne
    /\ m.old # NoOne => m.doc # NoOne
    /\ m.step = "upload" => m.old # NoOne
    /\ m.new # NoOne <=> m.step = "saved"
    /\ m.step = "saved" => maker[m.new] = m.driver
    /\ m.old \notin named =>
          /\ m.old # NoOne => maker[m.old] = m.driver
          /\ \A r \in Docs : m.old # NoOne /\ file[r] = m.old => r = m.doc
          /\ m.step \in {"deleted", "saved"} => m.old \notin disk
    /\ m.step = "saved" /\ m.new \notin named =>
          /\ m.new \in disk
          /\ \A r \in Docs : file[r] # m.new
          /\ \A s \in Tasks : task[s].old # m.new /\ (s # t => task[s].new # m.new)

\* A file was made by the driver whose row names it, and no other row names it, unless
\* somebody wrote its URL by hand.
RowsKnow ==
    /\ \A r \in Docs : of[r] = NoOne => file[r] = NoOne
    /\ \A r \in Docs : file[r] \notin named \cup {NoOne} => maker[file[r]] = of[r]
    /\ \A r, s \in Docs : file[r] = file[s] /\ file[r] \notin named \cup {NoOne} => r = s
    /\ \A f \in disk : maker[f] \in Drivers

\* Uploads that did not overlap: there is one at most, it finds its row as it was, and the
\* file it deleted is away, unless another driver's upload has made it since, or this one.
UploadsAlone ==
    \A d \in Drivers :
        driver[d] # "GONE" =>
            /\ "overlap" \notin past[d] =>
                  /\ \A s, t \in Uploads(d) : s = t
                  /\ \A t \in Uploads(d) :
                        task[t].step \in {"deleted", "saved"} /\ task[t].old \in disk =>
                            maker[task[t].old] # d \/ task[t].old = task[t].new
            /\ past[d] \cap {"overlap", "edit"} = {} =>
                  \A t \in Uploads(d) : task[t].doc # NoOne => file[task[t].doc] = task[t].old

Standing(d) == {r \in Docs : of[r] = d /\ status[r] # "REJECTED"}

\* One document that is not rejected; an upload that found none makes the first.
OneStanding ==
    \A d \in Drivers :
        driver[d] # "GONE" /\ past[d] \cap {"overlap", "second"} = {} =>
            /\ \A r, s \in Standing(d) : r = s
            /\ \A t \in Uploads(d) : task[t].doc = NoOne => Standing(d) = {}

Remembers == \A t \in Tasks : RemembersIn(t)
DocumentsInv == DocumentsTypeOK /\ Remembers /\ RowsKnow

Memory == [step : TaskSteps, driver : Drivers \cup {NoOne}, doc : Docs \cup {NoOne},
           old : Files \cup {NoOne}, new : Files \cup {NoOne}]

LEMMA TypeOfTasks == DocumentsTypeOK => task \in [Tasks -> Memory] /\ disk \subseteq Files
BY DEF DocumentsTypeOK, Memory

LEMMA Nobody == NoOne \notin Drivers /\ NoOne \notin Docs /\ NoOne \notin Files /\ NoTask \in Memory
BY DocumentsAssumption DEF DocumentsAssumption, NoTask, Memory, TaskSteps

\* A request that ends forgets; the others go on.
LEMMA Ended ==
    ASSUME DocumentsTypeOK, NEW t \in Tasks, End(t)
    PROVE  task' \in [Tasks -> Memory] /\ task'[t] = NoTask /\ \A s \in Tasks \ {t} : task'[s] = task[s]
BY TypeOfTasks, Nobody DEF End

LEMMA InitInv == DocumentsInit => DocumentsInv
<1> USE DEF DocumentsInit, DocumentsInv
<1>1. ASSUME DocumentsInit PROVE DocumentsTypeOK
  BY <1>1, Nobody DEF DocumentsTypeOK, DocumentStatus, NoTask, TaskSteps
<1>2. ASSUME DocumentsInit PROVE Remembers /\ RowsKnow
  BY <1>2, Nobody DEF Remembers, RemembersIn, RowsKnow, NoTask
<1> QED BY <1>1, <1>2

\* Files that a URL named stay named.
LEMMA NextNamed ==
    ASSUME DocumentsTypeOK, [DocumentsNext]_documentsVars
    PROVE  named \subseteq named' /\ named' \subseteq Files
<1>1. named \subseteq Files
  BY DEF DocumentsTypeOK
<1>2. CASE UNCHANGED named
  BY <1>1, <1>2
<1>3. ASSUME NEW f, Names(f)
      PROVE  named \subseteq named' /\ named' \subseteq Files
  BY <1>1, <1>3 DEF Names
<1> QED
  BY <1>2, <1>3
  DEF DocumentsNext, documentsVars, UploadRead, UploadDelete, UploadSave, UploadUpdate, UploadCreate,
      ApproveDriverDocuments, Fail, ReviewRead, ReviewWrite, ApproveDriver, UpdateUserStatus,
      CreateDriverDocument, DeleteDriver, UpdateDriverDocumentUrl, UpdateDriverDocumentStatus,
      AutoApproveAll, DeletedElsewhere

\* A step keeps the type of every table and of what requests remember.
LEMMA NextType ==
    ASSUME DocumentsInv, [DocumentsNext]_documentsVars
    PROVE  DocumentsTypeOK'
<1> DEFINE RowsTyped == of' \in [Docs -> Drivers \cup {NoOne}] /\ status' \in [Docs -> DocumentStatus]
                        /\ file' \in [Docs -> Files \cup {NoOne}]
           PastTyped == past' \in [Drivers -> SUBSET Excuses]
           SeenTyped == reviewed' \in [Docs -> Files \cup {NoOne}] /\ later' \subseteq Docs
<1>0. /\ task \in [Tasks -> Memory] /\ disk \subseteq Files /\ DocumentsTypeOK
      /\ Decisions \subseteq DocumentStatus /\ "PENDING" \in DocumentStatus /\ "APPROVED" \in DocumentStatus
      /\ \A t \in Tasks : RemembersIn(t)
      /\ named' \subseteq Files
  BY TypeOfTasks, DocumentsAssumption, NextNamed
  DEF DocumentsInv, Remembers, DocumentsAssumption, DocumentStatus
<1>1. ASSUME task' \in [Tasks -> Memory], driver' = driver, disk' = disk, maker' = maker,
             RowsTyped, PastTyped, SeenTyped
      PROVE  DocumentsTypeOK'
  BY <1>0, <1>1 DEF DocumentsTypeOK, Memory
<1>2. ASSUME NEW d \in Drivers, NEW what \in SUBSET Excuses, Excuse(d, what) PROVE PastTyped
  BY <1>0, <1>2 DEF DocumentsTypeOK, Excuse
<1>3. ASSUME UNCHANGED <<rows, reviewed, later>> PROVE RowsTyped /\ SeenTyped
  BY <1>0, <1>3 DEF DocumentsTypeOK, rows
<1>4. ASSUME past' = past PROVE PastTyped
  BY <1>0, <1>4 DEF DocumentsTypeOK
<1>5. ASSUME NEW r \in Docs, NEW d \in Drivers, NEW new, Later(r, d, new) PROVE later' \subseteq Docs
  BY <1>0, <1>5 DEF DocumentsTypeOK, Later
<1>6. ASSUME NEW r \in Docs, NEW new PROVE Revived(r, new) \in SUBSET Excuses
  BY DEF Revived, Excuses
<1>7. ASSUME NEW d \in Drivers, NEW f \in Files \cup {NoOne}, NewRow(d, f) PROVE RowsTyped /\ SeenTyped
  <2>1. (CHOOSE r \in Unborn : TRUE) \in Docs
    BY <1>7 DEF NewRow, Unborn
  <2> QED BY <1>0, <1>5, <1>7, <2>1 DEF NewRow, DocumentsTypeOK
<1>8. ASSUME NEW ds, ApproveRows(ds), of' = of, file' = file PROVE RowsTyped /\ SeenTyped
  BY <1>0, <1>8 DEF ApproveRows, DocumentsTypeOK
<1>9. ASSUME NEW t \in Tasks, NEW d \in Drivers, UploadRead(t, d) PROVE DocumentsTypeOK'
  <2>1. PICK r \in Docs \cup {NoOne} :
          LET old == IF r = NoOne THEN NoOne ELSE file[r] IN
          task' = [task EXCEPT ![t] = [step |-> IF old = NoOne THEN "deleted" ELSE "upload",
                                       driver |-> d, doc |-> r, old |-> old, new |-> NoOne]]
    BY <1>9 DEF UploadRead
  <2>2. (IF r = NoOne THEN NoOne ELSE file[r]) \in Files \cup {NoOne}
    BY <1>0 DEF DocumentsTypeOK
  <2>3. task' \in [Tasks -> Memory]
    BY <1>0, <2>1, <2>2 DEF Memory, TaskSteps
  <2>4. PastTyped
    BY <1>2, <1>9 DEF UploadRead, Excuses
  <2> QED BY <1>1, <1>3, <1>9, <2>3, <2>4 DEF UploadRead
<1>10. ASSUME NEW t \in Tasks, UploadDelete(t) PROVE DocumentsTypeOK'
  <2>1. task' \in [Tasks -> Memory]
    BY <1>0, <1>10 DEF UploadDelete, Memory, TaskSteps
  <2> QED BY <1>0, <1>10, <2>1 DEF UploadDelete, DocumentsTypeOK, Memory, rows
<1>11. ASSUME NEW t \in Tasks, UploadSave(t) PROVE DocumentsTypeOK'
  <2>0. PICK f \in Files :
          /\ disk' = disk \cup {f} /\ maker' = [maker EXCEPT ![f] = task[t].driver]
          /\ task' = [task EXCEPT ![t].step = "saved", ![t].new = f]
    BY <1>11 DEF UploadSave
  <2>1. task' \in [Tasks -> Memory]
    BY ZenonT(60), <1>0, <2>0 DEF Memory, TaskSteps
  <2>2. disk' \subseteq Files /\ maker' \in [Files -> Drivers \cup {NoOne}]
    BY <1>0, <2>0 DEF DocumentsTypeOK, Memory
  <2> QED BY <1>0, <1>11, <2>1, <2>2 DEF UploadSave, DocumentsTypeOK, Memory, rows
<1>12. ASSUME NEW t \in Tasks, UploadUpdate(t) PROVE DocumentsTypeOK'
  <2>1. task[t].doc \in Docs /\ of[task[t].doc] \in Drivers /\ task[t].new \in Files \cup {NoOne}
    BY <1>0, <1>12 DEF UploadUpdate, Row, DocumentsTypeOK, Memory
  <2>2. PastTyped /\ later' \subseteq Docs
    BY <1>2, <1>5, <1>6, <1>12, <2>1 DEF UploadUpdate
  <2>3. RowsTyped /\ reviewed' \in [Docs -> Files \cup {NoOne}]
    BY <1>0, <1>12, <2>1 DEF UploadUpdate, DocumentsTypeOK
  <2> QED BY <1>0, <1>1, <1>12, <2>2, <2>3, Ended DEF UploadUpdate
<1>13. ASSUME NEW t \in Tasks, UploadCreate(t) PROVE DocumentsTypeOK'
  <2>1. task[t].driver \in Drivers /\ task[t].new \in Files \cup {NoOne}
    BY <1>0, <1>13 DEF UploadCreate, RemembersIn, Memory
  <2>2. RowsTyped /\ SeenTyped /\ PastTyped
    BY <1>4, <1>7, <1>13, <2>1 DEF UploadCreate
  <2> QED BY <1>0, <1>1, <1>13, <2>2, Ended DEF UploadCreate
<1>14. ASSUME NEW t \in Tasks, ApproveDriverDocuments(t) PROVE DocumentsTypeOK'
  <2>1. RowsTyped /\ SeenTyped /\ PastTyped
    BY <1>4, <1>8, <1>14 DEF ApproveDriverDocuments
  <2> QED BY <1>0, <1>1, <1>14, <2>1, Ended DEF ApproveDriverDocuments
<1>15. ASSUME NEW t \in Tasks, Fail(t) PROVE DocumentsTypeOK'
  <2>1. PastTyped
    <3>1. task[t].driver \in Drivers
      BY <1>0, <1>15 DEF Fail, RemembersIn
    <3>2. (CASE task[t].step = "approve" -> {"alone"}
             [] task[t].step \in {"deleted", "saved"} -> {"cut"}
             [] OTHER -> {}) \in SUBSET Excuses
      BY DEF Excuses
    <3> QED BY <1>0, <1>15, <3>1, <3>2 DEF Fail, DocumentsTypeOK
  <2> QED BY <1>0, <1>1, <1>3, <1>15, <2>1, Ended DEF Fail
<1>16. ASSUME NEW t \in Tasks, NEW r \in Docs, ReviewRead(t, r) PROVE DocumentsTypeOK'
  <2>1. of[r] \in Drivers \cup {NoOne} /\ file[r] \in Files \cup {NoOne}
    BY <1>0 DEF DocumentsTypeOK
  <2>2. [NoTask EXCEPT !.step = "review", !.driver = of[r], !.doc = r, !.old = file[r]] \in Memory
    BY <2>1 DEF NoTask, Memory, TaskSteps
  <2>3. task' \in [Tasks -> Memory]
    BY <1>0, <1>16, <2>2 DEF ReviewRead
  <2> QED BY <1>1, <1>3, <1>4, <1>16, <2>3 DEF ReviewRead
<1>17. ASSUME NEW t \in Tasks, NEW new \in Decisions, ReviewWrite(t, new) PROVE DocumentsTypeOK'
  <2>1. task[t].doc \in Docs /\ of[task[t].doc] \in Drivers /\ task[t].old \in Files \cup {NoOne}
    BY <1>0, <1>17 DEF ReviewWrite, Row, DocumentsTypeOK, Memory, RemembersIn
  <2>2. later' \subseteq Docs
    BY <1>5, <1>17, <2>1 DEF ReviewWrite
  <2>3. PastTyped
    <3>1. Revived(task[t].doc, new) \cup (IF file[task[t].doc] = task[t].old THEN {} ELSE {"stale"})
            \in SUBSET Excuses
      BY DEF Revived, Excuses
    <3> QED BY <1>2, <1>17, <2>1, <3>1 DEF ReviewWrite
  <2>4. RowsTyped /\ reviewed' \in [Docs -> Files \cup {NoOne}]
    BY <1>0, <1>17, <2>1 DEF ReviewWrite, DocumentsTypeOK
  <2> QED BY <1>0, <1>1, <1>17, <2>2, <2>3, <2>4, Ended DEF ReviewWrite
<1>18. ASSUME NEW t \in Tasks, NEW d \in Drivers, ApproveDriver(t, d) PROVE DocumentsTypeOK'
  <2>1. [NoTask EXCEPT !.step = "approve", !.driver = d] \in Memory
    BY Nobody DEF NoTask, Memory, TaskSteps
  <2>2. task' \in [Tasks -> Memory]
    BY <1>0, <1>18, <2>1 DEF ApproveDriver
  <2> QED BY <1>0, <1>18, <2>2 DEF ApproveDriver, DocumentsTypeOK, Memory, rows
<1>19. ASSUME NEW d \in Drivers, NEW new \in {"APPROVED", "PENDING"}, UpdateUserStatus(d, new)
       PROVE  DocumentsTypeOK'
  <2>1. PastTyped
    BY <1>2, <1>19 DEF UpdateUserStatus, Excuses
  <2> QED BY <1>0, <1>19, <2>1 DEF UpdateUserStatus, DocumentsTypeOK, rows
<1>20. ASSUME NEW d \in Drivers, NEW f \in Files \cup {NoOne}, CreateDriverDocument(d, f)
       PROVE  DocumentsTypeOK'
  <2>1. RowsTyped /\ SeenTyped /\ PastTyped
    BY <1>2, <1>7, <1>20 DEF CreateDriverDocument, Excuses
  <2> QED BY <1>0, <1>1, <1>20, <2>1 DEF CreateDriverDocument
<1>21. ASSUME NEW d \in Drivers, DeleteDriver(d) PROVE DocumentsTypeOK'
  <2>1. RowsTyped /\ SeenTyped /\ PastTyped
    BY <1>0, <1>21 DEF DeleteDriver, DocumentsTypeOK
  <2> QED BY <1>0, <1>21, <2>1 DEF DeleteDriver, DocumentsTypeOK
<1>22. ASSUME NEW r \in Docs, NEW f \in Files \cup {NoOne}, UpdateDriverDocumentUrl(r, f)
       PROVE  DocumentsTypeOK'
  <2>1. PastTyped
    <3>1. of[r] \in Drivers
      BY <1>0, <1>22 DEF UpdateDriverDocumentUrl, Row, DocumentsTypeOK
    <3> QED BY <1>2, <1>22, <3>1 DEF UpdateDriverDocumentUrl, Excuses
  <2>2. RowsTyped /\ SeenTyped
    BY <1>0, <1>22 DEF UpdateDriverDocumentUrl, DocumentsTypeOK
  <2> QED BY <1>0, <1>1, <1>22, <2>1, <2>2 DEF UpdateDriverDocumentUrl
<1>23. ASSUME NEW r \in Docs, NEW new \in Decisions, UpdateDriverDocumentStatus(r, new)
       PROVE  DocumentsTypeOK'
  <2>1. PastTyped /\ later' \subseteq Docs
    <3>1. of[r] \in Drivers
      BY <1>0, <1>23 DEF UpdateDriverDocumentStatus, Row, DocumentsTypeOK
    <3> QED BY <1>2, <1>5, <1>6, <1>23, <3>1 DEF UpdateDriverDocumentStatus
  <2>2. RowsTyped /\ reviewed' \in [Docs -> Files \cup {NoOne}]
    BY <1>0, <1>23 DEF UpdateDriverDocumentStatus, DocumentsTypeOK
  <2> QED BY <1>0, <1>1, <1>23, <2>1, <2>2 DEF UpdateDriverDocumentStatus
<1>24. ASSUME AutoApproveAll PROVE DocumentsTypeOK'
  <2>1. RowsTyped /\ SeenTyped
    BY <1>8, <1>24 DEF AutoApproveAll
  <2> QED BY <1>0, <1>24, <2>1 DEF AutoApproveAll, DocumentsTypeOK
<1>25. ASSUME UNCHANGED documentsVars PROVE DocumentsTypeOK'
  BY <1>0, <1>25 DEF documentsVars, rows, DocumentsTypeOK
<1>26. ASSUME NEW f \in Files, DeletedElsewhere(f) PROVE DocumentsTypeOK'
  BY <1>0, <1>26 DEF DeletedElsewhere, rows, DocumentsTypeOK, Memory
<1> QED
  BY <1>9, <1>10, <1>11, <1>12, <1>13, <1>14, <1>15, <1>16, <1>17, <1>18, <1>19, <1>20, <1>21, <1>22,
     <1>23, <1>24, <1>25, <1>26 DEF DocumentsNext

-------------------------------------------------------------------------------
(* Who knows a file *)

\* What a step of the requests ts leaves to the others: rows keep their driver and files
\* their maker; a row names another file only if one of ts wrote it, or a URL names it; a
\* file that goes was the old one of one of ts, or a URL names it; and new ones were not
\* made before.
Moves(ts) ==
    /\ \A s \in Tasks \ ts : task'[s] = task[s]
    /\ \A r \in Docs : of[r] # NoOne => of'[r] = of[r]
    /\ \A f \in Files : maker[f] # NoOne => maker'[f] = maker[f]
    /\ \A r \in Docs : file'[r] \in {file[r], NoOne} \cup {task[t].new : t \in ts} \cup named'
    /\ \A f \in disk' : f \in disk \/ maker[f] = NoOne
    /\ \A f \in disk : f \in disk' \/ f \in named' \/ \E t \in ts : f = task[t].old
    /\ \A t \in ts : task'[t].old \in {task[t].old, NoOne} \cup {file[r] : r \in Docs}
    /\ \A t \in ts : task'[t].new \in {task[t].new, NoOne} \cup {f \in Files : maker[f] = NoOne}

\* The file of a row, the old one and the new one of a request were made.
LEMMA FilesMade ==
    ASSUME DocumentsInv
    PROVE  /\ \A r \in Docs : file[r] \notin named \cup {NoOne} =>
                 file[r] \in Files /\ maker[file[r]] \in Drivers /\ of[r] \in Drivers
           /\ \A t \in Tasks : task[t].old \notin named \cup {NoOne} =>
                 task[t].old \in Files /\ maker[task[t].old] \in Drivers
           /\ \A t \in Tasks : task[t].new # NoOne =>
                 task[t].new \in Files /\ maker[task[t].new] \in Drivers
<1>0. task \in [Tasks -> Memory] /\ DocumentsTypeOK /\ NoOne \notin Drivers
  BY TypeOfTasks, Nobody DEF DocumentsInv
<1>1. ASSUME NEW r \in Docs, file[r] \notin named \cup {NoOne}
      PROVE  file[r] \in Files /\ maker[file[r]] \in Drivers /\ of[r] \in Drivers
  BY <1>0, <1>1 DEF DocumentsInv, RowsKnow, DocumentsTypeOK
<1>2. ASSUME NEW t \in Tasks
      PROVE  /\ task[t].old \notin named \cup {NoOne} =>
                   task[t].old \in Files /\ maker[task[t].old] \in Drivers
             /\ task[t].new # NoOne => task[t].new \in Files /\ maker[task[t].new] \in Drivers
  <2>1. task[t] \in Memory /\ RemembersIn(t)
    BY <1>0 DEF DocumentsInv, Remembers
  <2>2. task[t].old # NoOne \/ task[t].new # NoOne => task[t].driver \in Drivers
    BY <2>1 DEF RemembersIn, NoTask
  <2> QED BY <2>1, <2>2 DEF RemembersIn, Memory
<1> QED BY <1>1, <1>2

\* Then the others remember what is true.
LEMMA OthersRemember ==
    ASSUME DocumentsInv, NEW ts \in SUBSET Tasks, Moves(ts), disk' \subseteq Files,
           named \subseteq named', NEW s \in Tasks \ ts
    PROVE  RemembersIn(s)'
<1>0. /\ task[s] \in Memory /\ RemembersIn(s) /\ task'[s] = task[s] /\ NoOne \notin Docs
      /\ NoOne \notin Files /\ NoOne \notin Drivers /\ disk \subseteq Files
  BY TypeOfTasks, Nobody DEF DocumentsInv, Remembers, Moves
<1>1. task[s].old \notin named' \cup {NoOne} => task[s].old \in Files /\ maker[task[s].old] \in Drivers
  BY FilesMade
<1>2. task[s].doc # NoOne => of'[task[s].doc] = of[task[s].doc]
  BY <1>0 DEF Moves, Memory, RemembersIn, NoTask
<1>3. task[s].old \notin named' \cup {NoOne} => maker'[task[s].old] = maker[task[s].old]
  BY <1>0, <1>1 DEF Moves
<1>4. ASSUME NEW r \in Docs, task[s].old \notin named' \cup {NoOne}, file'[r] = task[s].old
      PROVE  r = task[s].doc
  <2>1. ASSUME NEW t \in ts, file'[r] = task[t].new PROVE FALSE
    <3>1. task[t].new # NoOne /\ RemembersIn(t)
      BY <1>0, <1>1, <1>4, <2>1 DEF DocumentsInv, Remembers
    <3>2. task[t].new \notin named
      BY <1>4, <2>1
    <3> QED BY <1>4, <2>1, <3>1, <3>2 DEF RemembersIn
  <2>2. file'[r] = file[r]
    BY <1>4, <2>1 DEF Moves
  <2> QED BY <1>0, <1>4, <2>2 DEF RemembersIn
<1>5. task[s].step \in {"deleted", "saved"} /\ task[s].old \notin named' => task[s].old \notin disk'
  <2>1. ASSUME task[s].step \in {"deleted", "saved"}, task[s].old \notin named', task[s].old \in disk'
        PROVE  FALSE
    <3>1. task[s].old \notin disk /\ task[s].old \in disk'
      BY <1>0, <2>1 DEF RemembersIn
    <3>2. maker[task[s].old] = NoOne
      BY <3>1 DEF Moves
    <3>3. task[s].old = NoOne
      BY <1>0, <1>1, <2>1, <3>2
    <3> QED BY <1>0, <3>1, <3>3
  <2> QED BY <2>1
<1>6. task[s].step = "saved" => maker'[task[s].new] = task[s].driver
  <2>1. task[s].step = "saved" =>
          /\ task[s].new \in Files /\ maker[task[s].new] = task[s].driver
          /\ task[s].driver \in Drivers
    BY <1>0, FilesMade DEF RemembersIn
  <2> QED BY <1>0, <2>1 DEF Moves
<1>7. ASSUME task[s].step = "saved", task[s].new \notin named'
      PROVE  /\ task[s].new \in disk'
             /\ \A r \in Docs : file'[r] # task[s].new
             /\ \A t \in Tasks : task'[t].old # task[s].new /\ (t # s => task'[t].new # task[s].new)
  <2>1. /\ task[s].new \in Files /\ task[s].new \in disk /\ maker[task[s].new] = task[s].driver
        /\ task[s].driver \in Drivers
        /\ \A r \in Docs : file[r] # task[s].new
        /\ \A t \in Tasks : task[t].old # task[s].new /\ (t # s => task[t].new # task[s].new)
    BY <1>0, <1>7 DEF RemembersIn
  <2>2. task[s].new \in disk'
    BY <1>7, <2>1 DEF Moves
  <2>4. \A r \in Docs : file'[r] # task[s].new
    BY <1>0, <1>7, <2>1 DEF Moves
  <2>5. \A t \in Tasks : task'[t].old # task[s].new
    BY <1>0, <2>1 DEF Moves
  <2>6. \A t \in Tasks : t # s => task'[t].new # task[s].new
    BY <1>0, <2>1 DEF Moves
  <2> QED BY <2>2, <2>4, <2>5, <2>6
<1> QED BY <1>0, <1>2, <1>3, <1>4, <1>5, <1>6, <1>7 DEF RemembersIn

\* A step keeps what requests remember and what rows name.
LEMMA NextKnow ==
    ASSUME DocumentsInv, [DocumentsNext]_documentsVars
    PROVE  Remembers' /\ RowsKnow'
<1> DEFINE Known == Remembers' /\ RowsKnow'
<1>0. /\ task \in [Tasks -> Memory] /\ DocumentsTypeOK /\ DocumentsTypeOK' /\ RowsKnow
      /\ \A t \in Tasks : RemembersIn(t)
      /\ disk \subseteq Files /\ disk' \subseteq Files
      /\ NoOne \notin Drivers /\ NoOne \notin Docs /\ NoOne \notin Files
      /\ named \subseteq named' /\ named' \subseteq Files
  BY TypeOfTasks, Nobody, NextType, NextNamed DEF DocumentsInv, Remembers, DocumentsTypeOK
<1>1. ASSUME NEW t \in Tasks, Moves({t}), RemembersIn(t)' PROVE Remembers'
  BY <1>0, <1>1, OthersRemember DEF Remembers
<1>2. ASSUME Moves({}) PROVE Remembers'
  BY <1>0, <1>2, OthersRemember DEF Remembers
<1>3. ASSUME UNCHANGED <<of, file, disk, maker>> PROVE RowsKnow'
  BY <1>0, <1>3 DEF RowsKnow
<1>4. ASSUME NEW t \in Tasks, UNCHANGED <<of, file, disk, maker>>,
             \A s \in Tasks \ {t} : task'[s] = task[s],
             task'[t].old \in {task[t].old, NoOne} \cup {file[r] : r \in Docs}, task'[t].new = NoOne
      PROVE  Moves({t})
  BY <1>4 DEF Moves
<1>5. ASSUME NEW t \in Tasks, End(t)
      PROVE  /\ RemembersIn(t)' /\ task'[t].old = NoOne /\ task'[t].new = NoOne
             /\ \A s \in Tasks \ {t} : task'[s] = task[s]
  <2>1. task'[t] = NoTask /\ \A s \in Tasks \ {t} : task'[s] = task[s]
    BY <1>0, <1>5, Ended
  <2> QED BY <1>0, <2>1 DEF RemembersIn, NoTask
<1>6. ASSUME NEW t \in Tasks, NEW d \in Drivers, UploadRead(t, d) PROVE Known
  <2>1. PICK r \in Docs \cup {NoOne} :
          /\ r # NoOne => r \in Docs /\ of[r] = d
          /\ LET old == IF r = NoOne THEN NoOne ELSE file[r] IN
             task' = [task EXCEPT ![t] = [step |-> IF old = NoOne THEN "deleted" ELSE "upload",
                                          driver |-> d, doc |-> r, old |-> old, new |-> NoOne]]
    <3>1. CASE {r \in Docs : of[r] = d /\ status[r] # "REJECTED"} = {}
      BY <1>6, <3>1 DEF UploadRead
    <3>2. CASE {r \in Docs : of[r] = d /\ status[r] # "REJECTED"} # {}
      BY <1>6, <3>2 DEF UploadRead
    <3> QED BY <3>1, <3>2
  <2> DEFINE old == IF r = NoOne THEN NoOne ELSE file[r]
  <2>2. /\ task'[t] = [step |-> IF old = NoOne THEN "deleted" ELSE "upload",
                       driver |-> d, doc |-> r, old |-> old, new |-> NoOne]
        /\ \A s \in Tasks \ {t} : task'[s] = task[s]
    BY <1>0, <2>1
  <2>3. UNCHANGED <<of, file, disk, maker>>
    BY <1>6 DEF UploadRead, rows
  <2>4. RemembersIn(t)'
    BY <1>0, <2>1, <2>2, <2>3 DEF RemembersIn, RowsKnow
  <2>5. task'[t].old = old /\ task'[t].new = NoOne
    BY <2>2
  <2>6. old \in {NoOne} \cup {file[q] : q \in Docs}
    BY <2>1
  <2> QED BY <1>1, <1>3, <1>4, <2>2, <2>3, <2>4, <2>5, <2>6
<1>7. ASSUME NEW t \in Tasks, UploadDelete(t) PROVE Known
  <2>1. /\ task'[t].step = "deleted" /\ task'[t].driver = task[t].driver /\ task'[t].doc = task[t].doc
        /\ task'[t].old = task[t].old /\ task'[t].new = task[t].new
        /\ \A s \in Tasks \ {t} : task'[s] = task[s]
    BY <1>0, <1>7 DEF UploadDelete, Memory
  <2>2. UNCHANGED <<of, file, maker>> /\ disk' = disk \ {task[t].old} /\ task[t].step = "upload"
    BY <1>7 DEF UploadDelete, rows
  <2>3. Moves({t})
    BY <2>1, <2>2 DEF Moves
  <2>4. RemembersIn(t)'
    BY <1>0, <2>1, <2>2 DEF RemembersIn
  <2>5. RowsKnow'
    BY <1>0, <2>2 DEF RowsKnow
  <2> QED BY <1>1, <2>3, <2>4, <2>5
<1>8. ASSUME NEW t \in Tasks, UploadSave(t) PROVE Known
  <2>1. PICK f \in Files :
          /\ maker[f] = NoOne /\ disk' = disk \cup {f}
          /\ maker' = [maker EXCEPT ![f] = task[t].driver]
          /\ task' = [task EXCEPT ![t].step = "saved", ![t].new = f]
    BY <1>8 DEF UploadSave
  <2>2. task[t].step = "deleted" /\ UNCHANGED <<of, file, named>>
    BY <1>8 DEF UploadSave, rows
  <2>3. /\ task'[t].step = "saved" /\ task'[t].driver = task[t].driver /\ task'[t].doc = task[t].doc
        /\ task'[t].old = task[t].old /\ task'[t].new = f
        /\ \A s \in Tasks \ {t} : task'[s] = task[s]
    BY <1>0, <2>1 DEF Memory
  <2>4. /\ task[t].driver \in Drivers /\ maker'[f] = task[t].driver
        /\ \A g \in Files \ {f} : maker'[g] = maker[g]
    BY <1>0, <2>1, <2>2 DEF DocumentsTypeOK, RemembersIn
  <2>5. /\ \A r \in Docs : file[r] = f => f \in named
        /\ \A s \in Tasks : (task[s].old = f => f \in named) /\ task[s].new # f
    BY <1>0, <2>1, FilesMade
  <2>6. Moves({t})
    BY <1>0, <2>1, <2>2, <2>3, <2>4 DEF Moves
  <2>7. task[t].old \notin named \cup {NoOne} => maker'[task[t].old] = maker[task[t].old]
    BY <2>4, <2>5, FilesMade
  <2>8. RemembersIn(t)'
    <3>1. f \notin named => \A s \in Tasks : task'[s].old # f /\ (s # t => task'[s].new # f)
      BY <2>3, <2>5
    <3>2. f \notin named => \A r \in Docs : file'[r] # f
      BY <2>2, <2>5
    <3>3. task[t].old \notin named => task[t].old \notin disk'
      BY <1>0, <2>1, <2>2, <2>5 DEF RemembersIn
    <3> QED BY <1>0, <2>1, <2>2, <2>3, <2>4, <2>7, <3>1, <3>2, <3>3 DEF RemembersIn
  <2>9. RowsKnow'
    <3>1. \A r \in Docs : file[r] \notin named \cup {NoOne} => maker'[file[r]] = of[r]
      BY <1>0, <2>4, <2>5, FilesMade DEF RowsKnow
    <3>2. \A g \in disk' : maker'[g] \in Drivers
      BY <1>0, <2>1, <2>4 DEF RowsKnow
    <3> QED BY <1>0, <2>2, <3>1, <3>2 DEF RowsKnow
  <2> QED BY <1>1, <2>6, <2>8, <2>9
<1>9. ASSUME NEW t \in Tasks, UploadUpdate(t) PROVE Known
  <2>1. /\ task[t].step = "saved" /\ task[t].doc \in Docs /\ End(t)
        /\ file' = [file EXCEPT ![task[t].doc] = task[t].new] /\ UNCHANGED <<of, disk, maker, named>>
    BY <1>0, <1>9 DEF UploadUpdate, Memory
  <2>2. /\ file'[task[t].doc] = task[t].new
        /\ \A r \in Docs \ {task[t].doc} : file'[r] = file[r]
    BY <1>0, <2>1 DEF DocumentsTypeOK
  <2>3. Moves({t})
    <3>1. \A r \in Docs : file'[r] \in {file[r], NoOne} \cup {task[u].new : u \in {t}} \cup named'
      BY <2>2
    <3> QED BY <1>5, <2>1, <3>1 DEF Moves
  <2>4. /\ maker[task[t].new] = of[task[t].doc] /\ of[task[t].doc] # NoOne
        /\ task[t].new \notin named => \A r \in Docs : file[r] # task[t].new
    BY <1>0, <2>1 DEF RemembersIn
  <2>5. RowsKnow'
    BY <1>0, <2>1, <2>2, <2>4 DEF RowsKnow
  <2> QED BY <1>1, <1>5, <2>1, <2>3, <2>5
<1>10. ASSUME NEW d \in Drivers, NEW f \in Files \cup {NoOne}, NewRow(d, f)
       PROVE  \E r \in Docs : /\ of[r] = NoOne /\ file[r] = NoOne /\ of'[r] = d /\ file'[r] = f
                              /\ \A q \in Docs \ {r} : of'[q] = of[q] /\ file'[q] = file[q]
  <2> DEFINE r == CHOOSE r \in Unborn : TRUE
  <2>1. r \in Docs /\ of[r] = NoOne
    BY <1>10 DEF NewRow, Unborn
  <2>2. of' = [of EXCEPT ![r] = d] /\ file' = [file EXCEPT ![r] = f]
    BY <1>10 DEF NewRow
  <2> QED BY <1>0, <2>1, <2>2 DEF RowsKnow, DocumentsTypeOK
<1>11. ASSUME NEW t \in Tasks, UploadCreate(t) PROVE Known
  <2>1. task[t].step = "saved" /\ task[t].driver \in Drivers /\ task[t].new \in Files
        /\ End(t) /\ UNCHANGED <<disk, maker, named>>
    BY <1>0, <1>11, FilesMade DEF UploadCreate, RemembersIn
  <2>2. PICK r \in Docs : /\ of[r] = NoOne /\ file[r] = NoOne
                          /\ of'[r] = task[t].driver /\ file'[r] = task[t].new
                          /\ \A q \in Docs \ {r} : of'[q] = of[q] /\ file'[q] = file[q]
    BY <1>10, <1>11, <2>1 DEF UploadCreate
  <2>3. Moves({t})
    <3>1. \A q \in Docs : file'[q] \in {file[q], NoOne} \cup {task[u].new : u \in {t}} \cup named'
      BY <2>2
    <3> QED BY <1>5, <2>1, <2>2, <3>1 DEF Moves
  <2>4. /\ maker[task[t].new] = task[t].driver
        /\ task[t].new \notin named => \A q \in Docs : file[q] # task[t].new
    BY <1>0, <2>1 DEF RemembersIn
  <2>5. RowsKnow'
    BY <1>0, <2>1, <2>2, <2>4 DEF RowsKnow
  <2> QED BY <1>1, <1>5, <2>1, <2>3, <2>5
<1>12. ASSUME NEW t \in Tasks, ApproveDriverDocuments(t) \/ Fail(t) PROVE Known
  <2>1. End(t) /\ UNCHANGED <<of, file, disk, maker>>
    BY <1>12 DEF ApproveDriverDocuments, Fail, rows
  <2>2. Moves({t})
    BY <1>4, <1>5, <2>1
  <2> QED BY <1>1, <1>3, <1>5, <2>1, <2>2
<1>13. ASSUME NEW t \in Tasks, NEW new, ReviewWrite(t, new) PROVE Known
  <2>1. End(t) /\ UNCHANGED <<of, file, disk, maker>>
    BY <1>13 DEF ReviewWrite
  <2>2. Moves({t})
    BY <1>4, <1>5, <2>1
  <2> QED BY <1>1, <1>3, <1>5, <2>1, <2>2
<1>14. ASSUME NEW t \in Tasks, NEW r \in Docs, ReviewRead(t, r) PROVE Known
  <2>1. /\ task'[t] = [NoTask EXCEPT !.step = "review", !.driver = of[r], !.doc = r, !.old = file[r]]
        /\ \A s \in Tasks \ {t} : task'[s] = task[s]
        /\ UNCHANGED <<of, file, disk, maker>> /\ of[r] \in Drivers
    BY <1>0, <1>14 DEF ReviewRead, rows, Row, DocumentsTypeOK
  <2>2. task'[t].step = "review" /\ task'[t].driver = of[r] /\ task'[t].doc = r
        /\ task'[t].old = file[r] /\ task'[t].new = NoOne
    BY <2>1 DEF NoTask
  <2>3. RemembersIn(t)'
    BY <1>0, <2>1, <2>2 DEF RemembersIn, RowsKnow
  <2>4. Moves({t})
    BY <1>4, <2>1, <2>2
  <2> QED BY <1>1, <1>3, <2>1, <2>3, <2>4
<1>15. ASSUME NEW t \in Tasks, NEW d \in Drivers, ApproveDriver(t, d) PROVE Known
  <2>1. /\ task'[t] = [NoTask EXCEPT !.step = "approve", !.driver = d]
        /\ \A s \in Tasks \ {t} : task'[s] = task[s]
        /\ UNCHANGED <<of, file, disk, maker>>
    BY <1>0, <1>15 DEF ApproveDriver, rows
  <2>2. task'[t].step = "approve" /\ task'[t].driver = d /\ task'[t].doc = NoOne
        /\ task'[t].old = NoOne /\ task'[t].new = NoOne
    BY <2>1 DEF NoTask
  <2>3. RemembersIn(t)'
    BY <1>0, <2>1, <2>2 DEF RemembersIn
  <2>4. Moves({t})
    BY <1>4, <2>1, <2>2
  <2> QED BY <1>1, <1>3, <2>1, <2>3, <2>4
<1>16. ASSUME UNCHANGED <<of, maker, task>>, disk' \subseteq disk, \A f \in disk : f \in disk' \cup named',
              \A r \in Docs : file'[r] \in {file[r], NoOne} \cup named',
              \A r \in Docs : of[r] = NoOne => file'[r] = NoOne
       PROVE  Known
  <2>1. Moves({})
    BY <1>16 DEF Moves
  <2>2. RowsKnow'
    BY <1>0, <1>16 DEF RowsKnow
  <2> QED BY <1>2, <2>1, <2>2
<1>17. ASSUME NEW f \in Files \cup {NoOne}, Names(f) PROVE f \in named' \cup {NoOne}
  BY <1>17 DEF Names
<1>18. ASSUME NEW d \in Drivers, NEW f \in Files \cup {NoOne}, CreateDriverDocument(d, f) PROVE Known
  <2>1. PICK r \in Docs : /\ of[r] = NoOne /\ file[r] = NoOne
                          /\ of'[r] = d /\ file'[r] = f
                          /\ \A q \in Docs \ {r} : of'[q] = of[q] /\ file'[q] = file[q]
    BY <1>10, <1>18 DEF CreateDriverDocument
  <2>2. UNCHANGED <<disk, maker, task>> /\ f \in named' \cup {NoOne}
    BY <1>17, <1>18 DEF CreateDriverDocument
  <2>3. Moves({})
    BY <2>1, <2>2 DEF Moves
  <2>4. RowsKnow'
    BY <1>0, <2>1, <2>2 DEF RowsKnow
  <2> QED BY <1>2, <2>3, <2>4
<1>19. ASSUME NEW r \in Docs, NEW f \in Files \cup {NoOne}, UpdateDriverDocumentUrl(r, f) PROVE Known
  <2>1. /\ file' = [file EXCEPT ![r] = f] /\ UNCHANGED <<of, disk, maker, task>>
        /\ f \in named' \cup {NoOne} /\ of[r] # NoOne
    BY <1>17, <1>19 DEF UpdateDriverDocumentUrl, Row
  <2>2. \A q \in Docs : file'[q] = IF q = r THEN f ELSE file[q]
    BY <1>0, <2>1 DEF DocumentsTypeOK
  <2> QED BY <1>0, <1>16, <2>1, <2>2 DEF RowsKnow
<1>20. ASSUME NEW f \in Files, DeletedElsewhere(f) PROVE Known
  <2>1. UNCHANGED <<of, file, maker, task>> /\ disk' = disk \ {f} /\ f \in named' \cup {NoOne}
    BY <1>17, <1>20 DEF DeletedElsewhere, rows
  <2> QED BY <1>0, <1>16, <2>1 DEF RowsKnow
<1>21. ASSUME \/ \E d \in Drivers, new \in {"APPROVED", "PENDING"} : UpdateUserStatus(d, new)
              \/ \E r \in Docs, new \in Decisions : UpdateDriverDocumentStatus(r, new)
              \/ AutoApproveAll
              \/ UNCHANGED documentsVars
       PROVE  Known
  <2>1. UNCHANGED <<of, file, disk, maker, task>>
    BY <1>21 DEF UpdateUserStatus, UpdateDriverDocumentStatus, AutoApproveAll, documentsVars, rows
  <2> QED BY <1>0, <1>16, <2>1 DEF RowsKnow
<1>22. ASSUME NEW d \in Drivers, DeleteDriver(d) PROVE Known
  <2>1. \A r \in Docs : file'[r] \in {file[r], NoOne}
    BY <1>0, <1>22 DEF DeleteDriver, DocumentsTypeOK
  <2>2. UNCHANGED <<of, disk, maker, task>>
    BY <1>22 DEF DeleteDriver
  <2> QED BY <1>0, <1>16, <2>1, <2>2 DEF RowsKnow
<1> HIDE DEF Known
<1>23. Known
  BY <1>6, <1>7, <1>8, <1>9, <1>11, <1>12, <1>13, <1>14, <1>15, <1>18, <1>19, <1>20, <1>21, <1>22
  DEF DocumentsNext
<1> QED BY <1>23 DEF Known

\* However requests overlap, fail, are cut off and meet approvals: every table keeps its
\* type, and requests and rows know each file as one upload of one driver.
THEOREM DocumentsTypeCorrect == DocumentsSpec => [](DocumentsTypeOK /\ Remembers /\ RowsKnow)
<1>1. DocumentsInv /\ [DocumentsNext]_documentsVars => DocumentsInv'
  BY NextType, NextKnow DEF DocumentsInv
<1> QED
  BY InitInv, <1>1, PTL DEF DocumentsSpec, DocumentsInv

-------------------------------------------------------------------------------
(* What is excused stays excused *)

\* A driver that is gone stays gone, an excuse of one that is not gone lasts, and rows
\* keep their driver.
LEMMA Lasting ==
    ASSUME DocumentsInv, [DocumentsNext]_documentsVars
    PROVE  /\ \A d \in Drivers : driver'[d] # "GONE" => driver[d] # "GONE" /\ past[d] \subseteq past'[d]
           /\ \A r \in Docs : of[r] # NoOne => of'[r] = of[r]
<1> DEFINE Excused == \A d \in Drivers : driver'[d] # "GONE" => driver[d] # "GONE" /\ past[d] \subseteq past'[d]
           Owned == \A r \in Docs : of[r] # NoOne => of'[r] = of[r]
<1>0. DocumentsTypeOK /\ \A t \in Tasks : RemembersIn(t)
  BY DEF DocumentsInv, Remembers
<1>1. ASSUME UNCHANGED <<driver, past>> PROVE Excused
  BY <1>1
<1>2. ASSUME driver' = driver, NEW d \in Drivers, NEW what, Excuse(d, what) PROVE Excused
  BY <1>0, <1>2 DEF Excuse, DocumentsTypeOK
<1>3. ASSUME NEW d, NEW f, NewRow(d, f) PROVE Owned
  <2>1. of[CHOOSE r \in Unborn : TRUE] = NoOne
    BY <1>3 DEF NewRow, Unborn
  <2> QED BY <1>0, <1>3, <2>1 DEF NewRow, DocumentsTypeOK
<1>4. ASSUME of' = of PROVE Owned
  BY <1>4
<1>5. ASSUME NEW t \in Tasks, NEW d \in Drivers, UploadRead(t, d) PROVE Excused /\ Owned
  BY <1>2, <1>4, <1>5 DEF UploadRead, rows
<1>6. ASSUME NEW t \in Tasks, UploadDelete(t) \/ UploadSave(t) \/ (\E r \in Docs : ReviewRead(t, r))
      PROVE  Excused /\ Owned
  BY <1>1, <1>4, <1>6 DEF UploadDelete, UploadSave, ReviewRead, rows
<1>7. ASSUME NEW t \in Tasks, UploadUpdate(t) PROVE Excused /\ Owned
  <2>1. of[task[t].doc] \in Drivers
    BY <1>0, <1>7 DEF UploadUpdate, Row, DocumentsTypeOK
  <2> QED BY <1>2, <1>4, <1>7, <2>1 DEF UploadUpdate
<1>8. ASSUME NEW t \in Tasks, NEW new, ReviewWrite(t, new) PROVE Excused /\ Owned
  <2>1. of[task[t].doc] \in Drivers
    BY <1>0, <1>8 DEF ReviewWrite, Row, DocumentsTypeOK, RemembersIn
  <2> QED BY <1>2, <1>4, <1>8, <2>1 DEF ReviewWrite
<1>9. ASSUME NEW t \in Tasks, UploadCreate(t) PROVE Excused /\ Owned
  BY <1>1, <1>3, <1>9 DEF UploadCreate
<1>10. ASSUME NEW t \in Tasks, Fail(t) PROVE Excused /\ Owned
  <2>1. Excused
    BY <1>0, <1>10 DEF Fail, DocumentsTypeOK
  <2> QED BY <1>4, <1>10, <2>1 DEF Fail, rows
<1>11. ASSUME NEW t \in Tasks, ApproveDriverDocuments(t) PROVE Excused /\ Owned
  BY <1>1, <1>4, <1>11 DEF ApproveDriverDocuments
<1>12. ASSUME NEW t \in Tasks, NEW d \in Drivers, ApproveDriver(t, d) PROVE Excused /\ Owned
  BY <1>0, <1>12 DEF ApproveDriver, rows, DocumentsTypeOK
<1>13. ASSUME NEW d \in Drivers, NEW new \in {"APPROVED", "PENDING"}, UpdateUserStatus(d, new)
       PROVE  Excused /\ Owned
  BY <1>0, <1>13 DEF UpdateUserStatus, Excuse, rows, DocumentsTypeOK
<1>14. ASSUME NEW d \in Drivers, NEW f, CreateDriverDocument(d, f) PROVE Excused /\ Owned
  BY <1>2, <1>3, <1>14 DEF CreateDriverDocument
<1>15. ASSUME NEW d \in Drivers, DeleteDriver(d) PROVE Excused /\ Owned
  BY <1>0, <1>15 DEF DeleteDriver, DocumentsTypeOK
<1>16. ASSUME NEW r \in Docs, NEW f, UpdateDriverDocumentUrl(r, f) PROVE Excused /\ Owned
  <2>1. of[r] \in Drivers
    BY <1>0, <1>16 DEF UpdateDriverDocumentUrl, Row, DocumentsTypeOK
  <2> QED BY <1>2, <1>4, <1>16, <2>1 DEF UpdateDriverDocumentUrl
<1>17. ASSUME NEW r \in Docs, NEW new, UpdateDriverDocumentStatus(r, new) PROVE Excused /\ Owned
  <2>1. of[r] \in Drivers
    BY <1>0, <1>17 DEF UpdateDriverDocumentStatus, Row, DocumentsTypeOK
  <2> QED BY <1>2, <1>4, <1>17, <2>1 DEF UpdateDriverDocumentStatus
<1>18. ASSUME AutoApproveAll PROVE Excused /\ Owned
  BY <1>0, <1>18 DEF AutoApproveAll, DocumentsTypeOK
<1>19. ASSUME UNCHANGED documentsVars \/ (\E f \in Files : DeletedElsewhere(f)) PROVE Excused /\ Owned
  BY <1>1, <1>4, <1>19 DEF documentsVars, DeletedElsewhere, rows
<1> HIDE DEF Excused, Owned
<1>20. Excused /\ Owned
  BY <1>5, <1>6, <1>7, <1>8, <1>9, <1>10, <1>11, <1>12, <1>13, <1>14, <1>15, <1>16, <1>17, <1>18, <1>19
  DEF DocumentsNext
<1> QED BY <1>20 DEF Excused, Owned

\* A new row waits, and is later than its driver's approval, if there was one.
LEMMA NewRowWaits ==
    ASSUME DocumentsInv, NEW d \in Drivers, NEW f, NewRow(d, f)
    PROVE  \E r \in Docs :
              /\ of[r] = NoOne /\ of'[r] = d /\ status'[r] = "PENDING" /\ file'[r] = f
              /\ driver[d] = "APPROVED" => r \in later'
              /\ \A q \in Docs \ {r} : /\ of'[q] = of[q] /\ status'[q] = status[q] /\ file'[q] = file[q]
                                       /\ reviewed'[q] = reviewed[q] /\ (q \in later => q \in later')
<1> DEFINE r == CHOOSE r \in Unborn : TRUE
<1>1. r \in Docs /\ of[r] = NoOne
  BY DEF NewRow, Unborn
<1>2. /\ of' = [of EXCEPT ![r] = d] /\ file' = [file EXCEPT ![r] = f]
      /\ status' = [status EXCEPT ![r] = "PENDING"] /\ reviewed' = [reviewed EXCEPT ![r] = NoOne]
      /\ Later(r, d, "PENDING")
  BY DEF NewRow
<1> HIDE DEF r
<1>3. driver[d] = "APPROVED" => r \in later'
  BY <1>2 DEF Later
<1>4. \A q \in Docs \ {r} : q \in later => q \in later'
  BY <1>2 DEF Later
<1>5. /\ of'[r] = d /\ status'[r] = "PENDING" /\ file'[r] = f
      /\ \A q \in Docs \ {r} : /\ of'[q] = of[q] /\ status'[q] = status[q] /\ file'[q] = file[q]
                               /\ reviewed'[q] = reviewed[q]
  BY <1>1, <1>2 DEF DocumentsInv, DocumentsTypeOK
<1> QED BY <1>1, <1>3, <1>4, <1>5

\* Whatever requests overlap, an approved document is the file that was looked at, or
\* swept in, unless it was replaced under review or edited since.
THEOREM DocumentsApprovedFileWasReviewed == DocumentsSpec => []ApprovedFileWasReviewed
<1>1. DocumentsInit => ApprovedFileWasReviewed
  BY DEF DocumentsInit, ApprovedFileWasReviewed, Row
<1>2. DocumentsInv /\ ApprovedFileWasReviewed /\ [DocumentsNext]_documentsVars => ApprovedFileWasReviewed'
  <2> SUFFICES ASSUME DocumentsInv, ApprovedFileWasReviewed, [DocumentsNext]_documentsVars,
                      NEW r \in Docs, Row(r)', status'[r] = "APPROVED"
               PROVE  file'[r] = reviewed'[r] \/ past'[of'[r]] \cap {"stale", "edit"} # {}
    BY DEF ApprovedFileWasReviewed
  <2> DEFINE Looked == file'[r] = reviewed'[r] \/ past'[of'[r]] \cap {"stale", "edit"} # {}
  <2>0. /\ DocumentsTypeOK /\ DocumentsTypeOK' /\ of'[r] \in Drivers /\ driver'[of'[r]] # "GONE"
        /\ past[of'[r]] \subseteq past'[of'[r]] /\ driver[of'[r]] # "GONE"
    <3>1. DocumentsTypeOK /\ DocumentsTypeOK'
      BY NextType DEF DocumentsInv
    <3>2. of'[r] \in Drivers /\ driver'[of'[r]] # "GONE"
      BY <3>1 DEF Row, DocumentsTypeOK
    <3> QED BY <3>1, <3>2, Lasting
  <2>1. ASSUME of'[r] = of[r], status[r] = "APPROVED", file'[r] = file[r], reviewed'[r] = reviewed[r]
        PROVE  Looked
    <3>1. Row(r)
      BY <2>0, <2>1, Nobody DEF Row
    <3>2. file[r] = reviewed[r] \/ past[of[r]] \cap {"stale", "edit"} # {}
      BY <2>1, <3>1 DEF ApprovedFileWasReviewed
    <3> QED BY <2>0, <2>1, <3>2
  <2>2. ASSUME UNCHANGED <<rows, reviewed>> PROVE Looked
    BY <2>1, <2>2 DEF rows
  <2>3. ASSUME NEW t \in Tasks, UploadUpdate(t) PROVE Looked
    <3>1. r # task[t].doc
      BY <2>0, <2>3 DEF UploadUpdate, DocumentsTypeOK
    <3>2. of'[r] = of[r] /\ status'[r] = status[r] /\ file'[r] = file[r] /\ reviewed'[r] = reviewed[r]
      BY <2>0, <2>3, <3>1 DEF UploadUpdate, DocumentsTypeOK
    <3> QED BY <2>1, <3>2
  <2>4. ASSUME NEW d \in Drivers, NEW f, NewRow(d, f) PROVE Looked
    <3>1. of'[r] = of[r] /\ status'[r] = status[r] /\ file'[r] = file[r] /\ reviewed'[r] = reviewed[r]
      BY <2>4, NewRowWaits
    <3> QED BY <2>1, <3>1
  <2>5. ASSUME NEW t \in Tasks, UploadCreate(t) PROVE Looked
    <3>1. task[t].driver \in Drivers
      BY <2>5 DEF UploadCreate, DocumentsInv, Remembers, RemembersIn
    <3> QED BY <2>4, <2>5, <3>1 DEF UploadCreate
  <2>6. ASSUME NEW t \in Tasks, NEW new, ReviewWrite(t, new) PROVE Looked
    <3>1. task[t].doc \in Docs /\ of' = of /\ file' = file
      BY <2>0, <2>6 DEF ReviewWrite, DocumentsInv, Remembers, RemembersIn, DocumentsTypeOK
    <3>2. CASE r = task[t].doc
      <4>1. new = "APPROVED" /\ reviewed'[r] = task[t].old
        BY <2>0, <2>6, <3>2 DEF ReviewWrite, DocumentsTypeOK
      <4>2. CASE file[r] # task[t].old
        <5>1. "stale" \in past'[of[r]]
          BY <2>0, <2>6, <3>1, <3>2, <4>2 DEF ReviewWrite, Excuse, DocumentsTypeOK
        <5> QED BY <3>1, <5>1
      <4> QED BY <3>1, <4>1, <4>2
    <3>3. CASE r # task[t].doc
      BY <2>0, <2>1, <2>6, <3>1, <3>3 DEF ReviewWrite, DocumentsTypeOK
    <3> QED BY <3>2, <3>3
  <2>7. ASSUME NEW q \in Docs, NEW f, UpdateDriverDocumentUrl(q, f) PROVE Looked
    <3>1. CASE r = q
      BY <2>0, <2>7, <3>1 DEF UpdateDriverDocumentUrl, Excuse, DocumentsTypeOK
    <3>2. CASE r # q
      BY <2>0, <2>1, <2>7, <3>2 DEF UpdateDriverDocumentUrl, DocumentsTypeOK
    <3> QED BY <3>1, <3>2
  <2>8. ASSUME NEW q \in Docs, NEW new, UpdateDriverDocumentStatus(q, new) PROVE Looked
    <3>1. CASE r = q
      BY <2>0, <2>8, <3>1 DEF UpdateDriverDocumentStatus, DocumentsTypeOK
    <3>2. CASE r # q
      BY <2>0, <2>1, <2>8, <3>2 DEF UpdateDriverDocumentStatus, DocumentsTypeOK
    <3> QED BY <3>1, <3>2
  <2>9. ASSUME NEW ds, ApproveRows(ds), UNCHANGED <<of, file>> PROVE Looked
    BY <2>1, <2>9 DEF ApproveRows
  <2>10. ASSUME NEW d \in Drivers, DeleteDriver(d) PROVE Looked
    <3>1. of[r] # d
      BY <2>0, <2>10 DEF DeleteDriver, DocumentsTypeOK
    <3> QED BY <2>1, <2>10, <3>1 DEF DeleteDriver
  <2> HIDE DEF Looked
  <2>11. Looked
    BY <2>2, <2>3, <2>4, <2>5, <2>6, <2>7, <2>8, <2>9, <2>10
    DEF DocumentsNext, documentsVars, UploadRead, UploadDelete, UploadSave, ApproveDriverDocuments, Fail,
        ReviewRead, ApproveDriver, UpdateUserStatus, CreateDriverDocument, AutoApproveAll,
        DeletedElsewhere
  <2> QED BY <2>11 DEF Looked
<1> QED
  BY <1>1, <1>2, DocumentsTypeCorrect, PTL DEF DocumentsSpec, DocumentsInv

\* Whatever requests overlap, the documents of an approved driver are approved, but those
\* put to PENDING since, unless the approval is between its two writes or was left alone.
THEOREM DocumentsApprovedWithDocuments == DocumentsSpec => []ApprovedWithDocuments
<1>1. DocumentsInit => ApprovedWithDocuments
  BY DEF DocumentsInit, ApprovedWithDocuments, Row
<1>2. DocumentsInv /\ ApprovedWithDocuments /\ [DocumentsNext]_documentsVars => ApprovedWithDocuments'
  <2> SUFFICES ASSUME DocumentsInv, ApprovedWithDocuments, [DocumentsNext]_documentsVars,
                      NEW r \in Docs, Row(r)', status'[r] = "PENDING", driver'[of'[r]] = "APPROVED"
               PROVE  \/ r \in later'
                      \/ \E t \in Tasks : task'[t].step = "approve" /\ task'[t].driver = of'[r]
                      \/ "alone" \in past'[of'[r]]
    BY DEF ApprovedWithDocuments
  <2> DEFINE Approving == \E t \in Tasks : task[t].step = "approve" /\ task[t].driver = of[r]
             Approving2 == \E t \in Tasks : task'[t].step = "approve" /\ task'[t].driver = of'[r]
             Excused == r \in later' \/ Approving2 \/ "alone" \in past'[of'[r]]
  <2>0. /\ DocumentsTypeOK /\ DocumentsTypeOK' /\ of'[r] \in Drivers /\ driver'[of'[r]] # "GONE"
        /\ past[of'[r]] \subseteq past'[of'[r]] /\ driver[of'[r]] # "GONE"
        /\ task \in [Tasks -> Memory] /\ \A t \in Tasks : RemembersIn(t)
        /\ (of[r] # NoOne => of'[r] = of[r])
    <3>1. DocumentsTypeOK /\ DocumentsTypeOK'
      BY NextType DEF DocumentsInv
    <3>2. of'[r] \in Drivers /\ driver'[of'[r]] # "GONE"
      BY <3>1 DEF Row, DocumentsTypeOK
    <3> QED BY <3>1, <3>2, Lasting, TypeOfTasks DEF DocumentsInv, Remembers
  <2>1. ASSUME of'[r] = of[r], status[r] = "PENDING", driver[of[r]] = "APPROVED",
               r \in later => r \in later', Approving => Approving2 \/ "alone" \in past'[of'[r]]
        PROVE  Excused
    <3>1. Row(r)
      BY <2>0, <2>1, Nobody DEF Row
    <3>2. r \in later \/ Approving \/ "alone" \in past[of[r]]
      BY <2>1, <3>1 DEF ApprovedWithDocuments
    <3> QED BY <2>0, <2>1, <3>2
  <2>2. ASSUME NEW t \in Tasks, task[t].step # "approve", \A s \in Tasks \ {t} : task'[s] = task[s],
               of'[r] = of[r]
        PROVE  Approving => Approving2
    BY <2>2
  <2>3. ASSUME task' = task, of'[r] = of[r] PROVE Approving => Approving2
    BY <2>3
  <2>4. ASSUME NEW q \in Docs, NEW d, Later(q, d, "PENDING"), driver[d] = "APPROVED" PROVE q \in later'
    BY <2>4 DEF Later
  <2>5. ASSUME NEW q \in Docs \ {r}, NEW d, NEW new, Later(q, d, new) PROVE r \in later => r \in later'
    BY <2>5 DEF Later
  <2>6. ASSUME NEW t \in Tasks, \/ UploadDelete(t) \/ UploadSave(t)
                                \/ \E d \in Drivers : UploadRead(t, d)
                                \/ \E q \in Docs : ReviewRead(t, q)
        PROVE  Excused
    <3>1. task[t].step # "approve" /\ UNCHANGED <<driver, rows, later>>
      BY <2>6 DEF UploadDelete, UploadSave, UploadRead, ReviewRead
    <3>2. \A s \in Tasks \ {t} : task'[s] = task[s]
      BY <2>0, <2>6 DEF UploadDelete, UploadSave, UploadRead, ReviewRead
    <3> QED BY <2>1, <2>2, <3>1, <3>2 DEF rows
  <2>7. ASSUME NEW t \in Tasks, UploadUpdate(t) PROVE Excused
    <3>1. task[t].doc \in Docs /\ of' = of /\ driver' = driver /\ Later(task[t].doc, of[task[t].doc], "PENDING")
      BY <2>0, <2>7 DEF UploadUpdate, Memory
    <3>2. CASE r = task[t].doc
      BY <2>4, <3>1, <3>2
    <3>3. CASE r # task[t].doc
      <4>1. status'[r] = status[r]
        BY <2>0, <2>7, <3>3 DEF UploadUpdate, DocumentsTypeOK
      <4>2. Approving => Approving2
        BY <2>0, <2>2, <2>7, <3>1, Ended DEF UploadUpdate
      <4> QED BY <2>1, <2>5, <3>1, <3>3, <4>1, <4>2
    <3> QED BY <3>2, <3>3
  <2>8. ASSUME NEW d \in Drivers, NEW f, NewRow(d, f), driver' = driver,
               of'[r] = of[r] => (Approving => Approving2)
        PROVE  Excused
    <3>1. PICK q \in Docs :
              /\ of[q] = NoOne /\ of'[q] = d /\ status'[q] = "PENDING" /\ file'[q] = f
              /\ driver[d] = "APPROVED" => q \in later'
              /\ \A p \in Docs \ {q} : /\ of'[p] = of[p] /\ status'[p] = status[p] /\ file'[p] = file[p]
                                       /\ reviewed'[p] = reviewed[p] /\ (p \in later => p \in later')
      BY <2>8, NewRowWaits
    <3>2. CASE r = q
      BY <2>8, <3>1, <3>2
    <3>3. CASE r # q
      BY <2>1, <2>8, <3>1, <3>3
    <3> QED BY <3>2, <3>3
  <2>9. ASSUME NEW t \in Tasks, UploadCreate(t) PROVE Excused
    <3>1. task[t].driver \in Drivers /\ NewRow(task[t].driver, task[t].new) /\ driver' = driver
      BY <2>0, <2>9 DEF UploadCreate, RemembersIn
    <3>2. of'[r] = of[r] => (Approving => Approving2)
      BY <2>0, <2>2, <2>9, Ended DEF UploadCreate
    <3> QED BY <2>8, <3>1, <3>2
  <2>10. ASSUME NEW d \in Drivers, NEW f, CreateDriverDocument(d, f) PROVE Excused
    <3>1. NewRow(d, f) /\ driver' = driver /\ task' = task
      BY <2>10 DEF CreateDriverDocument
    <3> QED BY <2>3, <2>8, <3>1
  <2>11. ASSUME NEW t \in Tasks, Fail(t) PROVE Excused
    <3>1. UNCHANGED <<driver, rows, later>> /\ \A s \in Tasks \ {t} : task'[s] = task[s]
      BY <2>0, <2>11, Ended DEF Fail
    <3>2. CASE task[t].step = "approve" /\ task[t].driver = of[r]
      <4>1. of[r] \in Drivers /\ of' = of
        BY <2>0, <3>1 DEF rows
      <4>2. "alone" \in past'[of[r]]
        BY <2>0, <2>11, <3>2, <4>1 DEF Fail, DocumentsTypeOK
      <4> QED BY <4>1, <4>2
    <3>3. CASE ~(task[t].step = "approve" /\ task[t].driver = of[r])
      <4>1. Approving => Approving2
        BY <3>1, <3>3 DEF rows
      <4> QED BY <2>1, <3>1, <4>1 DEF rows
    <3> QED BY <3>2, <3>3
  <2>12. ASSUME NEW t \in Tasks, NEW new, ReviewWrite(t, new) PROVE Excused
    <3>1. /\ task[t].doc \in Docs /\ of' = of /\ driver' = driver /\ task[t].step # "approve"
          /\ Later(task[t].doc, of[task[t].doc], new)
          /\ \A s \in Tasks \ {t} : task'[s] = task[s]
      BY <2>0, <2>12, Ended DEF ReviewWrite, RemembersIn, Memory
    <3>2. CASE r = task[t].doc
      <4>1. new = "PENDING"
        BY <2>0, <2>12, <3>2 DEF ReviewWrite, DocumentsTypeOK
      <4> QED BY <2>4, <3>1, <3>2, <4>1
    <3>3. CASE r # task[t].doc
      <4>1. status'[r] = status[r]
        BY <2>0, <2>12, <3>3 DEF ReviewWrite, DocumentsTypeOK
      <4>2. Approving => Approving2
        BY <2>2, <3>1
      <4> QED BY <2>1, <2>5, <3>1, <3>3, <4>1, <4>2
    <3> QED BY <3>2, <3>3
  <2>13. ASSUME NEW q \in Docs, NEW f, UpdateDriverDocumentUrl(q, f) PROVE Excused
    BY <2>1, <2>3, <2>13 DEF UpdateDriverDocumentUrl
  <2>14. ASSUME NEW q \in Docs, NEW new, UpdateDriverDocumentStatus(q, new) PROVE Excused
    <3>1. of' = of /\ driver' = driver /\ task' = task /\ Later(q, of[q], new)
      BY <2>14 DEF UpdateDriverDocumentStatus
    <3>2. CASE r = q
      <4>1. new = "PENDING"
        BY <2>0, <2>14, <3>2 DEF UpdateDriverDocumentStatus, DocumentsTypeOK
      <4> QED BY <2>4, <3>1, <3>2, <4>1
    <3>3. CASE r # q
      <4>1. status'[r] = status[r]
        BY <2>0, <2>14, <3>3 DEF UpdateDriverDocumentStatus, DocumentsTypeOK
      <4> QED BY <2>1, <2>3, <2>5, <3>1, <3>3, <4>1
    <3> QED BY <3>2, <3>3
  <2>15. ASSUME NEW ds, ApproveRows(ds), of' = of
         PROVE  of[r] \notin ds /\ status[r] = "PENDING" /\ (r \in later => r \in later')
    <3>1. Row(r)
      BY <2>0, <2>15, Nobody DEF Row
    <3>2. ~(of[r] \in ds /\ status[r] = "PENDING")
      BY <2>15, <3>1 DEF ApproveRows
    <3> QED BY <2>15, <3>1, <3>2 DEF ApproveRows
  <2>16. ASSUME NEW t \in Tasks, ApproveDriverDocuments(t) PROVE Excused
    <3>1. ApproveRows({task[t].driver}) /\ of' = of /\ driver' = driver
          /\ \A s \in Tasks \ {t} : task'[s] = task[s]
      BY <2>0, <2>16, Ended DEF ApproveDriverDocuments
    <3>2. task[t].driver # of[r] /\ status[r] = "PENDING" /\ (r \in later => r \in later')
      BY <2>15, <3>1
    <3>3. Approving => Approving2
      BY <3>1, <3>2
    <3> QED BY <2>1, <3>1, <3>2, <3>3
  <2>17. ASSUME AutoApproveAll PROVE Excused
    BY <2>0, <2>15, <2>17 DEF AutoApproveAll
  <2>18. ASSUME NEW t \in Tasks, NEW d \in Drivers, ApproveDriver(t, d) PROVE Excused
    <3>1. task[t].step = "idle" /\ UNCHANGED <<rows, later>> /\ driver' = [driver EXCEPT ![d] = "APPROVED"]
          /\ task' = [task EXCEPT ![t] = [NoTask EXCEPT !.step = "approve", !.driver = d]]
      BY <2>18 DEF ApproveDriver
    <3>2. task'[t].step = "approve" /\ task'[t].driver = d /\ \A s \in Tasks \ {t} : task'[s] = task[s]
      BY <2>0, <3>1 DEF NoTask
    <3>3. CASE d = of[r]
      BY <3>1, <3>2, <3>3 DEF rows
    <3>4. CASE d # of[r]
      <4>1. driver[of[r]] = "APPROVED"
        BY <2>0, <3>1, <3>4 DEF rows, DocumentsTypeOK
      <4> QED BY <2>1, <2>2, <3>1, <3>2, <4>1 DEF rows
    <3> QED BY <3>3, <3>4
  <2>19. ASSUME NEW d \in Drivers, NEW new \in {"APPROVED", "PENDING"}, UpdateUserStatus(d, new) PROVE Excused
    <3>1. CASE d = of'[r]
      BY <2>0, <2>19, <3>1 DEF UpdateUserStatus, Excuse, rows, DocumentsTypeOK
    <3>2. CASE d # of'[r]
      <4>1. driver'[of'[r]] = driver[of'[r]] /\ UNCHANGED <<rows, task, later>>
        BY <2>0, <2>19, <3>2 DEF UpdateUserStatus, DocumentsTypeOK
      <4> QED BY <2>1, <2>3, <4>1 DEF rows
    <3> QED BY <3>1, <3>2
  <2>20. ASSUME NEW d \in Drivers, DeleteDriver(d) PROVE Excused
    <3>1. of[r] # d /\ of' = of /\ task' = task
      BY <2>0, <2>20 DEF DeleteDriver, DocumentsTypeOK
    <3>2. status'[r] = status[r] /\ driver'[of[r]] = driver[of[r]] /\ (r \in later => r \in later')
      BY <2>0, <2>20, <3>1 DEF DeleteDriver, DocumentsTypeOK
    <3> QED BY <2>1, <2>3, <3>1, <3>2
  <2>21. ASSUME UNCHANGED documentsVars \/ (\E f \in Files : DeletedElsewhere(f)) PROVE Excused
    BY <2>1, <2>3, <2>21 DEF documentsVars, DeletedElsewhere, rows
  <2> HIDE DEF Excused
  <2>22. Excused
    BY <2>6, <2>7, <2>9, <2>10, <2>11, <2>12, <2>13, <2>14, <2>16, <2>17, <2>18, <2>19, <2>20, <2>21
    DEF DocumentsNext
  <2> QED BY <2>22 DEF Excused
<1> QED
  BY <1>1, <1>2, DocumentsTypeCorrect, PTL DEF DocumentsSpec, DocumentsInv

-------------------------------------------------------------------------------
(* Uploads that do not overlap *)

\* An upload that begins remembers a row that stands and its file, or that there is none.
LEMMA UploadBegins ==
    ASSUME DocumentsTypeOK, NEW t \in Tasks, NEW d \in Drivers, UploadRead(t, d)
    PROVE  /\ task'[t].driver = d /\ \A s \in Tasks \ {t} : task'[s] = task[s]
           /\ task'[t].doc = NoOne => Standing(d) = {}
           /\ task'[t].doc # NoOne => task'[t].doc \in Standing(d) /\ task'[t].old = file[task'[t].doc]
           /\ task'[t].step # "saved" /\ (task'[t].step = "deleted" => task'[t].old = NoOne)
<1> DEFINE old(r) == IF r = NoOne THEN NoOne ELSE file[r]
<1>1. PICK r \in IF Standing(d) = {} THEN {NoOne} ELSE Standing(d) :
          task' = [task EXCEPT ![t] = [step |-> IF old(r) = NoOne THEN "deleted" ELSE "upload",
                                       driver |-> d, doc |-> r, old |-> old(r), new |-> NoOne]]
  BY DEF UploadRead, Standing
<1>2. /\ task'[t].driver = d /\ task'[t].doc = r /\ task'[t].old = old(r)
      /\ task'[t].step = (IF old(r) = NoOne THEN "deleted" ELSE "upload")
      /\ \A s \in Tasks \ {t} : task'[s] = task[s]
  BY <1>1, TypeOfTasks
<1>3. NoOne \notin Standing(d)
  BY Nobody DEF Standing
<1> QED BY <1>1, <1>2, <1>3

\* What a request that does not begin keeps of its row and its file.
LEMMA NextTasks ==
    ASSUME DocumentsInv, [DocumentsNext]_documentsVars, NEW s \in Tasks, Uploading(s)'
    PROVE  \/ \E d \in Drivers : UploadRead(s, d)
           \/ /\ Uploading(s) /\ task'[s].driver = task[s].driver
              /\ task'[s].doc = task[s].doc /\ task'[s].old = task[s].old
<1> DEFINE Begins == \E d \in Drivers : UploadRead(s, d)
           GoesOn == /\ Uploading(s) /\ task'[s].driver = task[s].driver
                     /\ task'[s].doc = task[s].doc /\ task'[s].old = task[s].old
<1>0. task \in [Tasks -> Memory] /\ DocumentsTypeOK
  BY TypeOfTasks DEF DocumentsInv
<1>1. ASSUME task'[s] = task[s] PROVE GoesOn
  BY <1>1 DEF Uploading
<1>2. ASSUME NEW t \in Tasks, End(t) PROVE GoesOn
  <2>1. t # s
    BY <1>0, <1>2, Ended DEF Uploading, NoTask
  <2> QED BY <1>0, <1>1, <1>2, <2>1, Ended
<1>3. ASSUME NEW t \in Tasks, NEW d \in Drivers, UploadRead(t, d) PROVE Begins \/ GoesOn
  <2>1. CASE t = s
    BY <1>3, <2>1
  <2>2. CASE t # s
    BY <1>0, <1>1, <1>3, <2>2 DEF UploadRead
  <2> QED BY <2>1, <2>2
<1>4. ASSUME NEW t \in Tasks, UploadDelete(t) \/ UploadSave(t) PROVE GoesOn
  <2>1. CASE t = s
    BY <1>0, <1>4, <2>1 DEF UploadDelete, UploadSave, Uploading, Memory
  <2>2. CASE t # s
    BY <1>0, <1>1, <1>4, <2>2 DEF UploadDelete, UploadSave
  <2> QED BY <2>1, <2>2
<1>5. ASSUME NEW t \in Tasks, NEW m, task' = [task EXCEPT ![t] = m],
             m.step \notin {"upload", "deleted", "saved"}
      PROVE  GoesOn
  <2>1. CASE t = s
    BY <1>0, <1>5, <2>1 DEF Uploading
  <2>2. CASE t # s
    BY <1>0, <1>1, <1>5, <2>2
  <2> QED BY <2>1, <2>2
<1>6. ASSUME NEW t \in Tasks, NEW r \in Docs, ReviewRead(t, r) PROVE GoesOn
  <2>1. [NoTask EXCEPT !.step = "review", !.driver = of[r], !.doc = r, !.old = file[r]].step = "review"
    BY DEF NoTask
  <2> QED BY <1>5, <1>6, <2>1 DEF ReviewRead
<1>7. ASSUME NEW t \in Tasks, NEW d \in Drivers, ApproveDriver(t, d) PROVE GoesOn
  <2>1. [NoTask EXCEPT !.step = "approve", !.driver = d].step = "approve"
    BY DEF NoTask
  <2> QED BY <1>5, <1>7, <2>1 DEF ApproveDriver
<1>8. ASSUME task' = task PROVE GoesOn
  BY <1>1, <1>8
<1> HIDE DEF Begins, GoesOn
<1>9. Begins \/ GoesOn
  BY <1>2, <1>3, <1>4, <1>6, <1>7, <1>8
  DEF DocumentsNext, documentsVars, UploadUpdate, UploadCreate, ApproveDriverDocuments, Fail, ReviewWrite,
      UpdateUserStatus, CreateDriverDocument, DeleteDriver, UpdateDriverDocumentUrl,
      UpdateDriverDocumentStatus, AutoApproveAll, DeletedElsewhere
<1> QED BY <1>9 DEF Begins, GoesOn

\* A row's file changes when an upload of its driver ends, or under an excuse.
LEMMA NextFile ==
    ASSUME DocumentsInv, [DocumentsNext]_documentsVars, NEW r \in Docs, of[r] # NoOne,
           driver'[of[r]] # "GONE"
    PROVE  \/ file'[r] = file[r]
           \/ "edit" \in past'[of[r]]
           \/ \E t \in Tasks : UploadUpdate(t) /\ task[t].doc = r
<1>0. DocumentsTypeOK /\ of[r] \in Drivers
  BY DEF DocumentsInv, DocumentsTypeOK
<1>1. ASSUME NEW t \in Tasks, UploadUpdate(t), task[t].doc # r PROVE file'[r] = file[r]
  BY <1>0, <1>1 DEF UploadUpdate, DocumentsTypeOK
<1>2. ASSUME NEW d \in Drivers, NEW f, NewRow(d, f) PROVE file'[r] = file[r]
  BY <1>2, NewRowWaits DEF DocumentsInv
<1>3. ASSUME NEW t \in Tasks, UploadCreate(t) PROVE file'[r] = file[r]
  BY <1>2, <1>3 DEF UploadCreate, DocumentsInv, Remembers, RemembersIn
<1>4. ASSUME NEW d \in Drivers, DeleteDriver(d) PROVE file'[r] = file[r]
  <2>1. of[r] # d
    BY <1>0, <1>4 DEF DeleteDriver, DocumentsTypeOK
  <2> QED BY <1>0, <1>4, <2>1 DEF DeleteDriver
<1>5. ASSUME NEW q \in Docs, NEW f, UpdateDriverDocumentUrl(q, f)
      PROVE  file'[r] = file[r] \/ "edit" \in past'[of[r]]
  <2>1. CASE q = r
    BY <1>0, <1>5, <2>1 DEF UpdateDriverDocumentUrl, Excuse, DocumentsTypeOK
  <2>2. CASE q # r
    BY <1>0, <1>5, <2>2 DEF UpdateDriverDocumentUrl, DocumentsTypeOK
  <2> QED BY <2>1, <2>2
<1> QED
  BY <1>1, <1>2, <1>3, <1>4, <1>5
  DEF DocumentsNext, documentsVars, rows, UploadRead, UploadDelete, UploadSave, ApproveDriverDocuments, Fail,
      ReviewRead, ReviewWrite, ApproveDriver, UpdateUserStatus, CreateDriverDocument, AutoApproveAll,
      UpdateDriverDocumentStatus, DeletedElsewhere

\* An upload stays where it is, goes on by a step of its own, or ends.
LEMMA UploadMoves ==
    ASSUME DocumentsInv, [DocumentsNext]_documentsVars, NEW t \in Tasks, Uploading(t)
    PROVE  \/ task'[t] = task[t]
           \/ UploadDelete(t) \/ UploadSave(t) \/ UploadUpdate(t) \/ UploadCreate(t) \/ Fail(t)
<1> DEFINE Goes == UploadDelete(t) \/ UploadSave(t) \/ UploadUpdate(t) \/ UploadCreate(t) \/ Fail(t)
           Same == task'[t] = task[t]
<1>0. DocumentsTypeOK /\ task \in [Tasks -> Memory]
  BY TypeOfTasks DEF DocumentsInv
<1>1. ASSUME NEW s \in Tasks, UploadUpdate(s) \/ UploadCreate(s) \/ Fail(s) PROVE Goes \/ Same
  <2>1. CASE s = t
    BY <1>1, <2>1
  <2>2. CASE s # t
    BY <1>0, <1>1, <2>2, Ended DEF UploadUpdate, UploadCreate, Fail
  <2> QED BY <2>1, <2>2
<1>2. ASSUME NEW s \in Tasks, NEW d \in Drivers, UploadRead(s, d) PROVE Same
  <2>1. s # t
    BY <1>2 DEF UploadRead, Uploading
  <2> QED BY <1>0, <1>2, <2>1, UploadBegins
<1>3. ASSUME NEW s \in Tasks, UploadDelete(s) \/ UploadSave(s) PROVE Goes \/ Same
  <2>1. CASE s = t
    BY <1>3, <2>1
  <2>2. CASE s # t
    BY <1>0, <1>3, <2>2 DEF UploadDelete, UploadSave
  <2> QED BY <2>1, <2>2
<1>4. ASSUME NEW s \in Tasks, \/ \E r \in Docs : ReviewRead(s, r)
                              \/ \E d \in Drivers : ApproveDriver(s, d)
      PROVE  Same
  BY <1>0, <1>4 DEF ReviewRead, ApproveDriver, Uploading
<1>5. ASSUME NEW s \in Tasks, ApproveDriverDocuments(s) \/ \E new \in Decisions : ReviewWrite(s, new)
      PROVE  Same
  BY <1>0, <1>5, Ended DEF ApproveDriverDocuments, ReviewWrite, Uploading
<1>6. ASSUME task' = task PROVE Same
  BY <1>6
<1> HIDE DEF Goes, Same
<1>7. Goes \/ Same
  BY <1>1, <1>2, <1>3, <1>4, <1>5, <1>6
  DEF DocumentsNext, documentsVars, UpdateUserStatus, CreateDriverDocument, DeleteDriver,
      UpdateDriverDocumentUrl, UpdateDriverDocumentStatus, AutoApproveAll, DeletedElsewhere
<1> QED BY <1>7 DEF Goes, Same

\* A step keeps the maker of a file on disk, or an upload makes it.
LEMMA NextMaker ==
    ASSUME DocumentsInv, [DocumentsNext]_documentsVars, NEW f \in disk'
    PROVE  \/ f \in disk /\ maker'[f] = maker[f]
           \/ \E t \in Tasks : /\ task[t].step = "deleted" /\ maker'[f] = task[t].driver
                               /\ task'[t].step = "saved" /\ task'[t].new = f
<1>0. DocumentsTypeOK /\ task \in [Tasks -> Memory] /\ disk \subseteq Files /\ NoOne \notin Drivers
  BY TypeOfTasks, Nobody DEF DocumentsInv
<1>1. ASSUME NEW t \in Tasks, UploadSave(t)
      PROVE  \/ f \in disk /\ maker'[f] = maker[f]
             \/ /\ task[t].step = "deleted" /\ maker'[f] = task[t].driver
                /\ task'[t].step = "saved" /\ task'[t].new = f
  <2>1. PICK g \in Files :
          /\ maker[g] = NoOne /\ disk' = disk \cup {g}
          /\ maker' = [maker EXCEPT ![g] = task[t].driver]
          /\ task' = [task EXCEPT ![t].step = "saved", ![t].new = g]
    BY <1>1 DEF UploadSave
  <2>2. task'[t].step = "saved" /\ task'[t].new = g /\ task[t].step = "deleted"
    BY <1>0, <1>1, <2>1 DEF Memory, UploadSave
  <2>3. f # g => f \in disk /\ maker'[f] = maker[f]
    BY <1>0, <2>1 DEF DocumentsTypeOK
  <2>4. f = g => maker'[f] = task[t].driver
    BY <1>0, <2>1 DEF DocumentsTypeOK
  <2> QED BY <2>2, <2>3, <2>4
<1> QED
  BY <1>1
  DEF DocumentsNext, documentsVars, UploadRead, UploadDelete, UploadUpdate, UploadCreate,
      ApproveDriverDocuments, Fail, ReviewRead, ReviewWrite, ApproveDriver, UpdateUserStatus,
      CreateDriverDocument, DeleteDriver, UpdateDriverDocumentUrl, UpdateDriverDocumentStatus, AutoApproveAll,
      DeletedElsewhere

\* A step keeps that there is one upload, whose file is away and which finds its row as it
\* was, or an excuse.
LEMMA NextAlone ==
    ASSUME DocumentsInv, UploadsAlone, [DocumentsNext]_documentsVars
    PROVE  UploadsAlone'
<1> SUFFICES ASSUME NEW d \in Drivers, driver'[d] # "GONE"
             PROVE  /\ "overlap" \notin past'[d] =>
                          /\ \A s, t \in Uploads(d)' : s = t
                          /\ \A t \in Uploads(d)' :
                                task'[t].step \in {"deleted", "saved"} /\ task'[t].old \in disk' =>
                                    maker'[task'[t].old] # d \/ task'[t].old = task'[t].new
                    /\ past'[d] \cap {"overlap", "edit"} = {} =>
                          \A t \in Uploads(d)' : task'[t].doc # NoOne => file'[task'[t].doc] = task'[t].old
  BY DEF UploadsAlone
<1>0. /\ task \in [Tasks -> Memory] /\ DocumentsTypeOK /\ past[d] \subseteq past'[d] /\ driver[d] # "GONE"
      /\ Uploads(d) \subseteq Tasks /\ Uploads(d)' \subseteq Tasks
  BY TypeOfTasks, Lasting DEF DocumentsInv, Uploads
<1>1. ASSUME NEW s \in Uploads(d)', s \notin Uploads(d) PROVE UploadRead(s, d)
  <2>1. s \in Tasks /\ Uploading(s)' /\ task'[s].driver = d
    BY <1>1 DEF Uploads, Uploading
  <2>2. ASSUME NEW e \in Drivers, UploadRead(s, e) PROVE e = d
    BY <1>0, <2>1, <2>2, UploadBegins
  <2> QED BY <1>1, <2>1, <2>2, NextTasks DEF Uploads, Uploading
<1>2. ASSUME "overlap" \notin past'[d], NEW s \in Uploads(d)', NEW t \in Uploads(d)' PROVE s = t
  <2>1. ASSUME NEW p \in Tasks, UploadRead(p, d) PROVE Uploads(d) = {} /\ \A q \in Tasks \ {p} : task'[q] = task[q]
    <3>1. Uploads(d) = {}
      BY <1>0, <1>2, <2>1 DEF UploadRead, Excuse, DocumentsTypeOK
    <3>2. \A q \in Tasks \ {p} : task'[q] = task[q]
      BY <1>0, <2>1 DEF UploadRead
    <3> QED BY <3>1, <3>2
  <2>2. ASSUME NEW p \in Uploads(d)', p \notin Uploads(d), NEW q \in Uploads(d)' PROVE p = q
    <3>1. UploadRead(p, d)
      BY <1>1, <2>2
    <3>2. Uploads(d) = {} /\ (q # p => task'[q] = task[q])
      BY <1>0, <2>1, <2>2, <3>1
    <3> QED BY <2>2, <3>2 DEF Uploads
  <2>3. CASE s \in Uploads(d) /\ t \in Uploads(d)
    BY <1>0, <1>2, <2>3 DEF UploadsAlone
  <2> QED BY <1>2, <2>2, <2>3
<1>3. ASSUME past'[d] \cap {"overlap", "edit"} = {}, NEW t \in Uploads(d)', task'[t].doc # NoOne
      PROVE  file'[task'[t].doc] = task'[t].old
  <2>1. CASE t \notin Uploads(d)
    <3>1. UploadRead(t, d)
      BY <1>1, <1>3, <2>1
    <3> QED BY <1>0, <1>3, <3>1, UploadBegins DEF UploadRead, rows, Uploads
  <2>2. CASE t \in Uploads(d)
    <3>1. t \in Tasks /\ Uploading(t) /\ Uploading(t)' /\ task[t].driver = d /\ RemembersIn(t)
      BY <1>3, <2>2 DEF Uploads, Uploading, DocumentsInv, Remembers
    <3>2. task'[t].doc = task[t].doc /\ task'[t].old = task[t].old
      <4>1. ~\E e \in Drivers : UploadRead(t, e)
        BY <3>1 DEF UploadRead, Uploading
      <4> QED BY <3>1, <4>1, NextTasks
    <3>3. task[t].doc \in Docs /\ of[task[t].doc] = d /\ d # NoOne
      BY <1>0, <1>3, <3>1, <3>2, Nobody DEF Memory, RemembersIn
    <3>4. file[task[t].doc] = task[t].old
      BY <1>0, <1>3, <2>2, <3>2 DEF UploadsAlone
    <3>5. ASSUME NEW u \in Tasks, UploadUpdate(u), task[u].doc = task[t].doc PROVE FALSE
      <4>1. u # t
        BY <1>0, <3>1, <3>5, Ended DEF UploadUpdate, NoTask, Uploading
      <4>2. u \in Uploads(d)
        BY <3>3, <3>5 DEF UploadUpdate, Uploads, DocumentsInv, Remembers, RemembersIn
      <4> QED BY <1>0, <1>3, <2>2, <4>1, <4>2 DEF UploadsAlone
    <3>6. file'[task[t].doc] = file[task[t].doc]
      BY <1>3, <3>3, <3>5, NextFile
    <3> QED BY <3>2, <3>4, <3>6
  <2> QED BY <2>1, <2>2
<1>4. ASSUME "overlap" \notin past'[d], NEW t \in Uploads(d)', task'[t].step \in {"deleted", "saved"},
             task'[t].old \in disk', maker'[task'[t].old] = d
      PROVE  task'[t].old = task'[t].new
  <2> DEFINE f == task'[t].old
  <2>0. NoOne \notin disk' /\ t \in Tasks /\ Uploading(t)'
    BY <1>0, <1>4, NextType, Nobody DEF DocumentsInv, DocumentsTypeOK, Uploads, Uploading
  <2>1. t \in Uploads(d) /\ Uploading(t)
    <3>1. ~UploadRead(t, d)
      BY <1>0, <1>4, <2>0, UploadBegins
    <3> QED BY <1>1, <1>4, <3>1 DEF Uploads, Uploading
  <2>2. task[t].old = f /\ task'[t].driver = task[t].driver
    <3>1. ~\E e \in Drivers : UploadRead(t, e)
      BY <2>1 DEF UploadRead, Uploading
    <3> QED BY <2>0, <3>1, NextTasks
  <2>3. CASE f \in disk /\ maker'[f] = maker[f]
    <3>1. CASE UploadDelete(t)
      BY <1>4, <2>2, <3>1 DEF UploadDelete
    <3>2. CASE UploadSave(t)
      <4>1. task[t].step = "deleted" /\ task[t].new = NoOne
        BY <3>2, <2>0 DEF UploadSave, DocumentsInv, Remembers, RemembersIn
      <4>2. maker[f] # d \/ f = task[t].new
        BY <1>0, <1>4, <2>1, <2>2, <2>3, <4>1 DEF UploadsAlone
      <4> QED BY <1>0, <1>4, <2>0, <2>3, <4>1, <4>2
    <3>3. CASE UploadUpdate(t) \/ UploadCreate(t) \/ Fail(t)
      BY <1>0, <2>0, <3>3, Ended DEF UploadUpdate, UploadCreate, Fail, NoTask, Uploading
    <3>4. CASE task'[t] = task[t]
      BY <1>0, <1>4, <2>1, <2>3, <3>4 DEF UploadsAlone
    <3> QED BY <2>0, <2>1, <3>1, <3>2, <3>3, <3>4, UploadMoves
  <2>4. ASSUME NEW u \in Tasks, task[u].step = "deleted", maker'[f] = task[u].driver,
               task'[u].step = "saved", task'[u].new = f
        PROVE  task'[t].new = f
    <3>1. u \in Uploads(d)
      BY <1>4, <2>4 DEF Uploads
    <3>2. u = t
      BY <1>0, <1>4, <2>1, <3>1 DEF UploadsAlone
    <3> QED BY <2>4, <3>2
  <2> HIDE DEF f
  <2>5. f \in disk' /\ f = task'[t].old
    BY <1>4 DEF f
  <2> QED BY <2>3, <2>4, <2>5, NextMaker
<1> QED BY <1>2, <1>3, <1>4

\* Every table keeps its type, files are known and uploads that did not overlap are alone.
LEMMA DocumentsInvariant == DocumentsSpec => [](DocumentsInv /\ UploadsAlone)
<1>1. DocumentsInit => UploadsAlone
  BY DEF DocumentsInit, UploadsAlone, Uploads, NoTask
<1> QED
  BY <1>1, NextAlone, DocumentsTypeCorrect, PTL DEF DocumentsSpec, DocumentsInv

-------------------------------------------------------------------------------
(* One document of a type *)

\* Which documents of a driver stand after a step: no new one, but the row that an upload
\* without one makes; or an excuse.
LEMMA NextStanding ==
    ASSUME DocumentsInv, [DocumentsNext]_documentsVars, NEW d \in Drivers, driver'[d] # "GONE",
           "second" \notin past'[d]
    PROVE  \/ Standing(d)' \subseteq Standing(d)
           \/ \E t \in Uploads(d), r \in Docs :
                 /\ task[t].doc = NoOne /\ task'[t] = NoTask
                 /\ Standing(d)' \subseteq Standing(d) \cup {r}
<1> DEFINE Fewer == Standing(d)' \subseteq Standing(d)
           First == \E t \in Uploads(d), r \in Docs :
                       /\ task[t].doc = NoOne /\ task'[t] = NoTask
                       /\ Standing(d)' \subseteq Standing(d) \cup {r}
<1>0. DocumentsTypeOK /\ DocumentsTypeOK' /\ \A t \in Tasks : RemembersIn(t)
  BY NextType DEF DocumentsInv, Remembers
<1>1. ASSUME of' = of, \A r \in Docs : of[r] = d /\ status'[r] # "REJECTED" => status[r] # "REJECTED"
      PROVE  Fewer
  BY <1>1 DEF Standing
<1>2. ASSUME NEW r \in Docs, of' = of, NEW new, status' = [status EXCEPT ![r] = new],
             NEW what, of[r] \in Drivers, Excuse(of[r], what), Revived(r, new) \subseteq what
      PROVE  Fewer
  <2>1. ASSUME of[r] = d, status[r] = "REJECTED", new # "REJECTED" PROVE FALSE
    BY <1>0, <1>2, <2>1 DEF Revived, Excuse, DocumentsTypeOK
  <2>2. \A q \in Docs : of[q] = d /\ status'[q] # "REJECTED" => status[q] # "REJECTED"
    BY <1>0, <1>2, <2>1 DEF DocumentsTypeOK
  <2> QED BY <1>1, <1>2, <2>2
<1>3. ASSUME NEW t \in Tasks, UploadUpdate(t) PROVE Fewer
  <2>1. task[t].doc \in Docs /\ of[task[t].doc] \in Drivers
    BY <1>0, <1>3 DEF UploadUpdate, Row, DocumentsTypeOK
  <2> QED BY <1>2, <1>3, <2>1 DEF UploadUpdate
<1>4. ASSUME NEW t \in Tasks, NEW new, ReviewWrite(t, new) PROVE Fewer
  <2>1. task[t].doc \in Docs /\ of[task[t].doc] \in Drivers
    BY <1>0, <1>4 DEF ReviewWrite, Row, DocumentsTypeOK, RemembersIn
  <2> DEFINE what == Revived(task[t].doc, new) \cup
                        IF file[task[t].doc] = task[t].old THEN {} ELSE {"stale"}
  <2>2. Excuse(of[task[t].doc], what) /\ status' = [status EXCEPT ![task[t].doc] = new] /\ of' = of
    BY <1>4 DEF ReviewWrite
  <2>3. Revived(task[t].doc, new) \subseteq what
    OBVIOUS
  <2> HIDE DEF what
  <2> QED BY <1>2, <2>1, <2>2, <2>3
<1>5. ASSUME NEW r \in Docs, NEW new, UpdateDriverDocumentStatus(r, new) PROVE Fewer
  <2>1. of[r] \in Drivers
    BY <1>0, <1>5 DEF UpdateDriverDocumentStatus, Row, DocumentsTypeOK
  <2> QED BY <1>2, <1>5, <2>1 DEF UpdateDriverDocumentStatus
<1>6. ASSUME NEW e \in Drivers, NEW f, NewRow(e, f)
      PROVE  \E r \in Docs : Standing(d)' \subseteq Standing(d) \cup {r} /\ (e # d => Fewer)
  <2>1. PICK r \in Docs : of'[r] = e /\ \A q \in Docs \ {r} : of'[q] = of[q] /\ status'[q] = status[q]
    BY <1>6, NewRowWaits
  <2> QED BY <2>1 DEF Standing
<1>7. ASSUME NEW t \in Tasks, UploadCreate(t) PROVE Fewer \/ First
  <2>1. /\ task[t].driver \in Drivers /\ NewRow(task[t].driver, task[t].new) /\ task[t].doc = NoOne
        /\ task[t].step = "saved" /\ task'[t] = NoTask
    BY <1>0, <1>7, Ended DEF UploadCreate, RemembersIn
  <2>2. CASE task[t].driver = d
    <3>1. t \in Uploads(d)
      BY <2>1, <2>2 DEF Uploads
    <3> QED BY <1>6, <2>1, <3>1
  <2>3. CASE task[t].driver # d
    BY <1>6, <2>1, <2>3
  <2> QED BY <2>2, <2>3
<1>8. ASSUME NEW e \in Drivers, NEW f, CreateDriverDocument(e, f) PROVE Fewer
  <2>1. e # d
    BY <1>0, <1>8 DEF CreateDriverDocument, Excuse, DocumentsTypeOK
  <2> QED BY <1>6, <1>8, <2>1 DEF CreateDriverDocument
<1>9. ASSUME NEW ds, ApproveRows(ds), of' = of PROVE Fewer
  BY <1>1, <1>9 DEF ApproveRows
<1>10. ASSUME NEW e \in Drivers, DeleteDriver(e) PROVE Fewer
  <2>1. e # d
    BY <1>0, <1>10 DEF DeleteDriver, DocumentsTypeOK
  <2> QED BY <1>1, <1>10, <2>1 DEF DeleteDriver
<1>11. ASSUME UNCHANGED <<of, status>> PROVE Fewer
  BY <1>1, <1>11
<1> HIDE DEF Fewer, First
<1>12. Fewer \/ First
  BY <1>3, <1>4, <1>5, <1>7, <1>8, <1>9, <1>10, <1>11
  DEF DocumentsNext, documentsVars, rows, UploadRead, UploadDelete, UploadSave, ApproveDriverDocuments, Fail,
      ReviewRead, ApproveDriver, UpdateUserStatus, AutoApproveAll, UpdateDriverDocumentUrl,
      DeletedElsewhere
<1> QED BY <1>12 DEF Fewer, First

\* A step keeps that one document stands, or an excuse.
LEMMA NextOneStanding ==
    ASSUME DocumentsInv, UploadsAlone, OneStanding, [DocumentsNext]_documentsVars
    PROVE  OneStanding'
<1> SUFFICES ASSUME NEW d \in Drivers, driver'[d] # "GONE", past'[d] \cap {"overlap", "second"} = {}
             PROVE  /\ \A r, s \in Standing(d)' : r = s
                    /\ \A t \in Uploads(d)' : task'[t].doc = NoOne => Standing(d)' = {}
  BY DEF OneStanding
<1>0. /\ task \in [Tasks -> Memory] /\ past[d] \cap {"overlap", "second"} = {} /\ driver[d] # "GONE"
      /\ DocumentsTypeOK
  BY TypeOfTasks, Lasting DEF DocumentsInv
<1>1. /\ \A r, s \in Standing(d) : r = s
      /\ \A t \in Uploads(d) : task[t].doc = NoOne => Standing(d) = {}
      /\ \A s, t \in Uploads(d) : s = t
  BY <1>0 DEF OneStanding, UploadsAlone
<1>2. ASSUME NEW t \in Uploads(d)'
      PROVE  UploadRead(t, d) \/ (t \in Uploads(d) /\ task'[t].doc = task[t].doc)
  <2>1. t \in Tasks /\ Uploading(t)' /\ task'[t].driver = d
    BY <1>2 DEF Uploads, Uploading
  <2>2. ASSUME NEW e \in Drivers, UploadRead(t, e) PROVE e = d
    BY <1>0, <2>1, <2>2, UploadBegins
  <2> QED BY <2>1, <2>2, NextTasks DEF Uploads, Uploading
<1>3. ASSUME NEW t \in Uploads(d)', UploadRead(t, d), task'[t].doc = NoOne PROVE Standing(d)' = {}
  <2>1. Standing(d) = {}
    BY <1>0, <1>3, UploadBegins DEF Uploads
  <2> QED BY <1>3, <2>1 DEF UploadRead, rows, Standing
<1>4. CASE Standing(d)' \subseteq Standing(d)
  BY <1>1, <1>2, <1>3, <1>4
<1>5. ASSUME NEW t \in Uploads(d), NEW r \in Docs, task[t].doc = NoOne, task'[t] = NoTask,
             Standing(d)' \subseteq Standing(d) \cup {r}
      PROVE  /\ \A p, q \in Standing(d)' : p = q
             /\ \A s \in Uploads(d)' : task'[s].doc = NoOne => Standing(d)' = {}
  <2>1. Standing(d) = {}
    BY <1>1, <1>5
  <2>2. ASSUME NEW s \in Uploads(d)', task'[s].doc = NoOne PROVE Standing(d)' = {}
    <3>1. s # t
      BY <1>5, <2>2 DEF Uploads, NoTask
    <3>2. UploadRead(s, d)
      BY <1>1, <1>2, <1>5, <2>2, <3>1
    <3> QED BY <1>3, <2>2, <3>2
  <2> QED BY <1>5, <2>1, <2>2
<1> QED BY <1>0, <1>4, <1>5, NextStanding

\* However uploads are interleaved with everything else: one document of a type that is
\* not rejected, but for the excuses.
THEOREM DocumentsOneOfType == DocumentsSpec => []OneDocumentOfType
<1>1. DocumentsInit => OneStanding
  BY Nobody DEF DocumentsInit, OneStanding, Uploads, Standing, NoTask
<1>2. OneStanding => OneDocumentOfType
  <2> SUFFICES ASSUME OneStanding, NEW d \in Drivers, past[d] \cap {"overlap", "second"} = {}
               PROVE  ~(Cardinality({r \in Docs : Row(r) /\ of[r] = d /\ status[r] # "REJECTED"}) > 1)
    BY DEF OneDocumentOfType
  <2> DEFINE S == {r \in Docs : Row(r) /\ of[r] = d /\ status[r] # "REJECTED"}
  <2>1. \A r, s \in S : r = s
    BY DEF OneStanding, Standing, Row
  <2>2. S = {} \/ \E r : S = {r}
    BY <2>1
  <2>3. Cardinality(S) \in {0, 1}
    BY <2>2, FS_EmptySet, FS_Singleton
  <2> QED BY <2>3
<1> QED
  BY <1>1, <1>2, NextOneStanding, DocumentsInvariant, PTL DEF DocumentsSpec

-------------------------------------------------------------------------------
(* Rows and files *)

\* A step keeps that the file of a row is there, or that an upload deleted it and goes on.
LEMMA NextRowFileExists ==
    ASSUME DocumentsInv, RowFileExists, [DocumentsNext]_documentsVars
    PROVE  RowFileExists'
<1> SUFFICES ASSUME NEW r \in Docs, Row(r)', file'[r] \in Files, file'[r] \notin named'
             PROVE  \/ file'[r] \in disk'
                    \/ \E t \in Tasks : task'[t].step \in {"deleted", "saved"} /\ task'[t].old = file'[r]
                    \/ "cut" \in past'[of'[r]]
  BY DEF RowFileExists
<1> DEFINE Away == \E t \in Tasks : task[t].step \in {"deleted", "saved"} /\ task[t].old = file[r]
           Away2 == \E t \in Tasks : task'[t].step \in {"deleted", "saved"} /\ task'[t].old = file'[r]
           There == file'[r] \in disk' \/ Away2 \/ "cut" \in past'[of'[r]]
<1>0. /\ DocumentsTypeOK /\ of'[r] \in Drivers /\ driver[of'[r]] # "GONE" /\ driver'[of'[r]] # "GONE"
      /\ past[of'[r]] \subseteq past'[of'[r]] /\ task \in [Tasks -> Memory]
      /\ \A t \in Tasks : RemembersIn(t)
      /\ NoOne \notin Files /\ NoOne \notin Drivers /\ disk \subseteq Files
      /\ file'[r] \notin named /\ \A f : Names(f) => file'[r] # f
  <2>1. of'[r] \in Drivers /\ driver'[of'[r]] # "GONE"
    BY NextType DEF Row, DocumentsTypeOK
  <2>2. file'[r] \notin named /\ \A f : Names(f) => file'[r] # f
    BY NextNamed DEF DocumentsInv, Names
  <2> QED BY <2>1, <2>2, Lasting, TypeOfTasks, Nobody DEF DocumentsInv, Remembers
<1>1. ASSUME of'[r] = of[r], file'[r] = file[r], file[r] \in disk => file'[r] \in disk' \/ Away2,
             Away => Away2 \/ "cut" \in past'[of'[r]]
      PROVE  There
  <2>1. Row(r) /\ file[r] \in Files
    BY <1>0, <1>1 DEF Row
  <2>2. file[r] \in disk \/ Away \/ "cut" \in past[of[r]]
    BY <1>0, <1>1, <2>1 DEF RowFileExists
  <2> QED BY <1>0, <1>1, <2>2
<1>2. ASSUME NEW t \in Tasks, \A s \in Tasks \ {t} : task'[s] = task[s], of'[r] = of[r],
             file'[r] = file[r], disk \subseteq disk',
             task[t].step \notin {"deleted", "saved"} \/ task[t].old # file[r]
      PROVE  There
  <2>1. Away => Away2
    BY <1>2
  <2> QED BY <1>1, <1>2, <2>1
<1>3. ASSUME task' = task, of'[r] = of[r], file'[r] = file[r], disk' = disk PROVE There
  BY <1>1, <1>3
<1>4. ASSUME NEW t \in Tasks, NEW d \in Drivers, UploadRead(t, d) PROVE There
  <2>1. task[t].step = "idle" /\ UNCHANGED <<rows, disk>>
    BY <1>4 DEF UploadRead
  <2> QED BY <1>0, <1>2, <1>4, <2>1, UploadBegins DEF rows
<1>5. ASSUME NEW t \in Tasks, UploadDelete(t) PROVE There
  <2>1. /\ task'[t].step = "deleted" /\ task'[t].old = task[t].old
        /\ \A s \in Tasks \ {t} : task'[s] = task[s]
        /\ of' = of /\ file' = file /\ disk' = disk \ {task[t].old}
    BY <1>0, <1>5 DEF UploadDelete, Memory, rows
  <2>2. Away => Away2
    BY <2>1
  <2>3. file[r] \in disk => file'[r] \in disk' \/ Away2
    BY <2>1
  <2> QED BY <1>1, <2>1, <2>2, <2>3
<1>6. ASSUME NEW t \in Tasks, UploadSave(t) PROVE There
  <2>1. /\ task'[t].step = "saved" /\ task'[t].old = task[t].old
        /\ \A s \in Tasks \ {t} : task'[s] = task[s]
        /\ of' = of /\ file' = file /\ disk \subseteq disk'
    BY <1>0, <1>6 DEF UploadSave, Memory, rows
  <2>2. Away => Away2
    BY <2>1
  <2> QED BY <1>1, <2>1, <2>2
<1>7. ASSUME NEW t \in Tasks, UploadUpdate(t) PROVE There
  <2>1. /\ task[t].step = "saved" /\ task[t].doc \in Docs /\ of' = of /\ disk' = disk
        /\ file' = [file EXCEPT ![task[t].doc] = task[t].new]
        /\ \A s \in Tasks \ {t} : task'[s] = task[s]
    BY <1>0, <1>7, Ended DEF UploadUpdate, Memory
  <2>2. CASE r = task[t].doc
    <3>1. task[t].new \in disk /\ file'[r] = task[t].new
      BY <1>0, <2>1, <2>2 DEF RemembersIn, DocumentsTypeOK
    <3> QED BY <2>1, <3>1
  <2>3. CASE r # task[t].doc
    <3>1. file'[r] = file[r]
      BY <1>0, <2>1, <2>3 DEF DocumentsTypeOK
    <3>2. task[t].old # file[r]
      BY <1>0, <2>1, <2>3, <3>1 DEF RemembersIn
    <3> QED BY <1>2, <2>1, <3>1, <3>2
  <2> QED BY <2>2, <2>3
<1>8. ASSUME NEW t \in Tasks, UploadCreate(t) PROVE There
  <2>1. /\ task[t].step = "saved" /\ task[t].doc = NoOne /\ task[t].driver \in Drivers /\ disk' = disk
        /\ NewRow(task[t].driver, task[t].new) /\ \A s \in Tasks \ {t} : task'[s] = task[s]
    BY <1>0, <1>8, Ended DEF UploadCreate, RemembersIn
  <2>2. PICK q \in Docs : /\ file'[q] = task[t].new
                          /\ \A p \in Docs \ {q} : of'[p] = of[p] /\ file'[p] = file[p]
    BY <2>1, NewRowWaits
  <2>3. CASE r = q
    <3>1. task[t].new \in disk
      BY <1>0, <2>1, <2>2, <2>3 DEF RemembersIn
    <3> QED BY <2>1, <2>2, <2>3, <3>1
  <2>4. CASE r # q
    <3>1. task[t].old = NoOne
      BY <1>0, <2>1 DEF RemembersIn
    <3> QED BY <1>0, <1>2, <2>1, <2>2, <2>4, <3>1
  <2> QED BY <2>3, <2>4
<1>9. ASSUME NEW t \in Tasks, Fail(t) PROVE There
  <2>1. UNCHANGED <<rows, disk>> /\ \A s \in Tasks \ {t} : task'[s] = task[s]
    BY <1>0, <1>9, Ended DEF Fail
  <2>2. CASE task[t].step \in {"deleted", "saved"} /\ task[t].old = file[r]
    <3>1. task[t].driver = of[r]
      <4>1. task[t].old # NoOne /\ r = task[t].doc /\ of[task[t].doc] = task[t].driver
        BY <1>0, <2>1, <2>2 DEF RemembersIn, rows
      <4> QED BY <4>1
    <3>2. "cut" \in past'[of[r]]
      BY <1>0, <1>9, <2>1, <2>2, <3>1 DEF Fail, DocumentsTypeOK, rows
    <3> QED BY <2>1, <3>2 DEF rows
  <2>3. CASE task[t].step \notin {"deleted", "saved"} \/ task[t].old # file[r]
    BY <1>2, <2>1, <2>3 DEF rows
  <2> QED BY <2>2, <2>3
<1>10. ASSUME NEW t \in Tasks, \/ \E q \in Docs : ReviewRead(t, q)
                               \/ \E d \in Drivers : ApproveDriver(t, d)
       PROVE  There
  <2>1. task[t].step = "idle" /\ UNCHANGED <<rows, disk>> /\ \A s \in Tasks \ {t} : task'[s] = task[s]
    BY <1>0, <1>10 DEF ReviewRead, ApproveDriver
  <2> QED BY <1>2, <2>1 DEF rows
<1>11. ASSUME NEW t \in Tasks, ApproveDriverDocuments(t) \/ \E new \in Decisions : ReviewWrite(t, new)
       PROVE  There
  <2>1. task[t].step \notin {"deleted", "saved"} /\ UNCHANGED <<of, file, disk>>
        /\ \A s \in Tasks \ {t} : task'[s] = task[s]
    BY <1>0, <1>11, Ended DEF ApproveDriverDocuments, ReviewWrite
  <2> QED BY <1>2, <2>1
<1>12. ASSUME NEW d \in Drivers, NEW f, CreateDriverDocument(d, f) PROVE There
  <2>1. PICK q \in Docs : /\ file'[q] = f
                          /\ \A p \in Docs \ {q} : of'[p] = of[p] /\ file'[p] = file[p]
    BY <1>12, NewRowWaits DEF CreateDriverDocument
  <2>2. r # q
    BY <1>0, <1>12, <2>1 DEF CreateDriverDocument
  <2> QED BY <1>3, <1>12, <2>1, <2>2 DEF CreateDriverDocument
<1>13. ASSUME NEW q \in Docs, NEW f, UpdateDriverDocumentUrl(q, f) PROVE There
  <2>1. r # q
    BY <1>0, <1>13 DEF UpdateDriverDocumentUrl, DocumentsTypeOK
  <2> QED BY <1>0, <1>3, <1>13, <2>1 DEF UpdateDriverDocumentUrl, DocumentsTypeOK
<1>14. ASSUME NEW d \in Drivers, DeleteDriver(d) PROVE There
  <2>1. of[r] # d
    BY <1>0, <1>14 DEF DeleteDriver
  <2> QED BY <1>3, <1>14, <2>1 DEF DeleteDriver
<1>15. ASSUME \/ \E q \in Docs, new \in Decisions : UpdateDriverDocumentStatus(q, new)
              \/ \E d \in Drivers, new \in {"APPROVED", "PENDING"} : UpdateUserStatus(d, new)
              \/ AutoApproveAll \/ UNCHANGED documentsVars
       PROVE  There
  <2>1. UNCHANGED <<task, of, file, disk>>
    BY <1>15 DEF UpdateDriverDocumentStatus, UpdateUserStatus, AutoApproveAll, documentsVars, rows
  <2> QED BY <1>3, <2>1
<1>16. ASSUME NEW f \in Files, DeletedElsewhere(f) PROVE There
  <2>1. UNCHANGED <<task, of, file>> /\ disk' = disk \ {f} /\ file'[r] # f
    BY <1>0, <1>16 DEF DeletedElsewhere, rows
  <2> QED BY <1>1, <2>1
<1> HIDE DEF There
<1>17. There
  BY <1>4, <1>5, <1>6, <1>7, <1>8, <1>9, <1>10, <1>11, <1>12, <1>13, <1>14, <1>15, <1>16 DEF DocumentsNext
<1> QED BY <1>17 DEF There

\* A step keeps that a row of its maker names a file on disk, or is about to, or an excuse.
LEMMA NextFilesNamed ==
    ASSUME DocumentsInv, UploadsAlone, FilesNamed, [DocumentsNext]_documentsVars
    PROVE  FilesNamed'
<1> SUFFICES ASSUME NEW f \in disk'
             PROVE  \/ \E r \in Docs : Row(r)' /\ of'[r] = maker'[f] /\ file'[r] = f
                    \/ \E t \in Tasks : task'[t].step = "saved" /\ task'[t].new = f
                    \/ past'[maker'[f]] \cap {"overlap", "cut", "edit"} # {}
                    \/ driver'[maker'[f]] = "GONE"
  BY DEF FilesNamed
<1> DEFINE Named == \E r \in Docs : Row(r)' /\ of'[r] = maker'[f] /\ file'[r] = f
           Held == \E t \in Tasks : task'[t].step = "saved" /\ task'[t].new = f
           Excused == past'[maker'[f]] \cap {"overlap", "cut", "edit"} # {}
<1>0. /\ DocumentsTypeOK /\ task \in [Tasks -> Memory] /\ disk \subseteq Files
      /\ NoOne \notin Files /\ NoOne \notin Drivers /\ NoOne \notin Docs
      /\ RowsKnow /\ \A t \in Tasks : RemembersIn(t)
  BY TypeOfTasks, Nobody DEF DocumentsInv, Remembers
<1>1. CASE \E t \in Tasks : task'[t].step = "saved" /\ task'[t].new = f
  BY <1>1
<1>2. ASSUME f \in disk, maker'[f] = maker[f], ~Excused, driver'[maker[f]] # "GONE"
      PROVE  Named \/ Held
  <2> DEFINE d == maker[f]
  <2>1. /\ d \in Drivers /\ driver[d] # "GONE" /\ driver'[d] # "GONE" /\ f \in Files
        /\ past'[d] \cap {"overlap", "cut", "edit"} = {} /\ past[d] \cap {"overlap", "cut", "edit"} = {}
    BY <1>0, <1>2, Lasting DEF RowsKnow
  <2> HIDE DEF d
  <2>2. ASSUME NEW r \in Docs, of[r] = d, file'[r] = f PROVE Named
    <3>1. of'[r] = d /\ Row(r)'
      BY <1>0, <2>1, <2>2, Lasting DEF Row
    <3> QED BY <1>2, <2>2, <3>1 DEF d
  <2>3. ASSUME NEW r \in Docs, of[r] = d, file[r] = f PROVE Named
    <3>1. ASSUME NEW t \in Tasks, UploadUpdate(t), task[t].doc = r PROVE file'[r] = f
      <4>1. task[t].step = "saved" /\ task[t].driver = d /\ t \in Uploads(d)
        BY <1>0, <2>3, <3>1 DEF UploadUpdate, RemembersIn, Uploads
      <4>2. file[r] = task[t].old
        BY <1>0, <2>1, <3>1, <4>1 DEF UploadsAlone
      <4>3. maker[f] # d \/ f = task[t].new
        BY <1>2, <2>1, <2>3, <4>1, <4>2 DEF UploadsAlone
      <4>4. f = task[t].new
        BY <4>3 DEF d
      <4> QED BY <1>0, <3>1, <4>4 DEF UploadUpdate, DocumentsTypeOK
    <3>2. file'[r] = f
      BY <1>0, <2>1, <2>3, <3>1, NextFile
    <3> QED BY <2>2, <2>3, <3>2
  <2>4. ASSUME NEW t \in Tasks, task[t].step = "saved", task[t].new = f PROVE Named \/ Held
    <3>1. task[t].driver = d /\ (task[t].doc # NoOne => of[task[t].doc] = d)
      BY <1>0, <2>4 DEF RemembersIn, d
    <3>2. CASE UploadUpdate(t)
      <4>1. task[t].doc \in Docs /\ file'[task[t].doc] = f
        BY <1>0, <2>4, <3>2 DEF UploadUpdate, Memory, DocumentsTypeOK
      <4> QED BY <1>0, <2>2, <3>1, <4>1
    <3>3. CASE UploadCreate(t)
      <4>1. PICK r \in Docs : of'[r] = d /\ file'[r] = f
        BY <2>1, <2>4, <3>1, <3>3, NewRowWaits DEF UploadCreate
      <4> QED BY <1>0, <1>2, <2>1, <4>1 DEF Row, d
    <3>4. CASE Fail(t)
      BY <1>0, <2>1, <2>4, <3>1, <3>4 DEF Fail, DocumentsTypeOK
    <3>5. CASE task'[t] = task[t]
      BY <2>4, <3>5
    <3>6. Uploading(t) /\ ~UploadDelete(t) /\ ~UploadSave(t)
      BY <2>4 DEF Uploading, UploadDelete, UploadSave
    <3> QED BY <3>2, <3>3, <3>4, <3>5, <3>6, UploadMoves
  <2>5. \/ \E r \in Docs : Row(r) /\ of[r] = d /\ file[r] = f
        \/ \E t \in Tasks : task[t].step = "saved" /\ task[t].new = f
    BY <1>2, <2>1 DEF FilesNamed, d
  <2> QED BY <2>3, <2>4, <2>5
<1> QED BY <1>1, <1>2, NextMaker

\* Rows and files, which no transaction holds together, name each other after whatever
\* order of uploads, reviews, edits and failures, of whatever drivers, but for the excuses:
\* his own URLs and cut or overlapping uploads, and files whose URL somebody wrote by hand.
THEOREM DocumentsFilesConsistent == DocumentsSpec => []FilesConsistent
<1>1. DocumentsInit => FilesConsistent
  BY DEF DocumentsInit, FilesConsistent, RowFileExists, FilesNamed, Row
<1>2. DocumentsInv /\ UploadsAlone /\ FilesConsistent /\ [DocumentsNext]_documentsVars => FilesConsistent'
  BY NextRowFileExists, NextFilesNamed DEF FilesConsistent
<1> QED
  BY <1>1, <1>2, DocumentsInvariant, PTL DEF DocumentsSpec

==============================================================================
