------------------------------ MODULE MCDocuments ------------------------------
(***************************************************************************)
(* Documents for TLC.  Requests, files and drivers are interchangeable.    *)
(*                                                                         *)
(* A behaviour here is about one of three things, so that TLC does not look*)
(* at every state of one with every state of another: the rows and files of*)
(* two drivers that write URLs by hand; those of one driver, whose uploads *)
(* are cut off, and whose files are deleted elsewhere too; and the reviews *)
(* and approvals of one driver.  What is proved holds of all together.     *)
(***************************************************************************)
EXTENDS Documents, TLC

VARIABLE about      \* bound: what the behaviour is about

Symmetry == Permutations(Tasks) \cup Permutations(Files) \cup Permutations(Drivers)

NoApproval ==
    /\ \A t \in Tasks : task'[t].step \notin {"review", "approve"}
    /\ \A r \in Docs : status'[r] # "APPROVED"
    /\ \A d \in Drivers : driver'[d] # "APPROVED"

OneOfThem ==
    /\ about = "neighbours" =>
          /\ NoApproval
          /\ \A d \in Drivers : driver'[d] # "GONE" /\ past'[d] \subseteq {"overlap", "edit", "second"}
          /\ UNCHANGED status
    /\ about = "urls" => NoApproval /\ \E d \in Drivers : driver'[d] = "GONE"
    /\ about = "reviews" =>
          /\ named' = {} /\ \A d \in Drivers : "cut" \notin past'[d]
          /\ \E d \in Drivers : driver'[d] = "GONE"

MCDocumentsInit == DocumentsInit /\ about \in {"neighbours", "urls", "reviews"}
MCDocumentsNext == DocumentsNext /\ OneOfThem /\ UNCHANGED about
MCDocumentsSpec == MCDocumentsInit /\ [][MCDocumentsNext]_<<documentsVars, about>>

================================================================================
