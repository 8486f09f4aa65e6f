------------------------- MODULE NotificationsProofs -------------------------
(***************************************************************************)
(* Theorems about Notifications, for every number of users, rows, requests *)
(* and channels, with requests that are cut off: types, how often a row is *)
(* tried, what READ keeps, and what a row says of its deliveries.          *)
(***************************************************************************)
EXTENDS Notifications, FiniteSetTheorems, TLAPS

\* The type of what a request in progress remembers.
TaskType == [step : TaskSteps, user : Users \cup {NoOne}, more : 0..MaxChannels,
             later : BOOLEAN, left : SUBSET Notes, note : Notes \cup {NoOne}, ok : BOOLEAN]

\* What the request in progress t remembers at each step: a request that makes rows
\* retries none, and one that retries holds rows that were tried before.
RemembersIn(t) ==
    /\ task[t].step = "idle" => task[t] = NoTask
    /\ task[t].step = "next" => task[t].note = NoOne /\ ~task[t].ok
    /\ task[t].step \in {"channel", "settle", "recover"} => task[t].note \in Notes
    /\ task[t].step = "channel" => ~task[t].ok
    /\ task[t].more > 0 => task[t].left = {}
    /\ task[t].note \notin task[t].left
    /\ \A n \in task[t].left : status[n] \notin {"NONE", "PENDING"}
    /\ task[t].note # NoOne => status[task[t].note] # "NONE"
    /\ task[t].ok /\ HasRow(task[t].note) => delivered[task[t].note] > 0

Remembers == \A t \in Tasks : RemembersIn(t)

\* What no row there says.
Fresh ==
    \A n \in Notes :
        /\ status[n] = "NONE" => delivered[n] = 0 /\ attempts[n] = 0
        /\ HasRow(n) => owner[n] \in Users

NotificationsInv == NotificationsTypeOK /\ Remembers /\ Fresh

LEMMA InitInv == NotificationsInit => NotificationsInv
BY NotificationsAssumption
DEF NotificationsAssumption, NotificationsInit, NotificationsInv, NotificationsTypeOK, Remembers, RemembersIn,
    Fresh, NoTask, TaskSteps, NoteStatus, HasRow

LEMMA NoTaskType == NoTask \in TaskType
BY NotificationsAssumption DEF NotificationsAssumption, NoTask, TaskType, TaskSteps

\* How a step moves the request in progress t.
LEMMA StepTask ==
    ASSUME NotificationsInv, [NotificationsNext]_notificationsVars
    PROVE  task' \in [Tasks -> TaskType]
<1> USE NoTaskType, NotificationsAssumption
    DEF NotificationsAssumption, NotificationsInv, NotificationsTypeOK, EndTask, Doing, IsFree
<1>0. task \in [Tasks -> TaskType]
  BY DEF TaskType
<1>1. ASSUME NEW t \in Tasks, NEW u \in Users, SendNotification(t, u) PROVE task' \in [Tasks -> TaskType]
  <2>1. PICK k \in ChannelCount, later \in BOOLEAN :
           task' = [task EXCEPT ![t] = [NoTask EXCEPT !.step = "next", !.user = u, !.more = k, !.later = later]]
    BY <1>1 DEF SendNotification
  <2>2. k \in 0..MaxChannels
    BY DEF ChannelCount
  <2>3. [NoTask EXCEPT !.step = "next", !.user = u, !.more = k, !.later = later] \in TaskType
    BY <2>2 DEF NoTask, TaskType, TaskSteps
  <2>4. QED
    BY <1>0, <2>1, <2>3
<1>2. ASSUME NEW t \in Tasks, NEW n \in Notes, CreateRow(t, n) PROVE task' \in [Tasks -> TaskType]
  <2>0. task[t].more \in 1..MaxChannels
    BY <1>0, <1>2 DEF CreateRow, TaskType
  <2>1. task[t].more - 1 \in 0..MaxChannels
    BY <2>0
  <2>2. \/ task' = [task EXCEPT ![t] = [task[t] EXCEPT !.step = "channel", !.more = @ - 1, !.note = n]]
        \/ task' = [task EXCEPT ![t] = [task[t] EXCEPT !.more = @ - 1]]
        \/ task' = [task EXCEPT ![t] = NoTask]
    BY <1>0, <1>2 DEF CreateRow, TaskType
  <2>3. [task[t] EXCEPT !.step = "channel", !.more = @ - 1, !.note = n] \in TaskType
    BY <1>0, <2>1 DEF TaskType, TaskSteps
  <2>4. [task[t] EXCEPT !.more = @ - 1] \in TaskType
    BY <1>0, <2>1 DEF TaskType, TaskSteps
  <2>5. QED
    BY <1>0, <2>2, <2>3, <2>4
<1>3. ASSUME NEW t \in Tasks, RetryRead(t) PROVE task' \in [Tasks -> TaskType]
  <2>1. PICK left \in SUBSET Notes :
           task' = [task EXCEPT ![t] = [NoTask EXCEPT !.step = "next", !.left = left]]
    BY <1>3 DEF RetryRead
  <2>2. [NoTask EXCEPT !.step = "next", !.left = left] \in TaskType
    BY DEF NoTask, TaskType, TaskSteps
  <2>3. QED
    BY <1>0, <2>1, <2>2
<1>4. ASSUME NEW t \in Tasks, NEW n \in Notes, RetryNext(t, n) PROVE task' \in [Tasks -> TaskType]
  <2>1. task' = [task EXCEPT ![t] = [task[t] EXCEPT !.step = "channel", !.note = n, !.left = @ \ {n}]]
    BY <1>0, <1>4 DEF RetryNext, TaskType
  <2>2. [task[t] EXCEPT !.step = "channel", !.note = n, !.left = @ \ {n}] \in TaskType
    BY <1>0 DEF TaskType, TaskSteps
  <2>3. QED
    BY <1>0, <2>1, <2>2
<1>5. ASSUME NEW t \in Tasks, NEW ok \in BOOLEAN, Channel(t, ok) PROVE task' \in [Tasks -> TaskType]
  <2>1. task' = [task EXCEPT ![t] = [task[t] EXCEPT !.step = "settle", !.ok = ok]]
    BY <1>0, <1>5 DEF Channel, TaskType
  <2>2. [task[t] EXCEPT !.step = "settle", !.ok = ok] \in TaskType
    BY <1>0 DEF TaskType, TaskSteps
  <2>3. QED
    BY <1>0, <2>1, <2>2
<1>6. ASSUME NEW t \in Tasks, Settle(t) \/ Recover(t) PROVE task' \in [Tasks -> TaskType]
  <2>1. GoOn(t)
    BY <1>6 DEF Settle, Recover, Record
  <2>2. CASE task' = [task EXCEPT ![t] = NoTask]
    BY <1>0, <2>2
  <2>3. CASE task' = [task EXCEPT ![t] = [task[t] EXCEPT !.step = "next", !.note = NoOne, !.ok = FALSE]]
    <3>1. [task[t] EXCEPT !.step = "next", !.note = NoOne, !.ok = FALSE] \in TaskType
      BY <1>0 DEF TaskType, TaskSteps
    <3>2. QED
      BY <1>0, <2>3, <3>1
  <2>4. QED
    BY <1>0, <2>1, <2>2, <2>3 DEF GoOn, TaskType
<1>7. ASSUME NEW t \in Tasks, SettleFails(t) PROVE task' \in [Tasks -> TaskType]
  BY <1>0, <1>7 DEF SettleFails, TaskType, TaskSteps
<1>8. ASSUME NEW t \in Tasks, CreateRefused(t) \/ RowGone(t) \/ CutOff(t) PROVE task' \in [Tasks -> TaskType]
  BY <1>0, <1>8 DEF CreateRefused, RowGone, CutOff
<1>9. CASE UNCHANGED task
  BY <1>0, <1>9
<1>10. ASSUME NEW t \in Tasks, Continue(t) PROVE task' \in [Tasks -> TaskType]
  BY <1>2, <1>4, <1>5, <1>6, <1>8, <1>10 DEF Continue
<1>11. ASSUME (\E n \in Notes : MarkAsRead(n)) \/ \E u \in Users : DeleteUser(u) PROVE UNCHANGED task
  BY <1>11 DEF MarkAsRead, DeleteUser
<1>12. QED
  BY <1>1, <1>3, <1>7, <1>8, <1>9, <1>10, <1>11 DEF NotificationsNext, notificationsVars

\* A step keeps the type of every table.
LEMMA NextType ==
    ASSUME NotificationsInv, [NotificationsNext]_notificationsVars
    PROVE  NotificationsTypeOK'
<1> USE NotificationsAssumption
    DEF NotificationsAssumption, NotificationsInv, NotificationsTypeOK, noteVars, NoteStatus, Doing, IsFree
<1>0. task' \in [Tasks -> TaskType] /\ task \in [Tasks -> TaskType]
  BY StepTask DEF TaskType
<1> USE DEF TaskType
<1>1. ASSUME NEW t \in Tasks, NEW n \in Notes, CreateRow(t, n) PROVE NotificationsTypeOK'
  BY <1>0, <1>1 DEF CreateRow
<1>2. ASSUME NEW t \in Tasks, NEW ok \in BOOLEAN, Channel(t, ok) PROVE NotificationsTypeOK'
  <2>0. PICK n \in Notes : task[t].note = n
    BY <1>2 DEF Channel, Remembers, RemembersIn
  <2>1. delivered' \in [Notes -> Nat]
    BY <1>2, <2>0 DEF Channel
  <2>2. QED
    BY <1>0, <1>2, <2>1 DEF Channel
<1>3. ASSUME NEW t \in Tasks, Settle(t) \/ Recover(t) PROVE NotificationsTypeOK'
  <2>1. PICK ok \in BOOLEAN : Record(t, ok)
    BY <1>0, <1>3 DEF Settle, Recover
  <2>0. PICK n \in Notes : task[t].note = n
    BY <1>3 DEF Settle, Recover, Remembers, RemembersIn
  <2>2. attempts' \in [Notes -> Nat]
    BY <2>0, <2>1 DEF Record
  <2>3. status' \in [Notes -> NoteStatus \cup {"NONE", "DELETED"}]
    BY <2>1 DEF Record
  <2>4. QED
    BY <1>0, <2>1, <2>2, <2>3 DEF Record
<1>4. ASSUME NEW n \in Notes, MarkAsRead(n) PROVE NotificationsTypeOK'
  BY <1>4 DEF MarkAsRead
<1>5. ASSUME NEW u \in Users, DeleteUser(u) PROVE NotificationsTypeOK'
  <2>1. present' \subseteq Users /\ status' \in [Notes -> NoteStatus \cup {"NONE", "DELETED"}]
        /\ owner' \in [Notes -> Users \cup {NoOne}] /\ scheduled' \in [Notes -> BOOLEAN]
    BY <1>5 DEF DeleteUser
  <2>2. attempts' \in [Notes -> Nat] /\ delivered' \in [Notes -> Nat] /\ lost' \in [Notes -> 0..MaxLost]
    BY <1>5 DEF DeleteUser
  <2>3. QED
    BY <1>0, <2>1, <2>2
<1>6. ASSUME NEW t \in Tasks, CutOff(t) PROVE NotificationsTypeOK'
  <2>1. lost' \in [Notes -> 0..MaxLost]
    BY <1>6 DEF CutOff
  <2>2. QED
    BY <1>0, <1>6, <2>1 DEF CutOff
<1>7. CASE UNCHANGED <<present, noteVars, delivered, lost>>
  BY <1>0, <1>7
<1>8. QED
  <2>1. ASSUME NEW t \in Tasks, Continue(t) PROVE NotificationsTypeOK'
    BY <1>1, <1>2, <1>3, <1>7, <2>1 DEF Continue, RetryNext, CreateRefused, RowGone
  <2>2. QED
    BY <1>4, <1>5, <1>6, <1>7, <2>1
    DEF NotificationsNext, notificationsVars, SendNotification, RetryRead, SettleFails

\* A row is never unmade, and after its request has gone on it is not PENDING again.
LEMMA RowsStay ==
    ASSUME NotificationsInv, [NotificationsNext]_notificationsVars, NEW n \in Notes
    PROVE  /\ status[n] # "NONE" => status'[n] # "NONE"
           /\ status[n] \notin {"NONE", "PENDING"} => status'[n] \notin {"NONE", "PENDING"}
           /\ HasRow(n)' => HasRow(n) \/ status[n] = "NONE"
<1> USE DEF NotificationsInv, NotificationsTypeOK, noteVars, NoteStatus, HasRow
<1>1. ASSUME NEW t \in Tasks, NEW ok, Record(t, ok)
      PROVE  /\ status'[n] # "NONE"  \/ status[n] = "NONE"
             /\ status[n] \notin {"NONE", "PENDING"} => status'[n] \notin {"NONE", "PENDING"}
             /\ HasRow(n)' => HasRow(n) \/ status[n] = "NONE"
  BY <1>1 DEF Record
<1>2. ASSUME NEW u \in Users, DeleteUser(u)
      PROVE  /\ status'[n] # "NONE"  \/ status[n] = "NONE"
             /\ status[n] \notin {"NONE", "PENDING"} => status'[n] \notin {"NONE", "PENDING"}
             /\ HasRow(n)' => HasRow(n) \/ status[n] = "NONE"
  BY <1>2 DEF DeleteUser
<1>3. ASSUME NEW m \in Notes, MarkAsRead(m) \/ \E t \in Tasks : CreateRow(t, m)
      PROVE  /\ status'[n] # "NONE"  \/ status[n] = "NONE"
             /\ status[n] \notin {"NONE", "PENDING"} => status'[n] \notin {"NONE", "PENDING"}
             /\ HasRow(n)' => HasRow(n) \/ status[n] = "NONE"
  BY <1>3 DEF MarkAsRead, CreateRow
<1>4. CASE UNCHANGED status
  BY <1>4
<1>5. QED
  BY <1>1, <1>2, <1>3, <1>4
  DEF NotificationsNext, Continue, notificationsVars, SendNotification, RetryRead, RetryNext, CreateRefused,
      RowGone, SettleFails, Channel, CutOff, Settle, Recover

\* What reached the user of a row that stays is not forgotten.
LEMMA DeliveredStays ==
    ASSUME NotificationsInv, [NotificationsNext]_notificationsVars, NEW n \in Notes, HasRow(n)'
    PROVE  delivered'[n] >= delivered[n]
<1> USE DEF NotificationsInv, NotificationsTypeOK, noteVars, NoteStatus, HasRow
<1>1. ASSUME NEW t \in Tasks, NEW ok \in BOOLEAN, Channel(t, ok) PROVE delivered'[n] >= delivered[n]
  <2>1. delivered' = delivered \/ \E m \in Notes : delivered' = [delivered EXCEPT ![m] = @ + 1]
    BY <1>1 DEF Channel, Doing, Remembers, RemembersIn
  <2>2. QED
    BY <2>1
<1>2. ASSUME NEW u \in Users, DeleteUser(u) PROVE delivered'[n] >= delivered[n]
  BY <1>2 DEF DeleteUser
<1>3. CASE UNCHANGED delivered
  BY <1>3
<1>4. QED
  BY ZenonT(60), <1>1, <1>2, <1>3
  DEF NotificationsNext, Continue, notificationsVars, SendNotification, RetryRead, RetryNext, CreateRefused,
      CreateRow, RowGone, SettleFails, CutOff, Settle, Recover, Record, MarkAsRead

\* A step keeps what rows there say.
LEMMA NextFresh ==
    ASSUME NotificationsInv, [NotificationsNext]_notificationsVars
    PROVE  Fresh'
<1> USE DEF NotificationsInv, NotificationsTypeOK, noteVars, NoteStatus, HasRow, Fresh
<1>1. ASSUME NEW t \in Tasks, NEW n \in Notes, CreateRow(t, n) PROVE Fresh'
  BY <1>1 DEF CreateRow
<1>2. ASSUME NEW t \in Tasks, NEW ok \in BOOLEAN, Channel(t, ok) PROVE Fresh'
  <2>1. PICK n \in Notes : task[t].note = n /\ status[n] # "NONE"
    BY <1>2, NotificationsAssumption DEF Channel, Doing, Remembers, RemembersIn, NotificationsAssumption
  <2>2. QED
    BY <1>2, <2>1 DEF Channel
<1>3. ASSUME NEW t \in Tasks, NEW ok \in BOOLEAN, Record(t, ok) PROVE Fresh'
  BY <1>3 DEF Record
<1>4. ASSUME NEW n \in Notes, MarkAsRead(n) PROVE Fresh'
  BY <1>4 DEF MarkAsRead
<1>5. ASSUME NEW u \in Users, DeleteUser(u) PROVE Fresh'
  BY <1>5 DEF DeleteUser
<1>6. CASE UNCHANGED <<status, owner, attempts, delivered>>
  BY <1>6
<1>7. ASSUME NEW t \in Tasks, Settle(t) \/ Recover(t) PROVE Fresh'
  BY <1>3, <1>7 DEF Settle, Recover
<1>8. ASSUME NEW t \in Tasks, Continue(t) PROVE Fresh'
  BY <1>1, <1>2, <1>6, <1>7, <1>8 DEF Continue, RetryNext, CreateRefused, RowGone
<1>9. QED
  BY <1>4, <1>5, <1>6, <1>8
  DEF NotificationsNext, notificationsVars, SendNotification, RetryRead, SettleFails, CutOff

\* A step keeps what the requests in progress remember true.
LEMMA NextRemembers ==
    ASSUME NotificationsInv, [NotificationsNext]_notificationsVars
    PROVE  Remembers'
<1> USE DEF NotificationsInv, EndTask, Doing, IsFree
<1>0. task \in [Tasks -> TaskType] /\ NoOne \notin Notes
  BY NotificationsAssumption DEF NotificationsTypeOK, TaskType, NotificationsAssumption
<1>1. ASSUME NEW u \in Tasks, task'[u] = task[u] PROVE RemembersIn(u)'
  <2>1. \A n \in task[u].left : status'[n] \notin {"NONE", "PENDING"}
    BY <1>0, RowsStay DEF Remembers, RemembersIn, TaskType
  <2>2. ASSUME task[u].note # NoOne
        PROVE  /\ status'[task[u].note] # "NONE"
               /\ task[u].ok /\ HasRow(task[u].note)' => delivered'[task[u].note] > 0
    <3>1. PICK n \in Notes : task[u].note = n
      BY <1>0, <2>2 DEF TaskType
    <3>2. status'[n] # "NONE" /\ (HasRow(n)' => HasRow(n))
      BY <2>2, <3>1, RowsStay DEF Remembers, RemembersIn
    <3>3. HasRow(n)' => delivered'[n] >= delivered[n]
      BY DeliveredStays
    <3>4. delivered[n] \in Nat /\ delivered'[n] \in Nat
      BY NextType DEF NotificationsTypeOK
    <3>5. task[u].ok /\ HasRow(n) => delivered[n] > 0
      BY <3>1 DEF Remembers, RemembersIn
    <3>6. QED
      BY <1>1, <3>1, <3>2, <3>3, <3>4, <3>5 DEF HasRow
  <2>3. task[u].note = NoOne => ~task[u].ok
    BY <1>0 DEF Remembers, RemembersIn, TaskType, TaskSteps, NoTask
  <2>4. QED
    BY <1>1, <2>1, <2>2, <2>3 DEF Remembers, RemembersIn, HasRow
<1>2. ASSUME NEW u \in Tasks, task'[u] = NoTask PROVE RemembersIn(u)'
  BY <1>2 DEF RemembersIn, NoTask
<1>3. ASSUME NEW t \in Tasks, RemembersIn(t)', \A u \in Tasks \ {t} : task'[u] = task[u] PROVE Remembers'
  BY <1>1, <1>3 DEF Remembers
<1>4. ASSUME NEW t \in Tasks, NEW u \in Users, SendNotification(t, u) PROVE Remembers'
  <2>1. RemembersIn(t)'
    BY <1>0, <1>4 DEF SendNotification, RemembersIn, NoTask
  <2>2. QED
    BY <1>0, <1>3, <1>4, <2>1 DEF SendNotification
<1>5. ASSUME NEW t \in Tasks, NEW n \in Notes, CreateRow(t, n) PROVE Remembers'
  <2>1. task[t].left = {} /\ task[t].note = NoOne /\ ~task[t].ok /\ status'[n] = "PENDING"
    BY <1>5 DEF CreateRow, Remembers, RemembersIn, NotificationsTypeOK
  <2>2. CASE task' = [task EXCEPT ![t].step = "channel", ![t].more = @ - 1, ![t].note = n]
    <3>1. /\ task'[t].step = "channel" /\ task'[t].note = n /\ task'[t].left = {} /\ ~task'[t].ok
      BY <1>0, <2>1, <2>2 DEF TaskType
    <3>2. RemembersIn(t)'
      BY <1>0, <2>1, <3>1 DEF RemembersIn
    <3>3. QED
      BY <1>0, <1>3, <2>2, <3>2
  <2>3. CASE task' = [task EXCEPT ![t].more = @ - 1]
    <3>1. /\ task'[t].step = "next" /\ task'[t].note = NoOne /\ task'[t].left = {} /\ ~task'[t].ok
      BY <1>0, <1>5, <2>1, <2>3 DEF TaskType, CreateRow
    <3>2. RemembersIn(t)'
      BY <1>0, <2>1, <3>1 DEF RemembersIn
    <3>3. QED
      BY <1>0, <1>3, <2>3, <3>2
  <2>4. CASE task' = [task EXCEPT ![t] = NoTask]
    BY <1>0, <1>2, <1>3, <2>4
  <2>5. QED
    BY <1>5, <2>2, <2>3, <2>4 DEF CreateRow
<1>6. ASSUME NEW t \in Tasks, RetryRead(t) PROVE Remembers'
  <2>1. PICK left \in SUBSET {n \in Notes : status[n] = "FAILED" /\ attempts[n] < MaxAttempts} :
           task' = [task EXCEPT ![t] = [NoTask EXCEPT !.step = "next", !.left = left]]
    BY <1>6 DEF RetryRead
  <2>2. /\ task'[t].step = "next" /\ task'[t].note = NoOne /\ task'[t].left = left /\ ~task'[t].ok
        /\ task'[t].more = 0 /\ status' = status
    BY <1>0, <1>6, <2>1 DEF NoTask, RetryRead, noteVars
  <2>3. RemembersIn(t)'
    BY <1>0, <2>2 DEF RemembersIn
  <2>4. QED
    BY <1>0, <1>3, <2>1, <2>3
<1>7. ASSUME NEW t \in Tasks, NEW n \in Notes, RetryNext(t, n) PROVE Remembers'
  <2>1. /\ task'[t].step = "channel" /\ task'[t].note = n /\ task'[t].left = task[t].left \ {n}
        /\ task'[t].ok = task[t].ok /\ task'[t].more = task[t].more
        /\ \A u \in Tasks \ {t} : task'[u] = task[u]
        /\ status' = status
    BY <1>0, <1>7 DEF RetryNext, TaskType, noteVars
  <2>2. task[t].step = "next" /\ n \in task[t].left
    BY <1>7 DEF RetryNext
  <2>3. RemembersIn(t)'
    BY <1>0, <2>1, <2>2 DEF Remembers, RemembersIn
  <2>4. QED
    BY <1>3, <2>1, <2>3
<1>8. ASSUME NEW t \in Tasks, NEW ok \in BOOLEAN, Channel(t, ok) PROVE Remembers'
  <2>1. PICK n \in Notes : task[t].note = n
    BY <1>8 DEF Channel, Remembers, RemembersIn
  <2>2. /\ task'[t] = [task[t] EXCEPT !.step = "settle", !.ok = ok] /\ task[t].step = "channel"
        /\ \A u \in Tasks \ {t} : task'[u] = task[u]
        /\ status' = status
    BY <1>0, <1>8 DEF Channel, TaskType, noteVars
  <2>3. ok => delivered'[n] > 0
    BY <1>8, <2>1 DEF Channel, NotificationsTypeOK
  <2>4. /\ task'[t].step = "settle" /\ task'[t].ok = ok /\ task'[t].note = n
        /\ task'[t].left = task[t].left /\ task'[t].more = task[t].more
    BY <1>0, <2>1, <2>2 DEF TaskType
  <2>5. RemembersIn(t)'
    BY <1>0, <2>1, <2>2, <2>3, <2>4 DEF Remembers, RemembersIn
  <2>6. QED
    BY <1>3, <2>2, <2>5
<1>9. ASSUME NEW t \in Tasks, SettleFails(t) PROVE Remembers'
  <2>1. /\ task'[t] = [task[t] EXCEPT !.step = "recover"] /\ task[t].step = "settle"
        /\ \A u \in Tasks \ {t} : task'[u] = task[u]
        /\ UNCHANGED <<status, delivered>>
    BY <1>0, <1>9 DEF SettleFails, TaskType, noteVars
  <2>2. /\ task'[t].step = "recover" /\ task'[t].ok = task[t].ok /\ task'[t].note = task[t].note
        /\ task'[t].left = task[t].left /\ task'[t].more = task[t].more
    BY <1>0, <2>1 DEF TaskType
  <2>3. RemembersIn(t)'
    BY <1>0, <2>1, <2>2 DEF Remembers, RemembersIn, HasRow
  <2>4. QED
    BY <1>3, <2>1, <2>3
<1>10. ASSUME NEW t \in Tasks, GoOn(t) PROVE Remembers'
  <2>1. CASE task' = [task EXCEPT ![t] = NoTask]
    BY <1>0, <1>2, <1>3, <2>1
  <2>2. CASE task' = [task EXCEPT ![t].step = "next", ![t].note = NoOne, ![t].ok = FALSE]
    <3>1. /\ task'[t].step = "next" /\ ~task'[t].ok /\ task'[t].note = NoOne
          /\ task'[t].left = task[t].left /\ task'[t].more = task[t].more
      BY <1>0, <2>2 DEF TaskType
    <3>2. \A n \in task[t].left : status'[n] \notin {"NONE", "PENDING"}
      BY <1>0, RowsStay DEF Remembers, RemembersIn, TaskType
    <3>3. RemembersIn(t)'
      BY <1>0, <3>1, <3>2 DEF Remembers, RemembersIn, TaskType
    <3>4. QED
      BY <1>0, <1>3, <2>2, <3>3
  <2>3. QED
    BY <1>10, <2>1, <2>2 DEF GoOn
<1>11. ASSUME NEW t \in Tasks, EndTask(t) PROVE Remembers'
  BY <1>0, <1>2, <1>3, <1>11
<1>12. CASE UNCHANGED task
  BY <1>1, <1>12 DEF Remembers
<1>13. ASSUME NEW t \in Tasks, Continue(t) PROVE Remembers'
  BY <1>5, <1>7, <1>8, <1>10, <1>11, <1>13 DEF Continue, CreateRefused, RowGone, Settle, Recover, Record
<1>14. QED
  BY <1>4, <1>6, <1>9, <1>11, <1>12, <1>13
  DEF NotificationsNext, notificationsVars, CutOff, MarkAsRead, DeleteUser

\* However requests and retries interleave, fail and are cut off, every table keeps its
\* type, and a request in progress remembers rows that were made.
THEOREM NotificationsTypeCorrect == NotificationsSpec => [](NotificationsTypeOK /\ Remembers /\ Fresh)
<1>1. NotificationsInv /\ [NotificationsNext]_notificationsVars => NotificationsInv'
  BY NextType, NextRemembers, NextFresh DEF NotificationsInv
<1>2. QED
  BY InitInv, <1>1, PTL DEF NotificationsSpec, NotificationsInv

----------------------------------------------------------------------------
\* A request that alone moved changes who sends a row by itself alone.
LEMMA SendersMove ==
    ASSUME NEW t \in Tasks, NEW n \in Notes, \A u \in Tasks \ {t} : task'[u] = task[u]
    PROVE  Senders(n)' = (Senders(n) \ {t}) \cup {u \in {t} : n \in Holds(t)'}
BY DEF Senders, Holds

\* What a request holds before and after each of its steps.
LEMMA StepHolds ==
    ASSUME NotificationsInv, [NotificationsNext]_notificationsVars, NEW t \in Tasks
    PROVE  /\ IsFree(t) => Holds(t) = {}
           /\ Doing(t, "next") /\ task[t].more > 0 => Holds(t) = {}
           /\ \A n \in Notes : CreateRow(t, n)
                 => /\ \A u \in Tasks \ {t} : task'[u] = task[u]
                    /\ Holds(t)' = IF task[t].later THEN {} ELSE {n}
           /\ \A n \in Notes : RetryNext(t, n)
                 => Holds(t)' = Holds(t) /\ \A u \in Tasks \ {t} : task'[u] = task[u]
           /\ SettleFails(t) \/ (\E ok \in BOOLEAN : Channel(t, ok))
                 => Holds(t)' = Holds(t) /\ \A u \in Tasks \ {t} : task'[u] = task[u]
           /\ GoOn(t) /\ task[t].step \in {"settle", "recover"}
                 => /\ \A u \in Tasks \ {t} : task'[u] = task[u]
                    /\ Holds(t)' = Holds(t) \ {task[t].note}
                    /\ task[t].note \in Holds(t)
           /\ EndTask(t) => Holds(t)' = {} /\ \A u \in Tasks \ {t} : task'[u] = task[u]
<1> USE DEF NotificationsInv, Doing, IsFree, EndTask
<1>0. task \in [Tasks -> TaskType] /\ NoOne \notin Notes
  BY NotificationsAssumption DEF NotificationsTypeOK, TaskType, NotificationsAssumption
<1>r. RemembersIn(t)
  BY DEF Remembers
<1>1. IsFree(t) => Holds(t) = {}
  BY <1>0 DEF Holds, NoTask
<1>2. Doing(t, "next") /\ task[t].more > 0 => Holds(t) = {}
  BY <1>0, <1>r DEF Holds, RemembersIn
<1>3. ASSUME NEW n \in Notes, CreateRow(t, n)
      PROVE  /\ \A u \in Tasks \ {t} : task'[u] = task[u]
             /\ Holds(t)' = IF task[t].later THEN {} ELSE {n}
  <2>1. task[t].left = {} /\ task[t].note = NoOne
    BY <1>3, <1>r DEF CreateRow, RemembersIn
  <2>2. CASE ~task[t].later
    <3>1. task'[t].note = n /\ task'[t].left = {} /\ \A u \in Tasks \ {t} : task'[u] = task[u]
      BY <1>0, <1>3, <2>1, <2>2 DEF CreateRow, TaskType
    <3>2. QED
      BY <2>2, <3>1 DEF Holds
  <2>3. CASE task[t].later
    <3>1. task'[t].note = NoOne /\ task'[t].left = {} /\ \A u \in Tasks \ {t} : task'[u] = task[u]
      BY <1>0, <1>3, <2>1, <2>3 DEF CreateRow, TaskType, NoTask
    <3>2. QED
      BY <1>0, <2>3, <3>1 DEF Holds
  <2>4. QED
    BY <2>2, <2>3
<1>4. ASSUME NEW n \in Notes, RetryNext(t, n)
      PROVE  Holds(t)' = Holds(t) /\ \A u \in Tasks \ {t} : task'[u] = task[u]
  <2>1. task[t].note = NoOne /\ n \in task[t].left
    BY <1>4, <1>r DEF RetryNext, RemembersIn
  <2>2. task'[t].note = n /\ task'[t].left = task[t].left \ {n} /\ \A u \in Tasks \ {t} : task'[u] = task[u]
    BY <1>0, <1>4 DEF RetryNext, TaskType
  <2>3. QED
    BY <1>0, <2>1, <2>2 DEF Holds
<1>5. ASSUME SettleFails(t) \/ \E ok \in BOOLEAN : Channel(t, ok)
      PROVE  Holds(t)' = Holds(t) /\ \A u \in Tasks \ {t} : task'[u] = task[u]
  BY <1>0, <1>5 DEF SettleFails, Channel, Holds, TaskType
<1>6. ASSUME GoOn(t), task[t].step \in {"settle", "recover"}
      PROVE  /\ \A u \in Tasks \ {t} : task'[u] = task[u]
             /\ Holds(t)' = Holds(t) \ {task[t].note}
             /\ task[t].note \in Holds(t)
  <2>1. task[t].note \in Notes /\ task[t].note \notin task[t].left
    BY <1>6, <1>r DEF RemembersIn
  <2>2. task'[t].note = NoOne /\ task'[t].left = task[t].left /\ \A u \in Tasks \ {t} : task'[u] = task[u]
    <3>1. CASE task' = [task EXCEPT ![t].step = "next", ![t].note = NoOne, ![t].ok = FALSE]
      BY <1>0, <3>1 DEF TaskType
    <3>2. CASE task[t].left = {} /\ task' = [task EXCEPT ![t] = NoTask]
      BY <1>0, <3>2 DEF NoTask
    <3>3. QED
      BY <1>0, <1>6, <3>1, <3>2 DEF GoOn, TaskType
  <2>3. QED
    BY <1>0, <2>1, <2>2 DEF Holds
<1>7. ASSUME EndTask(t) PROVE Holds(t)' = {} /\ \A u \in Tasks \ {t} : task'[u] = task[u]
  BY <1>0, <1>7 DEF Holds, NoTask
<1>8. QED
  BY <1>1, <1>2, <1>3, <1>4, <1>5, <1>6, <1>7

\* A row is sent by some of the requests there are.
LEMMA SendersFinite ==
    ASSUME NEW n \in Notes
    PROVE  /\ IsFiniteSet(Senders(n)) /\ Cardinality(Senders(n)) \in Nat
           /\ IsFiniteSet(Senders(n)') /\ Cardinality(Senders(n)') \in Nat
           /\ Cardinality(Tasks) \in Nat
           /\ Cardinality(Senders(n)) <= Cardinality(Tasks)
           /\ Cardinality(Senders(n)') <= Cardinality(Tasks)
<1>1. Senders(n) \subseteq Tasks /\ Senders(n)' \subseteq Tasks /\ IsFiniteSet(Tasks)
  BY NotificationsAssumption DEF Senders, NotificationsAssumption
<1>2. QED
  BY <1>1, FS_Subset, FS_CardinalityType

\* Who sends a row after a step: nobody new, unless the row is made or read to be tried
\* again; and who wrote down an attempt has let go of the row.
LEMMA NextSenders ==
    ASSUME NotificationsInv, [NotificationsNext]_notificationsVars, NEW n \in Notes
    PROVE  \/ attempts'[n] = attempts[n] /\ Senders(n)' \subseteq Senders(n)
           \/ attempts'[n] = attempts[n] /\ attempts[n] < MaxAttempts /\ status[n] = "FAILED"
           \/ attempts'[n] = 0 /\ Senders(n)' = Senders(n) /\ status'[n] = "DELETED"
           \/ attempts'[n] = 0 /\ status[n] = "NONE"
           \/ /\ attempts'[n] = attempts[n] + 1
              /\ \E t \in Senders(n) : Senders(n)' = Senders(n) \ {t}
<1> DEFINE Kept == attempts'[n] = attempts[n] /\ Senders(n)' \subseteq Senders(n)
<1> USE DEF NotificationsInv, NotificationsTypeOK, noteVars
<1>0. task \in [Tasks -> TaskType]
  BY DEF TaskType
<1>1. ASSUME NEW t \in Tasks, Holds(t)' \subseteq Holds(t), \A u \in Tasks \ {t} : task'[u] = task[u],
             attempts' = attempts
      PROVE  Kept
  BY <1>1, SendersMove DEF Senders
<1>2. ASSUME NEW t \in Tasks, NEW u \in Users, SendNotification(t, u) PROVE Kept
  <2>1. task'[t].note = NoOne /\ task'[t].left = {} /\ \A v \in Tasks \ {t} : task'[v] = task[v]
    BY <1>0, <1>2 DEF SendNotification, NoTask
  <2>2. Holds(t)' = {}
    BY <2>1, NotificationsAssumption DEF Holds, NotificationsAssumption
  <2>3. QED
    BY <1>1, <1>2, <2>1, <2>2 DEF SendNotification
<1>3. ASSUME NEW t \in Tasks, NEW m \in Notes, CreateRow(t, m)
      PROVE  Kept \/ (attempts'[n] = 0 /\ status[n] = "NONE")
  <2>1. status[m] = "NONE" /\ attempts' = attempts
    BY <1>3 DEF CreateRow
  <2>2. CASE m = n
    BY <2>1, <2>2 DEF Fresh
  <2>3. CASE m # n
    BY <1>3, <2>1, <2>3, StepHolds, SendersMove
  <2>4. QED
    BY <2>2, <2>3
<1>4. ASSUME NEW t \in Tasks, RetryRead(t)
      PROVE  Kept \/ (attempts'[n] = attempts[n] /\ attempts[n] < MaxAttempts /\ status[n] = "FAILED")
  <2>1. PICK left \in SUBSET {m \in Notes : status[m] = "FAILED" /\ attempts[m] < MaxAttempts} :
           task' = [task EXCEPT ![t] = [NoTask EXCEPT !.step = "next", !.left = left]]
    BY <1>4 DEF RetryRead
  <2>2. /\ task'[t].note = NoOne /\ task'[t].left = left
        /\ \A v \in Tasks \ {t} : task'[v] = task[v]
        /\ attempts' = attempts
    BY <1>0, <1>4, <2>1 DEF RetryRead, NoTask
  <2>3. Holds(t)' = left
    BY <2>2, NotificationsAssumption DEF Holds, NotificationsAssumption
  <2>4. CASE n \notin left
    <3>1. Senders(n)' = Senders(n) \ {t}
      BY <2>2, <2>3, <2>4, SendersMove
    <3>2. attempts'[n] = attempts[n]
      BY <2>2
    <3>3. QED
      BY <3>1, <3>2
  <2>5. CASE n \in left
    <3>1. status[n] = "FAILED" /\ attempts[n] < MaxAttempts
      BY <2>5
    <3>2. QED
      BY <2>2, <3>1
  <2>6. QED
    BY <2>4, <2>5
<1>5. ASSUME NEW t \in Tasks, Settle(t) \/ Recover(t)
      PROVE  \/ Kept
             \/ /\ attempts'[n] = attempts[n] + 1
                /\ \E u \in Senders(n) : Senders(n)' = Senders(n) \ {u}
  <2>1. GoOn(t) /\ task[t].step \in {"settle", "recover"}
        /\ attempts' = [attempts EXCEPT ![task[t].note] = @ + 1]
    BY <1>5 DEF Settle, Recover, Record, Doing
  <2>2. /\ \A u \in Tasks \ {t} : task'[u] = task[u]
        /\ Holds(t)' = Holds(t) \ {task[t].note}
        /\ task[t].note \in Holds(t)
    BY <2>1, StepHolds
  <2>3. CASE task[t].note = n
    <3>1. t \in Senders(n) /\ Senders(n)' = Senders(n) \ {t}
      BY <2>2, <2>3, SendersMove DEF Senders
    <3>2. QED
      BY <2>1, <2>3, <3>1
  <2>4. CASE task[t].note # n
    BY <2>1, <2>2, <2>4, SendersMove DEF Senders
  <2>5. QED
    BY <2>3, <2>4
<1>6. ASSUME NEW t \in Tasks, \/ EndTask(t) \/ SettleFails(t) \/ \E ok \in BOOLEAN : Channel(t, ok)
                              \/ \E m \in Notes : RetryNext(t, m),
             attempts' = attempts
      PROVE  Kept
  BY <1>1, <1>6, StepHolds
<1>7. ASSUME NEW u \in Users, DeleteUser(u)
      PROVE  Kept \/ (attempts'[n] = 0 /\ Senders(n)' = Senders(n) /\ status'[n] = "DELETED")
  BY <1>7 DEF DeleteUser, Senders, Holds
<1>8. CASE UNCHANGED <<attempts, task>>
  BY <1>8 DEF Senders, Holds
<1>9. ASSUME NEW t \in Tasks, Continue(t) \/ CutOff(t) \/ SettleFails(t)
      PROVE  \/ Kept
             \/ attempts'[n] = 0 /\ status[n] = "NONE"
             \/ /\ attempts'[n] = attempts[n] + 1
                /\ \E u \in Senders(n) : Senders(n)' = Senders(n) \ {u}
  <2>1. CASE (Settle(t) \/ Recover(t)) \/ \E m \in Notes : CreateRow(t, m)
    BY <1>3, <1>5, <2>1
  <2>2. CASE /\ attempts' = attempts
             /\ \/ EndTask(t) \/ SettleFails(t) \/ \E ok \in BOOLEAN : Channel(t, ok)
                \/ \E m \in Notes : RetryNext(t, m)
    BY <1>6, <2>2
  <2>3. QED
    BY <1>9, <2>1, <2>2 DEF Continue, CreateRefused, RowGone, CutOff, SettleFails, Channel, RetryNext
<1>10. QED
  BY <1>2, <1>4, <1>7, <1>8, <1>9 DEF NotificationsNext, notificationsVars, MarkAsRead

\* How often a row is tried: the limit is looked at when a retry reads the row, and each
\* request that reads it together with others may add one attempt.
THEOREM NotificationsAttemptsBounded == NotificationsSpec => []AttemptsBounded
<1>1. NotificationsInit => AttemptsBounded
  <2>1. ASSUME NotificationsInit, NEW n \in Notes
        PROVE  attempts[n] + Cardinality(Senders(n)) < MaxAttempts + Cardinality(Tasks)
    BY <2>1, SendersFinite, NotificationsAssumption DEF NotificationsInit, NotificationsAssumption
  <2>2. QED
    BY <2>1 DEF AttemptsBounded
<1>2. NotificationsInv /\ AttemptsBounded /\ [NotificationsNext]_notificationsVars => AttemptsBounded'
  <2>1. ASSUME NotificationsInv, AttemptsBounded, [NotificationsNext]_notificationsVars, NEW n \in Notes
        PROVE  attempts'[n] + Cardinality(Senders(n)') < MaxAttempts + Cardinality(Tasks)
    <3>1. attempts[n] \in Nat /\ MaxAttempts \in Nat \ {0}
          /\ attempts[n] + Cardinality(Senders(n)) < MaxAttempts + Cardinality(Tasks)
      BY <2>1, NotificationsAssumption
      DEF NotificationsInv, NotificationsTypeOK, NotificationsAssumption, AttemptsBounded
    <3>2. CASE attempts'[n] = attempts[n] /\ Senders(n)' \subseteq Senders(n)
      <4>1. Cardinality(Senders(n)') <= Cardinality(Senders(n))
        BY <3>2, SendersFinite, FS_Subset
      <4>2. QED
        BY <3>1, <3>2, <4>1, SendersFinite
    <3>3. CASE attempts'[n] = attempts[n] /\ attempts[n] < MaxAttempts
      BY <3>1, <3>3, SendersFinite
    <3>4. CASE attempts'[n] = 0
      BY <3>1, <3>4, SendersFinite
    <3>5. CASE /\ attempts'[n] = attempts[n] + 1
               /\ \E t \in Senders(n) : Senders(n)' = Senders(n) \ {t}
      <4>1. Cardinality(Senders(n)') = Cardinality(Senders(n)) - 1
        BY <3>5, SendersFinite, FS_RemoveElement
      <4>2. QED
        BY <3>1, <3>5, <4>1, SendersFinite
    <3>6. QED
      BY <2>1, <3>2, <3>3, <3>4, <3>5, NextSenders
  <2>2. QED
    BY <2>1 DEF AttemptsBounded
<1>3. QED
  BY <1>1, <1>2, NotificationsTypeCorrect, PTL DEF NotificationsSpec, NotificationsInv

\* A notification that was read and that nobody was sending stays read, until its user is
\* deleted, and is not sent again.
THEOREM NotificationsReadStays == NotificationsSpec => ReadStays
<1>1. NotificationsInv /\ [NotificationsNext]_notificationsVars
      => [\A n \in Notes :
             status[n] = "READ" /\ Senders(n) = {}
                => status'[n] \in {"READ", "DELETED"} /\ Senders(n)' = {}]_notificationsVars
  <2>1. ASSUME NotificationsInv, [NotificationsNext]_notificationsVars, NEW n \in Notes,
               status[n] = "READ", Senders(n) = {}
        PROVE  status'[n] \in {"READ", "DELETED"} /\ Senders(n)' = {}
    <3>1. Senders(n)' = {}
      BY <2>1, NextSenders
    <3>2. ASSUME NEW t \in Tasks, Settle(t) \/ Recover(t) PROVE task[t].note # n
      BY <2>1, <3>2 DEF Settle, Recover, Doing, Senders, Holds
    <3>3. ASSUME NEW t \in Tasks, Continue(t) PROVE status'[n] = "READ"
      BY <2>1, <3>2, <3>3
      DEF Continue, CreateRow, RetryNext, Channel, CreateRefused, RowGone, Settle, Recover, Record,
          NotificationsInv, NotificationsTypeOK, noteVars
    <3>4. ASSUME (\E m \in Notes : MarkAsRead(m)) \/ \E u \in Users : DeleteUser(u)
          PROVE  status'[n] \in {"READ", "DELETED"}
      BY ZenonT(60), <2>1, <3>4 DEF MarkAsRead, DeleteUser, NotificationsInv, NotificationsTypeOK
    <3>5. QED
      BY <2>1, <3>1, <3>3, <3>4
      DEF NotificationsNext, notificationsVars, noteVars, SendNotification, RetryRead, SettleFails, CutOff
  <2>2. QED
    BY <2>1
<1>2. QED
  BY <1>1, NotificationsTypeCorrect, PTL DEF NotificationsSpec, NotificationsInv, ReadStays
----------------------------------------------------------------------------
\* A request that settles a row is one of those there are.
LEMMA SettlingFinite ==
    ASSUME NEW n \in Notes
    PROVE  /\ IsFiniteSet(Settling(n)) /\ Cardinality(Settling(n)) \in Nat
           /\ IsFiniteSet(Settling(n)') /\ Cardinality(Settling(n)') \in Nat
<1>1. Settling(n) \subseteq Tasks /\ Settling(n)' \subseteq Tasks /\ IsFiniteSet(Tasks)
  BY NotificationsAssumption DEF Settling, NotificationsAssumption
<1>2. QED
  BY <1>1, FS_Subset, FS_CardinalityType

\* What a step does to the account of a row: nothing, or the channel takes the message, or
\* the attempt is written down, or its request is cut off; or the row is made or deleted.
LEMMA NextAccount ==
    ASSUME NotificationsInv, [NotificationsNext]_notificationsVars, NEW n \in Notes, HasRow(n)'
    PROVE  \/ delivered'[n] = 0
           \/ /\ delivered'[n] = delivered[n] /\ attempts'[n] = attempts[n] /\ lost'[n] = lost[n]
              /\ HasRow(n) /\ Settling(n)' = Settling(n)
           \/ /\ delivered'[n] = delivered[n] + 1 /\ attempts'[n] = attempts[n] /\ lost'[n] = lost[n]
              /\ HasRow(n) /\ \E t \in Tasks \ Settling(n) : Settling(n)' = Settling(n) \cup {t}
           \/ /\ delivered'[n] = delivered[n] /\ attempts'[n] + lost'[n] = attempts[n] + lost[n] + 1
              /\ HasRow(n) /\ \E t \in Tasks : Settling(n)' = Settling(n) \ {t}
<1> DEFINE Same == /\ delivered'[n] = delivered[n] /\ attempts'[n] = attempts[n] /\ lost'[n] = lost[n]
                   /\ HasRow(n) /\ Settling(n)' = Settling(n)
           Tried == /\ delivered'[n] = delivered[n] /\ attempts'[n] + lost'[n] = attempts[n] + lost[n] + 1
                    /\ HasRow(n) /\ \E t \in Tasks : Settling(n)' = Settling(n) \ {t}
           Taken == /\ delivered'[n] = delivered[n] + 1 /\ attempts'[n] = attempts[n] /\ lost'[n] = lost[n]
                    /\ HasRow(n) /\ \E t \in Tasks \ Settling(n) : Settling(n)' = Settling(n) \cup {t}
<1> USE DEF NotificationsInv, Doing, IsFree, EndTask, noteVars
<1>0. /\ task \in [Tasks -> TaskType] /\ NoOne \notin Notes /\ NotificationsTypeOK
      /\ delivered[n] \in Nat /\ attempts[n] \in Nat /\ lost[n] \in Nat
  BY NotificationsAssumption DEF NotificationsTypeOK, TaskType, NotificationsAssumption
<1>1. ASSUME NEW t \in Tasks, \A s \in Tasks \ {t} : task'[s] = task[s],
             task'[t].note = n /\ task'[t].ok <=> task[t].note = n /\ task[t].ok
      PROVE  Settling(n)' = Settling(n)
  BY <1>1 DEF Settling
<1>2. ASSUME NEW t \in Tasks, \A s \in Tasks \ {t} : task'[s] = task[s], task'[t].note # n \/ ~task'[t].ok
      PROVE  Settling(n)' = Settling(n) \ {t}
  BY <1>2 DEF Settling
<1>3. ASSUME UNCHANGED <<status, attempts, delivered, lost>>
      PROVE  delivered'[n] = delivered[n] /\ attempts'[n] = attempts[n] /\ lost'[n] = lost[n] /\ HasRow(n)
  BY <1>3 DEF HasRow
<1>4. ASSUME NEW t \in Tasks, NEW u \in Users, SendNotification(t, u) PROVE Same
  <2>1. /\ task[t].note = NoOne /\ task'[t].note = NoOne
        /\ \A s \in Tasks \ {t} : task'[s] = task[s]
    BY <1>0, <1>4 DEF SendNotification, NoTask
  <2> QED BY <1>0, <1>1, <1>3, <1>4, <2>1 DEF SendNotification
<1>5. ASSUME NEW t \in Tasks, RetryRead(t) PROVE Same
  <2>1. /\ task[t].note = NoOne /\ task'[t].note = NoOne
        /\ \A s \in Tasks \ {t} : task'[s] = task[s]
    BY <1>0, <1>5 DEF RetryRead, NoTask
  <2> QED BY <1>0, <1>1, <1>3, <1>5, <2>1 DEF RetryRead
<1>6. ASSUME NEW t \in Tasks, NEW m \in Notes, CreateRow(t, m) PROVE delivered'[n] = 0 \/ Same
  <2>1. ~task[t].ok /\ ~task'[t].ok /\ \A s \in Tasks \ {t} : task'[s] = task[s]
    <3>1. ~task[t].ok
      BY <1>6 DEF CreateRow, Remembers, RemembersIn
    <3> QED BY <1>0, <1>6, <3>1 DEF CreateRow, TaskType, NoTask
  <2>2. CASE m = n
    BY <1>0, <1>6, <2>2 DEF CreateRow, Fresh
  <2>3. CASE m # n
    <3>1. status'[n] = status[n] /\ UNCHANGED <<attempts, delivered, lost>>
      BY <1>0, <1>6, <2>3 DEF CreateRow, NotificationsTypeOK
    <3>2. HasRow(n)
      BY <3>1 DEF HasRow
    <3>3. Settling(n)' = Settling(n)
      BY <1>1, <2>1
    <3> QED BY <3>1, <3>2, <3>3
  <2> QED BY <2>2, <2>3
<1>7. ASSUME NEW t \in Tasks, NEW m \in Notes, RetryNext(t, m) PROVE Same
  <2>1. ~task[t].ok
    BY <1>7 DEF RetryNext, Remembers, RemembersIn
  <2>2. ~task'[t].ok /\ \A s \in Tasks \ {t} : task'[s] = task[s]
    BY <1>0, <1>7, <2>1 DEF RetryNext, TaskType
  <2> QED BY <1>1, <1>3, <1>7, <2>1, <2>2 DEF RetryNext
<1>8. ASSUME NEW t \in Tasks, NEW ok \in BOOLEAN, Channel(t, ok) PROVE Same \/ Taken
  <2>1. ~task[t].ok /\ task[t].note \in Notes
    BY <1>8 DEF Channel, Remembers, RemembersIn
  <2>2. task'[t].ok = ok /\ task'[t].note = task[t].note /\ \A s \in Tasks \ {t} : task'[s] = task[s]
    BY <1>0, <1>8 DEF Channel, TaskType
  <2>3. HasRow(n) /\ attempts' = attempts /\ lost' = lost
    BY <1>8 DEF Channel, HasRow
  <2>4. CASE ok /\ task[t].note = n
    <3>1. delivered'[n] = delivered[n] + 1
      BY <1>0, <1>8, <2>4 DEF Channel, NotificationsTypeOK
    <3>2. t \notin Settling(n) /\ Settling(n)' = Settling(n) \cup {t}
      BY <2>1, <2>2, <2>4 DEF Settling
    <3> QED BY <2>3, <3>1, <3>2
  <2>5. CASE ~(ok /\ task[t].note = n)
    <3>1. delivered'[n] = delivered[n]
      BY <1>0, <1>8, <2>1, <2>5 DEF Channel, NotificationsTypeOK
    <3>2. Settling(n)' = Settling(n)
      BY <1>1, <2>1, <2>2, <2>5
    <3> QED BY <2>3, <3>1, <3>2
  <2> QED BY <2>4, <2>5
<1>9. ASSUME NEW t \in Tasks, Settle(t) \/ Recover(t) PROVE Same \/ Tried
  <2>0. PICK ok \in BOOLEAN : Record(t, ok) /\ task[t].step \in {"settle", "recover"}
    BY <1>0, <1>9 DEF Settle, Recover, TaskType
  <2>1. GoOn(t) /\ task[t].note \in Notes /\ HasRow(task[t].note) /\ task[t].step \in {"settle", "recover"}
    BY <2>0 DEF Record, Remembers, RemembersIn
  <2>2. task'[t].note = NoOne /\ \A s \in Tasks \ {t} : task'[s] = task[s]
    BY <1>0, <2>1 DEF GoOn, TaskType, NoTask
  <2>3. delivered' = delivered /\ lost' = lost
    BY <2>0 DEF Record
  <2>4. CASE task[t].note = n
    <3>1. attempts'[n] = attempts[n] + 1
      BY <1>0, <2>0, <2>4 DEF Record, NotificationsTypeOK
    <3>2. Settling(n)' = Settling(n) \ {t}
      BY <1>0, <1>2, <2>2
    <3>3. HasRow(n)
      BY <2>1, <2>4
    <3> QED BY <1>0, <2>3, <3>1, <3>2, <3>3
  <2>5. CASE task[t].note # n
    <3>1. attempts'[n] = attempts[n] /\ status'[n] = status[n]
      BY <1>0, <2>0, <2>5 DEF Record, NotificationsTypeOK
    <3>2. Settling(n)' = Settling(n)
      BY <1>0, <1>1, <2>2, <2>5
    <3>3. HasRow(n)
      BY <3>1 DEF HasRow
    <3> QED BY <2>3, <3>1, <3>2, <3>3
  <2> QED BY <2>4, <2>5
<1>10. ASSUME NEW t \in Tasks, SettleFails(t) PROVE Same
  <2>1. /\ task'[t].ok = task[t].ok /\ task'[t].note = task[t].note
        /\ \A s \in Tasks \ {t} : task'[s] = task[s]
    BY <1>0, <1>10 DEF SettleFails, TaskType
  <2> QED BY <1>1, <1>3, <1>10, <2>1 DEF SettleFails
<1>11. ASSUME NEW t \in Tasks, EndTask(t)
       PROVE  Settling(n)' = Settling(n) \ {t} /\ (task[t].note # n \/ ~task[t].ok => Settling(n)' = Settling(n))
  <2>1. task'[t].note # n /\ \A s \in Tasks \ {t} : task'[s] = task[s]
    BY <1>0, <1>11 DEF NoTask
  <2> QED BY <1>1, <1>2, <2>1
<1>12. ASSUME NEW t \in Tasks, CreateRefused(t) PROVE Same
  <2>1. ~task[t].ok
    BY <1>12 DEF CreateRefused, Remembers, RemembersIn
  <2> QED BY <1>3, <1>11, <1>12, <2>1 DEF CreateRefused
<1>13. ASSUME NEW t \in Tasks, RowGone(t) PROVE Same
  <2>1. HasRow(n) /\ ~HasRow(task[t].note)
    BY <1>3, <1>13 DEF RowGone
  <2> QED BY <1>3, <1>11, <1>13, <2>1 DEF RowGone
<1>14. ASSUME NEW t \in Tasks, CutOff(t) PROVE Same \/ Tried
  <2>1. HasRow(n) /\ attempts' = attempts /\ delivered' = delivered
    BY <1>14 DEF CutOff, HasRow
  <2>2. lost'[n] = IF n = task[t].note THEN lost[n] + 1 ELSE lost[n]
    BY <1>14 DEF CutOff
  <2>3. EndTask(t)
    BY <1>14 DEF CutOff
  <2>4. CASE task[t].note = n
    <3>1. Settling(n)' = Settling(n) \ {t}
      BY <1>11, <2>3
    <3> QED BY <1>0, <2>1, <2>2, <2>4, <3>1
  <2>5. CASE task[t].note # n
    <3>1. Settling(n)' = Settling(n)
      BY <1>11, <2>3, <2>5
    <3> QED BY <2>1, <2>2, <2>5, <3>1
  <2> QED BY <2>4, <2>5
<1>15. ASSUME NEW m \in Notes, MarkAsRead(m) PROVE Same
  BY <1>0, <1>15 DEF MarkAsRead, HasRow, Settling, NotificationsTypeOK, NoteStatus
<1>16. ASSUME NEW u \in Users, DeleteUser(u) PROVE Same
  <2>1. owner[n] # u
    BY <1>0, <1>16 DEF DeleteUser, HasRow, NoteStatus
  <2> QED BY <1>0, <1>16, <2>1 DEF DeleteUser, HasRow, Settling
<1>17. ASSUME UNCHANGED notificationsVars PROVE Same
  BY <1>17 DEF notificationsVars, HasRow, Settling
<1>18. ASSUME NEW t \in Tasks, Continue(t) PROVE delivered'[n] = 0 \/ Same \/ Taken \/ Tried
  BY <1>6, <1>7, <1>8, <1>9, <1>12, <1>13, <1>18 DEF Continue
<1> HIDE DEF Same, Tried, Taken
<1>19. delivered'[n] = 0 \/ Same \/ Taken \/ Tried
  BY <1>4, <1>5, <1>10, <1>14, <1>15, <1>16, <1>17, <1>18 DEF NotificationsNext
<1> QED BY <1>19 DEF Same, Tried, Taken

\* Whatever reached the user was counted, is about to be, or was cut off in between.
LEMMA NextDelivered ==
    ASSUME NotificationsInv, [NotificationsNext]_notificationsVars, NEW n \in Notes, HasRow(n)',
           HasRow(n) => delivered[n] <= attempts[n] + Cardinality(Settling(n)) + lost[n]
    PROVE  delivered'[n] <= attempts'[n] + Cardinality(Settling(n)') + lost'[n]
<1>0. /\ delivered[n] \in Nat /\ attempts[n] \in Nat /\ lost[n] \in Nat
      /\ attempts'[n] \in Nat /\ lost'[n] \in Nat
  BY NextType, NotificationsAssumption DEF NotificationsInv, NotificationsTypeOK, NotificationsAssumption
<1>1. CASE delivered'[n] = 0
  BY <1>0, <1>1, SettlingFinite
<1>2. CASE /\ delivered'[n] = delivered[n] /\ attempts'[n] = attempts[n] /\ lost'[n] = lost[n]
           /\ HasRow(n) /\ Settling(n)' = Settling(n)
  BY <1>0, <1>2
<1>3. ASSUME NEW t \in Tasks \ Settling(n), Settling(n)' = Settling(n) \cup {t}, HasRow(n),
             delivered'[n] = delivered[n] + 1, attempts'[n] = attempts[n], lost'[n] = lost[n]
      PROVE  delivered'[n] <= attempts'[n] + Cardinality(Settling(n)') + lost'[n]
  <2>1. Cardinality(Settling(n)') = Cardinality(Settling(n)) + 1
    BY <1>3, SettlingFinite, FS_AddElement
  <2> QED BY <1>0, <1>3, <2>1, SettlingFinite
<1>4. ASSUME NEW t \in Tasks, Settling(n)' = Settling(n) \ {t}, HasRow(n),
             delivered'[n] = delivered[n], attempts'[n] + lost'[n] = attempts[n] + lost[n] + 1
      PROVE  delivered'[n] <= attempts'[n] + Cardinality(Settling(n)') + lost'[n]
  <2>1. Cardinality(Settling(n)') \in {Cardinality(Settling(n)), Cardinality(Settling(n)) - 1}
    BY <1>4, SettlingFinite, FS_RemoveElement
  <2> QED BY <1>0, <1>4, <2>1, SettlingFinite
<1> QED BY <1>1, <1>2, <1>3, <1>4, NextAccount

\* A row that says SENT did reach its user.
LEMMA NextSent ==
    ASSUME NotificationsInv, [NotificationsNext]_notificationsVars, NEW n \in Notes,
           status'[n] = "SENT", status[n] = "SENT" => delivered[n] > 0
    PROVE  delivered'[n] > 0
<1>0. delivered[n] \in Nat /\ delivered'[n] \in Nat /\ delivered'[n] >= delivered[n]
  BY NextType, DeliveredStays DEF NotificationsInv, NotificationsTypeOK, HasRow, NoteStatus
<1>1. CASE status[n] = "SENT"
  BY <1>0, <1>1
<1>2. CASE status[n] # "SENT"
  <2>1. ASSUME NEW t \in Tasks, NEW ok \in BOOLEAN, Record(t, ok), ok => task[t].ok
        PROVE  delivered'[n] > 0
    <3>1. task[t].note = n /\ ok /\ HasRow(n)
      BY <1>2, <2>1 DEF Record, HasRow, NotificationsInv, NotificationsTypeOK
    <3>2. delivered[n] > 0
      BY <2>1, <3>1 DEF NotificationsInv, Remembers, RemembersIn
    <3> QED BY <1>0, <3>2
  <2>2. ASSUME NEW t \in Tasks, Settle(t) \/ Recover(t) PROVE delivered'[n] > 0
    BY <2>1, <2>2 DEF Settle, Recover, NotificationsInv, NotificationsTypeOK
  <2>3. CASE UNCHANGED status
    BY <1>2, <2>3
  <2>4. ASSUME \/ \E m \in Notes : MarkAsRead(m) \/ \E t \in Tasks : CreateRow(t, m)
               \/ \E u \in Users : DeleteUser(u)
        PROVE  status'[n] # "SENT"
    BY ZenonT(60), <1>2, <2>4 DEF MarkAsRead, CreateRow, DeleteUser, NotificationsInv, NotificationsTypeOK
  <2>5. ASSUME NEW t \in Tasks, Continue(t) PROVE delivered'[n] > 0
    BY <2>2, <2>3, <2>4, <2>5
    DEF Continue, RetryNext, Channel, CreateRefused, RowGone, noteVars
  <2> QED
    BY <2>3, <2>4, <2>5
    DEF NotificationsNext, notificationsVars, noteVars, SendNotification, RetryRead, SettleFails, CutOff
<1> QED BY <1>1, <1>2

\* Who sends a PENDING row has it before him: it is not one of those to be retried.
LEMMA PendingSenders ==
    ASSUME NotificationsInv, NEW n \in Notes, status[n] = "PENDING"
    PROVE  Senders(n) = {t \in Tasks : task[t].note = n}
BY DEF NotificationsInv, Remembers, RemembersIn, Senders, Holds

\* A PENDING row that stays PENDING keeps its sender, or he was cut off.
LEMMA NextPending ==
    ASSUME NotificationsInv, [NotificationsNext]_notificationsVars, NEW n \in Notes,
           status[n] = "PENDING", status'[n] = "PENDING"
    PROVE  /\ owner'[n] = owner[n] /\ scheduled'[n] = scheduled[n] /\ attempts'[n] = attempts[n]
           /\ lost'[n] >= lost[n]
           /\ \/ \A t \in Tasks : task'[t].note = n <=> task[t].note = n
              \/ \E t \in Tasks : /\ \A s \in Tasks : task'[s].note = n <=> s # t /\ task[s].note = n
                                  /\ lost'[n] > 0
           /\ \A t \in Tasks : task[t].note = n /\ task'[t].note = n => task'[t].user = task[t].user
<1> DEFINE Row == owner'[n] = owner[n] /\ scheduled'[n] = scheduled[n] /\ attempts'[n] = attempts[n]
           Hands == \A t \in Tasks : /\ task'[t].note = n <=> task[t].note = n
                                     /\ task[t].note = n => task'[t].user = task[t].user
           Kept == Row /\ lost'[n] = lost[n] /\ Hands
           Cut == /\ Row /\ lost'[n] = lost[n] + 1
                  /\ \E t \in Tasks : \A s \in Tasks : /\ task'[s].note = n <=> s # t /\ task[s].note = n
                                                       /\ s # t => task'[s].user = task[s].user
<1> USE DEF NotificationsInv, Doing, IsFree, EndTask, noteVars
<1>0. /\ task \in [Tasks -> TaskType] /\ NoOne \notin Notes /\ NotificationsTypeOK
      /\ lost[n] \in Nat
  BY NotificationsAssumption DEF NotificationsTypeOK, TaskType, NotificationsAssumption
<1>1. ASSUME NEW t \in Tasks, \A s \in Tasks \ {t} : task'[s] = task[s],
             \/ task[t].note # n /\ task'[t].note # n
             \/ task'[t].note = task[t].note /\ task'[t].user = task[t].user
      PROVE  Hands
  BY <1>1
<1>2. ASSUME UNCHANGED <<noteVars, lost>> PROVE Row /\ lost'[n] = lost[n]
  BY <1>2
<1>3. ASSUME NEW t \in Tasks, \/ RetryRead(t) \/ \E u \in Users : SendNotification(t, u) PROVE Kept
  <2>1. CASE RetryRead(t)
    <3>1. /\ task[t].note = NoOne /\ task'[t].note = NoOne
          /\ \A s \in Tasks \ {t} : task'[s] = task[s]
      BY <1>0, <2>1 DEF RetryRead, NoTask
    <3>2. UNCHANGED <<noteVars, lost>>
      BY <2>1 DEF RetryRead
    <3> QED BY <1>0, <1>1, <1>2, <3>1, <3>2
  <2>2. ASSUME NEW u \in Users, SendNotification(t, u) PROVE Kept
    <3>1. /\ task[t].note = NoOne /\ task'[t].note = NoOne
          /\ \A s \in Tasks \ {t} : task'[s] = task[s]
      BY <1>0, <2>2 DEF SendNotification, NoTask
    <3>2. UNCHANGED <<noteVars, lost>>
      BY <2>2 DEF SendNotification
    <3> QED BY <1>0, <1>1, <1>2, <3>1, <3>2
  <2> QED BY <1>3, <2>1, <2>2
<1>4. ASSUME NEW t \in Tasks, NEW m \in Notes, CreateRow(t, m) PROVE Kept
  <2>1. m # n /\ task[t].note = NoOne
    BY <1>4 DEF CreateRow, Remembers, RemembersIn
  <2>2. task'[t].note \in {m, NoOne} /\ \A s \in Tasks \ {t} : task'[s] = task[s]
    BY <1>0, <1>4, <2>1 DEF CreateRow, TaskType, NoTask
  <2>3. Row /\ lost'[n] = lost[n]
    BY <1>0, <1>4, <2>1 DEF CreateRow, NotificationsTypeOK
  <2> QED BY <1>0, <1>1, <2>1, <2>2, <2>3
<1>5. ASSUME NEW t \in Tasks, NEW m \in Notes, RetryNext(t, m) PROVE Kept
  <2>1. m # n /\ task[t].note = NoOne
    BY <1>5 DEF RetryNext, Remembers, RemembersIn
  <2>2. task'[t].note = m /\ \A s \in Tasks \ {t} : task'[s] = task[s]
    BY <1>0, <1>5 DEF RetryNext, TaskType
  <2> QED BY <1>0, <1>1, <1>2, <1>5, <2>1, <2>2 DEF RetryNext
<1>6. ASSUME NEW t \in Tasks, SettleFails(t) \/ \E ok \in BOOLEAN : Channel(t, ok) PROVE Kept
  <2>1. /\ task'[t].note = task[t].note /\ task'[t].user = task[t].user
        /\ \A s \in Tasks \ {t} : task'[s] = task[s]
    BY <1>0, <1>6 DEF SettleFails, Channel, TaskType
  <2> QED BY <1>1, <1>2, <1>6, <2>1 DEF SettleFails, Channel
<1>7. ASSUME NEW t \in Tasks, Settle(t) \/ Recover(t) PROVE Kept
  <2>0. PICK ok \in BOOLEAN : Record(t, ok) /\ task[t].step \in {"settle", "recover"}
    BY <1>0, <1>7 DEF Settle, Recover, TaskType
  <2>1. task[t].note # n
    BY <1>0, <2>0 DEF Record, NotificationsTypeOK
  <2>2. task'[t].note = NoOne /\ \A s \in Tasks \ {t} : task'[s] = task[s]
    BY <1>0, <2>0 DEF Record, GoOn, TaskType, NoTask
  <2>3. Row /\ lost'[n] = lost[n]
    BY <1>0, <2>0, <2>1 DEF Record, NotificationsTypeOK
  <2> QED BY <1>0, <1>1, <2>1, <2>2, <2>3
<1>8. ASSUME NEW t \in Tasks, EndTask(t)
      PROVE  task'[t].note = NoOne /\ \A s \in Tasks \ {t} : task'[s] = task[s]
  BY <1>0, <1>8 DEF NoTask
<1>9. ASSUME NEW t \in Tasks, CreateRefused(t) \/ RowGone(t) PROVE Kept
  <2>1. task[t].note # n
    <3>1. CASE CreateRefused(t)
      BY <1>0, <3>1 DEF CreateRefused, Remembers, RemembersIn
    <3>2. CASE RowGone(t)
      BY <3>2 DEF RowGone, HasRow, NoteStatus
    <3> QED BY <1>9, <3>1, <3>2
  <2>2. EndTask(t) /\ UNCHANGED <<noteVars, lost>>
    BY <1>9 DEF CreateRefused, RowGone
  <2> QED BY ZenonT(60), <1>0, <1>1, <1>2, <1>8, <2>1, <2>2
<1>10. ASSUME NEW t \in Tasks, CutOff(t) PROVE Kept \/ Cut
  <2>1. EndTask(t) /\ Row
    BY <1>10 DEF CutOff
  <2>2. lost'[n] = IF n = task[t].note THEN lost[n] + 1 ELSE lost[n]
    BY <1>10 DEF CutOff
  <2>3. CASE task[t].note = n
    <3>1. \A s \in Tasks : /\ task'[s].note = n <=> s # t /\ task[s].note = n
                           /\ s # t => task'[s].user = task[s].user
      BY <1>0, <1>8, <2>1
    <3> QED BY <2>1, <2>2, <2>3, <3>1
  <2>4. CASE task[t].note # n
    <3>1. Hands
      BY ZenonT(60), <1>0, <1>1, <1>8, <2>1, <2>4
    <3> QED BY <2>1, <2>2, <2>4, <3>1
  <2> QED BY <2>3, <2>4
<1>11. ASSUME NEW m \in Notes, MarkAsRead(m) PROVE Kept
  BY <1>11 DEF MarkAsRead
<1>12. ASSUME NEW u \in Users, DeleteUser(u) PROVE Kept
  <2>1. owner[n] # u
    BY <1>0, <1>12 DEF DeleteUser
  <2> QED BY <1>0, <1>12, <2>1 DEF DeleteUser
<1>13. ASSUME UNCHANGED notificationsVars PROVE Kept
  BY <1>13 DEF notificationsVars
<1>14. ASSUME NEW t \in Tasks, Continue(t) PROVE Kept
  BY <1>4, <1>5, <1>6, <1>7, <1>9, <1>14 DEF Continue
<1>15. Kept \/ Cut
  <2> HIDE DEF Kept, Cut
  <2> QED BY <1>3, <1>6, <1>10, <1>11, <1>12, <1>13, <1>14 DEF NotificationsNext
<1>16. CASE Kept
  BY <1>0, <1>16
<1>17. CASE Cut
  <2>1. PICK t \in Tasks : \A s \in Tasks : /\ task'[s].note = n <=> s # t /\ task[s].note = n
                                            /\ s # t => task'[s].user = task[s].user
    BY <1>17
  <2>2. lost'[n] > 0 /\ lost'[n] >= lost[n]
    BY <1>0, <1>17
  <2> QED BY <1>17, <2>1, <2>2
<1> QED BY <1>15, <1>16, <1>17

\* A row becomes PENDING when it is made, in the hands of its request unless scheduled.
LEMMA NextCreated ==
    ASSUME NotificationsInv, [NotificationsNext]_notificationsVars, NEW n \in Notes,
           status[n] # "PENDING", status'[n] = "PENDING"
    PROVE  /\ attempts'[n] = 0
           /\ \/ \E t \in Tasks : Senders(n)' = {t} /\ task'[t].user = owner'[n]
              \/ Senders(n)' = {} /\ scheduled'[n]
<1> USE DEF NotificationsInv, Doing, IsFree, EndTask, noteVars
<1>0. task \in [Tasks -> TaskType] /\ NoOne \notin Notes /\ NotificationsTypeOK
  BY NotificationsAssumption DEF NotificationsTypeOK, TaskType, NotificationsAssumption
<1>1. PICK t \in Tasks : CreateRow(t, n)
  <2>1. ASSUME NEW t \in Tasks, NEW ok, Record(t, ok) PROVE FALSE
    BY <1>0, <2>1 DEF Record, NotificationsTypeOK
  <2>2. ASSUME \/ \E m \in Notes : MarkAsRead(m)
               \/ \E u \in Users : DeleteUser(u)
        PROVE  FALSE
    BY ZenonT(60), <1>0, <2>2 DEF MarkAsRead, DeleteUser, NotificationsTypeOK
  <2>3. ASSUME NEW t \in Tasks, NEW m \in Notes, CreateRow(t, m) PROVE m = n
    BY <1>0, <2>3 DEF CreateRow, NotificationsTypeOK
  <2>4. CASE UNCHANGED status
    BY <2>4
  <2>5. ASSUME NEW t \in Tasks, Continue(t) PROVE CreateRow(t, n)
    BY <2>1, <2>3, <2>4, <2>5
    DEF Continue, RetryNext, Channel, CreateRefused, RowGone, Settle, Recover
  <2> QED
    BY <2>2, <2>4, <2>5
    DEF NotificationsNext, notificationsVars, SendNotification, RetryRead, SettleFails, CutOff
<1>2. status[n] = "NONE" /\ attempts'[n] = 0
  BY <1>1 DEF CreateRow, Fresh
<1>3. \A s \in Tasks : n \notin Holds(s)
  <2>1. \A s \in Tasks : n \notin task[s].left /\ task[s].note # n
    BY <1>0, <1>2 DEF Remembers, RemembersIn
  <2> QED BY <2>1 DEF Holds
<1>4. Senders(n)' = {u \in {t} : n \in Holds(t)'} /\ Holds(t)' = IF task[t].later THEN {} ELSE {n}
  <2>1. \A s \in Tasks \ {t} : task'[s] = task[s]
    BY <1>1, StepHolds
  <2> QED BY <1>1, <1>3, <2>1, StepHolds, SendersMove DEF Senders
<1>5. CASE task[t].later
  <2>1. scheduled'[n]
    BY <1>0, <1>1, <1>5 DEF CreateRow, NotificationsTypeOK
  <2> QED BY <1>2, <1>4, <1>5, <2>1
<1>6. CASE ~task[t].later
  <2>1. task'[t].user = owner'[n]
    BY <1>0, <1>1, <1>6 DEF CreateRow, NotificationsTypeOK, TaskType
  <2> QED BY <1>2, <1>4, <1>6, <2>1
<1> QED BY <1>5, <1>6

\* However requests and retries interleave, fail and are cut off: what reached a user is
\* accounted for, SENT is never said of what did not, and a PENDING row is in the hands of
\* the one request that made it, or waits for a time, or was dropped.
THEOREM NotificationsRowsAccounted == NotificationsSpec => []RowsAccounted
<1>1. NotificationsInit => RowsAccounted
  BY DEF NotificationsInit, RowsAccounted, HasRow, NoteStatus
<1>2. NotificationsInv /\ RowsAccounted /\ [NotificationsNext]_notificationsVars => RowsAccounted'
  <2> SUFFICES ASSUME NotificationsInv, RowsAccounted, [NotificationsNext]_notificationsVars, NEW n \in Notes
               PROVE  /\ HasRow(n)' => delivered'[n] <= attempts'[n] + Cardinality(Settling(n)') + lost'[n]
                      /\ status'[n] = "SENT" => delivered'[n] > 0
                      /\ status'[n] = "PENDING"
                            => /\ attempts'[n] = 0
                               /\ \/ \E t \in Tasks : Senders(n)' = {t} /\ task'[t].user = owner'[n]
                                  \/ Senders(n)' = {} /\ (scheduled'[n] \/ lost'[n] > 0)
    BY DEF RowsAccounted
  <2>1. HasRow(n)' => delivered'[n] <= attempts'[n] + Cardinality(Settling(n)') + lost'[n]
    BY NextDelivered DEF RowsAccounted
  <2>2. status'[n] = "SENT" => delivered'[n] > 0
    BY NextSent DEF RowsAccounted
  <2>3. ASSUME status'[n] = "PENDING", status[n] = "PENDING"
        PROVE  /\ attempts'[n] = 0
               /\ \/ \E t \in Tasks : Senders(n)' = {t} /\ task'[t].user = owner'[n]
                  \/ Senders(n)' = {} /\ (scheduled'[n] \/ lost'[n] > 0)
    <3>0. NotificationsInv'
      BY NextType, NextRemembers, NextFresh DEF NotificationsInv
    <3>1. Senders(n) = {t \in Tasks : task[t].note = n} /\ Senders(n)' = {t \in Tasks : task'[t].note = n}
      <4>1. Senders(n) = {t \in Tasks : task[t].note = n}
        BY <2>3, PendingSenders
      <4>2. Senders(n)' = {t \in Tasks : task'[t].note = n}
        BY <2>3, <3>0 DEF NotificationsInv, Remembers, RemembersIn, Senders, Holds
      <4> QED BY <4>1, <4>2
    <3>2. /\ attempts[n] = 0
          /\ \/ \E t \in Tasks : Senders(n) = {t} /\ task[t].user = owner[n]
             \/ Senders(n) = {} /\ (scheduled[n] \/ lost[n] > 0)
      BY <2>3 DEF RowsAccounted
    <3>3. lost[n] \in Nat /\ lost'[n] \in Nat
      BY <3>0, NotificationsAssumption DEF NotificationsInv, NotificationsTypeOK, NotificationsAssumption
    <3>4. attempts'[n] = 0 /\ scheduled'[n] = scheduled[n] /\ (lost[n] > 0 => lost'[n] > 0)
      BY <2>3, <3>2, <3>3, NextPending
    <3>5. CASE Senders(n) = {}
      BY <2>3, <3>1, <3>2, <3>4, <3>5, NextPending
    <3>6. ASSUME NEW t \in Tasks, Senders(n) = {t}, task[t].user = owner[n]
          PROVE  \/ Senders(n)' = {t} /\ task'[t].user = owner'[n]
                 \/ Senders(n)' = {} /\ lost'[n] > 0
      <4>1. task[t].note = n /\ \A s \in Tasks : task[s].note = n => s = t
        BY <3>1, <3>6
      <4>2. CASE task'[t].note = n
        BY <2>3, <3>1, <3>6, <4>1, <4>2, NextPending
      <4>3. CASE task'[t].note # n
        BY <2>3, <3>1, <4>1, <4>3, NextPending
      <4> QED BY <4>2, <4>3
    <3> QED BY <3>2, <3>4, <3>5, <3>6
  <2>4. ASSUME status'[n] = "PENDING", status[n] # "PENDING"
        PROVE  /\ attempts'[n] = 0
               /\ \/ \E t \in Tasks : Senders(n)' = {t} /\ task'[t].user = owner'[n]
                  \/ Senders(n)' = {} /\ (scheduled'[n] \/ lost'[n] > 0)
    BY <2>4, NextCreated
  <2> QED BY <2>1, <2>2, <2>3, <2>4
<1>3. QED
  BY <1>1, <1>2, NotificationsTypeCorrect, PTL DEF NotificationsSpec, NotificationsInv

=============================================================================
