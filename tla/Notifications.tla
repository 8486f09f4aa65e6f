---------------------------- MODULE Notifications ----------------------------
(***************************************************************************)
(* Notifications: NotificationsService.                                    *)
(*                                                                         *)
(* A request writes one row for each channel, hands the message to the     *)
(* channel, and writes down what came of it.  An administrator may send    *)
(* the FAILED ones again.  What is written is addressed by id alone, so    *)
(* requests that send one notification at once overwrite each other and    *)
(* the READ of its reader.  NotificationTasks, which would retry every ten *)
(* minutes and delete old rows, belongs to no module and never runs.       *)
(***************************************************************************)
EXTENDS Naturals, FiniteSets

CONSTANTS
    Users,          \* ids of users
    Notes,          \* ids that rows of notifications can get
    Tasks,          \* requests in progress together
    MaxChannels,    \* the most channels of one call; the code has 4
    MaxAttempts,    \* the column maxAttempts; the code's default is 3
    Batch,          \* the most rows one retry reads; the code's is 50
    MaxLost,        \* bound: how often the sending of one row is cut off
    NoOne           \* NULL

NoteStatus == {"PENDING", "SENT", "FAILED", "READ"}
TaskSteps == {"idle", "next", "channel", "settle", "recover"}

ASSUME NotificationsAssumption ==
    /\ NoOne \notin Users \cup Notes
    /\ MaxChannels \in Nat
    /\ MaxAttempts \in Nat \ {0}
    /\ Batch \in Nat \ {0}
    /\ MaxLost \in Nat
    /\ IsFiniteSet(Tasks)
    /\ Tasks # {}

VARIABLES
    present,        \* the users that have a row
    \* table notifications
    status,         \* "NONE", "DELETED": no row
    owner,
    scheduled,      \* the caller gave a time: the row is made and not sent
    attempts,
    \* history: how often the channel took the message, and how often a request was cut
    \* off while it had the row to send
    delivered,
    lost,
    task            \* the requests in progress: where they are and what they remember

noteVars == <<status, owner, scheduled, attempts>>
notificationsVars == <<present, noteVars, delivered, lost, task>>

NoTask == [step |-> "idle", user |-> NoOne, more |-> 0, later |-> FALSE,
           left |-> {}, note |-> NoOne, ok |-> FALSE]

NotificationsTypeOK ==
    /\ present \subseteq Users
    /\ status \in [Notes -> NoteStatus \cup {"NONE", "DELETED"}]
    /\ owner \in [Notes -> Users \cup {NoOne}]
    /\ scheduled \in [Notes -> BOOLEAN]
    /\ attempts \in [Notes -> Nat]
    /\ delivered \in [Notes -> Nat]
    /\ lost \in [Notes -> 0..MaxLost]
    /\ task \in [Tasks -> [step : TaskSteps, user : Users \cup {NoOne}, more : 0..MaxChannels,
                           later : BOOLEAN, left : SUBSET Notes, note : Notes \cup {NoOne},
                           ok : BOOLEAN]]

NotificationsInit ==
    /\ present = Users
    /\ status = [n \in Notes |-> "NONE"]
    /\ owner = [n \in Notes |-> NoOne]
    /\ scheduled = [n \in Notes |-> FALSE]
    /\ attempts = [n \in Notes |-> 0]
    /\ delivered = [n \in Notes |-> 0]
    /\ lost = [n \in Notes |-> 0]
    /\ task = [t \in Tasks |-> NoTask]

----------------------------------------------------------------------------
HasRow(n) == status[n] \in NoteStatus
IsFree(t) == task[t] = NoTask
Doing(t, step) == task[t].step = step
EndTask(t) == task' = [task EXCEPT ![t] = NoTask]

\* The rows a request is still to send or is sending.
Holds(t) == task[t].left \cup ({task[t].note} \cap Notes)
Senders(n) == {t \in Tasks : n \in Holds(t)}

\* On to the next channel or the next row to retry, if any.
GoOn(t) ==
    IF task[t].more > 0 \/ task[t].left # {}
    THEN task' = [task EXCEPT ![t].step = "next", ![t].note = NoOne, ![t].ok = FALSE]
    ELSE EndTask(t)

\* getUserPreferredChannels, unless the caller names them; a user who wants none gets none.
ChannelCount == 1..MaxChannels

\* sendNotification: the user is there.
SendNotification(t, u) ==
    /\ IsFree(t)
    /\ u \in present
    /\ \E k \in ChannelCount, later \in BOOLEAN :
          task' = [task EXCEPT ![t] = [NoTask EXCEPT !.step = "next", !.user = u, !.more = k,
                                                     !.later = later]]
    /\ UNCHANGED <<present, noteVars, delivered, lost>>

\* (variant) rows are made and left to the retry
CreateRowOnly(t, n) ==
    /\ Doing(t, "next")
    /\ task[t].more > 0
    /\ task[t].user \in present
    /\ status[n] = "NONE"
    /\ status' = [status EXCEPT ![n] = "PENDING"]
    /\ owner' = [owner EXCEPT ![n] = task[t].user]
    /\ scheduled' = [scheduled EXCEPT ![n] = task[t].later]
    /\ IF task[t].more > 1 THEN task' = [task EXCEPT ![t].more = @ - 1] ELSE EndTask(t)
    /\ UNCHANGED <<present, attempts, delivered, lost>>

\* createAndSendNotification: the row.  Without its user it cannot be written; without
\* a template the call ends too (CutOff).
CreateRow(t, n) ==
    /\ Doing(t, "next")
    /\ task[t].more > 0
    /\ task[t].user \in present
    /\ status[n] = "NONE"
    /\ status' = [status EXCEPT ![n] = "PENDING"]
    /\ owner' = [owner EXCEPT ![n] = task[t].user]
    /\ scheduled' = [scheduled EXCEPT ![n] = task[t].later]
    /\ IF ~task[t].later
       THEN task' = [task EXCEPT ![t].step = "channel", ![t].more = @ - 1, ![t].note = n]
       ELSE IF task[t].more > 1 THEN task' = [task EXCEPT ![t].more = @ - 1] ELSE EndTask(t)
    /\ UNCHANGED <<present, attempts, delivered, lost>>

CreateRefused(t) ==
    /\ Doing(t, "next")
    /\ task[t].more > 0
    /\ task[t].user \notin present
    /\ EndTask(t)
    /\ UNCHANGED <<present, noteVars, delivered, lost>>

\* (variant) every row that was not sent is read
RetryReadUnsent(t) ==
    LET found == {n \in Notes : HasRow(n) /\ status[n] # "SENT" /\ attempts[n] < MaxAttempts}
    IN  /\ IsFree(t)
        /\ \E left \in SUBSET found :
              /\ Cardinality(left) \in 1..Batch
              /\ task' = [task EXCEPT ![t] = [NoTask EXCEPT !.step = "next", !.left = left]]
        /\ UNCHANGED <<present, noteVars, delivered, lost>>

\* (variant) one attempt too many
RetryReadOnceMore(t) ==
    LET found == {n \in Notes : status[n] = "FAILED" /\ attempts[n] <= MaxAttempts}
    IN  /\ IsFree(t)
        /\ \E left \in SUBSET found :
              /\ Cardinality(left) \in 1..Batch
              /\ task' = [task EXCEPT ![t] = [NoTask EXCEPT !.step = "next", !.left = left]]
        /\ UNCHANGED <<present, noteVars, delivered, lost>>

\* retryFailedNotifications: it reads at most a batch of those whose five minutes
\* (nextRetry) have passed, any of them, and sends each whatever becomes of it meanwhile.
RetryRead(t) ==
    LET found == {n \in Notes : status[n] = "FAILED" /\ attempts[n] < MaxAttempts}
    IN  /\ IsFree(t)
        /\ \E left \in SUBSET found :
              /\ Cardinality(left) \in 1..Batch
              /\ task' = [task EXCEPT ![t] = [NoTask EXCEPT !.step = "next", !.left = left]]
        /\ UNCHANGED <<present, noteVars, delivered, lost>>

RetryNext(t, n) ==
    /\ Doing(t, "next")
    /\ n \in task[t].left
    /\ task' = [task EXCEPT ![t].step = "channel", ![t].note = n, ![t].left = @ \ {n}]
    /\ UNCHANGED <<present, noteVars, delivered, lost>>

\* sendNotificationNow: the channel takes the message or does not; in-app always does.
Channel(t, ok) ==
    /\ Doing(t, "channel")
    /\ task' = [task EXCEPT ![t].step = "settle", ![t].ok = ok]
    /\ delivered' = IF ok THEN [delivered EXCEPT ![task[t].note] = @ + 1] ELSE delivered
    /\ UNCHANGED <<present, noteVars, lost>>

\* (variant) only failures are counted
RecordSent(t, ok) ==
    LET n == task[t].note
    IN  /\ HasRow(n)
        /\ status' = [status EXCEPT ![n] = IF ok THEN "SENT" ELSE "FAILED"]
        /\ attempts' = IF ok THEN attempts ELSE [attempts EXCEPT ![n] = @ + 1]
        /\ GoOn(t)
        /\ UNCHANGED <<present, owner, scheduled, delivered, lost>>

\* What is written of an attempt.
Record(t, ok) ==
    LET n == task[t].note
    IN  /\ HasRow(n)
        /\ status' = [status EXCEPT ![n] = IF ok THEN "SENT" ELSE "FAILED"]
        /\ attempts' = [attempts EXCEPT ![n] = @ + 1]
        /\ GoOn(t)
        /\ UNCHANGED <<present, owner, scheduled, delivered, lost>>

Settle(t) == Doing(t, "settle") /\ Record(t, task[t].ok)

\* The catch: a first update that failed is followed by one that says FAILED, whatever
\* the channel did.
SettleFails(t) ==
    /\ Doing(t, "settle")
    /\ task' = [task EXCEPT ![t].step = "recover"]
    /\ UNCHANGED <<present, noteVars, delivered, lost>>

Recover(t) == Doing(t, "recover") /\ Record(t, FALSE)

\* Neither update finds the row: the call ends, and so does the retry of the others.
RowGone(t) ==
    /\ Doing(t, "settle") \/ Doing(t, "recover")
    /\ ~HasRow(task[t].note)
    /\ EndTask(t)
    /\ UNCHANGED <<present, noteVars, delivered, lost>>

MarkAsRead(n) ==
    /\ HasRow(n)
    /\ status[n] # "READ"
    /\ status' = [status EXCEPT ![n] = "READ"]
    /\ UNCHANGED <<present, owner, scheduled, attempts, delivered, lost, task>>

\* Deleting a user deletes his notifications, and their history here.
DeleteUser(u) ==
    LET Gone(f, none) == [n \in Notes |-> IF owner[n] = u THEN none ELSE f[n]]
    IN  /\ u \in present
        /\ present' = present \ {u}
        /\ status' = Gone(status, "DELETED")
        /\ owner' = Gone(owner, NoOne)
        /\ scheduled' = Gone(scheduled, FALSE)
        /\ attempts' = Gone(attempts, 0)
        /\ delivered' = Gone(delivered, 0)
        /\ lost' = Gone(lost, 0)
        /\ UNCHANGED task

\* The process stops, a query fails or a template is missing.
CutOff(t) ==
    /\ ~IsFree(t)
    /\ task[t].note # NoOne => lost[task[t].note] < MaxLost
    /\ lost' = [n \in Notes |-> IF n = task[t].note THEN lost[n] + 1 ELSE lost[n]]
    /\ EndTask(t)
    /\ UNCHANGED <<present, noteVars, delivered>>

\* A request in progress goes on by itself.
Continue(t) ==
    \/ \E n \in Notes : CreateRow(t, n) \/ RetryNext(t, n)
    \/ \E ok \in BOOLEAN : Channel(t, ok)
    \/ CreateRefused(t) \/ Settle(t) \/ Recover(t) \/ RowGone(t)

NotificationsNext ==
    \/ \E t \in Tasks :
          \/ \E u \in Users : SendNotification(t, u)
          \/ RetryRead(t) \/ Continue(t) \/ SettleFails(t) \/ CutOff(t)
    \/ \E n \in Notes : MarkAsRead(n)
    \/ \E u \in Users : DeleteUser(u)

NotificationsSpec == NotificationsInit /\ [][NotificationsNext]_notificationsVars

\* Node resumes a request once its query, or the channel, has answered.
FairNotificationsSpec ==
    NotificationsSpec /\ \A t \in Tasks : WF_notificationsVars(Continue(t))

----------------------------------------------------------------------------
(***************************************************************************)
(* However requests and retries interleave, fail and are cut off.          *)
(***************************************************************************)

\* maxAttempts is looked at when a retry reads the row and never again: what was tried,
\* with what is being tried, exceeds it by less than the requests there can be.
AttemptsBounded ==
    \A n \in Notes : attempts[n] + Cardinality(Senders(n)) < MaxAttempts + Cardinality(Tasks)

Settling(n) == {t \in Tasks : task[t].note = n /\ task[t].ok}

\* Whatever reached the user was counted as an attempt, is about to be, or was cut off in
\* between; and a row that says SENT did reach him.  A PENDING row that was not scheduled
\* is in the hands of the request that made it, and of no other, unless that one was cut
\* off: nothing takes PENDING rows up again.
RowsAccounted ==
    \A n \in Notes :
        /\ HasRow(n) => delivered[n] <= attempts[n] + Cardinality(Settling(n)) + lost[n]
        /\ status[n] = "SENT" => delivered[n] > 0
        /\ status[n] = "PENDING"
              => /\ attempts[n] = 0
                 /\ \/ \E t \in Tasks : Senders(n) = {t} /\ task[t].user = owner[n]
                    \/ Senders(n) = {} /\ (scheduled[n] \/ lost[n] > 0)

\* READ may be overwritten by who was already sending the row; once nobody is, it stays
\* READ and is never sent again.
ReadStays ==
    [][\A n \in Notes :
          status[n] = "READ" /\ Senders(n) = {}
             => status'[n] \in {"READ", "DELETED"} /\ Senders(n)' = {}]_notificationsVars

\* "Envoyer immédiatement si pas de programmation": a row that was not scheduled does
\* not stay PENDING, unless its sender was cut off.
PendingSettles ==
    \A n \in Notes :
        (status[n] = "PENDING" /\ ~scheduled[n]) ~> (status[n] # "PENDING" \/ lost[n] > 0)
=============================================================================
