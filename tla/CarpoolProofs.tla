---------------------------- MODULE CarpoolProofs ----------------------------
(***************************************************************************)
(* Theorems about Carpool, for every number of carpools, clients, requests *)
(* and handlers in progress, with crashes: types, how far the count of     *)
(* passengers and their rows may drift apart, and who pays which fare.     *)
(***************************************************************************)
EXTENDS Carpool, FiniteSetTheorems, TLAPS

\* What the request in progress t remembers at each step.
RemembersIn(t) ==
    /\ task[t].step = "idle" => task[t] = NoTask
    /\ task[t].step # "idle" => task[t].car \in Carpools /\ seats[task[t].car] # NoOne
    /\ task[t].step = "join" => task[t].client \in Clients
    /\ task[t].step \in {"seat", "count"}
          => /\ task[t].ask \in Asks
             /\ askStatus[task[t].ask] # "NONE"
             /\ target[task[t].ask] = task[t].car
    /\ task[t].left # {} => task[t].step = "share"
    /\ task[t].left \subseteq Aboard(task[t].car)

Remembers == \A t \in Tasks : RemembersIn(t)

\* A request that has a row names a client and a carpool; a passenger and a fare
\* come from such a request.
Asked ==
    /\ \A a \in Asks :
          askStatus[a] # "NONE"
             => target[a] \in Carpools /\ seats[target[a]] # NoOne /\ asker[a] \in Clients
    /\ \A s \in Seats :
          /\ from[s] # NoOne => askStatus[from[s]] # "NONE"
          /\ fare[s] # NoOne => from[s] # NoOne /\ askStatus[fare[s]] # "NONE"

CarpoolInv == CarpoolTypeOK /\ Remembers /\ Asked

\* The type of what a handler remembers.
TaskType == [step : TaskSteps, car : Carpools \cup {NoOne}, ask : Asks \cup {NoOne},
             client : Clients \cup {NoOne}, left : SUBSET Seats]

LEMMA InitCarpoolInv == CarpoolInit => CarpoolInv
BY CarpoolAssumption DEF CarpoolAssumption, CarpoolInit, CarpoolInv, CarpoolTypeOK, Remembers, RemembersIn, Asked,
                         NoTask, TaskSteps, Aboard

\* A step keeps the type of every table.
LEMMA NextType ==
    ASSUME CarpoolInv, [CarpoolNext]_carpoolVars
    PROVE  CarpoolTypeOK'
<1> USE DEF CarpoolInv, CarpoolTypeOK, carVars, askVars, seatVars, AskStatus, EndTask, Advance, Doing,
            IsFree
<1>0. task \in [Tasks -> TaskType] /\ NoTask \in TaskType
  BY DEF TaskType, NoTask, TaskSteps
<1>1. ASSUME NEW b \in Carpools, CreateCarpool(b) PROVE CarpoolTypeOK'
  BY <1>1 DEF CreateCarpool
<1>2. ASSUME NEW a \in Asks, RejectRequest(a) PROVE CarpoolTypeOK'
  BY <1>2 DEF RejectRequest
<1>3. ASSUME NEW t \in Tasks, NEW c \in Clients, NEW b \in Carpools, JoinRead(t, c, b)
      PROVE  CarpoolTypeOK'
  BY <1>0, <1>3 DEF JoinRead, TaskType, NoTask, TaskSteps
<1>4. ASSUME NEW t \in Tasks, NEW a \in Asks, AcceptRequest(t, a) PROVE CarpoolTypeOK'
  BY <1>0, <1>4 DEF AcceptRequest, TaskType, NoTask, TaskSteps
<1>5. ASSUME NEW t \in Tasks, NEW b \in Carpools, Recalculate(t, b) PROVE CarpoolTypeOK'
  BY <1>0, <1>5 DEF Recalculate, TaskType, NoTask, TaskSteps
<1>6. ASSUME NEW t \in Tasks, Continue(t) PROVE CarpoolTypeOK'
  <2>1. ASSUME NEW a \in Asks, JoinCommit(t, a) PROVE CarpoolTypeOK'
    BY <1>0, <2>1 DEF JoinCommit, TaskType
  <2>2. ASSUME NEW s \in Seats, AcceptSeat(t, s) PROVE CarpoolTypeOK'
    <3>1. task' \in [Tasks -> TaskType]
      BY SMTT(30), <1>0, <2>2 DEF AcceptSeat, TaskType, TaskSteps
    <3>2. task[t].ask \in Asks
      BY <2>2 DEF AcceptSeat, Remembers, RemembersIn
    <3>3. QED
      BY <2>2, <3>1, <3>2 DEF AcceptSeat, TaskType
  <2>3. ASSUME NEW s \in Seats, PriceShare(t, s) PROVE CarpoolTypeOK'
    <3>1. task' \in [Tasks -> TaskType]
      <4>1. /\ task[t].left \ {s} \in SUBSET Seats
            /\ (IF task[t].left = {s} THEN "average" ELSE "share") \in TaskSteps
        BY <1>0 DEF TaskType, TaskSteps
      <4>2. [task[t] EXCEPT !.left = task[t].left \ {s},
                            !.step = IF task[t].left = {s} THEN "average" ELSE "share"] \in TaskType
        BY <1>0, <4>1 DEF TaskType
      <4>3. QED
        BY <1>0, <2>3, <4>2 DEF PriceShare
    <3>2. fare' \in [Seats -> Asks \cup {NoOne}]
      BY <2>3 DEF PriceShare
    <3>3. UNCHANGED <<carVars, askVars, from, cutOff>>
      BY <2>3 DEF PriceShare
    <3>4. QED
      BY <3>1, <3>2, <3>3 DEF TaskType
  <2>4. CASE AcceptCount(t)
    <3>1. task' \in [Tasks -> TaskType]
      BY ZenonT(60), <1>0, <2>4 DEF AcceptCount, TaskType, TaskSteps
    <3>2. PICK b \in Carpools : taken' = [taken EXCEPT ![b] = @ + 1]
      BY <2>4 DEF AcceptCount, Remembers, RemembersIn
    <3>3. taken' \in [Carpools -> Nat]
      BY <3>2
    <3>4. QED
      BY <2>4, <3>1, <3>3 DEF AcceptCount, TaskType
  <2>5. CASE PriceRead(t)
    BY SMTT(30), <1>0, <2>5 DEF PriceRead, TaskType, TaskSteps, Aboard
  <2>6. CASE PriceAverage(t)
    BY <1>0, <2>6 DEF PriceAverage, TaskType
  <2>7. QED
    BY <1>6, <2>1, <2>2, <2>3, <2>4, <2>5, <2>6 DEF Continue
<1>7. ASSUME NEW t \in Tasks, Crash(t) PROVE CarpoolTypeOK'
  BY <1>0, <1>7 DEF Crash, TaskType
<1>8. CASE UNCHANGED carpoolVars
  BY <1>8 DEF carpoolVars
<1>9. QED
  BY <1>1, <1>2, <1>3, <1>4, <1>5, <1>6, <1>7, <1>8 DEF CarpoolNext

\* A carpool that has a row keeps it.
LEMMA SeatsStay ==
    ASSUME CarpoolInv, [CarpoolNext]_carpoolVars
    PROVE  \A b \in Carpools : seats[b] # NoOne => seats'[b] = seats[b] /\ located'[b] = located[b]
BY ZenonT(60) DEF CarpoolInv, CarpoolTypeOK, CarpoolNext, Continue, carpoolVars, carVars, askVars, seatVars, CreateCarpool,
       JoinRead, JoinCommit, Recalculate, AcceptSeat, AcceptCount, PriceRead, PriceShare, PriceAverage, Crash,
       RejectRequest, AcceptRequest

\* A step keeps what requests and passengers come from.
LEMMA NextAsked ==
    ASSUME CarpoolInv, [CarpoolNext]_carpoolVars
    PROVE  Asked'
<1> USE CarpoolAssumption DEF CarpoolAssumption, CarpoolInv, CarpoolTypeOK, Asked, carVars, askVars, seatVars
<1>0. \A b \in Carpools : seats[b] # NoOne => seats'[b] # NoOne
  BY SeatsStay
<1>1. CASE UNCHANGED <<askVars, seatVars>>
  BY <1>0, <1>1
<1>2. ASSUME NEW a \in Asks, RejectRequest(a) PROVE Asked'
  BY <1>2 DEF RejectRequest
<1>3. ASSUME NEW t \in Tasks, NEW a \in Asks, AcceptRequest(t, a) PROVE Asked'
  BY <1>3 DEF AcceptRequest
<1>4. ASSUME NEW t \in Tasks, NEW a \in Asks, JoinCommit(t, a) PROVE Asked'
  <2>1. task[t].car \in Carpools /\ seats[task[t].car] # NoOne /\ task[t].client \in Clients
    BY <1>4 DEF JoinCommit, Doing, Remembers, RemembersIn
  <2>2. QED
    BY <1>4, <2>1 DEF JoinCommit
<1>5. ASSUME NEW t \in Tasks, NEW s \in Seats, AcceptSeat(t, s) PROVE Asked'
  <2>1. task[t].ask \in Asks /\ askStatus[task[t].ask] # "NONE"
    BY <1>5 DEF AcceptSeat, Doing, Remembers, RemembersIn
  <2>2. QED
    BY <1>5, <2>1 DEF AcceptSeat
<1>6. ASSUME NEW t \in Tasks, NEW s \in Seats, PriceShare(t, s) PROVE Asked'
  <2>1. from[s] # NoOne
    BY <1>6 DEF PriceShare, Remembers, RemembersIn, Aboard
  <2>2. QED
    BY <1>6, <2>1 DEF PriceShare, PassengersOf
<1>7. QED
  BY <1>1, <1>2, <1>3, <1>4, <1>5, <1>6
  DEF CarpoolNext, Continue, carpoolVars, CreateCarpool, JoinRead, Recalculate, AcceptCount, PriceRead,
      PriceAverage, Crash

\* A passenger stays aboard his carpool, and only AcceptSeat brings one aboard.
LEMMA NextAboard ==
    ASSUME CarpoolInv, [CarpoolNext]_carpoolVars, NEW b
    PROVE  /\ Aboard(b) \subseteq Aboard(b)'
           /\ \/ Aboard(b)' = Aboard(b)
              \/ \E t \in Tasks, s \in Seats : AcceptSeat(t, s)
<1> USE CarpoolAssumption DEF CarpoolAssumption, CarpoolInv, CarpoolTypeOK, Aboard, carVars, askVars, seatVars
<1>1. CASE UNCHANGED <<target, from>>
  BY <1>1
<1>2. ASSUME NEW t \in Tasks, NEW a \in Asks, JoinCommit(t, a) PROVE Aboard(b)' = Aboard(b)
  BY <1>2 DEF JoinCommit, Asked
<1>3. ASSUME NEW t \in Tasks, NEW s \in Seats, AcceptSeat(t, s) PROVE Aboard(b) \subseteq Aboard(b)'
  BY <1>3 DEF AcceptSeat
<1>4. QED
  BY <1>1, <1>2, <1>3
  DEF CarpoolNext, Continue, carpoolVars, CreateCarpool, JoinRead, Recalculate, AcceptCount, PriceRead,
      PriceAverage, Crash, RejectRequest, AcceptRequest, PriceShare

\* A step keeps what the requests in progress remember true.
LEMMA NextRemembers ==
    ASSUME CarpoolInv, [CarpoolNext]_carpoolVars
    PROVE  Remembers'
<1> USE DEF CarpoolInv, EndTask, Advance, Doing, IsFree
<1>0. task \in [Tasks -> TaskType]
  BY DEF CarpoolTypeOK, TaskType
<1>1. \A a \in Asks : askStatus[a] # "NONE" => askStatus'[a] # "NONE" /\ target'[a] = target[a]
  BY ZenonT(60) DEF CarpoolTypeOK, CarpoolNext, Continue, carpoolVars, carVars, askVars, seatVars, CreateCarpool, JoinRead,
         JoinCommit, Recalculate, AcceptSeat, AcceptCount, PriceRead, PriceShare, PriceAverage, Crash, RejectRequest,
         AcceptRequest
<1>2. \A b : Aboard(b) \subseteq Aboard(b)'
  BY NextAboard
<1>s. \A b \in Carpools : seats[b] # NoOne => seats'[b] # NoOne
  BY SeatsStay
<1>3. ASSUME NEW u \in Tasks, task'[u] = task[u] PROVE RemembersIn(u)'
  BY <1>1, <1>2, <1>3, <1>s DEF Remembers, RemembersIn
<1>4. ASSUME NEW u \in Tasks, task'[u] = NoTask PROVE RemembersIn(u)'
  BY <1>4 DEF RemembersIn, NoTask
<1>5. ASSUME NEW t \in Tasks, NEW c \in Clients, NEW b \in Carpools, JoinRead(t, c, b)
      PROVE  Remembers'
  <2>1. RemembersIn(t)'
    BY <1>0, <1>5, <1>s DEF JoinRead, RemembersIn, NoTask, TaskType
  <2>2. \A u \in Tasks \ {t} : task'[u] = task[u]
    BY <1>0, <1>5 DEF JoinRead
  <2>3. QED
    BY <1>3, <2>1, <2>2 DEF Remembers
<1>6. ASSUME NEW t \in Tasks, NEW a \in Asks, AcceptRequest(t, a) PROVE Remembers'
  <2>1. target[a] \in Carpools /\ seats'[target[a]] # NoOne
    BY <1>6, <1>s DEF AcceptRequest, Asked
  <2>2. RemembersIn(t)'
    BY <1>0, <1>1, <1>6, <2>1 DEF AcceptRequest, RemembersIn, NoTask, TaskType, askVars
  <2>3. \A u \in Tasks \ {t} : task'[u] = task[u]
    BY <1>0, <1>6 DEF AcceptRequest
  <2>4. QED
    BY <1>3, <2>2, <2>3 DEF Remembers
<1>7. ASSUME NEW t \in Tasks, NEW b \in Carpools, Recalculate(t, b) PROVE Remembers'
  <2>1. RemembersIn(t)'
    BY <1>0, <1>7, <1>s DEF Recalculate, RemembersIn, NoTask, TaskType
  <2>2. \A u \in Tasks \ {t} : task'[u] = task[u]
    BY <1>0, <1>7 DEF Recalculate
  <2>3. QED
    BY <1>3, <2>1, <2>2 DEF Remembers
<1>8. ASSUME NEW t \in Tasks, NEW s \in Seats, AcceptSeat(t, s) PROVE Remembers'
  <2>0. task[t].step = "seat" /\ task'[t] = [task[t] EXCEPT !.step = "count"]
    BY <1>0, <1>8 DEF AcceptSeat
  <2>1. RemembersIn(t)'
    BY <1>0, <1>1, <1>2, <1>s, <2>0 DEF Remembers, RemembersIn, TaskType
  <2>2. \A u \in Tasks \ {t} : task'[u] = task[u]
    BY <1>0, <1>8 DEF AcceptSeat
  <2>3. QED
    BY <1>3, <2>1, <2>2 DEF Remembers
<1>9. ASSUME NEW t \in Tasks, AcceptCount(t) PROVE Remembers'
  <2>0. task[t].step = "count" /\ task'[t] = [task[t] EXCEPT !.step = "price"]
    BY <1>0, <1>9 DEF AcceptCount
  <2>1. RemembersIn(t)'
    BY <1>0, <1>1, <1>2, <1>s, <2>0 DEF Remembers, RemembersIn, TaskType
  <2>2. \A u \in Tasks \ {t} : task'[u] = task[u]
    BY <1>0, <1>9 DEF AcceptCount
  <2>3. QED
    BY <1>3, <2>1, <2>2 DEF Remembers
<1>10. ASSUME NEW t \in Tasks, PriceRead(t) PROVE Remembers'
  <2>0. task[t].step = "price" /\ \A u \in Tasks \ {t} : task'[u] = task[u]
    BY <1>0, <1>10 DEF PriceRead
  <2>1. CASE task'[t] = [task[t] EXCEPT !.step = "share", !.left = Aboard(task[t].car)]
    <3>1. RemembersIn(t)'
      BY <1>0, <1>2, <1>s, <2>0, <2>1 DEF Remembers, RemembersIn, TaskType
    <3>2. QED
      BY <1>3, <2>0, <3>1 DEF Remembers
  <2>2. CASE task'[t] = NoTask
    BY <1>3, <1>4, <2>0, <2>2 DEF Remembers
  <2>3. QED
    BY <1>0, <1>10, <2>1, <2>2 DEF PriceRead
<1>11. ASSUME NEW t \in Tasks, NEW s \in Seats, PriceShare(t, s) PROVE Remembers'
  <2>0. /\ task[t].step = "share"
        /\ task'[t].car = task[t].car
        /\ task'[t].left = task[t].left \ {s}
        /\ task'[t].step \in {"share", "average"}
        /\ task'[t].left # {} => task'[t].step = "share"
    BY <1>0, <1>11 DEF PriceShare, TaskType
  <2>1. RemembersIn(t)'
    BY <1>2, <1>s, <2>0 DEF Remembers, RemembersIn
  <2>2. \A u \in Tasks \ {t} : task'[u] = task[u]
    BY <1>0, <1>11 DEF PriceShare
  <2>3. QED
    BY <1>3, <2>1, <2>2 DEF Remembers
<1>12. ASSUME NEW t \in Tasks, (\E a \in Asks : JoinCommit(t, a)) \/ PriceAverage(t) \/ Crash(t)
       PROVE  Remembers'
  <2>1. task'[t] = NoTask /\ \A u \in Tasks \ {t} : task'[u] = task[u]
    BY <1>0, <1>12 DEF JoinCommit, PriceAverage, Crash
  <2>2. QED
    BY <1>3, <1>4, <2>1 DEF Remembers
<1>13. CASE task' = task
  BY <1>3, <1>13 DEF Remembers
<1>14. QED
  BY <1>5, <1>6, <1>7, <1>8, <1>9, <1>10, <1>11, <1>12, <1>13
  DEF CarpoolNext, Continue, carpoolVars, CreateCarpool, RejectRequest

\* However requests interleave and crash, every table keeps its type, a handler
\* remembers carpools, clients and requests that exist, and a passenger comes from
\* a request.
THEOREM CarpoolTypeCorrect == CarpoolSpec => [](CarpoolTypeOK /\ Remembers /\ Asked)
<1>1. CarpoolInv /\ [CarpoolNext]_carpoolVars => CarpoolInv'
  BY NextType, NextAsked, NextRemembers DEF CarpoolInv
<1>2. QED
  BY InitCarpoolInv, <1>1, PTL DEF CarpoolSpec, CarpoolInv

----------------------------------------------------------------------------
\* Who is in a finite table is finite, and so is who is between two writes.
LEMMA FiniteCounts ==
    ASSUME NEW b
    PROVE  /\ IsFiniteSet(Aboard(b)) /\ Cardinality(Aboard(b)) \in Nat
           /\ IsFiniteSet(Counting(b)) /\ Cardinality(Counting(b)) \in Nat
<1>1. Aboard(b) \in SUBSET Seats /\ Counting(b) \in SUBSET Tasks
  BY DEF Aboard, Counting
<1>2. IsFiniteSet(Aboard(b)) /\ IsFiniteSet(Counting(b))
  BY <1>1, FS_Subset, CarpoolAssumption DEF CarpoolAssumption
<1>3. QED
  BY <1>2, FS_CardinalityType

\* A step moves the count of passengers and their rows together.
LEMMA NextSeatsCounted ==
    ASSUME CarpoolInv, SeatsCounted, [CarpoolNext]_carpoolVars
    PROVE  SeatsCounted'
<1> USE DEF CarpoolInv, EndTask, Advance, Doing, IsFree, carVars, askVars, seatVars
<1>0. task \in [Tasks -> TaskType] /\ taken \in [Carpools -> Nat] /\ cutOff \in [Carpools -> BOOLEAN]
  BY DEF CarpoolTypeOK, TaskType
<1> SUFFICES ASSUME NEW b \in Carpools
             PROVE  /\ taken'[b] + Cardinality(Counting(b)') <= Cardinality(Aboard(b)')
                    /\ ~cutOff'[b] => taken'[b] + Cardinality(Counting(b)') = Cardinality(Aboard(b)')
  BY DEF SeatsCounted
<1>c. /\ taken[b] + Cardinality(Counting(b)) <= Cardinality(Aboard(b))
      /\ ~cutOff[b] => taken[b] + Cardinality(Counting(b)) = Cardinality(Aboard(b))
  BY DEF SeatsCounted
<1>d. /\ IsFiniteSet(Aboard(b)) /\ Cardinality(Aboard(b)) \in Nat
      /\ IsFiniteSet(Counting(b)) /\ Cardinality(Counting(b)) \in Nat /\ taken[b] \in Nat
  BY <1>0, FiniteCounts
<1>1. ASSUME NEW t \in Tasks, NEW s \in Seats, AcceptSeat(t, s)
      PROVE  /\ taken'[b] + Cardinality(Counting(b)') <= Cardinality(Aboard(b)')
             /\ ~cutOff'[b] => taken'[b] + Cardinality(Counting(b)') = Cardinality(Aboard(b)')
  <2>1. target[task[t].ask] = task[t].car /\ task[t].ask \in Asks /\ task[t].step = "seat"
    BY <1>1 DEF AcceptSeat, Remembers, RemembersIn
  <2>2. taken' = taken /\ cutOff' = cutOff /\ s \notin Aboard(b) /\ t \notin Counting(b)
    BY <1>1 DEF AcceptSeat, Aboard, Counting
  <2>3. CASE b = task[t].car
    <3>1. Aboard(b)' = Aboard(b) \cup {s}
      BY <1>1, <2>1, <2>3, CarpoolAssumption DEF AcceptSeat, Aboard, CarpoolAssumption, CarpoolTypeOK
    <3>2. Counting(b)' = Counting(b) \cup {t}
      BY <1>0, <1>1, <2>3 DEF AcceptSeat, Counting, TaskType
    <3>3. Cardinality(Aboard(b)') = Cardinality(Aboard(b)) + 1
      BY <1>d, <2>2, <3>1, FS_AddElement
    <3>4. Cardinality(Counting(b)') = Cardinality(Counting(b)) + 1
      BY <1>d, <2>2, <3>2, FS_AddElement
    <3>5. QED
      BY <1>c, <1>d, <2>2, <3>3, <3>4
  <2>4. CASE b # task[t].car
    <3>1. Aboard(b)' = Aboard(b)
      BY <1>1, <2>1, <2>4 DEF AcceptSeat, Aboard, CarpoolTypeOK
    <3>2. Counting(b)' = Counting(b)
      BY <1>0, <1>1, <2>4 DEF AcceptSeat, Counting, TaskType
    <3>3. QED
      BY <1>c, <2>2, <3>1, <3>2
  <2>5. QED
    BY <2>3, <2>4
<1>2. ASSUME Aboard(b)' = Aboard(b), NEW t \in Tasks, AcceptCount(t)
      PROVE  /\ taken'[b] + Cardinality(Counting(b)') <= Cardinality(Aboard(b)')
             /\ ~cutOff'[b] => taken'[b] + Cardinality(Counting(b)') = Cardinality(Aboard(b)')
  <2>1. cutOff' = cutOff /\ task[t].step = "count"
    BY <1>2 DEF AcceptCount
  <2>2. CASE b = task[t].car
    <3>1. Counting(b)' = Counting(b) \ {t} /\ t \in Counting(b)
      BY <1>0, <1>2, <2>2 DEF AcceptCount, Counting, TaskType
    <3>2. Cardinality(Counting(b)') = Cardinality(Counting(b)) - 1
      BY <1>d, <3>1, FS_RemoveElement
    <3>3. taken'[b] = taken[b] + 1
      BY <1>0, <1>2, <2>2 DEF AcceptCount
    <3>4. QED
      BY <1>2, <1>c, <1>d, <2>1, <3>2, <3>3
  <2>3. CASE b # task[t].car
    <3>1. Counting(b)' = Counting(b)
      BY <1>0, <1>2, <2>3 DEF AcceptCount, Counting, TaskType
    <3>2. taken'[b] = taken[b]
      BY <1>0, <1>2, <2>3 DEF AcceptCount
    <3>3. QED
      BY <1>2, <1>c, <2>1, <3>1, <3>2
  <2>4. QED
    BY <2>2, <2>3
<1>3. ASSUME Aboard(b)' = Aboard(b), NEW t \in Tasks, Crash(t)
      PROVE  /\ taken'[b] + Cardinality(Counting(b)') <= Cardinality(Aboard(b)')
             /\ ~cutOff'[b] => taken'[b] + Cardinality(Counting(b)') = Cardinality(Aboard(b)')
  <2>1. taken' = taken /\ (cutOff[b] => cutOff'[b])
    BY <1>0, <1>3 DEF Crash
  <2>2. CASE t \in Counting(b)
    <3>1. task[t].ask # NoOne /\ cutOff'[b]
      BY <1>0, <1>3, <2>2, CarpoolAssumption
      DEF Crash, Counting, Remembers, RemembersIn, CarpoolAssumption
    <3>2. Counting(b)' = Counting(b) \ {t}
      BY <1>0, <1>3 DEF Crash, Counting, TaskType, NoTask
    <3>3. Cardinality(Counting(b)') = Cardinality(Counting(b)) - 1
      BY <1>d, <2>2, <3>2, FS_RemoveElement
    <3>4. QED
      BY <1>3, <1>c, <1>d, <2>1, <3>1, <3>3
  <2>3. CASE t \notin Counting(b)
    <3>1. Counting(b)' = Counting(b)
      BY <1>0, <1>3, <2>3 DEF Crash, Counting, TaskType, NoTask
    <3>2. QED
      BY <1>3, <1>c, <2>1, <3>1
  <2>4. QED
    BY <2>2, <2>3
<1>4. CASE UNCHANGED <<taken, cutOff>> /\ Counting(b)' = Counting(b) /\ Aboard(b)' = Aboard(b)
  BY <1>4, <1>c
<1>5. ASSUME NEW t \in Tasks,
             \/ \E c \in Clients, d \in Carpools : JoinRead(t, c, d)
             \/ \E a \in Asks : AcceptRequest(t, a) \/ JoinCommit(t, a)
             \/ \E d \in Carpools : Recalculate(t, d)
             \/ PriceRead(t) \/ PriceAverage(t)
             \/ \E s \in Seats : PriceShare(t, s)
      PROVE  UNCHANGED <<taken, cutOff>> /\ Counting(b)' = Counting(b)
  <2>1. UNCHANGED <<taken, cutOff>>
    BY <1>5 DEF JoinRead, AcceptRequest, JoinCommit, Recalculate, PriceRead, PriceAverage, PriceShare
  <2>2. task[t].step # "count" /\ task'[t].step # "count"
    <3>1. CASE task[t] = NoTask /\ task'[t].step \in {"join", "seat", "price"}
      BY <3>1 DEF NoTask
    <3>2. CASE \E a \in Asks : JoinCommit(t, a)
      BY <1>0, <3>2 DEF JoinCommit, NoTask
    <3>3. CASE PriceRead(t) \/ PriceAverage(t)
      BY <1>0, <3>3 DEF PriceRead, PriceAverage, NoTask, TaskType
    <3>4. CASE \E s \in Seats : PriceShare(t, s)
      BY <1>0, <3>4 DEF PriceShare, TaskType
    <3>5. ASSUME NEW c \in Clients, NEW d \in Carpools, JoinRead(t, c, d)
          PROVE  task[t] = NoTask /\ task'[t].step \in {"join", "seat", "price"}
      BY <1>0, <3>5 DEF JoinRead, NoTask
    <3>6. ASSUME NEW a \in Asks, AcceptRequest(t, a)
          PROVE  task[t] = NoTask /\ task'[t].step \in {"join", "seat", "price"}
      BY <1>0, <3>6 DEF AcceptRequest, NoTask
    <3>7. ASSUME NEW d \in Carpools, Recalculate(t, d)
          PROVE  task[t] = NoTask /\ task'[t].step \in {"join", "seat", "price"}
      BY <1>0, <3>7 DEF Recalculate, NoTask
    <3>8. QED
      BY <1>5, <3>1, <3>2, <3>3, <3>4, <3>5, <3>6, <3>7
  <2>3. \A u \in Tasks \ {t} : task'[u] = task[u]
    BY <1>0, <1>5 DEF JoinRead, AcceptRequest, JoinCommit, Recalculate, PriceRead, PriceAverage, PriceShare
  <2>4. QED
    BY <2>1, <2>2, <2>3 DEF Counting
<1>6. CASE UNCHANGED carpoolVars
  BY <1>6, <1>c DEF carpoolVars, Counting, Aboard
<1>7. CASE (\E d \in Carpools : CreateCarpool(d))
           \/ \E a \in Asks : RejectRequest(a)
  BY <1>7, <1>c DEF CreateCarpool, RejectRequest, Counting, Aboard
<1>8. QED
  BY <1>1, <1>2, <1>3, <1>4, <1>5, <1>6, <1>7, NextAboard DEF CarpoolNext, Continue

\* However acceptances interleave and crash, the count of passengers lags behind the
\* passengers' rows by exactly the acceptances between the two writes, or by more
\* after a crash; it never runs ahead.
THEOREM CarpoolSeatsCounted == CarpoolSpec => []SeatsCounted
<1>1. CarpoolInit => SeatsCounted
  <2>1. ASSUME CarpoolInit, NEW b \in Carpools
        PROVE  Aboard(b) = {} /\ Counting(b) = {} /\ taken[b] = 0
    BY <2>1 DEF CarpoolInit, Aboard, Counting, Doing, NoTask
  <2>2. QED
    BY <2>1, FS_EmptySet DEF SeatsCounted
<1>2. CarpoolInv /\ SeatsCounted /\ [CarpoolNext]_carpoolVars => SeatsCounted'
  BY NextSeatsCounted
<1>3. QED
  BY <1>1, <1>2, CarpoolTypeCorrect, PTL DEF CarpoolSpec, CarpoolInv

\* How the acceptance of a request stands.
Boarding(a) ==
    \/ \E s \in Seats : from[s] = a
    \/ \E t \in Tasks : Doing(t, "seat") /\ task[t].ask = a
    \/ cutOff[target[a]]

\* A step leaves every accepted request aboard or on its way.
LEMMA NextAccepted ==
    ASSUME CarpoolInv, AcceptedIsAboard, [CarpoolNext]_carpoolVars
    PROVE  AcceptedIsAboard'
<1> USE DEF CarpoolInv, EndTask, Advance, Doing, IsFree, carVars, askVars, seatVars
<1>0. task \in [Tasks -> TaskType] /\ from \in [Seats -> Asks \cup {NoOne}]
      /\ askStatus \in [Asks -> AskStatus \cup {"NONE"}] /\ cutOff \in [Carpools -> BOOLEAN]
  BY DEF CarpoolTypeOK, TaskType
<1> SUFFICES ASSUME NEW a \in Asks, askStatus'[a] = "ACCEPTED" PROVE Boarding(a)'
  BY DEF AcceptedIsAboard, Boarding
<1>1. ASSUME NEW t \in Tasks, AcceptRequest(t, a) PROVE Boarding(a)'
  <2>1. task'[t].step = "seat" /\ task'[t].ask = a
    BY <1>0, <1>1 DEF AcceptRequest, NoTask
  <2>2. QED
    BY <2>1 DEF Boarding
<1>2. askStatus[a] = "ACCEPTED" \/ \E t \in Tasks : AcceptRequest(t, a)
  BY ZenonT(60), <1>0
  DEF CarpoolNext, Continue, carpoolVars, CreateCarpool, JoinRead, JoinCommit, Recalculate, AcceptSeat,
      AcceptCount, PriceRead, PriceShare, PriceAverage, Crash, RejectRequest, AcceptRequest, AskStatus
<1> SUFFICES ASSUME askStatus[a] = "ACCEPTED", Boarding(a) PROVE Boarding(a)'
  BY <1>1, <1>2 DEF AcceptedIsAboard, Boarding
<1>3. CASE \E s \in Seats : from[s] = a
  <2>1. PICK s \in Seats : from[s] = a
    BY <1>3
  <2>2. from'[s] = a
    BY ZenonT(60), <1>0, <2>1, CarpoolAssumption
    DEF CarpoolAssumption, CarpoolNext, Continue, carpoolVars, CreateCarpool, JoinRead, JoinCommit,
        Recalculate, AcceptSeat, AcceptCount, PriceRead, PriceShare, PriceAverage, Crash, RejectRequest,
        AcceptRequest
  <2>3. QED
    BY <2>2 DEF Boarding
<1>4. target[a] \in Carpools /\ target'[a] = target[a]
  BY ZenonT(60) DEF CarpoolTypeOK, Asked, CarpoolNext, Continue, carpoolVars, CreateCarpool, JoinRead, JoinCommit,
         Recalculate, AcceptSeat, AcceptCount, PriceRead, PriceShare, PriceAverage, Crash, RejectRequest,
         AcceptRequest
<1>5. CASE cutOff[target[a]]
  <2>1. cutOff'[target[a]]
    BY <1>0, <1>4, <1>5
    DEF CarpoolNext, Continue, carpoolVars, CreateCarpool, JoinRead, JoinCommit, Recalculate, AcceptSeat,
        AcceptCount, PriceRead, PriceShare, PriceAverage, Crash, RejectRequest, AcceptRequest
  <2>2. QED
    BY <1>4, <2>1 DEF Boarding
<1>6. ASSUME NEW t \in Tasks, task[t].step = "seat", task[t].ask = a PROVE Boarding(a)'
  <2>1. ASSUME NEW s \in Seats, AcceptSeat(t, s) PROVE Boarding(a)'
    <3>1. from'[s] = a
      BY <1>0, <1>6, <2>1 DEF AcceptSeat
    <3>2. QED
      BY <3>1 DEF Boarding
  <2>2. CASE Crash(t)
    <3>1. target[a] = task[t].car /\ a # NoOne
      BY <1>6, CarpoolAssumption DEF Remembers, RemembersIn, CarpoolAssumption
    <3>2. cutOff'[target[a]]
      BY <1>0, <1>4, <1>6, <2>2, <3>1 DEF Crash
    <3>3. QED
      BY <1>4, <3>2 DEF Boarding
  <2>3. CASE task'[t] = task[t]
    BY <1>6, <2>3 DEF Boarding
  <2>4. task'[t] = task[t] \/ Crash(t) \/ \E s \in Seats : AcceptSeat(t, s)
    <3>1. CASE UNCHANGED task
      BY <3>1
    <3>2. ASSUME NEW u \in Tasks, Crash(u) PROVE u = t \/ task'[t] = task[t]
      BY <1>0, <3>2 DEF Crash
    <3>3. ASSUME NEW u \in Tasks, Continue(u)
          PROVE  task'[t] = task[t] \/ (u = t /\ \E s \in Seats : AcceptSeat(t, s))
      BY <1>0, <1>6, <3>3
      DEF Continue, JoinCommit, AcceptSeat, AcceptCount, PriceRead, PriceShare, PriceAverage
    <3>4. ASSUME NEW u \in Tasks, NEW c \in Clients, NEW b \in Carpools, JoinRead(u, c, b)
          PROVE  task'[t] = task[t]
      BY <1>0, <1>6, <3>4 DEF JoinRead, NoTask
    <3>5. ASSUME NEW u \in Tasks, NEW d \in Asks, AcceptRequest(u, d) PROVE task'[t] = task[t]
      BY <1>0, <1>6, <3>5 DEF AcceptRequest, NoTask
    <3>6. ASSUME NEW u \in Tasks, NEW b \in Carpools, Recalculate(u, b) PROVE task'[t] = task[t]
      BY <1>0, <1>6, <3>6 DEF Recalculate, NoTask
    <3>7. QED
      BY <3>1, <3>2, <3>3, <3>4, <3>5, <3>6
      DEF CarpoolNext, carpoolVars, CreateCarpool, RejectRequest
  <2>5. QED
    BY <2>1, <2>2, <2>3, <2>4
<1>7. QED
  BY <1>3, <1>5, <1>6 DEF Boarding

\* However answers interleave, repeat, reverse and crash, an ACCEPTED request has its
\* passenger, is about to, or was cut off.
THEOREM CarpoolAcceptedIsAboard == CarpoolSpec => []AcceptedIsAboard
<1>1. CarpoolInit => AcceptedIsAboard
  BY DEF CarpoolInit, AcceptedIsAboard
<1>2. CarpoolInv /\ AcceptedIsAboard /\ [CarpoolNext]_carpoolVars => AcceptedIsAboard'
  BY NextAccepted
<1>3. QED
  BY <1>1, <1>2, CarpoolTypeCorrect, PTL DEF CarpoolSpec, CarpoolInv

----------------------------------------------------------------------------
\* The two ways a passenger of a carpool stands.
Paying(b, s) ==
    /\ fare[s] # NoOne
    /\ target[fare[s]] = b
    /\ asker[fare[s]] = asker[from[s]]

ToBePriced(b, s, t) ==
    /\ task[t].car = b
    /\ task[t].ask # NoOne
    /\ Doing(t, "count") \/ Doing(t, "price") \/ s \in task[t].left

Waiting(b, s) ==
    /\ fare[s] = NoOne
    /\ cutOff[b] \/ ~located[b] \/ \E t \in Tasks : ToBePriced(b, s, t)

LEMMA SettledMeans ==
    PricesSettle <=> \A b \in Carpools : \A s \in Aboard(b) : Paying(b, s) \/ Waiting(b, s)
BY DEF PricesSettle, Paying, Waiting, ToBePriced

\* A step leaves every passenger paying or waiting.
LEMMA NextPricesSettle ==
    ASSUME CarpoolInv, PricesSettle, [CarpoolNext]_carpoolVars
    PROVE  PricesSettle'
<1> USE DEF CarpoolInv, EndTask, Advance, Doing, IsFree, carVars, askVars, seatVars
<1>0. task \in [Tasks -> TaskType] /\ fare \in [Seats -> Asks \cup {NoOne}]
      /\ from \in [Seats -> Asks \cup {NoOne}] /\ cutOff \in [Carpools -> BOOLEAN]
  BY DEF CarpoolTypeOK, TaskType
<1> SUFFICES ASSUME NEW b \in Carpools, NEW s \in Seats, s \in Aboard(b)'
             PROVE  Paying(b, s)' \/ Waiting(b, s)'
  BY DEF PricesSettle, Paying, Waiting, ToBePriced, Aboard
<1>1. ASSUME s \in Aboard(b) PROVE Paying(b, s) \/ Waiting(b, s)
  BY <1>1, SettledMeans
<1>2. ASSUME NEW t \in Tasks, NEW n \in Seats, AcceptSeat(t, n) PROVE Paying(b, s)' \/ Waiting(b, s)'
  <2>1. task[t].ask \in Asks /\ target[task[t].ask] = task[t].car /\ task[t].ask # NoOne
    BY <1>2, CarpoolAssumption DEF AcceptSeat, Remembers, RemembersIn, CarpoolAssumption
  <2>2. task' = [task EXCEPT ![t].step = "count"] /\ from[n] = NoOne /\ from' = [from EXCEPT ![n] = task[t].ask]
        /\ task[t].step = "seat" /\ UNCHANGED <<fare, target, asker, cutOff, located>>
    BY <1>2 DEF AcceptSeat
  <2>3. CASE s = n
    <3>1. fare[s] = NoOne
      BY <2>2, <2>3 DEF Asked
    <3>2. ToBePriced(b, s, t)'
      BY <1>0, <2>1, <2>2, <2>3 DEF ToBePriced, TaskType, Aboard
    <3>3. QED
      BY <2>2, <3>1, <3>2 DEF Waiting
  <2>4. CASE s # n
    <3>1. s \in Aboard(b) /\ from'[s] = from[s]
      BY <1>0, <2>2, <2>4 DEF Aboard
    <3>2. CASE Paying(b, s)
      BY <2>2, <3>1, <3>2 DEF Paying
    <3>3. ASSUME NEW u \in Tasks, ToBePriced(b, s, u) PROVE ToBePriced(b, s, u)'
      BY <1>0, <2>2, <3>3 DEF ToBePriced, TaskType, Remembers, RemembersIn
    <3>4. CASE Waiting(b, s)
      BY <2>2, <3>3, <3>4 DEF Waiting
    <3>5. QED
      BY <1>1, <3>1, <3>2, <3>4
  <2>5. QED
    BY <2>3, <2>4
<1>3. ASSUME NEW t \in Tasks, NEW n \in Seats, PriceShare(t, n), s \in Aboard(b)
      PROVE  Paying(b, s)' \/ Waiting(b, s)'
  <2>1. from[n] # NoOne /\ target[from[n]] = task[t].car /\ n \in task[t].left
    BY <1>3 DEF PriceShare, Remembers, RemembersIn, Aboard
  <2>2. /\ UNCHANGED <<from, target, asker, cutOff, located>>
        /\ fare' = [u \in Seats |-> IF u \in PassengersOf(n) THEN from[n] ELSE fare[u]]
        /\ task'[t].car = task[t].car /\ task'[t].ask = task[t].ask
        /\ task[t].step = "share" /\ task'[t].left = task[t].left \ {n}
        /\ \A u \in Tasks \ {t} : task'[u] = task[u]
    BY <1>0, <1>3 DEF PriceShare, TaskType
  <2>3. CASE s \in PassengersOf(n)
    BY <1>3, <2>1, <2>2, <2>3 DEF Paying, PassengersOf, Aboard
  <2>4. CASE s \notin PassengersOf(n)
    <3>1. s # n /\ fare'[s] = fare[s]
      BY <2>1, <2>2, <2>4 DEF PassengersOf
    <3>2. CASE Paying(b, s)
      BY <2>2, <3>1, <3>2 DEF Paying
    <3>3. ASSUME NEW u \in Tasks, ToBePriced(b, s, u) PROVE ToBePriced(b, s, u)'
      BY <2>2, <3>1, <3>3 DEF ToBePriced
    <3>4. CASE Waiting(b, s)
      BY <2>2, <3>1, <3>3, <3>4 DEF Waiting
    <3>5. QED
      BY <1>1, <1>3, <3>2, <3>4
  <2>5. QED
    BY <2>3, <2>4
<1>4. ASSUME s \in Aboard(b), UNCHANGED <<from, fare>>, Paying(b, s) PROVE Paying(b, s)'
  <2>1. fare[s] \in Asks /\ askStatus[fare[s]] # "NONE" /\ from[s] \in Asks /\ askStatus[from[s]] # "NONE"
    BY <1>0, <1>4 DEF Paying, Asked
  <2>2. \A a \in Asks : askStatus[a] # "NONE" => target'[a] = target[a] /\ asker'[a] = asker[a]
    BY ZenonT(60) DEF CarpoolTypeOK, CarpoolNext, Continue, carpoolVars, CreateCarpool, JoinRead, JoinCommit, Recalculate,
           AcceptSeat, AcceptCount, PriceRead, PriceShare, PriceAverage, Crash, RejectRequest, AcceptRequest
  <2>3. QED
    BY <1>4, <2>1, <2>2 DEF Paying
<1>5. ASSUME s \in Aboard(b), UNCHANGED <<from, fare>>, Waiting(b, s),
             cutOff[b] => cutOff'[b],
             cutOff'[b] \/ \A u \in Tasks : ToBePriced(b, s, u) => ~located[b] \/ ToBePriced(b, s, u)'
      PROVE  Waiting(b, s)'
  <2>1. target[from[s]] = b /\ seats[b] # NoOne
    BY <1>0, <1>5 DEF Aboard, Asked
  <2>2. located'[b] = located[b]
    BY <2>1, SeatsStay
  <2>3. QED
    BY <1>5, <2>2 DEF Waiting
<1>6. ASSUME NEW t \in Tasks, AcceptCount(t), s \in Aboard(b) PROVE Paying(b, s)' \/ Waiting(b, s)'
  <2>1. UNCHANGED <<from, fare, cutOff>> /\ task' = [task EXCEPT ![t].step = "price"] /\ task[t].step = "count"
    BY <1>6 DEF AcceptCount
  <2>2. ASSUME NEW u \in Tasks, ToBePriced(b, s, u) PROVE ToBePriced(b, s, u)'
    BY <1>0, <2>1, <2>2 DEF ToBePriced, TaskType
  <2>3. QED
    BY <1>1, <1>4, <1>5, <1>6, <2>1, <2>2
<1>7. ASSUME NEW t \in Tasks, PriceRead(t), s \in Aboard(b) PROVE Paying(b, s)' \/ Waiting(b, s)'
  <2>1. UNCHANGED <<from, fare, cutOff>> /\ task[t].step = "price" /\ \A u \in Tasks \ {t} : task'[u] = task[u]
    BY <1>0, <1>7 DEF PriceRead
  <2>2. task[t].car = b /\ located[b]
           => task'[t] = [task[t] EXCEPT !.step = "share", !.left = Aboard(b)]
    BY <1>0, <1>7 DEF PriceRead
  <2>3. ASSUME NEW u \in Tasks, ToBePriced(b, s, u) PROVE ~located[b] \/ ToBePriced(b, s, u)'
    <3>1. CASE u = t
      <4>1. task[t].car = b /\ task[t].ask # NoOne
        BY <2>3, <3>1 DEF ToBePriced
      <4>2. CASE located[b]
        <5>1. /\ task'[t].car = b /\ task'[t].ask # NoOne
              /\ task'[t].left = Aboard(b)
          <6>1. task[t] \in TaskType
            BY <1>0
          <6>2. task'[t] = [task[t] EXCEPT !.step = "share", !.left = Aboard(b)]
            BY <2>2, <4>1, <4>2
          <6>3. QED
            BY <4>1, <6>1, <6>2 DEF TaskType
        <5>2. s \in task'[t].left
          BY <1>7, <5>1
        <5>3. ToBePriced(b, s, t)'
          BY <5>1, <5>2 DEF ToBePriced
        <5>4. QED
          BY <3>1, <5>3
      <4>3. QED
        BY <4>2
    <3>2. CASE u # t
      BY <2>1, <2>3, <3>2 DEF ToBePriced
    <3>3. QED
      BY <3>1, <3>2
  <2>4. QED
    BY <1>1, <1>4, <1>5, <1>7, <2>1, <2>3
<1>8. ASSUME NEW t \in Tasks, Crash(t), s \in Aboard(b) PROVE Paying(b, s)' \/ Waiting(b, s)'
  <2>1. UNCHANGED <<from, fare>> /\ (\A u \in Tasks \ {t} : task'[u] = task[u])
        /\ cutOff' = [d \in Carpools |-> cutOff[d] \/ (d = task[t].car /\ task[t].ask # NoOne)]
    BY <1>0, <1>8 DEF Crash
  <2>2. ASSUME NEW u \in Tasks, ToBePriced(b, s, u), ~cutOff'[b] PROVE ToBePriced(b, s, u)'
    BY <2>1, <2>2 DEF ToBePriced
  <2>3. cutOff[b] => cutOff'[b]
    BY <1>0, <2>1
  <2>4. QED
    BY <1>1, <1>4, <1>5, <1>8, <2>1, <2>2, <2>3
<1>9. ASSUME NEW t \in Tasks,
             \/ \E c \in Clients, d \in Carpools : JoinRead(t, c, d)
             \/ \E a \in Asks : AcceptRequest(t, a) \/ JoinCommit(t, a)
             \/ \E d \in Carpools : Recalculate(t, d)
             \/ PriceAverage(t),
             s \in Aboard(b)
      PROVE  Paying(b, s)' \/ Waiting(b, s)'
  <2>1. UNCHANGED <<from, fare, cutOff>> /\ (\A u \in Tasks \ {t} : task'[u] = task[u])
        /\ task[t].step \notin {"count", "price", "share"}
    <3>1. UNCHANGED <<from, fare, cutOff>> /\ \A u \in Tasks \ {t} : task'[u] = task[u]
      BY <1>0, <1>9 DEF JoinRead, AcceptRequest, JoinCommit, Recalculate, PriceAverage
    <3>2. task[t] = NoTask \/ task[t].step \in {"join", "average"}
      BY <1>9 DEF JoinRead, AcceptRequest, JoinCommit, Recalculate, PriceAverage
    <3>3. QED
      BY <3>1, <3>2 DEF NoTask
  <2>2. ASSUME NEW u \in Tasks, ToBePriced(b, s, u) PROVE ToBePriced(b, s, u)'
    BY <2>1, <2>2 DEF ToBePriced, Remembers, RemembersIn
  <2>3. QED
    BY <1>1, <1>4, <1>5, <1>9, <2>1, <2>2
<1>10. ASSUME UNCHANGED <<from, fare, cutOff, task>>, s \in Aboard(b) PROVE Paying(b, s)' \/ Waiting(b, s)'
  BY <1>1, <1>4, <1>5, <1>10 DEF ToBePriced
<1>11. (\E t \in Tasks, n \in Seats : AcceptSeat(t, n)) \/ s \in Aboard(b)
  BY NextAboard
<1>12. QED
  BY <1>2, <1>3, <1>6, <1>7, <1>8, <1>9, <1>10, <1>11
  DEF CarpoolNext, Continue, carpoolVars, CreateCarpool, RejectRequest

\* However acceptances, recalculations and crashes interleave, a passenger pays for a
\* trip of his own on that carpool, or an acceptance under way will price him, or one
\* was cut off, or the carpool has no coordinates to price by.
THEOREM CarpoolPricesSettle == CarpoolSpec => []PricesSettle
<1>1. CarpoolInit => PricesSettle
  BY DEF CarpoolInit, PricesSettle, Aboard
<1>2. CarpoolInv /\ PricesSettle /\ [CarpoolNext]_carpoolVars => PricesSettle'
  BY NextPricesSettle
<1>3. QED
  BY <1>1, <1>2, CarpoolTypeCorrect, PTL DEF CarpoolSpec, CarpoolInv

----------------------------------------------------------------------------
\* Two rows of one client on one carpool.
Together(s, u) ==
    /\ from[s] # NoOne /\ from[u] # NoOne
    /\ target[from[s]] = target[from[u]]
    /\ asker[from[s]] = asker[from[u]]

\* Once priced, they carry the same share.
OneShare ==
    \A s, u \in Seats : Together(s, u) /\ fare[s] # NoOne /\ fare[u] # NoOne => fare[s] = fare[u]

\* A step writes a share to all rows of a client or to none.
LEMMA NextOneShare ==
    ASSUME CarpoolInv, OneShare, [CarpoolNext]_carpoolVars
    PROVE  OneShare'
<1> USE DEF CarpoolInv, carVars, askVars, seatVars
<1> SUFFICES ASSUME NEW s \in Seats, NEW u \in Seats,
                    Together(s, u)', fare'[s] # NoOne, fare'[u] # NoOne
             PROVE  fare'[s] = fare'[u]
  BY DEF OneShare, Together
<1>0. Together(s, u) /\ fare[s] # NoOne /\ fare[u] # NoOne => fare[s] = fare[u]
  BY DEF OneShare
<1>1. CASE UNCHANGED <<asker, target, from, fare>>
  BY <1>0, <1>1 DEF Together
<1>2. ASSUME NEW t \in Tasks, NEW a \in Asks, JoinCommit(t, a) PROVE fare'[s] = fare'[u]
  <2>1. UNCHANGED <<from, fare>> /\ askStatus[a] = "NONE"
    BY <1>2 DEF JoinCommit
  <2>2. from[s] # a /\ from[u] # a /\ from[s] # NoOne /\ from[u] # NoOne
    BY <2>1 DEF Asked, Together
  <2>3. from[s] \in Asks /\ from[u] \in Asks
    BY <2>2 DEF CarpoolTypeOK
  <2>4. Together(s, u)
    BY <1>2, <2>1, <2>2, <2>3 DEF JoinCommit, Together, CarpoolTypeOK
  <2>5. QED
    BY <1>0, <2>1, <2>4
<1>3. ASSUME NEW t \in Tasks, NEW n \in Seats, AcceptSeat(t, n) PROVE fare'[s] = fare'[u]
  <2>1. UNCHANGED <<asker, target, fare>> /\ from[n] = NoOne /\ fare[n] = NoOne
    BY <1>3 DEF AcceptSeat, Asked
  <2>2. s # n /\ u # n
    BY <2>1
  <2>3. from'[s] = from[s] /\ from'[u] = from[u]
    BY <1>3, <2>2 DEF AcceptSeat, CarpoolTypeOK
  <2>4. QED
    BY <1>0, <2>1, <2>3 DEF Together
<1>4. ASSUME NEW t \in Tasks, NEW n \in Seats, PriceShare(t, n) PROVE fare'[s] = fare'[u]
  <2>1. /\ UNCHANGED <<asker, target, from>>
        /\ \A w \in Seats : fare'[w] = IF w \in PassengersOf(n) THEN from[n] ELSE fare[w]
    BY <1>4 DEF PriceShare
  <2>2. Together(s, u)
    BY <2>1 DEF Together
  <2>3. s \in PassengersOf(n) <=> u \in PassengersOf(n)
    BY <2>2 DEF Together, PassengersOf
  <2>4. QED
    BY <1>0, <2>1, <2>2, <2>3
<1>5. QED
  BY <1>1, <1>2, <1>3, <1>4
  DEF CarpoolNext, Continue, carpoolVars, CreateCarpool, JoinRead, Recalculate, AcceptCount, PriceRead,
      PriceAverage, Crash, RejectRequest, AcceptRequest

\* The count and the rows give the two answers, and every row of a passenger the one share.
LEMMA AnswersAgree == CarpoolInv /\ SeatsCounted /\ OneShare => ViewsAgree
<1> SUFFICES ASSUME CarpoolInv, SeatsCounted, OneShare, NEW b \in Carpools, seats[b] # NoOne
             PROVE  /\ seats[b] - taken[b] >= seats[b] - Cardinality(Aboard(b))
                    /\ Counting(b) = {} /\ ~cutOff[b]
                          => /\ seats[b] - taken[b] = seats[b] - Cardinality(Aboard(b))
                             /\ 1 + Cardinality(Aboard(b)) = taken[b] + 1
                    /\ \A c \in Riders(b) : \A x, y \in SharesOf(b, c) :
                          x # NoOne /\ y # NoOne => x = y
  BY DEF ViewsAgree, GetCarpoolPricingSummary, GetMyCurrentPrice, GetReservationTracking
<1>1. /\ Cardinality(Aboard(b)) \in Nat /\ Cardinality(Counting(b)) \in Nat
      /\ taken[b] \in Nat /\ seats[b] \in Nat
  BY FiniteCounts, CarpoolAssumption DEF CarpoolAssumption, CarpoolInv, CarpoolTypeOK
<1>2. /\ taken[b] + Cardinality(Counting(b)) <= Cardinality(Aboard(b))
      /\ ~cutOff[b] => taken[b] + Cardinality(Counting(b)) = Cardinality(Aboard(b))
  BY DEF SeatsCounted
<1>3. Counting(b) = {} => Cardinality(Counting(b)) = 0
  BY FS_EmptySet
<1>4. ASSUME NEW c \in Riders(b), NEW x \in SharesOf(b, c), NEW y \in SharesOf(b, c),
             x # NoOne, y # NoOne
      PROVE  x = y
  BY <1>4 DEF SharesOf, Aboard, OneShare, Together
<1>5. QED
  BY <1>1, <1>2, <1>3, <1>4

\* However acceptances, recalculations and crashes interleave, what the three answers say of
\* the seats differs as far as the count lags behind the rows, and a passenger with several
\* rows is told one share.
THEOREM CarpoolViewsAgree == CarpoolSpec => []ViewsAgree
<1>1. CarpoolInit => OneShare
  BY DEF CarpoolInit, OneShare, Together
<1>2. CarpoolInv /\ OneShare /\ [CarpoolNext]_carpoolVars => OneShare'
  BY NextOneShare
<1>3. QED
  BY <1>1, <1>2, AnswersAgree, CarpoolTypeCorrect, CarpoolSeatsCounted, PTL DEF CarpoolSpec, CarpoolInv
=============================================================================
