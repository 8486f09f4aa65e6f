----------------------------- MODULE AccountsProofs -----------------------------
(***************************************************************************)
(* Theorems about Accounts, for every number of users, codes and requests  *)
(* in progress: types, how many codes there are and work, how often one    *)
(* changes a password, and that the newest one works.                      *)
(***************************************************************************)
EXTENDS Accounts, FiniteSetTheorems, TLAPS

\* What a request in progress can remember.
Memory == {m \in [step : TaskSteps, user : Users \cup {NoOne}, code : Codes \cup {NoOne}, seen : Nat] :
              /\ m.step # "idle" => m.user \in Users
              /\ m.step = "reset" => m.code \in Codes}

LEMMA NoTaskIsMemory == NoTask \in Memory
BY DEF Memory, NoTask, TaskSteps

LEMMA TypeOfTasks == AccountsTypeOK => task \in [Tasks -> Memory]
BY DEF AccountsTypeOK, Memory

LEMMA InitType == AccountsInit => AccountsTypeOK
<1> SUFFICES ASSUME AccountsInit PROVE AccountsTypeOK
  OBVIOUS
<1>1. task \in [Tasks -> Memory] /\ \A t \in Tasks : task[t].step = "idle"
  BY NoTaskIsMemory DEF AccountsInit, NoTask
<1>2. session \in [Users -> 0..Life]
  BY AccountsAssumption DEF AccountsInit, AccountsAssumption
<1> QED
  BY <1>1, <1>2 DEF AccountsInit, AccountsTypeOK, Memory

\* How a step moves one request in progress.
LEMMA BeginMoves ==
    ASSUME AccountsTypeOK, NEW t \in Tasks, NEW u \in Users,
           NEW step \in {"register", "login", "refresh", "counted"}, Begin(t, step, u)
    PROVE  /\ task' \in [Tasks -> Memory]
           /\ task[t].step = "idle"
           /\ \E m \in Memory : /\ task' = [task EXCEPT ![t] = m]
                               /\ m.step = step /\ m.user = u /\ m.seen = 0
<1> DEFINE m == [NoTask EXCEPT !.step = step, !.user = u]
<1>1. m \in Memory
  BY DEF Memory, NoTask, TaskSteps
<1>2. m.step = step /\ m.user = u /\ m.seen = 0
  BY DEF NoTask
<1>3. task' = [task EXCEPT ![t] = m] /\ task[t].step = "idle"
  BY DEF Begin
<1> HIDE DEF m
<1> QED
  BY <1>1, <1>2, <1>3, TypeOfTasks

LEMMA EndMoves ==
    ASSUME AccountsTypeOK, NEW t \in Tasks, End(t)
    PROVE  task' \in [Tasks -> Memory] /\ task' = [task EXCEPT ![t] = NoTask]
BY NoTaskIsMemory, TypeOfTasks DEF End

LEMMA InvalidateMoves ==
    ASSUME AccountsTypeOK, NEW t \in Tasks, ForgotInvalidate(t)
    PROVE  task' \in [Tasks -> Memory]
<1>1. task[t] \in Memory /\ task[t].step = "counted"
  BY TypeOfTasks DEF ForgotInvalidate
<1>2. [task[t] EXCEPT !.step = "invalidated"] \in Memory
  BY <1>1 DEF Memory, TaskSteps
<1>3. task' = [task EXCEPT ![t] = [task[t] EXCEPT !.step = "invalidated"]]
  BY TypeOfTasks DEF ForgotInvalidate
<1> QED
  BY <1>2, <1>3, TypeOfTasks

LEMMA ResetMoves ==
    ASSUME AccountsTypeOK, NEW t \in Tasks, NEW c \in Codes, ResetRead(t, c)
    PROVE  task' \in [Tasks -> Memory]
<1>1. codeUser[c] \in Users /\ attempts[c] \in Nat
  BY DEF ResetRead, AccountsTypeOK
<1>2. [step |-> "reset", user |-> codeUser[c], code |-> c, seen |-> attempts[c]] \in Memory
  BY <1>1 DEF Memory, TaskSteps
<1> QED
  BY <1>2, TypeOfTasks DEF ResetRead

\* A new code's id is one that no row has had.
LEMMA NewCodeUnborn ==
    ASSUME NEW c \in Codes, Unborn(c)
    PROVE  NewCode \in Codes /\ codeUser[NewCode] = NoOne /\ ~used[NewCode]
<1>1. NewCode \in Codes /\ Unborn(NewCode)
  BY DEF NewCode
<1> QED
  BY <1>1 DEF Unborn

\* A step keeps the type of every table.
LEMMA NextType == AccountsTypeOK /\ [AccountsNext]_accountsVars => AccountsTypeOK'
<1> SUFFICES ASSUME AccountsTypeOK, [AccountsNext]_accountsVars PROVE AccountsTypeOK'
  OBVIOUS
<1> DEFINE TablesOK == /\ account \in [Users -> {"NONE", "ACTIVE", "INACTIVE", "DELETED"}]
                       /\ session \in [Users -> 0..Life]
                       /\ codeUser \in [Codes -> Users \cup {NoOne}]
                       /\ fresh \in [Codes -> BOOLEAN]
                       /\ used \in [Codes -> BOOLEAN]
                       /\ attempts \in [Codes -> Nat]
                       /\ uses \in [Codes -> Nat]
                       /\ newest \in [Users -> Codes \cup {NoOne}]
                       /\ cut \in [Users -> BOOLEAN]
<1>0. TablesOK /\ task \in [Tasks -> Memory] /\ Life \in Nat \ {0}
  BY TypeOfTasks, AccountsAssumption DEF AccountsTypeOK, AccountsAssumption
<1> DEFINE Kept == TablesOK' /\ task' \in [Tasks -> Memory]
<1>1. ASSUME NEW t \in Tasks, NEW u \in Users,
             RegisterRead(t, u) \/ LoginRead(t, u) \/ RefreshRead(t, u) \/ ForgotCount(t, u)
      PROVE  Kept
  BY <1>0, <1>1, BeginMoves DEF RegisterRead, LoginRead, RefreshRead, ForgotCount, codeVars
<1>2. ASSUME NEW t \in Tasks, NEW c \in Codes, ResetRead(t, c) PROVE Kept
  BY <1>0, <1>2, ResetMoves DEF ResetRead, codeVars
<1>3. ASSUME NEW t \in Tasks, RegisterCommit(t) \/ LoginCommit(t) \/ GenerateTokens(t) PROVE Kept
  <2>1. task' \in [Tasks -> Memory]
    BY <1>3, EndMoves DEF RegisterCommit, LoginCommit, GenerateTokens
  <2>2. session' \in [Users -> 0..Life] /\ account' \in [Users -> {"NONE", "ACTIVE", "INACTIVE", "DELETED"}]
    BY <1>0, <1>3 DEF RegisterCommit, LoginCommit, GenerateTokens
  <2>3. UNCHANGED codeVars
    BY <1>3 DEF RegisterCommit, LoginCommit, GenerateTokens
  <2> QED BY <1>0, <2>1, <2>2, <2>3 DEF codeVars
<1>4. ASSUME NEW t \in Tasks, ForgotInvalidate(t) PROVE Kept
  <2>1. used' \in [Codes -> BOOLEAN]
    BY <1>4 DEF ForgotInvalidate
  <2> QED BY <1>0, <1>4, <2>1, InvalidateMoves DEF ForgotInvalidate
<1>5. ASSUME NEW t \in Tasks, ForgotCreate(t) PROVE Kept
  <2>1. NewCode \in Codes /\ task[t].user \in Users
    BY <1>0, <1>5, NewCodeUnborn DEF ForgotCreate, Memory
  <2>2. /\ codeUser' \in [Codes -> Users \cup {NoOne}]
        /\ fresh' \in [Codes -> BOOLEAN]
        /\ newest' \in [Users -> Codes \cup {NoOne}]
        /\ cut' \in [Users -> BOOLEAN]
    BY <1>0, <1>5, <2>1 DEF ForgotCreate
  <2> QED BY <1>0, <1>5, <2>2, EndMoves DEF ForgotCreate
<1>6. ASSUME NEW t \in Tasks, ResetCommit(t) PROVE Kept
  <2>1. task[t].code \in Codes /\ task[t].seen \in Nat
    BY <1>0, <1>6 DEF ResetCommit, Memory
  <2>2. /\ attempts' \in [Codes -> Nat]
        /\ used' \in [Codes -> BOOLEAN]
        /\ uses' \in [Codes -> Nat]
    BY <1>0, <1>6, <2>1 DEF ResetCommit
  <2> QED BY <1>0, <1>6, <2>2, EndMoves DEF ResetCommit
<1>7. ASSUME NEW t \in Tasks, Fail(t) PROVE Kept
  <2>1. cut' \in [Users -> BOOLEAN]
    BY <1>0, <1>7 DEF Fail
  <2> QED BY <1>0, <1>7, <2>1, EndMoves DEF Fail
<1>8. ASSUME NEW u \in Users, NEW active \in {"ACTIVE", "INACTIVE"}, UpdateUserStatus(u, active)
      PROVE  Kept
  BY <1>0, <1>8 DEF UpdateUserStatus, codeVars
<1>9. ASSUME NEW us \in SUBSET Users, NEW active \in {"ACTIVE", "INACTIVE"}, BulkUserAction(us, active)
      PROVE  Kept
  BY <1>0, <1>9 DEF BulkUserAction, codeVars
<1>10. ASSUME NEW u \in Users, DeleteUser(u) PROVE Kept
  <2>1. /\ codeUser' \in [Codes -> Users \cup {NoOne}]
        /\ used' \in [Codes -> BOOLEAN]
        /\ account' \in [Users -> {"NONE", "ACTIVE", "INACTIVE", "DELETED"}]
    BY <1>0, <1>10 DEF DeleteUser
  <2> QED BY <1>0, <1>10, <2>1 DEF DeleteUser
<1>11. ASSUME NEW u \in Users, TokenAges(u) PROVE Kept
  <2>1. session[u] - 1 \in 0..Life
    BY <1>0, <1>11 DEF TokenAges
  <2> QED BY <1>0, <1>11, <2>1 DEF TokenAges, codeVars
<1>12. ASSUME NEW c \in Codes, CodeAges(c) PROVE Kept
  BY <1>0, <1>12 DEF CodeAges
<1>13. ASSUME UNCHANGED accountsVars PROVE Kept
  <2>1. UNCHANGED <<account, session, task>> /\ UNCHANGED codeVars
    BY <1>13 DEF accountsVars
  <2>2. /\ account' = account /\ session' = session /\ task' = task
        /\ codeUser' = codeUser /\ fresh' = fresh /\ used' = used /\ attempts' = attempts
        /\ uses' = uses /\ newest' = newest /\ cut' = cut
    BY <2>1 DEF codeVars
  <2> QED BY <1>0, <2>2
<1> HIDE DEF TablesOK, Kept
<1>14. Kept
  BY <1>1, <1>2, <1>3, <1>4, <1>5, <1>6, <1>7, <1>8, <1>9, <1>10, <1>11, <1>12, <1>13
  DEF AccountsNext, TaskStep
<1> QED
  BY <1>14 DEF AccountsTypeOK, Memory, Kept, TablesOK

\* Every table and every request in progress keeps its type, for any number of them.
THEOREM AccountsTypeCorrect == AccountsSpec => []AccountsTypeOK
BY InitType, NextType, PTL DEF AccountsSpec

-------------------------------------------------------------------------------
(* How many codes there are, and how many work *)

LEMMA SetsFinite ==
    ASSUME NEW u \in Users
    PROVE  /\ Recent(u) \subseteq Codes /\ IsFiniteSet(Recent(u)) /\ Cardinality(Recent(u)) \in Nat
           /\ Live(u) \subseteq Codes /\ IsFiniteSet(Live(u)) /\ Cardinality(Live(u)) \in Nat
           /\ Counted(u) \subseteq Tasks /\ IsFiniteSet(Counted(u)) /\ Cardinality(Counted(u)) \in Nat
           /\ Cardinality(Counted(u)) <= Cardinality(Tasks)
           /\ Invalidated(u) \subseteq Tasks /\ IsFiniteSet(Invalidated(u))
           /\ Cardinality(Invalidated(u)) \in Nat
           /\ Cardinality(Invalidated(u)) <= Cardinality(Tasks)
           /\ Cardinality(Tasks) \in Nat
<1>1. IsFiniteSet(Codes) /\ IsFiniteSet(Tasks)
  BY AccountsAssumption DEF AccountsAssumption
<1>2. /\ Recent(u) \subseteq Codes /\ Live(u) \subseteq Codes
      /\ Counted(u) \subseteq Tasks /\ Invalidated(u) \subseteq Tasks
  BY DEF Recent, Live, Counted, Invalidated
<1> QED
  BY <1>1, <1>2, FS_Subset, FS_CardinalityType

LEMMA AddAtMostOne ==
    ASSUME NEW S, NEW c, IsFiniteSet(S)
    PROVE  /\ IsFiniteSet(S \cup {c})
           /\ Cardinality(S \cup {c}) \in Nat
           /\ Cardinality(S \cup {c}) <= Cardinality(S) + 1
<1>1. IsFiniteSet(S \cup {c}) /\ Cardinality(S) \in Nat
  BY FS_AddElement, FS_CardinalityType
<1>2. Cardinality(S \cup {c}) = IF c \in S THEN Cardinality(S) ELSE Cardinality(S) + 1
  BY FS_AddElement
<1> QED
  BY <1>1, <1>2

\* A request that ends, or begins something else than a new code, is none of those that
\* counted.
LEMMA OtherMoves ==
    ASSUME AccountsTypeOK, NEW t \in Tasks, NEW m \in Memory, NEW u \in Users,
           task' = [task EXCEPT ![t] = m], m.step \notin {"counted", "invalidated"}
    PROVE  Counted(u)' = Counted(u) \ {t} /\ Invalidated(u)' = Invalidated(u) \ {t}
<1>1. task \in [Tasks -> Memory]
  BY TypeOfTasks
<1>2. task'[t] = m /\ \A s \in Tasks \ {t} : task'[s] = task[s]
  BY <1>1
<1> QED
  BY <1>2 DEF Counted, Invalidated

LEMMA EndedMoves ==
    ASSUME AccountsTypeOK, NEW t \in Tasks, NEW u \in Users, End(t)
    PROVE  Counted(u)' = Counted(u) \ {t} /\ Invalidated(u)' = Invalidated(u) \ {t}
BY EndMoves, OtherMoves, NoTaskIsMemory DEF NoTask

\* No more codes of u are counted or work, and no more requests are about to make one.
Shrinks(u) ==
    /\ Recent(u)' \subseteq Recent(u) /\ Counted(u)' \subseteq Counted(u)
    /\ Live(u)' \subseteq Live(u) /\ Invalidated(u)' \subseteq Invalidated(u)

LEMMA CountMoves ==
    ASSUME AccountsTypeOK, NEW t \in Tasks, NEW v \in Users, NEW u \in Users, ForgotCount(t, v)
    PROVE  \/ Shrinks(u)
           \/ /\ Cardinality(Recent(u)) < RateLimit
              /\ Recent(u)' = Recent(u) /\ Live(u)' = Live(u) /\ Invalidated(u)' = Invalidated(u)
<1>1. PICK m \in Memory : task' = [task EXCEPT ![t] = m] /\ m.step = "counted" /\ m.user = v
  BY BeginMoves DEF ForgotCount
<1>2. task[t].step = "idle"
  BY DEF ForgotCount, Begin
<1>3. task'[t] = m /\ \A s \in Tasks \ {t} : task'[s] = task[s]
  BY <1>1, TypeOfTasks
<1>4. Invalidated(u)' = Invalidated(u)
  BY <1>1, <1>2, <1>3 DEF Invalidated
<1>5. Recent(u)' = Recent(u) /\ Live(u)' = Live(u)
  BY DEF ForgotCount, codeVars, Recent, Live
<1>6. CASE u = v
  BY <1>4, <1>5, <1>6 DEF ForgotCount
<1>7. CASE u # v
  <2>1. Counted(u)' = Counted(u)
    BY <1>1, <1>2, <1>3, <1>7 DEF Counted
  <2> QED BY <2>1, <1>4, <1>5 DEF Shrinks
<1> QED BY <1>6, <1>7

LEMMA InvalidateEmpties ==
    ASSUME AccountsTypeOK, NEW t \in Tasks, NEW u \in Users, ForgotInvalidate(t)
    PROVE  /\ Recent(u)' = Recent(u) /\ Counted(u)' = Counted(u)
           /\ \/ Live(u)' = {}
              \/ Live(u)' \subseteq Live(u) /\ Invalidated(u)' = Invalidated(u)
<1>1. task \in [Tasks -> Memory] /\ task[t].step = "counted"
  BY TypeOfTasks DEF ForgotInvalidate
<1>2. /\ task'[t].step = "invalidated" /\ task'[t].user = task[t].user
      /\ \A s \in Tasks \ {t} : task'[s] = task[s]
  BY <1>1 DEF ForgotInvalidate, Memory
<1>3. Counted(u)' = Counted(u)
  BY <1>1, <1>2 DEF Counted
<1>4. Recent(u)' = Recent(u)
  BY DEF ForgotInvalidate, Recent
<1>5. CASE u = task[t].user
  <2>1. \A c \in Codes : codeUser'[c] = u => used'[c]
    BY <1>5 DEF ForgotInvalidate
  <2> QED BY <2>1, <1>3, <1>4 DEF Live
<1>6. CASE u # task[t].user
  <2>1. Invalidated(u)' = Invalidated(u)
    BY <1>1, <1>2, <1>6 DEF Invalidated
  <2>2. Live(u)' \subseteq Live(u)
    BY DEF ForgotInvalidate, Live
  <2> QED BY <2>1, <2>2, <1>3, <1>4
<1> QED BY <1>5, <1>6

LEMMA CreateAdds ==
    ASSUME AccountsTypeOK, NEW t \in Tasks, NEW u \in Users, ForgotCreate(t)
    PROVE  \/ Shrinks(u)
           \/ /\ t \in Invalidated(u) /\ t \in Counted(u)
              /\ Counted(u)' = Counted(u) \ {t} /\ Invalidated(u)' = Invalidated(u) \ {t}
              /\ \E c \in Codes : /\ Recent(u)' \subseteq Recent(u) \cup {c}
                                  /\ Live(u)' \subseteq Live(u) \cup {c}
<1>1. NewCode \in Codes /\ codeUser[NewCode] = NoOne
  BY NewCodeUnborn DEF ForgotCreate
<1>2. Counted(u)' = Counted(u) \ {t} /\ Invalidated(u)' = Invalidated(u) \ {t}
  BY EndedMoves DEF ForgotCreate
<1>3. task[t].step = "invalidated"
  BY DEF ForgotCreate
<1>4. /\ \A c \in Codes \ {NewCode} : codeUser'[c] = codeUser[c] /\ fresh'[c] = fresh[c]
      /\ used' = used /\ codeUser'[NewCode] = task[t].user
  BY <1>1 DEF ForgotCreate, AccountsTypeOK
<1>5. CASE u = task[t].user
  <2>1. t \in Invalidated(u) /\ t \in Counted(u)
    BY <1>3, <1>5 DEF Invalidated, Counted
  <2>2. Recent(u)' \subseteq Recent(u) \cup {NewCode} /\ Live(u)' \subseteq Live(u) \cup {NewCode}
    BY <1>4 DEF Recent, Live
  <2> QED BY <1>1, <1>2, <2>1, <2>2
<1>6. CASE u # task[t].user
  <2>1. Recent(u)' \subseteq Recent(u) /\ Live(u)' \subseteq Live(u)
    BY <1>1, <1>4, <1>6 DEF Recent, Live
  <2> QED BY <1>2, <2>1 DEF Shrinks
<1> QED BY <1>5, <1>6

\* What a step does to the codes of u and to the requests that are about to make one.
LEMMA NextCodes ==
    ASSUME AccountsTypeOK, [AccountsNext]_accountsVars, NEW u \in Users
    PROVE  \/ Shrinks(u)
           \/ /\ Cardinality(Recent(u)) < RateLimit
              /\ Recent(u)' = Recent(u) /\ Live(u)' = Live(u) /\ Invalidated(u)' = Invalidated(u)
           \/ Recent(u)' = Recent(u) /\ Counted(u)' = Counted(u) /\ Live(u)' = {}
           \/ \E t \in Tasks :
              /\ t \in Invalidated(u) /\ t \in Counted(u)
              /\ Counted(u)' = Counted(u) \ {t} /\ Invalidated(u)' = Invalidated(u) \ {t}
              /\ \E c \in Codes : /\ Recent(u)' \subseteq Recent(u) \cup {c}
                                  /\ Live(u)' \subseteq Live(u) \cup {c}
<1>1. ASSUME NEW t \in Tasks, NEW v \in Users, RegisterRead(t, v) \/ LoginRead(t, v) \/ RefreshRead(t, v)
      PROVE  Shrinks(u)
  <2>1. PICK m \in Memory : /\ task' = [task EXCEPT ![t] = m]
                            /\ m.step \in {"register", "login", "refresh"}
    BY <1>1, BeginMoves DEF RegisterRead, LoginRead, RefreshRead
  <2>2. Counted(u)' \subseteq Counted(u) /\ Invalidated(u)' \subseteq Invalidated(u)
    BY <2>1, OtherMoves
  <2>3. UNCHANGED codeVars
    BY <1>1 DEF RegisterRead, LoginRead, RefreshRead
  <2> QED BY <2>2, <2>3 DEF Shrinks, Recent, Live, codeVars
<1>2. ASSUME NEW t \in Tasks, NEW c \in Codes, ResetRead(t, c) PROVE Shrinks(u)
  <2>1. /\ [step |-> "reset", user |-> codeUser[c], code |-> c, seen |-> attempts[c]] \in Memory
        /\ task' = [task EXCEPT ![t] = [step |-> "reset", user |-> codeUser[c], code |-> c,
                                        seen |-> attempts[c]]]
    BY <1>2 DEF ResetRead, AccountsTypeOK, Memory, TaskSteps
  <2>2. Counted(u)' \subseteq Counted(u) /\ Invalidated(u)' \subseteq Invalidated(u)
    BY <2>1, OtherMoves
  <2>3. UNCHANGED codeVars
    BY <1>2 DEF ResetRead
  <2> QED BY <2>2, <2>3 DEF Shrinks, Recent, Live, codeVars
<1>3. ASSUME NEW t \in Tasks, \/ RegisterCommit(t) \/ LoginCommit(t) \/ GenerateTokens(t)
                             \/ Fail(t) \/ ResetCommit(t)
      PROVE  Shrinks(u)
  <2>1. End(t) /\ UNCHANGED <<codeUser, fresh>>
    BY <1>3 DEF RegisterCommit, LoginCommit, GenerateTokens, Fail, ResetCommit, codeVars
  <2>2. Counted(u)' \subseteq Counted(u) /\ Invalidated(u)' \subseteq Invalidated(u)
    BY <2>1, EndedMoves
  <2>3. \A c \in Codes : used[c] => used'[c]
    BY <1>3 DEF RegisterCommit, LoginCommit, GenerateTokens, Fail, ResetCommit, codeVars, AccountsTypeOK
  <2> QED BY <2>1, <2>2, <2>3 DEF Shrinks, Recent, Live
<1>4. ASSUME \/ \E v \in Users, active \in {"ACTIVE", "INACTIVE"} : UpdateUserStatus(v, active)
             \/ \E us \in SUBSET Users, active \in {"ACTIVE", "INACTIVE"} : BulkUserAction(us, active)
             \/ \E v \in Users : TokenAges(v)
      PROVE  Shrinks(u)
  <2>1. UNCHANGED codeVars /\ UNCHANGED task
    BY <1>4 DEF UpdateUserStatus, BulkUserAction, TokenAges
  <2> QED BY <2>1 DEF Shrinks, Recent, Live, Counted, Invalidated, codeVars
<1>5. ASSUME \/ \E v \in Users : DeleteUser(v)
             \/ \E c \in Codes : CodeAges(c)
      PROVE  Shrinks(u)
  <2>1. /\ \A c \in Codes : codeUser'[c] \in {codeUser[c], NoOne}
        /\ \A c \in Codes : fresh'[c] => fresh[c]
        /\ \A c \in Codes : used[c] => used'[c]
        /\ UNCHANGED task
    BY <1>5 DEF DeleteUser, CodeAges, AccountsTypeOK
  <2>2. u # NoOne
    BY AccountsAssumption DEF AccountsAssumption
  <2> QED BY <2>1, <2>2 DEF Shrinks, Recent, Live, Counted, Invalidated
<1>6. CASE UNCHANGED accountsVars
  <2>1. UNCHANGED codeVars /\ UNCHANGED task
    BY <1>6 DEF accountsVars
  <2> QED BY <2>1 DEF Shrinks, Recent, Live, Counted, Invalidated, codeVars
<1>7. ASSUME NEW t \in Tasks, ForgotInvalidate(t)
      PROVE  \/ Shrinks(u)
             \/ Recent(u)' = Recent(u) /\ Counted(u)' = Counted(u) /\ Live(u)' = {}
  BY <1>7, InvalidateEmpties DEF Shrinks
<1> HIDE DEF Shrinks
<1> QED
  BY <1>1, <1>2, <1>3, <1>4, <1>5, <1>6, <1>7, CountMoves, CreateAdds DEF AccountsNext, TaskStep

\* However requests for a code overlap, fail or are cut off, there are fewer codes beyond
\* the rate limit than requests, and no more codes that work than requests.
THEOREM AccountsCodesBounded == AccountsSpec => []CodesBounded
<1>1. AccountsInit => CodesBounded
  <2>1. ASSUME AccountsInit, NEW u \in Users
        PROVE  Recent(u) = {} /\ Counted(u) = {} /\ Live(u) = {} /\ Invalidated(u) = {}
    BY <2>1, AccountsAssumption
    DEF AccountsInit, AccountsAssumption, Recent, Counted, Live, Invalidated, NoTask
  <2>2. Cardinality(Tasks) \in Nat \ {0} /\ RateLimit \in Nat \ {0}
    BY AccountsAssumption, FS_EmptySet, FS_CardinalityType DEF AccountsAssumption
  <2> QED BY <2>1, <2>2, FS_EmptySet DEF CodesBounded, RateLimited, LiveCodesBounded
<1>2. AccountsTypeOK /\ CodesBounded /\ [AccountsNext]_accountsVars => CodesBounded'
  <2>1. ASSUME AccountsTypeOK, CodesBounded, [AccountsNext]_accountsVars, NEW u \in Users
        PROVE  /\ Cardinality(Recent(u)') + Cardinality(Counted(u)') < RateLimit + Cardinality(Tasks)
               /\ Cardinality(Live(u)') + Cardinality(Invalidated(u)') <= Cardinality(Tasks)
    <3>1. /\ Cardinality(Recent(u)) + Cardinality(Counted(u)) < RateLimit + Cardinality(Tasks)
          /\ Cardinality(Live(u)) + Cardinality(Invalidated(u)) <= Cardinality(Tasks)
      BY <2>1 DEF CodesBounded, RateLimited, LiveCodesBounded
    <3>2. /\ Cardinality(Recent(u)) \in Nat /\ Cardinality(Live(u)) \in Nat
          /\ Cardinality(Counted(u)) \in Nat /\ Cardinality(Invalidated(u)) \in Nat
          /\ Cardinality(Tasks) \in Nat /\ RateLimit \in Nat
      BY SetsFinite, AccountsAssumption DEF AccountsAssumption
    <3>3. /\ Recent(u)' \subseteq Codes /\ Live(u)' \subseteq Codes
          /\ Counted(u)' \subseteq Tasks /\ Invalidated(u)' \subseteq Tasks
      BY DEF Recent, Live, Counted, Invalidated
    <3>4. /\ IsFiniteSet(Recent(u)') /\ IsFiniteSet(Live(u)')
          /\ IsFiniteSet(Counted(u)') /\ IsFiniteSet(Invalidated(u)')
          /\ Cardinality(Recent(u)') \in Nat /\ Cardinality(Live(u)') \in Nat
          /\ Cardinality(Counted(u)') \in Nat /\ Cardinality(Invalidated(u)') \in Nat
          /\ Cardinality(Counted(u)') <= Cardinality(Tasks)
          /\ Cardinality(Invalidated(u)') <= Cardinality(Tasks)
      BY <3>3, AccountsAssumption, FS_Subset, FS_CardinalityType DEF AccountsAssumption
    <3>5. CASE Shrinks(u)
      <4>1. /\ Cardinality(Recent(u)') <= Cardinality(Recent(u))
            /\ Cardinality(Live(u)') <= Cardinality(Live(u))
            /\ Cardinality(Counted(u)') <= Cardinality(Counted(u))
            /\ Cardinality(Invalidated(u)') <= Cardinality(Invalidated(u))
        BY <3>5, SetsFinite, FS_Subset DEF Shrinks
      <4> QED BY <3>1, <3>2, <3>4, <4>1
    <3>6. CASE /\ Cardinality(Recent(u)) < RateLimit
               /\ Recent(u)' = Recent(u) /\ Live(u)' = Live(u) /\ Invalidated(u)' = Invalidated(u)
      BY <3>1, <3>2, <3>4, <3>6
    <3>7. CASE Recent(u)' = Recent(u) /\ Counted(u)' = Counted(u) /\ Live(u)' = {}
      BY <3>1, <3>2, <3>4, <3>7, FS_EmptySet
    <3>8. ASSUME NEW t \in Tasks, NEW c \in Codes,
                 t \in Invalidated(u), t \in Counted(u),
                 Counted(u)' = Counted(u) \ {t}, Invalidated(u)' = Invalidated(u) \ {t},
                 Recent(u)' \subseteq Recent(u) \cup {c}, Live(u)' \subseteq Live(u) \cup {c}
          PROVE  /\ Cardinality(Recent(u)') + Cardinality(Counted(u)') < RateLimit + Cardinality(Tasks)
                 /\ Cardinality(Live(u)') + Cardinality(Invalidated(u)') <= Cardinality(Tasks)
      <4>1. /\ Cardinality(Counted(u)') = Cardinality(Counted(u)) - 1
            /\ Cardinality(Invalidated(u)') = Cardinality(Invalidated(u)) - 1
        BY ZenonT(60), <3>8, SetsFinite, FS_RemoveElement
      <4>2. /\ IsFiniteSet(Recent(u) \cup {c}) /\ IsFiniteSet(Live(u) \cup {c})
            /\ Cardinality(Recent(u) \cup {c}) <= Cardinality(Recent(u)) + 1
            /\ Cardinality(Live(u) \cup {c}) <= Cardinality(Live(u)) + 1
            /\ Cardinality(Recent(u) \cup {c}) \in Nat /\ Cardinality(Live(u) \cup {c}) \in Nat
        BY SetsFinite, AddAtMostOne
      <4>3. /\ Cardinality(Recent(u)') <= Cardinality(Recent(u) \cup {c})
            /\ Cardinality(Live(u)') <= Cardinality(Live(u) \cup {c})
        BY <3>8, <4>2, FS_Subset
      <4> QED BY <3>1, <3>2, <3>4, <4>1, <4>2, <4>3
    <3> QED BY <2>1, <3>5, <3>6, <3>7, <3>8, NextCodes
  <2> QED BY <2>1 DEF CodesBounded, RateLimited, LiveCodesBounded
<1> QED
  BY <1>1, <1>2, AccountsTypeCorrect, PTL DEF AccountsSpec

-------------------------------------------------------------------------------
(* How often a code changes a password *)

\* What a request remembers of attempts is 0: it read a code that was unused.
NoneSeen == \A t \in Tasks : task[t].seen = 0

LEMMA HoldersFinite ==
    ASSUME NEW c \in Codes
    PROVE  /\ IsFiniteSet(Holders(c)) /\ Cardinality(Holders(c)) \in Nat
           /\ Cardinality(Holders(c)) <= Cardinality(Tasks) /\ Cardinality(Tasks) \in Nat
<1>1. IsFiniteSet(Tasks) /\ Holders(c) \subseteq Tasks
  BY AccountsAssumption DEF AccountsAssumption, Holders
<1> QED
  BY <1>1, FS_Subset, FS_CardinalityType

\* A request that ends or begins, but for a reset, holds no code.
LEMMA HoldersMove ==
    ASSUME AccountsTypeOK, NEW t \in Tasks, NEW m \in Memory, NEW c \in Codes,
           task' = [task EXCEPT ![t] = m], m.step # "reset"
    PROVE  Holders(c)' = Holders(c) \ {t}
<1>1. task'[t] = m /\ \A s \in Tasks \ {t} : task'[s] = task[s]
  BY TypeOfTasks
<1> QED
  BY <1>1 DEF Holders

CodeInv == AccountsTypeOK /\ NoneSeen /\ CodeUses

\* What a step does to one code and to the requests that hold it.
LEMMA NextUses ==
    ASSUME CodeInv, [AccountsNext]_accountsVars, NEW c \in Codes
    PROVE  /\ used[c] => used'[c]
           /\ \/ /\ uses'[c] = uses[c] /\ attempts'[c] = attempts[c]
                 /\ Holders(c)' \subseteq Holders(c) \/ ~used[c]
              \/ /\ \E t \in Holders(c) : Holders(c)' = Holders(c) \ {t}
                 /\ uses'[c] = uses[c] + 1 /\ attempts'[c] = 1 /\ used'[c]
<1> DEFINE Same == /\ used[c] => used'[c]
                   /\ uses'[c] = uses[c] /\ attempts'[c] = attempts[c]
           Fewer == Holders(c)' \subseteq Holders(c)
<1>0. AccountsTypeOK
  BY DEF CodeInv
<1>1. ASSUME NEW t \in Tasks, NEW v \in Users,
             RegisterRead(t, v) \/ LoginRead(t, v) \/ RefreshRead(t, v) \/ ForgotCount(t, v)
      PROVE  Same /\ Fewer
  <2>1. PICK m \in Memory : task' = [task EXCEPT ![t] = m] /\ m.step # "reset"
    BY <1>0, <1>1, BeginMoves DEF RegisterRead, LoginRead, RefreshRead, ForgotCount
  <2>2. Fewer
    BY <1>0, <2>1, HoldersMove
  <2> QED BY <1>1, <2>2 DEF RegisterRead, LoginRead, RefreshRead, ForgotCount, codeVars
<1>2. ASSUME NEW t \in Tasks, NEW d \in Codes, ResetRead(t, d) PROVE Same /\ (Fewer \/ ~used[c])
  <2>1. Same
    BY <1>2 DEF ResetRead, codeVars
  <2>2. CASE c = d
    BY <1>2, <2>1, <2>2 DEF ResetRead
  <2>3. CASE c # d
    <3>1. task'[t].code = d /\ \A s \in Tasks \ {t} : task'[s] = task[s]
      BY <1>0, <1>2, TypeOfTasks DEF ResetRead
    <3> QED BY <2>1, <2>3, <3>1 DEF Holders
  <2> QED BY <2>2, <2>3
<1>3. ASSUME NEW t \in Tasks, \/ RegisterCommit(t) \/ LoginCommit(t) \/ GenerateTokens(t)
                             \/ Fail(t) \/ ForgotCreate(t)
      PROVE  Same /\ Fewer
  <2>1. End(t) /\ UNCHANGED <<used, uses, attempts>>
    BY <1>3 DEF RegisterCommit, LoginCommit, GenerateTokens, Fail, ForgotCreate, codeVars
  <2>2. Fewer
    BY <1>0, <2>1, EndMoves, NoTaskIsMemory, HoldersMove DEF NoTask
  <2> QED BY <2>1, <2>2
<1>4. ASSUME NEW t \in Tasks, ForgotInvalidate(t) PROVE Same /\ Fewer
  <2>1. task'[t].step = "invalidated" /\ \A s \in Tasks \ {t} : task'[s] = task[s]
    BY <1>0, <1>4, TypeOfTasks DEF ForgotInvalidate, Memory
  <2>2. Fewer
    BY <2>1 DEF Holders
  <2> QED BY <1>4, <2>2 DEF ForgotInvalidate
<1>5. ASSUME NEW t \in Tasks, ResetCommit(t)
      PROVE  \/ Same /\ Fewer
             \/ /\ \E s \in Holders(c) : Holders(c)' = Holders(c) \ {s}
                /\ uses'[c] = uses[c] + 1 /\ attempts'[c] = 1 /\ used'[c]
  <2>1. task[t].seen = 0 /\ task[t].step = "reset"
    BY <1>5 DEF CodeInv, NoneSeen, ResetCommit
  <2>2. Holders(c)' = Holders(c) \ {t}
    BY <1>0, <1>5, EndMoves, NoTaskIsMemory, HoldersMove DEF NoTask, ResetCommit
  <2>3. CASE task[t].code = c
    <3>1. t \in Holders(c)
      BY <2>1, <2>3 DEF Holders
    <3>2. uses'[c] = uses[c] + 1 /\ attempts'[c] = 1 /\ used'[c]
      BY <1>0, <1>5, <2>1, <2>3 DEF ResetCommit, AccountsTypeOK
    <3> QED BY <2>2, <3>1, <3>2
  <2>4. CASE task[t].code # c
    <3>1. Same
      BY <1>0, <1>5, <2>4 DEF ResetCommit, AccountsTypeOK
    <3> QED BY <2>2, <3>1
  <2> QED BY <2>3, <2>4
<1>6. ASSUME \/ \E v \in Users, active \in {"ACTIVE", "INACTIVE"} : UpdateUserStatus(v, active)
             \/ \E us \in SUBSET Users, active \in {"ACTIVE", "INACTIVE"} : BulkUserAction(us, active)
             \/ \E v \in Users : TokenAges(v) \/ DeleteUser(v)
             \/ \E d \in Codes : CodeAges(d)
      PROVE  Same /\ Fewer
  <2>1. UNCHANGED <<uses, attempts, task>> /\ (used[c] => used'[c])
    BY <1>6 DEF UpdateUserStatus, BulkUserAction, TokenAges, DeleteUser, CodeAges, codeVars
  <2> QED BY <2>1 DEF Holders
<1>7. ASSUME UNCHANGED accountsVars PROVE Same /\ Fewer
  <2>1. UNCHANGED codeVars /\ UNCHANGED task
    BY <1>7 DEF accountsVars
  <2> QED BY <2>1 DEF Holders, codeVars
<1>8. \/ Same /\ (Fewer \/ ~used[c])
      \/ /\ \E s \in Holders(c) : Holders(c)' = Holders(c) \ {s}
         /\ uses'[c] = uses[c] + 1 /\ attempts'[c] = 1 /\ used'[c]
  <2> HIDE DEF Same, Fewer
  <2> QED BY <1>1, <1>2, <1>3, <1>4, <1>5, <1>6, <1>7 DEF AccountsNext, TaskStep
<1> QED
  BY <1>8

LEMMA NextSeen ==
    ASSUME CodeInv, [AccountsNext]_accountsVars
    PROVE  NoneSeen'
<1>0. AccountsTypeOK /\ \A t \in Tasks : task[t].seen = 0
  BY DEF CodeInv, NoneSeen
<1>1. ASSUME NEW t \in Tasks, NEW v \in Users,
             RegisterRead(t, v) \/ LoginRead(t, v) \/ RefreshRead(t, v) \/ ForgotCount(t, v)
      PROVE  NoneSeen'
  <2>1. PICK m \in Memory : task' = [task EXCEPT ![t] = m] /\ m.seen = 0
    BY <1>0, <1>1, BeginMoves DEF RegisterRead, LoginRead, RefreshRead, ForgotCount
  <2> QED BY <1>0, <2>1, TypeOfTasks DEF NoneSeen
<1>2. ASSUME NEW t \in Tasks, NEW d \in Codes, ResetRead(t, d) PROVE NoneSeen'
  <2>1. attempts[d] = 0
    BY <1>2 DEF CodeInv, CodeUses, ResetRead
  <2> QED BY <1>0, <1>2, <2>1, TypeOfTasks DEF NoneSeen, ResetRead
<1>3. ASSUME NEW t \in Tasks, End(t) PROVE NoneSeen'
  BY <1>0, <1>3, EndMoves, TypeOfTasks DEF NoneSeen, NoTask
<1>4. ASSUME NEW t \in Tasks, ForgotInvalidate(t) PROVE NoneSeen'
  <2>1. task'[t].seen = task[t].seen /\ \A s \in Tasks \ {t} : task'[s] = task[s]
    BY <1>0, <1>4, TypeOfTasks DEF ForgotInvalidate, Memory
  <2> QED BY <1>0, <2>1 DEF NoneSeen
<1>5. ASSUME UNCHANGED task PROVE NoneSeen'
  BY <1>0, <1>5 DEF NoneSeen
<1>6. ASSUME NEW t \in Tasks, TaskStep(t) PROVE NoneSeen'
  BY <1>3, <1>4, <1>6 DEF TaskStep, RegisterCommit, LoginCommit, GenerateTokens, ForgotCreate,
                          ResetCommit, Fail
<1> QED
  BY <1>1, <1>2, <1>5, <1>6
  DEF AccountsNext, UpdateUserStatus, BulkUserAction, DeleteUser, TokenAges, CodeAges, accountsVars

\* However resets overlap, a code changes a password no more often than there are requests,
\* none reads it afterwards, and its attempts never reach the limit.
THEOREM AccountsCodeUses == AccountsSpec => []CodeUses
<1>1. AccountsInit => CodeInv
  <2>1. ASSUME AccountsInit, NEW c \in Codes
        PROVE  Holders(c) = {} /\ uses[c] = 0 /\ attempts[c] = 0 /\ ~used[c]
    BY <2>1 DEF AccountsInit, Holders, NoTask
  <2>2. Cardinality(Tasks) \in Nat
    BY AccountsAssumption, FS_CardinalityType DEF AccountsAssumption
  <2>3. ASSUME AccountsInit PROVE CodeUses
    BY <2>1, <2>2, <2>3, FS_EmptySet DEF CodeUses
  <2> QED BY <2>3, InitType DEF CodeInv, NoneSeen, AccountsInit, NoTask
<1>2. CodeInv /\ [AccountsNext]_accountsVars => CodeInv'
  <2>1. ASSUME CodeInv, [AccountsNext]_accountsVars, NEW c \in Codes
        PROVE  /\ uses'[c] + Cardinality(Holders(c)') <= Cardinality(Tasks)
               /\ uses'[c] > 0 => used'[c]
               /\ attempts'[c] <= 1
               /\ ~used'[c] => attempts'[c] = 0
    <3>1. /\ uses[c] + Cardinality(Holders(c)) <= Cardinality(Tasks)
          /\ uses[c] > 0 => used[c]
          /\ attempts[c] <= 1
          /\ ~used[c] => attempts[c] = 0
          /\ uses[c] \in Nat /\ attempts[c] \in Nat
      BY <2>1 DEF CodeInv, CodeUses, AccountsTypeOK
    <3>2. /\ IsFiniteSet(Holders(c)) /\ Cardinality(Holders(c)) \in Nat /\ Cardinality(Tasks) \in Nat
      BY HoldersFinite
    <3>3. Holders(c)' \subseteq Tasks
      BY DEF Holders
    <3>4. Cardinality(Holders(c)') \in Nat /\ Cardinality(Holders(c)') <= Cardinality(Tasks)
      BY <3>3, AccountsAssumption, FS_Subset, FS_CardinalityType DEF AccountsAssumption
    <3>5. CASE /\ uses'[c] = uses[c] /\ attempts'[c] = attempts[c] /\ (used[c] => used'[c])
               /\ Holders(c)' \subseteq Holders(c) \/ ~used[c]
      <4>1. CASE Holders(c)' \subseteq Holders(c)
        <5>1. Cardinality(Holders(c)') <= Cardinality(Holders(c))
          BY <3>2, <4>1, FS_Subset
        <5> QED BY <3>1, <3>2, <3>4, <3>5, <5>1
      <4>2. CASE ~used[c]
        BY <3>1, <3>2, <3>4, <3>5, <4>2
      <4> QED BY <3>5, <4>1, <4>2
    <3>6. ASSUME NEW t \in Holders(c), Holders(c)' = Holders(c) \ {t},
                 uses'[c] = uses[c] + 1, attempts'[c] = 1, used'[c]
          PROVE  /\ uses'[c] + Cardinality(Holders(c)') <= Cardinality(Tasks)
                 /\ uses'[c] > 0 => used'[c]
                 /\ attempts'[c] <= 1
                 /\ ~used'[c] => attempts'[c] = 0
      <4>1. Cardinality(Holders(c)') = Cardinality(Holders(c)) - 1
        BY <3>2, <3>6, FS_RemoveElement
      <4> QED BY <3>1, <3>2, <3>6, <4>1
    <3> QED BY <2>1, <3>5, <3>6, NextUses
  <2>2. ASSUME CodeInv, [AccountsNext]_accountsVars PROVE CodeUses'
    BY <2>1, <2>2 DEF CodeUses
  <2> QED BY <2>2, NextSeen, NextType DEF CodeInv
<1>3. CodeInv => CodeUses
  BY DEF CodeInv
<1> QED
  BY <1>1, <1>2, <1>3, PTL DEF AccountsSpec

-------------------------------------------------------------------------------
(* That the newest code works *)

\* No request other than the one that makes a code leaves those that are about to, unless
\* it was cut off.
LEMMA NextInvalidated ==
    ASSUME AccountsTypeOK, [AccountsNext]_accountsVars, NEW u \in Users,
           Invalidated(u) # {}, ~\E t \in Tasks : ForgotCreate(t)
    PROVE  Invalidated(u)' # {} \/ cut'[u]
<1>1. PICK s \in Tasks : task[s].step = "invalidated" /\ task[s].user = u
  BY DEF Invalidated
<1>2. task \in [Tasks -> Memory]
  BY TypeOfTasks
<1>3. CASE task'[s] = task[s]
  BY <1>1, <1>3 DEF Invalidated
<1>4. ASSUME NEW t \in Tasks, NEW v \in Users,
             RegisterRead(t, v) \/ LoginRead(t, v) \/ RefreshRead(t, v) \/ ForgotCount(t, v)
      PROVE  task'[s] = task[s]
  BY <1>1, <1>2, <1>4, BeginMoves DEF RegisterRead, LoginRead, RefreshRead, ForgotCount
<1>5. ASSUME NEW t \in Tasks, NEW c \in Codes, ResetRead(t, c) PROVE task'[s] = task[s]
  BY <1>1, <1>2, <1>5 DEF ResetRead
<1>6. ASSUME NEW t \in Tasks, RegisterCommit(t) \/ LoginCommit(t) \/ GenerateTokens(t) \/ ResetCommit(t)
      PROVE  task'[s] = task[s]
  <2>1. t # s /\ End(t)
    BY <1>1, <1>6 DEF RegisterCommit, LoginCommit, GenerateTokens, ResetCommit
  <2> QED BY <1>2, <2>1 DEF End
<1>7. ASSUME NEW t \in Tasks, ForgotInvalidate(t) PROVE task'[s] = task[s]
  BY <1>1, <1>2, <1>7 DEF ForgotInvalidate
<1>8. ASSUME NEW t \in Tasks, Fail(t) PROVE task'[s] = task[s] \/ cut'[u]
  <2>1. CASE t = s
    BY <1>1, <1>8, <2>1 DEF Fail, AccountsTypeOK
  <2>2. CASE t # s
    BY <1>2, <1>8, <2>2 DEF Fail, End
  <2> QED BY <2>1, <2>2
<1>9. \/ task' = task
      \/ \E t \in Tasks, v \in Users :
            RegisterRead(t, v) \/ LoginRead(t, v) \/ RefreshRead(t, v) \/ ForgotCount(t, v)
      \/ \E t \in Tasks, c \in Codes : ResetRead(t, c)
      \/ \E t \in Tasks : RegisterCommit(t) \/ LoginCommit(t) \/ GenerateTokens(t) \/ ResetCommit(t)
      \/ \E t \in Tasks : ForgotInvalidate(t)
      \/ \E t \in Tasks : Fail(t)
  BY DEF AccountsNext, TaskStep, UpdateUserStatus, BulkUserAction, DeleteUser, TokenAges, CodeAges,
         accountsVars
<1>10. task'[s] = task[s] \/ cut'[u]
  BY <1>4, <1>5, <1>6, <1>7, <1>8, <1>9
<1> QED BY <1>3, <1>10

\* What a step that makes no code does to the newest one of u.
LEMMA NextNewest ==
    ASSUME AccountsTypeOK, [AccountsNext]_accountsVars, NEW u \in Users, NEW c \in Codes,
           ~\E t \in Tasks : ForgotCreate(t)
    PROVE  /\ newest' = newest
           /\ codeUser'[c] = u => codeUser[c] = u
           /\ uses[c] > 0 => uses'[c] > 0
           /\ cut[u] => cut'[u]
           /\ codeUser'[c] = u /\ used'[c] => used[c] \/ uses'[c] > 0 \/ Invalidated(u)' # {}
<1> DEFINE Same == /\ newest' = newest /\ codeUser'[c] \in {codeUser[c], NoOne}
                   /\ uses'[c] = uses[c] /\ (cut[u] => cut'[u])
<1>0. u # NoOne /\ uses[c] \in Nat /\ task \in [Tasks -> Memory]
  BY AccountsAssumption, TypeOfTasks DEF AccountsAssumption, AccountsTypeOK
<1>1. ASSUME UNCHANGED codeVars PROVE Same /\ used' = used
  BY <1>1 DEF codeVars
<1>2. ASSUME NEW t \in Tasks, ForgotInvalidate(t)
      PROVE  Same /\ (codeUser'[c] = u /\ used'[c] => used[c] \/ Invalidated(u)' # {})
  <2>1. Same
    BY <1>2 DEF ForgotInvalidate
  <2>2. CASE u = task[t].user
    <3>1. task'[t].step = "invalidated" /\ task'[t].user = u
      BY <1>0, <1>2, <2>2 DEF ForgotInvalidate, Memory
    <3> QED BY <2>1, <3>1 DEF Invalidated
  <2>3. CASE u # task[t].user
    BY <1>2, <2>1, <2>3 DEF ForgotInvalidate
  <2> QED BY <2>1, <2>2, <2>3
<1>3. ASSUME NEW t \in Tasks, ResetCommit(t)
      PROVE  /\ newest' = newest /\ codeUser' = codeUser /\ cut' = cut
             /\ (uses[c] > 0 => uses'[c] > 0) /\ (used'[c] => used[c] \/ uses'[c] > 0)
  <2>1. CASE c = task[t].code
    BY <1>0, <1>3, <2>1 DEF ResetCommit, AccountsTypeOK
  <2>2. CASE c # task[t].code
    BY <1>0, <1>3, <2>2 DEF ResetCommit, AccountsTypeOK
  <2> QED BY <2>1, <2>2
<1>4. ASSUME NEW t \in Tasks, Fail(t) PROVE Same /\ used' = used
  <2>1. cut[u] => cut'[u]
    BY <1>4 DEF Fail, AccountsTypeOK
  <2> QED BY <1>4, <2>1 DEF Fail
<1>5. ASSUME NEW v \in Users, DeleteUser(v)
      PROVE  Same /\ (used'[c] /\ codeUser'[c] = u => used[c])
  BY <1>0, <1>5 DEF DeleteUser
<1>6. ASSUME NEW d \in Codes, CodeAges(d) PROVE Same /\ used' = used
  BY <1>6 DEF CodeAges
<1>7. \/ UNCHANGED codeVars
      \/ \E t \in Tasks : ForgotInvalidate(t) \/ ResetCommit(t) \/ Fail(t)
      \/ \E v \in Users : DeleteUser(v)
      \/ \E d \in Codes : CodeAges(d)
  BY DEF AccountsNext, TaskStep, RegisterRead, LoginRead, RefreshRead, ForgotCount, ResetRead,
         RegisterCommit, LoginCommit, GenerateTokens, UpdateUserStatus, BulkUserAction, TokenAges,
         accountsVars
<1>8. CASE \E t \in Tasks : ForgotInvalidate(t)
  BY <1>0, <1>2, <1>8
<1>9. CASE \E t \in Tasks : ResetCommit(t)
  BY <1>3, <1>9
<1>10. CASE \E v \in Users : DeleteUser(v)
  BY <1>0, <1>5, <1>10
<1>11. CASE Same /\ used' = used
  BY <1>0, <1>11
<1> QED
  BY <1>1, <1>4, <1>6, <1>7, <1>8, <1>9, <1>10, <1>11

\* However requests for codes and resets overlap, the newest code of a user works until it
\* changed the password, but for a request that invalidated it and has yet to create its
\* successor, or was cut off there.
THEOREM AccountsNewestCodeUsable == AccountsSpec => []NewestCodeUsable
<1>1. AccountsInit => NewestCodeUsable
  BY DEF AccountsInit, NewestCodeUsable
<1>2. AccountsTypeOK /\ NewestCodeUsable /\ [AccountsNext]_accountsVars => NewestCodeUsable'
  <2>1. SUFFICES ASSUME AccountsTypeOK, NewestCodeUsable, [AccountsNext]_accountsVars, NEW u \in Users,
                        newest'[u] # NoOne, codeUser'[newest'[u]] = u, used'[newest'[u]]
                 PROVE  uses'[newest'[u]] > 0 \/ Invalidated(u)' # {} \/ cut'[u]
    BY DEF NewestCodeUsable
  <2>2. ASSUME NEW t \in Tasks, ForgotCreate(t) PROVE FALSE \/ Invalidated(u)' # {} \/ uses'[newest'[u]] > 0 \/ cut'[u]
    <3>1. NewCode \in Codes /\ ~used[NewCode] /\ codeUser[NewCode] = NoOne
      BY <2>2, NewCodeUnborn DEF ForgotCreate
    <3>2. newest[u] \in Codes \cup {NoOne} /\ newest' = [newest EXCEPT ![task[t].user] = NewCode]
          /\ codeUser' = [codeUser EXCEPT ![NewCode] = task[t].user] /\ used' = used /\ uses' = uses
          /\ cut' = [cut EXCEPT ![task[t].user] = FALSE] /\ task[t].step = "invalidated"
      BY <2>1, <2>2 DEF ForgotCreate, AccountsTypeOK
    <3>3. u # task[t].user
      BY <2>1, <3>1, <3>2 DEF AccountsTypeOK
    <3>4. newest'[u] = newest[u] /\ newest[u] # NewCode
      BY <2>1, <3>1, <3>2, <3>3 DEF AccountsTypeOK
    <3>5. uses[newest[u]] > 0 \/ Invalidated(u) # {} \/ cut[u]
      BY <2>1, <3>2, <3>4 DEF NewestCodeUsable, AccountsTypeOK
    <3>6. Invalidated(u)' = Invalidated(u)
      BY <2>1, <2>2, <3>3, EndedMoves DEF ForgotCreate, Invalidated
    <3> QED BY <2>1, <3>2, <3>3, <3>4, <3>5, <3>6 DEF AccountsTypeOK
  <2>3. CASE ~\E t \in Tasks : ForgotCreate(t)
    <3>0. newest'[u] \in Codes
      BY <2>1, NextType DEF AccountsTypeOK
    <3>1. newest' = newest /\ newest[u] \in Codes
      BY <2>1, <2>3, <3>0, NextNewest
    <3>2. CASE used[newest[u]]
      <4>1. uses[newest[u]] > 0 \/ Invalidated(u) # {} \/ cut[u]
        BY <2>1, <2>3, <3>1, <3>2, NextNewest DEF NewestCodeUsable
      <4> QED BY <2>1, <2>3, <3>1, <4>1, NextNewest, NextInvalidated
    <3>3. CASE ~used[newest[u]]
      BY <2>1, <2>3, <3>1, <3>3, NextNewest
    <3> QED BY <3>2, <3>3
  <2> QED BY <2>2, <2>3
<1> QED
  BY <1>1, <1>2, AccountsTypeCorrect, PTL DEF AccountsSpec

================================================================================
