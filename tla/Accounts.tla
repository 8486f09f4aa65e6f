------------------------------- MODULE Accounts -------------------------------
(***************************************************************************)
(* Accounts: AuthService, and what UserManagementService and UsersService  *)
(* do to the rows it reads.                                                *)
(*                                                                         *)
(* A request reads a row, decides, and writes later.  forgotPassword is    *)
(* four queries of their own (count, invalidate, create, then the e-mail); *)
(* resetPassword reads a code and writes it by id in a transaction; login  *)
(* and refreshTokens read that the account is active and sign tokens       *)
(* afterwards.  A user here is an identity, an e-mail with its telephone:  *)
(* both are UNIQUE in the database.  Passwords are left out: a login with  *)
(* a wrong one changes nothing.                                            *)
(***************************************************************************)
EXTENDS Naturals, FiniteSets

CONSTANTS
    Users,          \* identities that can register
    Codes,          \* ids that rows of password_reset_codes can get
    Tasks,          \* requests in progress together
    RateLimit,      \* the most codes of the last fifteen minutes; the code's is 3
    MaxTries,       \* attempts after which a code is refused; the code's is 3
    Life,           \* age at which a refresh token dies; the code's is seven days
    NoOne           \* NULL

ASSUME AccountsAssumption ==
    /\ NoOne \notin Users \cup Codes
    /\ RateLimit \in Nat \ {0}
    /\ MaxTries \in Nat \ {0}
    /\ Life \in Nat \ {0}
    /\ IsFiniteSet(Codes)
    /\ IsFiniteSet(Tasks)
    /\ Tasks # {}

VARIABLES
    account,        \* table users: "NONE", "DELETED": no row; else isActive
    session,        \* what the user's newest refresh token has left; 0: none is valid
    \* table password_reset_codes
    codeUser,       \* NoOne: no row
    fresh,          \* made less than fifteen minutes ago: counted, and not expired
    used,
    attempts,
    \* history: how often a code changed a password; the newest code of a user; whether
    \* the last invalidation of a user's codes was cut off before it made a new one
    uses,
    newest,
    cut,
    task            \* the requests in progress: where they are and what they remember

codeVars == <<codeUser, fresh, used, attempts, uses, newest, cut>>
accountsVars == <<account, session, codeVars, task>>

TaskSteps == {"idle", "register", "login", "refresh", "counted", "invalidated", "reset"}
NoTask == [step |-> "idle", user |-> NoOne, code |-> NoOne, seen |-> 0]

AccountsTypeOK ==
    /\ account \in [Users -> {"NONE", "ACTIVE", "INACTIVE", "DELETED"}]
    /\ session \in [Users -> 0..Life]
    /\ codeUser \in [Codes -> Users \cup {NoOne}]
    /\ fresh \in [Codes -> BOOLEAN]
    /\ used \in [Codes -> BOOLEAN]
    /\ attempts \in [Codes -> Nat]
    /\ uses \in [Codes -> Nat]
    /\ newest \in [Users -> Codes \cup {NoOne}]
    /\ cut \in [Users -> BOOLEAN]
    /\ task \in [Tasks -> [step : TaskSteps, user : Users \cup {NoOne},
                           code : Codes \cup {NoOne}, seen : Nat]]
    /\ \A t \in Tasks : task[t].step # "idle" => task[t].user \in Users
    /\ \A t \in Tasks : task[t].step = "reset" => task[t].code \in Codes

Exists(u) == account[u] \in {"ACTIVE", "INACTIVE"}

\* count of codes with createdAt in the last fifteen minutes
Recent(u) == {c \in Codes : codeUser[c] = u /\ fresh[c]}
\* the codes that would still change the user's password
Live(u) == {c \in Codes : codeUser[c] = u /\ ~used[c]}

\* which id a new row gets does not matter
Unborn(c) == codeUser[c] = NoOne /\ ~used[c]
NewCode == CHOOSE c \in Codes : Unborn(c)

AccountsInit ==
    /\ account = [u \in Users |-> "NONE"]
    /\ session = [u \in Users |-> 0]
    /\ codeUser = [c \in Codes |-> NoOne]
    /\ fresh = [c \in Codes |-> FALSE]
    /\ used = [c \in Codes |-> FALSE]
    /\ attempts = [c \in Codes |-> 0]
    /\ uses = [c \in Codes |-> 0]
    /\ newest = [u \in Users |-> NoOne]
    /\ cut = [u \in Users |-> FALSE]
    /\ task = [t \in Tasks |-> NoTask]

Begin(t, step, u) ==
    /\ task[t].step = "idle"
    /\ task' = [task EXCEPT ![t] = [NoTask EXCEPT !.step = step, !.user = u]]
End(t) == task' = [task EXCEPT ![t] = NoTask]

-------------------------------------------------------------------------------
(* Registering, logging in, refreshing tokens *)

\* Nobody has the e-mail or the telephone; the password is hashed meanwhile.
RegisterRead(t, u) ==
    /\ account[u] = "NONE"
    /\ Begin(t, "register", u)
    /\ UNCHANGED <<account, session, codeVars>>

\* (variant) the second registration adds to the first
RegisterCommitTwice(t) ==
    /\ task[t].step = "register"
    /\ account' = [account EXCEPT ![task[t].user] = "ACTIVE"]
    /\ session' = [session EXCEPT ![task[t].user] = @ + Life]
    /\ End(t)
    /\ UNCHANGED codeVars

\* One transaction for the user and its profile; the unique columns refuse the second of
\* two registrations, which the controller answers as a conflict.
RegisterCommit(t) ==
    LET u == task[t].user IN
    /\ task[t].step = "register"
    /\ account[u] = "NONE"
    /\ account' = [account EXCEPT ![u] = "ACTIVE"]
    /\ session' = [session EXCEPT ![u] = Life]
    /\ End(t)
    /\ UNCHANGED codeVars

LoginRead(t, u) ==
    /\ account[u] = "ACTIVE"
    /\ Begin(t, "login", u)
    /\ UNCHANGED <<account, session, codeVars>>

\* lastLoginAt is written by id, which a deleted account refuses; isActive is not read again.
LoginCommit(t) ==
    /\ task[t].step = "login"
    /\ Exists(task[t].user)
    /\ session' = [session EXCEPT ![task[t].user] = Life]
    /\ End(t)
    /\ UNCHANGED <<account, codeVars>>

\* (variant) the token alone is trusted
RefreshReadAnyAccount(t, u) ==
    /\ session[u] > 0
    /\ Begin(t, "refresh", u)
    /\ UNCHANGED <<account, session, codeVars>>

RefreshRead(t, u) ==
    /\ session[u] > 0
    /\ account[u] = "ACTIVE"
    /\ Begin(t, "refresh", u)
    /\ UNCHANGED <<account, session, codeVars>>

\* New tokens, signed without another look at the account.
GenerateTokens(t) ==
    /\ task[t].step = "refresh"
    /\ session' = [session EXCEPT ![task[t].user] = Life]
    /\ End(t)
    /\ UNCHANGED <<account, codeVars>>

-------------------------------------------------------------------------------
(* Forgotten passwords *)

\* Any account with this e-mail, deactivated ones too, below the rate limit.
ForgotCount(t, u) ==
    /\ Exists(u)
    /\ Cardinality(Recent(u)) < RateLimit
    /\ Begin(t, "counted", u)
    /\ UNCHANGED <<account, session, codeVars>>

\* (variant) only expired codes are invalidated
ForgotInvalidateExpired(t) ==
    /\ task[t].step = "counted"
    /\ used' = [c \in Codes |-> used[c] \/ (codeUser[c] = task[t].user /\ ~fresh[c])]
    /\ task' = [task EXCEPT ![t].step = "invalidated"]
    /\ UNCHANGED <<account, session, codeUser, fresh, attempts, uses, newest, cut>>

ForgotInvalidate(t) ==
    /\ task[t].step = "counted"
    /\ used' = [c \in Codes |-> used[c] \/ codeUser[c] = task[t].user]
    /\ task' = [task EXCEPT ![t].step = "invalidated"]
    /\ UNCHANGED <<account, session, codeUser, fresh, attempts, uses, newest, cut>>

\* (variant) the earlier codes are invalidated after the new one is made
ForgotCreateFirst(t) ==
    LET u == task[t].user IN
    /\ task[t].step = "invalidated"
    /\ Exists(u)
    /\ \E c \in Codes : Unborn(c)
    /\ codeUser' = [codeUser EXCEPT ![NewCode] = u]
    /\ fresh' = [fresh EXCEPT ![NewCode] = TRUE]
    /\ newest' = [newest EXCEPT ![u] = NewCode]
    /\ used' = [c \in Codes |-> used[c] \/ codeUser[c] = u \/ c = NewCode]
    /\ cut' = [cut EXCEPT ![u] = FALSE]
    /\ End(t)
    /\ UNCHANGED <<account, session, attempts, uses>>

\* The new code; the e-mail that follows changes no row.  The user's row is the target of
\* a foreign key: without it the creation fails.
ForgotCreate(t) ==
    LET u == task[t].user IN
    /\ task[t].step = "invalidated"
    /\ Exists(u)
    /\ \E c \in Codes : Unborn(c)
    /\ codeUser' = [codeUser EXCEPT ![NewCode] = u]
    /\ fresh' = [fresh EXCEPT ![NewCode] = TRUE]
    /\ newest' = [newest EXCEPT ![u] = NewCode]
    /\ cut' = [cut EXCEPT ![u] = FALSE]
    /\ End(t)
    /\ UNCHANGED <<account, session, used, attempts, uses>>

\* findFirst by the six digits: any row that is unused and not expired may have them.
\* A row with MaxTries attempts would be marked used instead; an unused row has none
\* (CodeUses), so this never happens.
ResetRead(t, c) ==
    /\ codeUser[c] # NoOne /\ ~used[c] /\ fresh[c]
    /\ attempts[c] < MaxTries
    /\ task[t].step = "idle"
    /\ task' = [task EXCEPT ![t] = [step |-> "reset", user |-> codeUser[c], code |-> c,
                                    seen |-> attempts[c]]]
    /\ UNCHANGED <<account, session, codeVars>>

\* (variant) the code is not marked used
ResetCommitReusable(t) ==
    LET c == task[t].code IN
    /\ task[t].step = "reset"
    /\ codeUser[c] # NoOne
    /\ attempts' = [attempts EXCEPT ![c] = task[t].seen + 1]
    /\ uses' = [uses EXCEPT ![c] = @ + 1]
    /\ End(t)
    /\ UNCHANGED <<account, session, codeUser, fresh, used, newest, cut>>

\* One transaction, by ids: the attempts read before plus one, the password, used.
ResetCommit(t) ==
    LET c == task[t].code IN
    /\ task[t].step = "reset"
    /\ codeUser[c] # NoOne
    /\ attempts' = [attempts EXCEPT ![c] = task[t].seen + 1]
    /\ used' = [used EXCEPT ![c] = TRUE]
    /\ uses' = [uses EXCEPT ![c] = @ + 1]
    /\ End(t)
    /\ UNCHANGED <<account, session, codeUser, fresh, newest, cut>>

-------------------------------------------------------------------------------
(* What administrators do, time, and requests that fail *)

\* updateUserStatus; its second write, the driver's status, is in Rides.
UpdateUserStatus(u, active) ==
    /\ Exists(u)
    /\ account' = [account EXCEPT ![u] = active]
    /\ UNCHANGED <<session, codeVars, task>>

\* "delete" only deactivates.
BulkUserAction(us, active) ==
    /\ account' = [u \in Users |-> IF u \in us /\ Exists(u) THEN active ELSE account[u]]
    /\ UNCHANGED <<session, codeVars, task>>

\* The row and, by cascade, its codes.  Ids of rows are not used again.
DeleteUser(u) ==
    /\ Exists(u)
    /\ account' = [account EXCEPT ![u] = "DELETED"]
    /\ codeUser' = [c \in Codes |-> IF codeUser[c] = u THEN NoOne ELSE codeUser[c]]
    /\ used' = [c \in Codes |-> used[c] \/ codeUser[c] = u]
    /\ UNCHANGED <<session, fresh, attempts, uses, newest, cut, task>>

\* Fifteen minutes after its creation a code expires and is no longer counted.
CodeAges(c) ==
    /\ codeUser[c] # NoOne /\ fresh[c]
    /\ fresh' = [fresh EXCEPT ![c] = FALSE]
    /\ UNCHANGED <<account, session, codeUser, used, attempts, uses, newest, cut, task>>

TokenAges(u) ==
    /\ session[u] > 0
    /\ session' = [session EXCEPT ![u] = @ - 1]
    /\ UNCHANGED <<account, codeVars, task>>

\* A refused write, a lost connection or a stopped process.
Fail(t) ==
    /\ task[t].step # "idle"
    /\ cut' = IF task[t].step = "invalidated" THEN [cut EXCEPT ![task[t].user] = TRUE]
                                              ELSE cut
    /\ End(t)
    /\ UNCHANGED <<account, session, codeUser, fresh, used, attempts, uses, newest>>

TaskStep(t) ==
    \/ RegisterCommit(t) \/ LoginCommit(t) \/ GenerateTokens(t)
    \/ ForgotInvalidate(t) \/ ForgotCreate(t) \/ ResetCommit(t)
    \/ Fail(t)

AccountsNext ==
    \/ \E t \in Tasks, u \in Users :
        RegisterRead(t, u) \/ LoginRead(t, u) \/ RefreshRead(t, u) \/ ForgotCount(t, u)
    \/ \E t \in Tasks, c \in Codes : ResetRead(t, c)
    \/ \E t \in Tasks : TaskStep(t)
    \/ \E u \in Users, active \in {"ACTIVE", "INACTIVE"} : UpdateUserStatus(u, active)
    \/ \E us \in SUBSET Users, active \in {"ACTIVE", "INACTIVE"} : BulkUserAction(us, active)
    \/ \E u \in Users : DeleteUser(u) \/ TokenAges(u)
    \/ \E c \in Codes : CodeAges(c)

AccountsSpec == AccountsInit /\ [][AccountsNext]_accountsVars

\* Requests end, and tokens grow old.
FairAccountsSpec ==
    /\ AccountsSpec
    /\ \A t \in Tasks : WF_accountsVars(TaskStep(t))
    /\ \A u \in Users : WF_accountsVars(TokenAges(u))

-------------------------------------------------------------------------------
(* Properties *)

Counted(u) == {t \in Tasks : task[t].step \in {"counted", "invalidated"} /\ task[t].user = u}
Invalidated(u) == {t \in Tasks : task[t].step = "invalidated" /\ task[t].user = u}
Holders(c) == {t \in Tasks : task[t].step = "reset" /\ task[t].code = c}

\* forgotPassword counts before it creates and never again: requests that overlap exceed
\* the limit, by less than their number.
RateLimited ==
    \A u \in Users :
        Cardinality(Recent(u)) + Cardinality(Counted(u)) < RateLimit + Cardinality(Tasks)

\* Each request invalidates the user's earlier codes, but not those of the requests that
\* invalidated before it and have yet to create: there are never more live codes than
\* requests, and exactly one when they do not overlap.
LiveCodesBounded ==
    \A u \in Users : Cardinality(Live(u)) + Cardinality(Invalidated(u)) <= Cardinality(Tasks)

\* What overlapping requests for a code can do: fewer codes beyond the rate limit than
\* there are requests, and no more codes that work than there are requests.
CodesBounded == RateLimited /\ LiveCodesBounded

\* However requests overlap, the newest code of a user works until it changed the
\* password, unless another request is about to create its successor or was cut off there.
NewestCodeUsable ==
    \A u \in Users :
        LET c == newest[u] IN
        c # NoOne /\ codeUser[c] = u /\ used[c] =>
            uses[c] > 0 \/ Invalidated(u) # {} \/ cut[u]

\* A code that changed a password is used up; requests that read it before may still
\* change it once each.  attempts never counts beyond one, so its limit is never met.
CodeUses ==
    \A c \in Codes :
        /\ uses[c] + Cardinality(Holders(c)) <= Cardinality(Tasks)
        /\ uses[c] > 0 => used[c]
        /\ attempts[c] <= 1
        /\ ~used[c] => attempts[c] = 0

\* refreshTokens refuses an account that is not active: deactivated for good, it has no
\* valid refresh token in the end, though a login under way may still bring a new one.
SessionsDie == \A u \in Users : <>[](account[u] # "ACTIVE") => <>[](session[u] = 0)

================================================================================
