------------------------------- MODULE Listings -------------------------------
(***************************************************************************)
(* Listings: what a reader is told of tables that others go on changing.   *)
(*                                                                         *)
(* A list is read page by page with skip and take, one request for each    *)
(* page, and its total is counted in a query of its own.  A statistic is   *)
(* several counts, each in a query of its own.  No transaction holds the   *)
(* queries together: each sees the tables as they are when it is served.   *)
(*                                                                         *)
(* A row here is the set of the figures that count it: {} when it is not   *)
(* there, or when no filter of the question lets it pass.  Rows are        *)
(* numbered in the order of the list.  A row may appear anywhere in it: an *)
(* old row that comes back to the filter keeps its createdAt.              *)
(***************************************************************************)
EXTENDS Integers, FiniteSets, FiniteSetsExt

CONSTANTS
    Last,           \* bound: places in the list
    Limit,          \* rows on a page
    MaxChanges,     \* bound: changes of rows while one question is answered
    Questions       \* bound: the questions asked, of those below

ASSUME ListingsAssumption ==
    /\ Last \in Nat
    /\ Limit \in Nat \ {0}
    /\ MaxChanges \in Nat
    \* a list, or a statistic of finitely many figures
    /\ \A q \in Questions : q.list \in BOOLEAN /\ IsFiniteSet(UNION q.kinds)

Rows == 1..Last

-------------------------------------------------------------------------------
(* The questions.  A list: when its total is counted. *)

List(total) == [list |-> TRUE, total |-> total, kinds |-> {{}, {"listed"}}]
Figures(kinds) == [list |-> FALSE, total |-> "none", kinds |-> kinds \cup {{}}]

\* In Promise.all, beside the page: whichever is served first.
GetPendingDocuments == List("beside")
\* In the order of expiresAt; the warnings it sends about each row of the page are log lines.
GetExpiringDocuments == List("beside")
GetAllDocuments == List("beside")
FindAllPayments == List("beside")
GetAllUsers == List("beside")
GetLogs == List("beside")
\* After the page: hasMore.
FindUserRides == List("after")
\* Never: the last page is the one that is not full.
GetNotifications == List("none")

\* Two groupings and a total of all rows, and a count of the approved ones about to expire.
GetDocumentStatistics ==
    LET all == {"total", "byStatus", "byType"} IN Figures({all, all \cup {"expiringSoon"}})
\* A payment has one of four statuses, and each is counted apart.
GetPaymentStats ==
    Figures({{"total", s} : s \in {"succeeded", "failed", "refunded", "pending"}})
\* So has a reservation; totalEarnings is a sum over the fulfilled ones.
GetReservationStats ==
    Figures({{"total", s} : s \in {"pending", "confirmed", "canceled"}}
            \cup {{"total", "fulfilled", "totalEarnings"}})
\* inactive is the difference of the first two; roles and today's newcomers are counted
\* like this week's.
GetUserStats ==
    Figures({{"total"} \cup a \cup n : a \in {{}, {"active"}}, n \in {{}, {"newThisWeek"}}})
\* Vehicles: all, all by status, the verified ones.
GetStatistics == Figures({{"total", "byStatus"}, {"total", "byStatus", "verified"}})
\* Rides of a period by createdAt, completed ones by completedAt: a ride may be one of the
\* completed and not of the total.
GetOverviewStats == Figures({{"total"}, {"total", "completed"}, {"completed"}})
\* Payments that succeeded: the sum, then the sum of each method.
GenerateRevenueReport == Figures({{"total", "byMethod"}})
\* Users by createdAt, active ones by lastLoginAt.
GenerateUserAnalytics == Figures({{"userStats"}, {"userStats", "activeUsers"}, {"activeUsers"}})
GetClientMetrics == Figures({{"totalRides"}, {"totalRides", "completedRides"}})

VARIABLES
    question,
    table,          \* the figures that count a row
    changes,
    page,           \* of the list: the number of the page asked for, 0 when the last came
    rowsCame,       \* the page's rows have been read
    total,          \* the total that came with it; -1: not yet
    figure,         \* of the statistic: the counts that have been read; -1: not yet
    \* history
    seen,           \* on how many pages a row was
    stayed,         \* the rows that the list has held ever since it was first asked for
    left, entered,  \* how many times a row left the list or entered it since
    slipped,        \* entered after this page's total was counted, before its rows were read
    drift           \* changes between the first and the last count of the statistic

walkVars == <<page, rowsCame, total, seen, stayed, left, entered, slipped>>
figureVars == <<figure, drift>>
listingsVars == <<question, table, changes, walkVars, figureVars>>

FigureNames == UNION question.kinds
Listed == {i \in Rows : "listed" \in table[i]}
Counting(f) == {i \in Rows : f \in table[i]}

ListingsTypeOK ==
    /\ question \in Questions
    /\ table \in [Rows -> question.kinds]
    /\ changes \in 0..MaxChanges
    /\ page \in Nat
    /\ rowsCame \in BOOLEAN
    /\ total \in -1..Last
    /\ figure \in [FigureNames -> -1..Last]
    /\ seen \in [Rows -> Nat]
    /\ stayed \subseteq Listed
    /\ left + entered <= changes
    /\ slipped <= entered
    /\ drift \in 0..changes

ListingsInit ==
    /\ question \in Questions
    /\ table \in [Rows -> question.kinds]
    /\ changes = 0
    /\ page = 1
    /\ rowsCame = FALSE
    /\ total = -1
    /\ figure = [f \in FigureNames |-> -1]
    /\ seen = [i \in Rows |-> 0]
    /\ stayed = Listed
    /\ left = 0
    /\ entered = 0
    /\ slipped = 0
    /\ drift = 0

-------------------------------------------------------------------------------
(* Everybody else *)

Came(f) == figure[f] # -1
Some == \E f \in FigureNames : Came(f)
All == \A f \in FigureNames : Came(f)
Answered == IF question.list THEN page = 0 ELSE All

\* A row is made, changed or deleted, so that other figures count it.  After the answer
\* it does not matter.
Change(i, kind) ==
    LET was == "listed" \in table[i]
        is == "listed" \in kind
        one(b) == IF b THEN 1 ELSE 0
    IN
    /\ changes < MaxChanges
    /\ ~Answered
    /\ kind # table[i]
    /\ changes' = changes + 1
    /\ table' = [table EXCEPT ![i] = kind]
    /\ stayed' = IF is THEN stayed ELSE stayed \ {i}
    /\ left' = left + one(was /\ ~is)
    /\ entered' = entered + one(is /\ ~was)
    /\ slipped' = slipped + one(is /\ ~was /\ total # -1 /\ ~rowsCame)
    /\ drift' = drift + one(Some /\ ~All)
    /\ UNCHANGED <<question, page, rowsCame, total, seen, figure>>

-------------------------------------------------------------------------------
(* Reading a list *)

\* (variant) pages are numbered from one, and skipped as if from none
SkipFromNone(p) == p * Limit
Skip(p) == (p - 1) * Limit

Before(i) == {j \in Listed : j < i}
PageOf(p) == {i \in Listed : Cardinality(Before(i)) \in Skip(p)..(Skip(p) + Limit - 1)}

FindMany ==
    /\ question.list /\ page > 0
    /\ ~rowsCame
    /\ rowsCame' = TRUE
    /\ seen' = [i \in Rows |-> IF i \in PageOf(page) THEN seen[i] + 1 ELSE seen[i]]
    \* without a total, a page that is full promises another
    /\ total' = IF question.total = "none"
                  THEN IF Cardinality(PageOf(page)) < Limit THEN 0 ELSE Last
                  ELSE total
    /\ UNCHANGED <<question, table, changes, page, stayed, left, entered, slipped, figureVars>>

\* (variant) one more, for the row that would be next
CountOneAhead ==
    /\ question.list /\ page > 0
    /\ question.total = "beside" \/ (question.total = "after" /\ rowsCame)
    /\ total = -1
    /\ total' = Cardinality(Listed) + 1
    /\ slipped' = 0
    /\ UNCHANGED <<question, table, changes, page, rowsCame, seen, stayed, left, entered,
                   figureVars>>

Count ==
    /\ question.list /\ page > 0
    /\ question.total = "beside" \/ (question.total = "after" /\ rowsCame)
    /\ total = -1
    /\ total' = Cardinality(Listed)
    /\ slipped' = 0
    /\ UNCHANGED <<question, table, changes, page, rowsCame, seen, stayed, left, entered,
                   figureVars>>

\* The answer, and the next question of a reader who wants every page that there is.
NextPage ==
    /\ question.list /\ page > 0
    /\ rowsCame /\ total # -1
    /\ IF page * Limit < total
         THEN /\ page' = page + 1
              /\ rowsCame' = FALSE
              /\ total' = -1
         ELSE /\ page' = 0
              /\ UNCHANGED <<rowsCame, total>>
    /\ UNCHANGED <<question, table, changes, seen, stayed, left, entered, slipped, figureVars>>

-------------------------------------------------------------------------------
(* Reading a statistic: its queries run together, in any order *)

CountFigure(f) ==
    /\ ~question.list
    /\ ~Came(f)
    /\ figure' = [figure EXCEPT ![f] = Cardinality(Counting(f))]
    /\ UNCHANGED <<question, table, changes, walkVars, drift>>

ListingsNext ==
    \/ \E i \in Rows : \E kind \in question.kinds : Change(i, kind)
    \/ FindMany \/ Count \/ NextPage
    \/ \E f \in FigureNames : CountFigure(f)

ListingsSpec == ListingsInit /\ [][ListingsNext]_listingsVars

-------------------------------------------------------------------------------
(* Properties *)

\* Of the rows that were in the list all the time, a reader of every page misses no more
\* than rows have left it meanwhile: an administrator who reviews the first page of pending
\* documents and then asks for the second misses as many as were reviewed.  A total that
\* was counted before the last page was read can hide one more for each row that came
\* between; counted after the page, it cannot.  And no row is there twice but for rows that
\* came.
PagesExplained ==
    question.list /\ Answered =>
        /\ Cardinality({i \in stayed : seen[i] = 0}) <=
               left + (IF question.total = "beside" THEN slipped ELSE 0)
        /\ MapThenSumSet(LAMBDA i : IF seen[i] > 1 THEN seen[i] - 1 ELSE 0, Rows) <= entered

\* figures of which no row has two
Apart(fs) == \A kind \in question.kinds : Cardinality(kind \cap fs) <= 1
\* figures that only rows of f have, and that every row of f has
Within(fs, f) == \A kind \in question.kinds : kind \cap fs # {} => f \in kind
Cover(fs, f) == \A kind \in question.kinds : f \in kind => kind \cap fs # {}
SumOf(fs) == MapThenSumSet(LAMBDA f : figure[f], fs)

\* The parts of a statistic add up to its whole, and a part is no more than the whole (so
\* that "inactive", the difference, is not negative), but for rows that changed between
\* its counts, each of which can put them apart by one.
FiguresExplained ==
    ~question.list /\ Answered =>
        \A f \in FigureNames, fs \in SUBSET FigureNames :
            Apart(fs) /\ Within(fs, f) =>
                /\ SumOf(fs) <= figure[f] + drift
                /\ Cover(fs, f) => figure[f] <= SumOf(fs) + drift

\* What a reader is told differs from what is in the tables by what changed while they read.
AnswersExplained == PagesExplained /\ FiguresExplained

================================================================================
