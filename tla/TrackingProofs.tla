---------------------------- MODULE TrackingProofs ----------------------------
(***************************************************************************)
(* What Tracking keeps, whatever the drivers and however many posts are in *)
(* progress together.                                                      *)
(*                                                                         *)
(* That no driver has more posts than are in progress at all needs that    *)
(* these are finitely many, which no assumption says of the drivers: they  *)
(* come one at a time.  That a driver who went offline is not found again  *)
(* needs what his row says, and what has become of it if it is gone.       *)
(*                                                                         *)
(* Of Geography, what holds of every point and of every way: the minutes,  *)
(* the detours and the zones that are rectangles.                          *)
(***************************************************************************)
EXTENDS Tracking, Geography, SequenceTheorems, FiniteSetTheorems, TLAPS

-------------------------------------------------------------------------------
(* Sequences of posts *)

LEMMA RemoveAtProperties ==
    ASSUME NEW S, NEW s \in Seq(S), NEW i \in 1..Len(s)
    PROVE  /\ RemoveAt(s, i) \in Seq(S)
           /\ Len(RemoveAt(s, i)) = Len(s) - 1
<1>1. Len(s) \in Nat /\ \A j \in 1..Len(s) : s[j] \in S
  BY LenProperties, ElementOfSeq
<1> DEFINE before == SubSeq(s, 1, i - 1)
           after == SubSeq(s, i + 1, Len(s))
<1>2. before \in Seq(S) /\ Len(before) = i - 1
  BY <1>1, SubSeqProperties
<1>3. after \in Seq(S) /\ Len(after) = Len(s) - i
  BY <1>1, SubSeqProperties
<1>4. RemoveAt(s, i) = before \o after
  BY DEF RemoveAt
<1> HIDE DEF before, after
<1>5. before \o after \in Seq(S) /\ Len(before \o after) = Len(before) + Len(after)
  BY <1>2, <1>3, ConcatProperties
<1>6. Len(before) + Len(after) = Len(s) - 1
  BY <1>1, <1>2, <1>3
<1> QED
  BY <1>4, <1>5, <1>6

LEMMA BoundedSeqIsSeq ==
    ASSUME NEW S, NEW n \in Nat
    PROVE  BoundedSeq(S, n) = {s \in Seq(S) : Len(s) <= n}
<1>1. ASSUME NEW s \in BoundedSeq(S, n)
      PROVE  s \in Seq(S) /\ Len(s) <= n
  <2>1. PICK m \in 0..n : s \in [1..m -> S]
    BY <1>1 DEF BoundedSeq, SeqOf
  <2>2. s \in Seq(S)
    BY <2>1, SeqDef
  <2>3. Len(s) = m
    BY <2>1, <2>2, LenProperties
  <2> QED
    BY <2>2, <2>3
<1>2. ASSUME NEW s \in Seq(S), Len(s) <= n
      PROVE  s \in BoundedSeq(S, n)
  <2>1. Len(s) \in 0..n /\ s \in [1..Len(s) -> S]
    BY <1>2, LenProperties
  <2> QED
    BY <2>1 DEF BoundedSeq, SeqOf
<1> QED
  BY <1>1, <1>2

\* The numbers of one driver's posts are as many as the posts.
LEMMA PostsOfOne ==
    ASSUME NEW d, NEW n \in Nat, NEW T, IsFiniteSet(T), {<<d, i>> : i \in 1..n} \subseteq T
    PROVE  n <= Cardinality(T)
<1> DEFINE f == [i \in 1..n |-> <<d, i>>]
<1>1. f \in Injection(1..n, T)
  <2>1. f \in [1..n -> T]
    OBVIOUS
  <2>2. \A i, j \in 1..n : f[i] = f[j] => i = j
    OBVIOUS
  <2> QED
    BY <2>1, <2>2 DEF Injection, IsInjective
<1>2. Cardinality(1..n) <= Cardinality(T)
  BY <1>1, FS_Injection
<1>3. Cardinality(1..n) = n
  BY FS_Interval
<1> QED
  BY <1>2, <1>3

-------------------------------------------------------------------------------
(* Types *)

TrackingInv ==
    /\ TrackingTypeOK
    /\ IsFiniteSet(UnderWay)

\* The conjuncts of the type of which posts are no part.
OtherTypes ==
    /\ driver \in [Drivers -> {"APPROVED", "SUSPENDED", "GONE"}]
    /\ location \in [Drivers -> Rows \cup {NoRow}]
    /\ \A d \in Drivers : driver[d] = "GONE" => location[d] = NoRow
    /\ ride \in RideStates
    /\ asked \in Answers \cup {Nothing}
    /\ been \subseteq {"REQUESTED", "ACCEPTED", "IN_PROGRESS"}
    /\ ride.status \in been \cup Ended
    /\ overlapped \in [Drivers -> BOOLEAN]
    /\ wentOffline \in [Drivers -> BOOLEAN]
    /\ moved \in BOOLEAN

PostTypes ==
    /\ posts \in [Drivers -> {s \in Seq(BOOLEAN) : Len(s) <= MaxUnderWay}]
    /\ IsFiniteSet(UnderWay)

LEMMA BoundedPosts ==
    BoundedSeq(BOOLEAN, MaxUnderWay) = {s \in Seq(BOOLEAN) : Len(s) <= MaxUnderWay}
BY TrackingAssumption, BoundedSeqIsSeq

LEMMA TypesApart == TrackingInv <=> OtherTypes /\ PostTypes
BY BoundedPosts DEF TrackingInv, TrackingTypeOK, OtherTypes, PostTypes

LEMMA UpsertIsRow ==
    ASSUME OtherTypes, NEW d \in Drivers, NEW old \in BOOLEAN
    PROVE  Upsert(d, old) \in Rows
<1>1. location[d] \in Rows \/ location[d].row = FALSE
  BY DEF OtherTypes, NoRow
<1>2. (IF location[d].row THEN location[d].isAvailable ELSE TRUE) \in BOOLEAN
  BY <1>1 DEF Rows
<1> QED
  BY <1>2 DEF Upsert, Rows

\* A row that is there is one of Rows.
LEMMA RowThere ==
    ASSUME OtherTypes, NEW d \in Drivers, location[d].row
    PROVE  location[d] \in Rows
BY DEF OtherTypes, NoRow

LEMMA RideMovesType ==
    ASSUME OtherTypes, NEW d \in Drivers \cup {NoOne},
           NEW status \in {"ACCEPTED", "IN_PROGRESS", "COMPLETED", "CANCELED"},
           RideMoves(status, d)
    PROVE  OtherTypes' /\ posts' = posts
BY DEF RideMoves, OtherTypes, RideStates, Ended

LEMMA PostWritesType ==
    ASSUME OtherTypes, PostTypes, NEW d \in Drivers, NEW i \in DOMAIN posts[d], PostWrites(d, i)
    PROVE  OtherTypes'
<1>1. posts[d][i] \in BOOLEAN
  BY ElementOfSeq, LenProperties DEF PostTypes
<1>2. Upsert(d, posts[d][i]) \in Rows
  BY <1>1, UpsertIsRow
<1>3. location' = [location EXCEPT ![d] = Upsert(d, posts[d][i])] /\ driver[d] # "GONE"
  BY DEF PostWrites
<1>4. /\ location' \in [Drivers -> Rows \cup {NoRow}]
      /\ \A e \in Drivers : driver[e] = "GONE" => location'[e] = NoRow
  BY <1>2, <1>3 DEF OtherTypes
<1>5. (posts[d][i] \/ RemoveAt(posts[d], i) # << >>) \in BOOLEAN
  BY <1>1
<1>6. overlapped' \in [Drivers -> BOOLEAN]
  BY <1>5 DEF PostWrites, OtherTypes
<1>7. UNCHANGED <<driver, ride, asked, been, wentOffline, moved>>
  BY DEF PostWrites
<1> QED
  BY <1>4, <1>6, <1>7 DEF OtherTypes

LEMMA OtherTypesStay ==
    ASSUME OtherTypes, PostTypes, TrackingNext
    PROVE  OtherTypes'
<1>1. ASSUME NEW d \in Drivers, PostBegins(d)
      PROVE  OtherTypes'
  BY <1>1 DEF PostBegins, OtherTypes
<1>2. ASSUME NEW d \in Drivers, NEW i \in DOMAIN posts[d], PostFails(d, i)
      PROVE  OtherTypes'
  BY <1>2 DEF PostFails, historyVars, OtherTypes
<1>3. ASSUME NEW d \in Drivers, MarkDriverOffline(d)
      PROVE  OtherTypes'
  <2>1. location[d] \in Rows
    BY <1>3, RowThere DEF MarkDriverOffline
  <2>2. [location[d] EXCEPT !.isOnline = FALSE, !.isAvailable = FALSE] \in Rows
    BY <2>1 DEF Rows
  <2>3. location' = [location EXCEPT ![d] =
                        [location[d] EXCEPT !.isOnline = FALSE, !.isAvailable = FALSE]]
    BY <1>3 DEF MarkDriverOffline, OtherTypes
  <2>4. driver[d] # "GONE"
    BY <1>3 DEF MarkDriverOffline, OtherTypes, NoRow
  <2> QED
    BY <1>3, <2>2, <2>3, <2>4 DEF MarkDriverOffline, OtherTypes
<1>4. ASSUME NEW d \in Drivers, AcceptRide(d)
      PROVE  OtherTypes'
  BY <1>4, RideMovesType DEF AcceptRide
<1>5. ASSUME NEW d \in Drivers, NEW status \in {"APPROVED", "SUSPENDED"},
             UpdateDriverStatus(d, status)
      PROVE  OtherTypes'
  BY <1>5 DEF UpdateDriverStatus, historyVars, OtherTypes
<1>6. ASSUME NEW d \in Drivers, DeleteUser(d)
      PROVE  OtherTypes'
  <2>1. ride' \in RideStates /\ ride'.status = ride.status /\ moved' \in BOOLEAN
    <3>1. CASE ride.driver = d
      BY <1>6, <3>1 DEF DeleteUser, OtherTypes, RideStates
    <3>2. CASE ride.driver # d
      BY <1>6, <3>2 DEF DeleteUser, OtherTypes
    <3> QED
      BY <3>1, <3>2
  <2> QED
    BY <1>6, <2>1 DEF DeleteUser, OtherTypes
<1>7. ASSUME NEW d \in Drivers, PingAges(d)
      PROVE  OtherTypes'
  <2>1. location[d] \in Rows
    BY <1>7, RowThere DEF PingAges
  <2>2. [location[d] EXCEPT !.recent = FALSE] \in Rows
    BY <2>1 DEF Rows
  <2>3. location' = [location EXCEPT ![d] = [location[d] EXCEPT !.recent = FALSE]]
    BY <1>7 DEF PingAges, OtherTypes
  <2>4. driver[d] # "GONE"
    BY <1>7 DEF PingAges, OtherTypes, NoRow
  <2> QED
    BY <1>7, <2>2, <2>3, <2>4 DEF PingAges, historyVars, OtherTypes
<1>8. CASE TrackingReads
  <2>1. AsRead(ride) \in Answers
    BY DEF OtherTypes, RideStates, AsRead, Answers, Towards
  <2> QED
    BY <1>8, <2>1 DEF TrackingReads, historyVars, OtherTypes
<1>9. CASE TrackingAnswers
  BY <1>9 DEF TrackingAnswers, OtherTypes
<1>10. CASE StartRide \/ CompleteRide \/ CancelRide \/ PaymentFails
  <2>1. ride.driver \in Drivers \cup {NoOne}
    BY DEF OtherTypes, RideStates
  <2> QED
    BY <1>10, <2>1, RideMovesType DEF StartRide, CompleteRide, CancelRide, PaymentFails
<1> HIDE DEF OtherTypes, PostTypes
<1> QED
  BY <1>1, <1>2, <1>3, <1>4, <1>5, <1>6, <1>7, <1>8, <1>9, <1>10, PostWritesType DEF TrackingNext

\* One driver's posts become fewer, as many as before, or one more than there was room for.
LEMMA PostsOfOneStay ==
    ASSUME PostTypes, NEW d \in Drivers, NEW s \in Seq(BOOLEAN),
           posts' = [posts EXCEPT ![d] = s],
           Len(s) <= Len(posts[d])
    PROVE  PostTypes'
<1>1. /\ posts \in [Drivers -> {q \in Seq(BOOLEAN) : Len(q) <= MaxUnderWay}]
      /\ IsFiniteSet(UnderWay)
      /\ MaxUnderWay \in Nat
      /\ Len(s) \in Nat
      /\ \A e \in Drivers : Len(posts[e]) \in Nat /\ DOMAIN posts[e] = 1..Len(posts[e])
      /\ DOMAIN s = 1..Len(s)
  BY TrackingAssumption, LenProperties DEF PostTypes
<1>2. posts' \in [Drivers -> {q \in Seq(BOOLEAN) : Len(q) <= MaxUnderWay}]
  BY <1>1
<1>3. \A e \in Drivers : DOMAIN posts'[e] \subseteq DOMAIN posts[e]
  BY <1>1
<1>4. UnderWay' \subseteq UnderWay
  BY <1>3 DEF UnderWay
<1>5. IsFiniteSet(UnderWay')
  BY <1>1, <1>4, FS_Subset
<1> QED
  BY <1>2, <1>5 DEF PostTypes

LEMMA PostBeginsType ==
    ASSUME PostTypes, NEW d \in Drivers, PostBegins(d)
    PROVE  PostTypes'
<1> DEFINE n == Len(posts[d])
<1>1. /\ posts \in [Drivers -> {q \in Seq(BOOLEAN) : Len(q) <= MaxUnderWay}]
      /\ IsFiniteSet(UnderWay)
      /\ MaxUnderWay \in Nat
      /\ n \in Nat
      /\ DOMAIN posts[d] = 1..n
      /\ posts' = [posts EXCEPT ![d] = Append(posts[d], FALSE)]
      /\ Cardinality(UnderWay) < MaxUnderWay
  BY TrackingAssumption, LenProperties DEF PostTypes, PostBegins
<1>2. {<<d, i>> : i \in 1..n} \subseteq UnderWay
  BY <1>1 DEF UnderWay
<1>3. n <= Cardinality(UnderWay) /\ Cardinality(UnderWay) \in Nat
  BY <1>1, <1>2, PostsOfOne, FS_CardinalityType
<1>4. /\ Append(posts[d], FALSE) \in Seq(BOOLEAN)
      /\ Len(Append(posts[d], FALSE)) = n + 1
      /\ DOMAIN Append(posts[d], FALSE) = 1..(n + 1)
  BY <1>1, AppendProperties, LenProperties
<1>5. n + 1 <= MaxUnderWay
  BY <1>1, <1>3
<1>6. posts' \in [Drivers -> {q \in Seq(BOOLEAN) : Len(q) <= MaxUnderWay}]
  BY <1>1, <1>4, <1>5
<1>7. UnderWay' \subseteq UnderWay \cup {<<d, n + 1>>}
  <2>1. \A e \in Drivers : e # d => DOMAIN posts'[e] = DOMAIN posts[e]
    BY <1>1
  <2>2. DOMAIN posts'[d] = 1..(n + 1)
    BY <1>1, <1>4
  <2>3. 1..(n + 1) = 1..n \cup {n + 1}
    BY <1>1
  <2> HIDE DEF n
  <2> QED
    BY <1>1, <2>1, <2>2, <2>3 DEF UnderWay
<1>8. IsFiniteSet(UnderWay \cup {<<d, n + 1>>})
  BY <1>1, FS_AddElement
<1>9. IsFiniteSet(UnderWay')
  BY <1>7, <1>8, FS_Subset
<1> QED
  BY <1>6, <1>9 DEF PostTypes

LEMMA PostTypesStay ==
    ASSUME OtherTypes, PostTypes, TrackingNext
    PROVE  PostTypes'
<1>1. ASSUME NEW d \in Drivers, NEW i \in DOMAIN posts[d], PostWrites(d, i)
      PROVE  PostTypes'
  <2>1. /\ posts[d] \in Seq(BOOLEAN)
        /\ i \in 1..Len(posts[d])
        /\ Len(posts[d]) \in Nat
    BY LenProperties DEF PostTypes
  <2> DEFINE others == RemoveAt(posts[d], i)
             late == [j \in DOMAIN others |-> others[j] \/ j < i]
  <2>2. others \in Seq(BOOLEAN) /\ Len(others) = Len(posts[d]) - 1
    BY <2>1, RemoveAtProperties
  <2>3. posts' = [posts EXCEPT ![d] = late]
    BY <1>1 DEF PostWrites
  <2> HIDE DEF others
  <2>4. /\ DOMAIN others = 1..Len(others) /\ Len(others) \in Nat
        /\ \A j \in 1..Len(others) : others[j] \in BOOLEAN
    BY <2>2, LenProperties, ElementOfSeq
  <2>5. late \in [1..Len(others) -> BOOLEAN]
    BY <2>4
  <2> HIDE DEF late
  <2>6. late \in Seq(BOOLEAN)
    BY <2>4, <2>5, SeqDef
  <2>7. Len(late) = Len(others)
    BY <2>4, <2>5, <2>6, LenProperties
  <2>8. Len(late) <= Len(posts[d])
    BY <2>1, <2>2, <2>7
  <2> QED
    BY <2>3, <2>6, <2>8, PostsOfOneStay
<1>2. ASSUME NEW d \in Drivers, NEW i \in DOMAIN posts[d], PostFails(d, i)
      PROVE  PostTypes'
  <2>1. /\ posts[d] \in Seq(BOOLEAN)
        /\ i \in 1..Len(posts[d])
        /\ Len(posts[d]) \in Nat
    BY LenProperties DEF PostTypes
  <2>2. /\ RemoveAt(posts[d], i) \in Seq(BOOLEAN)
        /\ Len(RemoveAt(posts[d], i)) = Len(posts[d]) - 1
    BY <2>1, RemoveAtProperties
  <2>3. posts' = [posts EXCEPT ![d] = RemoveAt(posts[d], i)]
    BY <1>2 DEF PostFails
  <2>4. Len(RemoveAt(posts[d], i)) <= Len(posts[d])
    BY <2>1, <2>2
  <2> QED
    BY <2>2, <2>3, <2>4, PostsOfOneStay
<1>3. ASSUME posts' = posts
      PROVE  PostTypes'
  BY <1>3 DEF PostTypes, UnderWay
<1> HIDE DEF PostTypes
<1>4. ASSUME NEW d \in Drivers,
             \/ MarkDriverOffline(d) \/ AcceptRide(d) \/ DeleteUser(d) \/ PingAges(d)
             \/ \E status \in {"APPROVED", "SUSPENDED"} : UpdateDriverStatus(d, status)
      PROVE  PostTypes'
  BY <1>3, <1>4 DEF MarkDriverOffline, AcceptRide, RideMoves, DeleteUser, PingAges, UpdateDriverStatus
<1>5. ASSUME TrackingReads \/ TrackingAnswers \/ StartRide \/ CompleteRide \/ CancelRide \/ PaymentFails
      PROVE  PostTypes'
  BY <1>3, <1>5 DEF TrackingReads, TrackingAnswers, StartRide, CompleteRide, CancelRide, PaymentFails, RideMoves
<1> QED
  BY <1>1, <1>2, <1>4, <1>5, PostBeginsType DEF TrackingNext

-------------------------------------------------------------------------------
(* Positions *)

\* A driver who went offline has a row that says so, or none for good.
OfflineStays ==
    \A d \in Drivers : wentOffline[d] =>
        \/ driver[d] = "GONE"
        \/ location[d].row /\ ~location[d].isAvailable

LateExplained == \A d \in Drivers : location[d].row /\ location[d].old => overlapped[d]
RideReadStays == asked # Nothing /\ ~moved => asked = AsRead(ride)

PositionsInv == TrackingInv /\ OfflineStays /\ LateExplained /\ RideReadStays

LEMMA LateExplainedStays ==
    ASSUME OtherTypes, PostTypes, LateExplained, TrackingNext
    PROVE  LateExplained'
<1>0. /\ location \in [Drivers -> Rows \cup {NoRow}]
      /\ overlapped \in [Drivers -> BOOLEAN]
  BY DEF OtherTypes
<1>1. ASSUME UNCHANGED <<location, overlapped>>
      PROVE  LateExplained'
  BY <1>1 DEF LateExplained
<1>2. ASSUME NEW d \in Drivers, PostBegins(d)
      PROVE  LateExplained'
  BY <1>0, <1>2 DEF PostBegins, LateExplained
<1>3. ASSUME NEW d \in Drivers, NEW i \in DOMAIN posts[d], PostWrites(d, i)
      PROVE  LateExplained'
  <2>1. /\ location' = [location EXCEPT ![d] = Upsert(d, posts[d][i])]
        /\ overlapped' = [overlapped EXCEPT ![d] = posts[d][i] \/ RemoveAt(posts[d], i) # << >>]
    BY <1>3 DEF PostWrites
  <2>2. location'[d].old = posts[d][i]
    BY <1>0, <2>1 DEF Upsert
  <2> QED
    BY <1>0, <2>1, <2>2 DEF LateExplained
<1>4. ASSUME NEW d \in Drivers, MarkDriverOffline(d)
      PROVE  LateExplained'
  <2>1. location[d] \in Rows
    BY <1>4, RowThere DEF MarkDriverOffline
  <2>2. location'[d] = [location[d] EXCEPT !.isOnline = FALSE, !.isAvailable = FALSE]
    BY <1>0, <1>4 DEF MarkDriverOffline
  <2>3. location'[d].old = location[d].old /\ location'[d].row = location[d].row
    BY <2>1, <2>2 DEF Rows
  <2> QED
    BY <1>0, <1>4, <2>3 DEF MarkDriverOffline, LateExplained
<1>5. ASSUME NEW d \in Drivers, DeleteUser(d)
      PROVE  LateExplained'
  BY <1>0, <1>5 DEF DeleteUser, NoRow, LateExplained
<1>6. ASSUME NEW d \in Drivers, PingAges(d)
      PROVE  LateExplained'
  <2>1. location[d] \in Rows
    BY <1>6, RowThere DEF PingAges
  <2>2. location'[d] = [location[d] EXCEPT !.recent = FALSE]
    BY <1>0, <1>6 DEF PingAges
  <2>3. location'[d].old = location[d].old /\ location'[d].row = location[d].row
    BY <2>1, <2>2 DEF Rows
  <2> QED
    BY <1>0, <1>6, <2>3 DEF PingAges, historyVars, LateExplained
<1> HIDE DEF LateExplained
<1>7. ASSUME NEW d \in Drivers,
             \/ \E i \in DOMAIN posts[d] : PostFails(d, i)
             \/ AcceptRide(d)
             \/ \E status \in {"APPROVED", "SUSPENDED"} : UpdateDriverStatus(d, status)
      PROVE  LateExplained'
  BY <1>1, <1>7 DEF PostFails, AcceptRide, RideMoves, UpdateDriverStatus, historyVars
<1>8. ASSUME TrackingReads \/ TrackingAnswers \/ StartRide \/ CompleteRide \/ CancelRide \/ PaymentFails
      PROVE  LateExplained'
  BY <1>1, <1>8 DEF TrackingReads, TrackingAnswers, StartRide, CompleteRide, CancelRide, PaymentFails,
                    RideMoves, historyVars
<1> QED
  BY <1>2, <1>3, <1>4, <1>5, <1>6, <1>7, <1>8 DEF TrackingNext

LEMMA OfflineStaysOffline ==
    ASSUME OtherTypes, PostTypes, OfflineStays, TrackingNext
    PROVE  OfflineStays'
<1>0. /\ location \in [Drivers -> Rows \cup {NoRow}]
      /\ wentOffline \in [Drivers -> BOOLEAN]
      /\ driver \in [Drivers -> {"APPROVED", "SUSPENDED", "GONE"}]
  BY DEF OtherTypes
<1>1. ASSUME UNCHANGED <<driver, location, wentOffline>>
      PROVE  OfflineStays'
  BY <1>1 DEF OfflineStays
<1>2. ASSUME NEW d \in Drivers, NEW i \in DOMAIN posts[d], PostWrites(d, i)
      PROVE  OfflineStays'
  <2>1. /\ location' = [location EXCEPT ![d] = Upsert(d, posts[d][i])]
        /\ driver[d] # "GONE"
        /\ UNCHANGED <<driver, wentOffline>>
    BY <1>2 DEF PostWrites
  <2>2. location'[d].row
    BY <1>0, <2>1 DEF Upsert
  <2>3. location[d].row => location'[d].isAvailable = location[d].isAvailable
    BY <1>0, <2>1 DEF Upsert
  <2> QED
    BY <1>0, <2>1, <2>2, <2>3 DEF OfflineStays
<1>3. ASSUME NEW d \in Drivers, MarkDriverOffline(d)
      PROVE  OfflineStays'
  <2>1. location[d] \in Rows
    BY <1>3, RowThere DEF MarkDriverOffline
  <2>2. location'[d] = [location[d] EXCEPT !.isOnline = FALSE, !.isAvailable = FALSE]
    BY <1>0, <1>3 DEF MarkDriverOffline
  <2>3. location'[d].row /\ ~location'[d].isAvailable
    BY <2>1, <2>2 DEF Rows
  <2> QED
    BY <1>0, <1>3, <2>3 DEF MarkDriverOffline, OfflineStays
<1>4. ASSUME NEW d \in Drivers, DeleteUser(d)
      PROVE  OfflineStays'
  BY <1>0, <1>4 DEF DeleteUser, OfflineStays
<1>5. ASSUME NEW d \in Drivers, PingAges(d)
      PROVE  OfflineStays'
  <2>1. location[d] \in Rows
    BY <1>5, RowThere DEF PingAges
  <2>2. location'[d] = [location[d] EXCEPT !.recent = FALSE]
    BY <1>0, <1>5 DEF PingAges
  <2>3. location'[d].row = location[d].row /\ location'[d].isAvailable = location[d].isAvailable
    BY <2>1, <2>2 DEF Rows
  <2> QED
    BY <1>0, <1>5, <2>3 DEF PingAges, historyVars, OfflineStays
<1>6. ASSUME NEW d \in Drivers, NEW status \in {"APPROVED", "SUSPENDED"},
             UpdateDriverStatus(d, status)
      PROVE  OfflineStays'
  BY <1>0, <1>6 DEF UpdateDriverStatus, historyVars, OfflineStays
<1> HIDE DEF OfflineStays
<1>7. ASSUME NEW d \in Drivers,
             \/ PostBegins(d)
             \/ \E i \in DOMAIN posts[d] : PostFails(d, i)
             \/ AcceptRide(d)
      PROVE  OfflineStays'
  BY <1>1, <1>7 DEF PostBegins, PostFails, AcceptRide, RideMoves, historyVars
<1>8. ASSUME TrackingReads \/ TrackingAnswers \/ StartRide \/ CompleteRide \/ CancelRide \/ PaymentFails
      PROVE  OfflineStays'
  BY <1>1, <1>8 DEF TrackingReads, TrackingAnswers, StartRide, CompleteRide, CancelRide, PaymentFails,
                    RideMoves, historyVars
<1> QED
  BY <1>2, <1>3, <1>4, <1>5, <1>6, <1>7, <1>8 DEF TrackingNext

LEMMA RideReadStaysRead ==
    ASSUME RideReadStays, TrackingNext
    PROVE  RideReadStays'
<1>1. ASSUME UNCHANGED <<ride, asked, moved>>
      PROVE  RideReadStays'
  BY <1>1 DEF RideReadStays
<1>2. ASSUME asked' = asked, moved' = (asked # Nothing)
      PROVE  RideReadStays'
  BY <1>2 DEF RideReadStays, Nothing
<1>3. ASSUME NEW d \in Drivers, DeleteUser(d)
      PROVE  RideReadStays'
  BY <1>1, <1>2, <1>3 DEF DeleteUser
<1>4. CASE TrackingReads
  BY <1>4 DEF TrackingReads, RideReadStays
<1>5. CASE TrackingAnswers
  BY <1>5 DEF TrackingAnswers, RideReadStays, Nothing
<1> HIDE DEF RideReadStays
<1>6. ASSUME NEW d \in Drivers,
             \/ PostBegins(d)
             \/ \E i \in DOMAIN posts[d] : PostWrites(d, i) \/ PostFails(d, i)
             \/ MarkDriverOffline(d)
             \/ \E status \in {"APPROVED", "SUSPENDED"} : UpdateDriverStatus(d, status)
             \/ PingAges(d)
      PROVE  RideReadStays'
  BY <1>1, <1>6 DEF PostBegins, PostWrites, PostFails, MarkDriverOffline, UpdateDriverStatus,
                    PingAges, historyVars
<1>7. ASSUME (\E d \in Drivers : AcceptRide(d)) \/ StartRide \/ CompleteRide \/ CancelRide \/ PaymentFails
      PROVE  RideReadStays'
  BY <1>2, <1>7 DEF AcceptRide, StartRide, CompleteRide, CancelRide, PaymentFails, RideMoves
<1> QED
  BY <1>3, <1>4, <1>5, <1>6, <1>7 DEF TrackingNext

LEMMA TrackingInvariant == TrackingSpec => []PositionsInv
<1>1. TrackingInit => PositionsInv
  <2> SUFFICES ASSUME TrackingInit PROVE PositionsInv
    OBVIOUS
  <2>1. OtherTypes
    BY DEF TrackingInit, OtherTypes, RideStates, NoRow
  <2>2. \A d \in Drivers : posts[d] = << >>
    BY DEF TrackingInit
  <2>3. << >> \in Seq(BOOLEAN) /\ Len(<< >>) = 0 /\ DOMAIN << >> = {}
    BY EmptySeq, LenProperties
  <2>4. UnderWay = {}
    BY <2>2, <2>3 DEF UnderWay
  <2>5. PostTypes
    <3>1. posts \in [Drivers -> {s \in Seq(BOOLEAN) : Len(s) <= MaxUnderWay}]
      BY <2>2, <2>3, TrackingAssumption DEF TrackingInit
    <3> QED
      BY <2>4, <3>1, FS_EmptySet DEF PostTypes
  <2>6. OfflineStays /\ LateExplained /\ RideReadStays
    BY DEF TrackingInit, OfflineStays, LateExplained, RideReadStays, NoRow
  <2> QED
    BY <2>1, <2>5, <2>6, TypesApart DEF PositionsInv
<1>2. PositionsInv /\ [TrackingNext]_trackingVars => PositionsInv'
  <2> SUFFICES ASSUME PositionsInv, [TrackingNext]_trackingVars PROVE PositionsInv'
    OBVIOUS
  <2>1. OtherTypes /\ PostTypes /\ OfflineStays /\ LateExplained /\ RideReadStays
    BY TypesApart DEF PositionsInv
  <2>2. CASE TrackingNext
    <3>1. OtherTypes' /\ PostTypes'
      BY <2>1, <2>2, OtherTypesStay, PostTypesStay
    <3>2. OfflineStays' /\ LateExplained' /\ RideReadStays'
      BY <2>1, <2>2, OfflineStaysOffline, LateExplainedStays, RideReadStaysRead
    <3>3. TrackingInv'
      BY <3>1, BoundedPosts DEF TrackingInv, TrackingTypeOK, OtherTypes, PostTypes
    <3> QED
      BY <3>2, <3>3 DEF PositionsInv
  <2>3. CASE UNCHANGED trackingVars
    <3>1. UNCHANGED <<driver, location, posts, ride, asked, been, overlapped, wentOffline, moved>>
      BY <2>3 DEF trackingVars
    <3> QED
      BY <3>1 DEF PositionsInv, TrackingInv, TrackingTypeOK, UnderWay, OfflineStays,
                  LateExplained, RideReadStays
  <2> QED
    BY <2>2, <2>3
<1> QED
  BY <1>1, <1>2, PTL DEF TrackingSpec

\* The tables, the posts in progress and what a request has read keep their types, and no
\* driver has more posts in progress than there may be in all.
THEOREM TrackingTypeCorrect == TrackingSpec => []TrackingTypeOK
<1>1. PositionsInv => TrackingTypeOK
  BY DEF PositionsInv, TrackingInv
<1> QED
  BY <1>1, TrackingInvariant, PTL

\* Of every number of drivers and posts: only posts in progress together leave an older
\* position in the row, who went offline is not found nearby again, and who asks for a ride
\* that stays as it is is told of its driver and of where he is going.
THEOREM TrackingPositionsExplained == TrackingSpec => []PositionsExplained
<1>1. PositionsInv => PositionsExplained
  <2> SUFFICES ASSUME PositionsInv PROVE PositionsExplained
    OBVIOUS
  <2>1. \A d \in Drivers : driver[d] = "GONE" => location[d] = NoRow
    BY DEF PositionsInv, TrackingInv, TrackingTypeOK
  <2>2. \A d \in Drivers : wentOffline[d] => ~Nearby(d)
    BY <2>1 DEF PositionsInv, OfflineStays, Nearby, NoRow
  <2>3. ASSUME asked # Nothing, ~moved
        PROVE  /\ GetRideTracking.of = ride.driver
               /\ GetRideTracking.eta \in {Towards(ride), "nowhere"}
    <3>1. asked = AsRead(ride)
      BY <2>3 DEF PositionsInv, RideReadStays
    <3> QED
      BY <3>1 DEF AsRead, GetRideTracking
  <2> QED
    BY <2>2, <2>3 DEF PositionsInv, LateExplained, PositionsExplained
<1> QED
  BY <1>1, TrackingInvariant, PTL

-------------------------------------------------------------------------------
(* Geography *)

\* The points of the map.
Places == [lat : Int, lng : Int]

\* calculateETA and estimateDuration, for every way: who follows a ride is never told fewer
\* minutes than who looks for a driver, never less than two, and no fewer for a longer way.
THEOREM MinutesAgree ==
    ASSUME NEW metres \in Nat, NEW more \in Nat, metres <= more
    PROVE  /\ CalculateETA(metres) >= EstimateDuration(metres)
           /\ CalculateETA(metres) <= CalculateETA(more)
           /\ CalculateETA(metres) >= 2
<1>1. (3 * metres + 1249) \div 1250 <= (3 * more + 1249) \div 1250
  BY SMT
<1>2. \/ (2 * metres + 500) \div 1000 <= (3 * metres + 1249) \div 1250
      \/ (2 * metres + 500) \div 1000 <= 2
  BY SMT
<1>3. /\ (3 * metres + 1249) \div 1250 \in Int
      /\ (3 * more + 1249) \div 1250 \in Int
      /\ (2 * metres + 500) \div 1000 \in Int
  BY SMT
<1>4. EstimateDuration(metres) = (2 * metres + 500) \div 1000
  BY DEF EstimateDuration, Rounded
<1> QED
  BY <1>1, <1>2, <1>3, <1>4 DEF CalculateETA

LEMMA MetresMeasure ==
    ASSUME NEW p \in Places, NEW q \in Places
    PROVE  /\ Metres(p, q) \in Nat
           /\ p = q => Metres(p, q) = 0
BY DEF Places, Metres, Apart

LEMMA MetresTriangle ==
    ASSUME NEW p \in Places, NEW q \in Places, NEW r \in Places
    PROVE  Metres(p, r) <= Metres(p, q) + Metres(q, r)
BY DEF Places, Metres, Apart

\* calculateRouteCompatibility, wherever the two start and end: no detour is negative, and
\* there is none for a passenger who goes the same way.
THEOREM DetoursLengthen ==
    ASSUME NEW trip, NEW passenger, trip.from \in Places, trip.to \in Places,
           passenger.from \in Places, passenger.to \in Places
    PROVE  /\ Detour(trip, passenger) \in Nat
           /\ passenger.from = trip.from /\ passenger.to = trip.to
                => Detour(trip, passenger) = 0
<1> DEFINE first == Metres(trip.from, passenger.from)
           shared == Metres(passenger.from, passenger.to)
           last == Metres(passenger.to, trip.to)
           alone == Metres(trip.from, trip.to)
           rest == Metres(passenger.from, trip.to)
<1>1. Detour(trip, passenger) = first + shared + last - alone
  BY DEF Detour, GetRoute
<1>2. first \in Nat /\ shared \in Nat /\ last \in Nat /\ alone \in Nat /\ rest \in Nat
  BY MetresMeasure
<1>3. alone <= first + rest /\ rest <= shared + last
  BY MetresTriangle
<1>4. passenger.from = trip.from /\ passenger.to = trip.to
        => first = 0 /\ last = 0 /\ shared = alone
  BY MetresMeasure
<1> HIDE DEF first, shared, last, alone, rest
<1> QED
  BY <1>1, <1>2, <1>3, <1>4

\* calculateRouteCompatibility: a longer detour never scores better, and the minutes shown
\* are within half a minute of those scored.  A filter of twenty minutes lets up to 249
\* metres more pass, which score as a difficult detour.
THEOREM DetoursScored ==
    ASSUME NEW trip, NEW passenger, NEW longer, trip.from \in Places, trip.to \in Places,
           passenger.from \in Places, passenger.to \in Places,
           longer.from \in Places, longer.to \in Places,
           Detour(trip, passenger) < Detour(trip, longer)
    PROVE  LET more == Detour(trip, passenger)
               way == RouteCompatibility(trip, passenger)
           IN
           /\ Apart(500 * way.additionalTime, more) <= 250
           /\ way.additionalTime <= 20 <=> more < 20 * 500 + 250
           /\ way.score > 3 <=> more <= 20 * 500
           /\ RouteCompatibility(trip, longer).score <= way.score
<1> DEFINE more == Detour(trip, passenger)
           most == Detour(trip, longer)
           way == RouteCompatibility(trip, passenger)
           score(m) == CASE m <= 10 * 500 -> 10
                         [] m > 10 * 500 /\ m <= 15 * 500 -> 8
                         [] m > 15 * 500 /\ m <= 20 * 500 -> 6
                         [] OTHER -> 3
<1>1. more \in Nat /\ most \in Nat /\ more < most
  BY DetoursLengthen
<1>2. way.score = score(more) /\ RouteCompatibility(trip, longer).score = score(most)
  BY DEF RouteCompatibility
<1>3. way.additionalTime = (2 * more + 500) \div 1000
  BY DEF RouteCompatibility, Rounded
<1> HIDE DEF more, most, way
<1>4. ASSUME NEW m \in Nat
      PROVE  /\ m <= 5000 => score(m) = 10
             /\ m > 5000 /\ m <= 7500 => score(m) = 8
             /\ m > 7500 /\ m <= 10000 => score(m) = 6
             /\ m > 10000 => score(m) = 3
  <2>1. CASE m <= 5000
    BY <2>1, SMT
  <2>2. CASE m > 5000 /\ m <= 7500
    BY <2>2, SMT
  <2>3. CASE m > 7500 /\ m <= 10000
    BY <2>3, SMT
  <2>4. CASE m > 10000
    BY <2>4, SMT
  <2> QED
    BY <2>1, <2>2, <2>3, <2>4
<1> HIDE DEF score
<1>5. score(most) <= score(more) /\ (score(more) > 3 <=> more <= 10000)
  BY <1>1, <1>4
<1>6. /\ (2 * more + 500) \div 1000 \in Int
      /\ 1000 * ((2 * more + 500) \div 1000) <= 2 * more + 500
      /\ 2 * more + 500 < 1000 * ((2 * more + 500) \div 1000) + 1000
  BY <1>1, SMT
<1> DEFINE minutes == (2 * more + 500) \div 1000
<1> HIDE DEF minutes
<1>7. /\ minutes \in Int
      /\ 1000 * minutes <= 2 * more + 500
      /\ 2 * more + 500 < 1000 * minutes + 1000
  BY <1>6 DEF minutes
<1>8. Apart(500 * minutes, more) <= 250 /\ (minutes <= 20 <=> more < 10250)
  BY <1>1, <1>7 DEF Apart
<1>9. way.additionalTime = minutes
  BY <1>3 DEF minutes
<1> QED
  BY <1>2, <1>5, <1>8, <1>9 DEF way, more

\* isPointInZone: a zone that is a rectangle, wherever it lies and whatever its size, holds
\* the points between its edges, its lower and western ones among them, so that every point
\* belongs to one of the rectangles that a city is cut into.
THEOREM RectanglesHoldTheirPoints ==
    ASSUME NEW south \in Int, NEW west \in Int, NEW north \in Int, NEW east \in Int,
           south < north, west < east, NEW point \in Places
    PROVE  IsPointInZone(point, <<Point(south, west), Point(south, east),
                                  Point(north, east), Point(north, west)>>)
             <=> /\ south <= point.lat /\ point.lat < north
                 /\ west <= point.lng /\ point.lng < east
<1> DEFINE ring == <<Point(south, west), Point(south, east),
                     Point(north, east), Point(north, west)>>
           before(i) == IF i = 1 THEN Len(ring) ELSE i - 1
           crosses(a, b) ==
               LET rise == b.lat - a.lat
                   side == (point.lng - a.lng) * rise
                   edge == (b.lng - a.lng) * (point.lat - a.lat)
               IN  /\ (a.lat > point.lat) # (b.lat > point.lat)
                   /\ IF rise > 0 THEN side < edge ELSE side > edge
           met == {i \in DOMAIN ring : crosses(ring[i], ring[before(i)])}
           holds == IsPointInZone(point, ring)
           between == south <= point.lat /\ point.lat < north
<1>1. holds <=> Cardinality(met) % 2 = 1
  BY DEF IsPointInZone
<1>2. point.lat \in Int /\ point.lng \in Int
  BY DEF Places
<1>3. /\ DOMAIN ring = 1..4 /\ Len(ring) = 4
      /\ ring[1] = Point(south, west) /\ ring[2] = Point(south, east)
      /\ ring[3] = Point(north, east) /\ ring[4] = Point(north, west)
  OBVIOUS
<1>4. before(1) = 4 /\ before(2) = 1 /\ before(3) = 2 /\ before(4) = 3
  BY <1>3
\* The edges of a parallel are not met; those of a meridian are, from the west.
<1>5. ASSUME NEW lat \in Int, NEW a \in Int, NEW b \in Int
      PROVE  ~crosses(Point(lat, a), Point(lat, b))
  BY <1>2 DEF Point
<1>6. ASSUME NEW lng \in Int
      PROVE  /\ crosses(Point(south, lng), Point(north, lng)) <=> between /\ point.lng < lng
             /\ crosses(Point(north, lng), Point(south, lng)) <=> between /\ point.lng < lng
  <2>1. (lng - lng) * (point.lat - south) = 0 /\ (lng - lng) * (point.lat - north) = 0
    BY <1>2, SMT
  <2>2. /\ (point.lng - lng) * (north - south) < 0 <=> point.lng < lng
        /\ (point.lng - lng) * (south - north) > 0 <=> point.lng < lng
    BY <1>2, SMT
  <2>3. north - south > 0 /\ ~(south - north > 0)
    OBVIOUS
  <2> QED
    BY <1>2, <2>1, <2>2, <2>3 DEF Point
<1> HIDE DEF ring, before, crosses, holds
<1>7. met = {i \in {1, 3} : between /\ point.lng < (IF i = 1 THEN west ELSE east)}
  <2>1. /\ ~crosses(ring[2], ring[1]) /\ ~crosses(ring[4], ring[3])
        /\ crosses(ring[1], ring[4]) <=> between /\ point.lng < west
        /\ crosses(ring[3], ring[2]) <=> between /\ point.lng < east
    BY <1>3, <1>5, <1>6
  <2> QED
    BY <1>3, <1>4, <2>1
<1> HIDE DEF met
<1>8. ASSUME between, west <= point.lng, point.lng < east
      PROVE  holds
  <2>1. met = {3}
    BY <1>2, <1>7, <1>8
  <2>2. Cardinality({3}) = 1
    BY FS_Singleton
  <2> QED
    BY <1>1, <2>1, <2>2
<1>9. ASSUME between, point.lng < west
      PROVE  ~holds
  <2>1. met = {1} \cup {3}
    BY <1>2, <1>7, <1>9
  <2>2. Cardinality({1} \cup {3}) = 2
    <3>1. IsFiniteSet({1}) /\ Cardinality({1}) = 1
      BY FS_Singleton
    <3>2. Cardinality({1} \cup {3}) = Cardinality({1}) + 1
      BY <3>1, FS_AddElement
    <3> QED
      BY <3>1, <3>2
  <2> QED
    BY <1>1, <2>1, <2>2
<1>10. ASSUME ~between \/ point.lng >= east
       PROVE  ~holds
  <2>1. met = {}
    BY <1>2, <1>7, <1>10
  <2> QED
    BY <1>1, <2>1, FS_EmptySet
<1>11. holds <=> between /\ west <= point.lng /\ point.lng < east
  BY <1>2, <1>8, <1>9, <1>10
<1> QED
  BY <1>11 DEF holds, ring

================================================================================
