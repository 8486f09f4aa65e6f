# A TLA+ model of the SUMOMOBILITY backend

This directory holds TLA+ specifications of the ride-hailing backend in this
repository (NestJS, Prisma, PostgreSQL), the TLC configurations that check
them, and TLAPS proofs about them. Paths below are relative to the repository.

## 1. Inventory

The program is a set of HTTP handlers and cron tasks over one PostgreSQL
database. It keeps almost no state in memory, so the state of a component is
the tables it writes. Handlers are `async` functions: at every `await` on the
database other handlers run. Nearly all of them read a row, check it in
JavaScript, and later write it *by id only*, sometimes inside a
`$transaction`; the checks are outside the transaction and no write repeats
them. Prisma runs on PostgreSQL's default isolation, READ COMMITTED, so
nothing detects that a checked row has changed. A handler may also end between
two writes: the process stops, the connection fails, or a row is gone.

| Component (source) | State | Operations | Interacts with | What is hard | What makes it correct |
|---|---|---|---|---|---|
| Ride dispatch (`src/modules/rides/rides.service.ts`) | `rides`; `vehicles.status`; `driver_profiles.totalRides/totalEarnings` | createRide, acceptRide, startRide, completeRide, cancelRide, rateRide | vehicles and drivers (same rows), notifications (called after commit), reservations (create rides), payments (cancel rides) | two drivers accepting; cancel against accept; double completion; deletion of a row a handler remembers | a ride has one driver; a vehicle serves one ride; vehicles come back; trips are counted once; final statuses are final |
| Vehicles (`src/modules/vehicules/vehicules.service.ts`) | `vehicles` | create, update, verify, updateStatus, remove | dispatch reads status, verified and owner | remove against accept; statuses written by hand during a ride | no ride names a deleted vehicle |
| Driver approval (`auto-approval.service.ts`, `user-management.service.ts`, `profiles.service.ts`, `users.service.ts`) | `driver_profiles.status`, `vehicles.verified/status`, `users.isActive` | autoApproveAll, approveDriver, verifyVehicle, updateUserStatus, bulkUserAction, updateDriverProfile, user deletion | dispatch | approval in two commits; AVAILABLE written to busy vehicles; deletion in mid-ride | a deleted driver leaves no dangling row |
| Reservations (`src/modules/reservation/reservation.service.ts`) | `reservations` | create, update, confirm, cancel, convertToRide | creates and cancels rides; payments confirm and cancel them | double conversion; a crash between conversion and its link | one ride per reservation; FULFILLED has its ride; CANCELED is final |
| Payments (`src/modules/payments/`) | `payments`, `ride_payments`, `reservation_payments` | createPayment, processPayment, refundPayment, webhooks, the ten-minute clean-up, the nightly totals | cancels rides, confirms and cancels reservations, overwrites driver totals | duplicated, late and reordered webhooks; timeout against late success | a settled payment keeps its outcome; what a payment cancels was not finished |
| Fares (`payment-calculator.ts`, `carpool-pricing.service.ts`, `rides.service.ts:868`) | none | calculateRideFare, calculateCancellationFee, calculateBasePrice, shares | rides, carpool | rounding apart, minimum fares, undefined and zero durations | parts add up to the whole |
| Carpool (`src/modules/carpool/carpool.service.ts`) | `reservations` (shared columns), `carpool_requests`, `shared_passengers` | createCarpoolReservation, joinCarpool, respondToRequest, price recalculation. `AdminCarpoolController` and `CarpoolNotificationsService` are registered nowhere | reservations | four writes without a transaction; the seat check and the seat count are in different handlers | never more passengers than seats; a passenger per accepted request |
| Notifications (`src/modules/notifications/`) | `notifications` | send, bulk send, retry-failed (an administrator's request), markAsRead. `NotificationTasks` (a retry every ten minutes, clean-up, reminders) and `NotificationEventHandler` are providers of no module and never run | called by most components | overlapping retries; retry of a delivered message; rows that stay PENDING; READ overwritten | bounded attempts; a row made to be sent at once gets an outcome; a row read in peace stays read |
| Authentication (`src/auth/auth.service.ts`) | `users`, `password_reset_codes`, tokens held by clients | register, login, refreshTokens, forgotPassword, resetPassword; logout changes nothing (a refresh token goes on working), changePassword has no caller | activation and deletion by administrators; email | concurrent registrations; concurrent requests for a code and uses of one; tokens signed after the account was read | the rate limit, up to what overlaps; few codes that work, the newest among them; a code changes a password once; a deactivated account ends without sessions |
| Documents (`src/documents/`) | `driver_documents` and files of `uploads/documents` | uploadDocument, reviewDocument; the profile's own routes to the same rows | approvals of drivers approve their documents | row and file change one after the other; URLs written by hand name any file; a review of a file replaced meanwhile | a row's file exists, a file has a row; an approval is of the file that was looked at |
| Drivers' figures (`rides.service.ts:365,598`, `payment-cleanup.task.ts`) | `driver_profiles.totalRides/totalEarnings/rating`, `ratings` | completeRide's increments, rateRide, the nightly totals, the driver's own edits | payments, profiles | figures read in one query and written in another, or by the driver himself | the totals become those of the paid rides; the rating counts every row, up to what overlaps or he writes |
| Tracking and locations (`src/modules/rides/tracking/`, `driver-locations.service.ts`) | `driver_locations` | updateDriverLocation, markDriverOffline, getRideTracking, findNearbyDrivers | rides, approval | posts that overtake each other; a ride that changes between two reads | the last position is stored; who may not drive is not found |
| Geography (`geolocation`, `service-zones`, `points-of-interest`, carpool search) | `service_zones`, `points_of_interest` | point in zone, nearest drivers and places, detours, minutes | carpool, tracking | edges of zones; limits taken before distances | neighbouring zones share no point; the nearest are given first |
| Listings and statistics (several services, `dashboard.service.ts`, `reports.service.ts`) | none | 8 paged lists, 9 statistics of several counts | read everybody's rows | rows change between two queries | what a reader misses is bounded by what changed |
| Access (`JwtStrategy`, `RolesGuard`, the services' checks) | profiles | who is listed, may open and may change a row | all | four services ask the same question in their own way | what is listed may be opened; counts are of the same rows |
| Ratings (`src/modules/ratings/`) | - | imported by no module, on a table no schema creates; the live path is `RidesService.rateRide` | - | - | - |
| Administration's writes, email, gateway, payment processors | logs, configuration | one insert or upsert each, I/O | - | - | - |

`PROJECT.json` lists the same components with their status, and the hazards of
the code line by line.

## 2. Plan

The order is by importance: what moves rides, vehicles and money first.

1. **Rides** (done): the dispatch core and everything that writes the rows it
   reads; **Dispatch** (done), the abstract specification it implements when
   handlers run one at a time; **RidesProofs** (done).
2. **Bookings** (done): **Reservations** (EXTENDS `Rides`: its handlers run
   beside those of the core), **Payments** (EXTENDS `Reservations`), the
   abstract **Booking**, **PaymentsProofs**.
3. **Carpool** (done): requests, passengers, seats, the four-write acceptance
   and the recalculation of prices, with crashes; **CarpoolProofs** (done).
4. **Notifications** (done): rows, attempts, retries and readings, with
   requests that are cut off; **NotificationsProofs** (done).
5. **Fares** (done): the calculators as operators over hundredths of a franc.
6. **Accounts**, with **AccountsProofs**; **Documents**, with **DocumentsProofs**
   (done).
7. **Earnings** (done): the nightly overwrite and rateRide, on top of Fares.
8. The readers (done): **Listings**, **Tracking** with **TrackingProofs**,
   **Geography**, **Access**.
9. **FiguresProofs** (done): what Fares, Earnings and Listings compute.

Every safety property that a passing run checks is a theorem. Left: theorems about
zones of other shapes and about the sorted searches of `Geography`, which are checked
over small inputs; the update of a reservation as an action of `Reservations` rather
than beside it.

## 3. Modules

| Module | Role |
|---|---|
| `Rides.tla` | The dispatch core: state, one action per atomic part of a handler, properties |
| `Dispatch.tla` | What the core promises, with no handlers and no vehicle rows |
| `MCRides.tla` | Symmetry and the conditions of the serial instance, for TLC |
| `RidesProofs.tla` | Proofs of what holds for every interleaving; then of what holds for serial handlers, and that Rides implements Dispatch |
| `Reservations.tla` | Reservations beside the core: create, confirm, cancel, convertToRide |
| `Payments.tla` | Payments, webhooks and the clean-up; the composition of everything so far, its specification and its properties |
| `Booking.tla` | What a reservation promises: at most one ride, CANCELED is final |
| `MCPayments.tla` | Symmetry, for TLC |
| `PaymentsProofs.tla` | Proofs of what holds for every interleaving and crash, and that the core's own invariants survive the composition; then of what holds for one request at a time, and that Payments implements Booking |
| `Carpool.tla` | Shared reservations: requests, passengers, seats, fares. On its own: it shares rows with Reservations, but no column |
| `MCCarpool.tla` | Symmetry, for TLC |
| `CarpoolProofs.tla` | Proofs of what holds for every interleaving and crash |
| `Notifications.tla` | Rows of notifications, their sending, retries and readings; checked as it is, without an MC module |
| `NotificationsProofs.tla` | Proofs of what holds for every interleaving, failure and cut |
| `Accounts.tla`, `AccountsProofs.tla` | Registration, sessions and password codes; proofs of what holds for every interleaving and failure |
| `Documents.tla`, `MCDocuments.tla` | Rows and files of one type of document; symmetry and the three kinds of behaviour that TLC looks at apart |
| `DocumentsProofs.tla` | Proofs of what holds for every interleaving and failure |
| `Fares.tla` | What the services make of a distance, as pure functions |
| `Earnings.tla`, `MCEarnings.tla` | A driver's totals and rating, EXTENDS `Fares`; totals and rating apart, for TLC, and the functions of Fares over bounded inputs |
| `Tracking.tla`, `MCTracking.tla` | Positions and who is told of them; the functions of `Geography` over bounded inputs |
| `TrackingProofs.tla` | Proofs of what holds for any drivers and posts; of Geography's detours, minutes and rectangles, for all points |
| `Geography.tla` | Zones, searches, detours and minutes, as pure functions of rows |
| `Listings.tla`, `MCListings.tla` | Lists and statistics read from changing tables; every question of the code, and `Access` over small tables |
| `FiguresProofs.tla` | Proofs about Fares for every distance, Earnings for every number of rides, Listings for every size of table and page, Access for all tables; sums over finite sets |
| `Access.tla` | Who is shown, may open and may change which row, as pure functions of the tables |

Definitions marked *(variant)* are mutations of the definition below them: what
the code might have been. Each breaks a property, and no specification uses one.

### Rides: state

| Variable | Code |
|---|---|
| `rideStatus`, `rideDriver`, `rideVehicle`, `startedAt` | columns of `Ride`; "NONE": no row. `startedAt` keeps only whether it is set |
| `priced` | `totalFare` is set (a converted reservation may have no price) |
| `vehicleStatus`, `verified`, `owner` | columns of `Vehicle`; "NONE" and "DELETED": no row |
| `driverStatus` | `DriverProfile.status`; "DELETED": no row |
| `counted[d][r]` | how often completeRide incremented d's totals for r. The columns themselves are also overwritten by the nightly task and by profile edits; `counted` is the history of the increments, which is what completeRide is responsible for |
| `req[q]` | a handler in progress: its position and what its local variables hold |

### Rides: actions

A handler is cut where another can run between its read and its write:

| Handler | Actions |
|---|---|
| createRide | `CreateRide` (the checks read rows no modelled handler changes) |
| convertToRide | `ConvertReservation`: the ride it inserts, a step of its own in `Next` |
| acceptRide | `AcceptReadDriver` (driver and vehicle), `AcceptReadRide` (still REQUESTED?), `AcceptCommit` (the transaction) |
| startRide, completeRide, cancelRide | `…Read` (find and validate), `…Commit` (the transaction) |
| VehiclesService.remove | `RemoveRead` (count of active rides), `RemoveCommit` (delete) |
| approveDriver | `ApproveDriver`, `ApproveDriverVehicles` (two commits) |
| VehiclesService.create, updateStatus, verify; updateUserStatus; updateDriverProfile; user deletion; autoApproveAll; verifyVehicle | one action each |

Handlers whose check concerns only that the row exists, or rows nobody
modelled here changes, are one action: their write by id fails just as the
check would. A driver's own checks (`validateDriverRide`) keep the driver, its
existence and the status. Role checks are abstracted: every action is taken by
someone the code allows. `Fail(q)` ends a handler anywhere between two steps:
a crash, or a write whose row is gone (a transaction that rolls back). Foreign
keys are the database's: `rides.vehicleId` and `rides.driverId` are SET NULL,
vehicles of a deleted profile are deleted (`DeleteRows`).

`StatusOverrides`, `ProfileStatuses` and `AutoApprove` say what administrators
and drivers may write by hand: the code sets no limit, the instances do.

### Reservations and Payments: state

| Variable | Code |
|---|---|
| `resStatus`, `resRide` | `Reservation.status` and `rideId`; "NONE": no row |
| `quoted` | `estimatedPrice` is set (it is when the client gave a distance); becomes `priced` of the ride |
| `madeFrom` | history: the reservation convertToRide made a ride from. The code keeps no such column; the properties compare it with `resRide` |
| `payStatus`, `fee`, `payRide`, `payRes` | `Payment.status`, whether `processorFee` is set, and the link tables `ride_payments`, `reservation_payments` |
| `task[t]` | a request on a reservation or a payment in progress: its position and what it remembers |

### Reservations and Payments: actions

| Handler | Actions |
|---|---|
| create (reservation) | `CreateReservation` |
| confirm, cancel (reservation) | `…Read`, `…Commit`; cancel writes CANCELED to the ride it read, whatever that ride's status |
| convertToRide | `ConvertRead` (checks), `ConvertCommit` (the transaction: ride and FULFILLED), `ConvertLink` (the query of its own that sets `rideId`) |
| createPayment | `CreatePaymentRead`, `CreatePaymentCommit` |
| markAsSucceeded (webhook, admin) | `SucceedBegin`, `SucceedCommit`: one transaction that writes the payment, reads its reservation, and writes that |
| markAsFailed (webhook, admin) | `MarkAsFailed`: one transaction whose only read, the links, cannot change |
| processPayment, refundPayment | `…Read`, `…Commit` |
| cleanupPendingPayments | `CleanupPendingPayments`, at any time, on any PENDING payments (those over thirty minutes old) |

`markAsSucceeded` updates the payment first, so PostgreSQL locks its row until
the commit: `Locked` makes the other writers of that payment wait. Reads do not
wait. A webhook is an ordinary request, so it may come late, repeatedly or
never. `Crash(t)` ends a request between two steps, as when the process stops.

Inside its transaction createPayment reads the new payment back through
`findOne`, which uses `this.prisma` and not the transaction's client.
`OwnWritesVisible` says whether that query sees the row. With PostgreSQL it
does not, and the request always rolls back; the test `payments.service.spec.ts:57`
passes because one mock is both connections. Every run sets it TRUE, for
otherwise no payment would exist and nothing about payments could be examined.

### Carpool: state and actions

| Variable | Code |
|---|---|
| `seats`, `taken` | `maxSharedPassengers` and `currentSharedPassengers` of a shared reservation |
| `located` | the reservation has coordinates other than 0 and a length other than 0; without them the recalculation throws |
| `averaged` | `sharedPricePerPerson` is an average of shares rather than the estimate made at creation |
| `askStatus`, `asker`, `target` | `CarpoolRequest.status`, `requesterId`, `targetReservationId` |
| `from` | the request a `SharedPassenger` was copied from: it stands for passenger, reservation and trip |
| `fare` | `fareShare`, as the request whose trip it was computed for; NULL: the initial 0 |
| `cutOff` | history: an acceptance on the carpool was cut off by a crash |
| `task[t]` | a request in progress |

| Handler | Actions |
|---|---|
| createCarpoolReservation | `CreateCarpool` |
| joinCarpool | `JoinRead` (the check that seats are left), `JoinCommit` (the row) |
| respondToRequest, accepting | `AcceptRequest`, `AcceptSeat`, `AcceptCount`, then the recalculation |
| respondToRequest, rejecting | `RejectRequest` |
| recalculate-prices | `Recalculate`, then the recalculation |
| recalculateCarpoolPricesYango | `PriceRead`, one `PriceShare` per passenger it read, `PriceAverage` |

`GetCarpoolPricingSummary`, `GetMyCurrentPrice` and `GetReservationTracking` are
what three read-only routes answer; `ViewsAgree` compares them.

The status of a request guards nothing: an answer may be repeated or reversed,
and accepting twice adds two passengers. The recalculation is called within a
`try`, so whether it fails or the process stops, the acceptance is over either
way (`Crash`, or the end of the task in `PriceRead`).

### Notifications: state and actions

| Variable | Code |
|---|---|
| `present` | the users that have a row |
| `status`, `owner`, `attempts` | `Notification.status`, `userId`, `attempts`; "NONE" and "DELETED": no row |
| `scheduled` | the call had a `scheduleAt`. No column keeps it: the row is made PENDING, is not sent, and nothing takes it up later |
| `delivered`, `lost` | history: how often the channel took the message, and how often a request was cut off while sending it |
| `task[t]` | a request in progress: the channels (`more`) or rows (`left`) it has still to serve, the row it is sending and what the channel said |

| Handler | Actions |
|---|---|
| sendNotification, sendBulkNotifications | `SendNotification` (the user is there; the channels), then for each channel createAndSendNotification. A bulk call is several of them at once |
| createAndSendNotification | `CreateRow`, or `CreateRefused` if the user has been deleted meanwhile |
| retryFailedNotifications | `RetryRead` (what it finds), then `RetryNext` for each row |
| sendNotificationNow | `Channel` (the outside service answers), `Settle` (the update); its catch: `SettleFails`, `Recover`; `RowGone` when neither update finds the row |
| markAsRead | `MarkAsRead` |
| user deletion | `DeleteUser` (rows go with their user) |

`CutOff` ends a request between two steps: the process stops, a query fails, a
template is missing, or the catch's own update fails. The channels are
abstracted to whether they took the message: push, mail and SMS services are
outside the program, and an in-app notification is always taken. Time is
abstracted too: `nextRetry` lies five minutes ahead, and a retry may read any
of the FAILED rows, each being due or not.

### Accounts: state and actions

| Variable | Code |
|---|---|
| `account` | `users.isActive`; "NONE", "DELETED": no row. A user is an e-mail with its telephone, both UNIQUE |
| `session` | what the user's newest refresh token has left; tokens are in no table |
| `codeUser`, `fresh`, `used`, `attempts` | columns of `password_reset_codes`; `fresh`: made within fifteen minutes, so counted and not expired |
| `uses`, `newest`, `cut` | history: how often a code changed a password, a user's newest code, whether a request for one ended after it had invalidated the others |
| `task[t]` | a request in progress |

| Handler | Actions |
|---|---|
| register | `RegisterRead`, `RegisterCommit` (the unique columns refuse the second) |
| login | `LoginRead`, `LoginCommit` |
| refreshTokens | `RefreshRead`, `GenerateTokens` |
| forgotPassword | `ForgotCount`, `ForgotInvalidate`, `ForgotCreate`: queries of their own |
| resetPassword | `ResetRead`, `ResetCommit` |
| updateUserStatus, bulkUserAction, user deletion | one action each |

`CodeAges` and `TokenAges` are time; `Fail` ends a request between two steps.
Passwords, hashes and signatures are left out: a wrong password changes nothing.

### Documents: state and actions

| Variable | Code |
|---|---|
| `driver` | `driver_profiles.status`, or "GONE" |
| `of`, `status`, `file` | columns of `driver_documents`; a row goes with its driver. `file` NoOne: a URL that names none of the files |
| `disk`, `maker` | the files of `uploads/documents`, and (history) whose upload made them |
| `named` | history: the files whose URL somebody wrote by hand, or may have |
| `past`, `reviewed`, `later` | history: what excuses a driver's documents, the file an approver had before them, rows put to PENDING after their driver was approved |
| `task[t]` | a request in progress |

| Handler | Actions |
|---|---|
| uploadDocument | `UploadRead`, `UploadDelete` (the old file), `UploadSave` (the new one), `UploadUpdate` or `UploadCreate` (the row) |
| reviewDocument | `ReviewRead`, `ReviewWrite` |
| the profile's routes | `CreateDriverDocument(d, f)`, `UpdateDriverDocumentUrl(r, f)`, `UpdateDriverDocumentStatus` |
| an upload of another type, whose row was given a file's URL | `DeletedElsewhere(f)` |
| autoApproveAll; approveDriver; updateUserStatus; deletion | `AutoApproveAll`; `ApproveDriver`, `ApproveDriverDocuments`; one action each |

The profile's routes take `fileUrl` as any string, and an upload deletes the
file that its basename names: so `f` there is any file, another row's or another
driver's too, or none. An edit of URL and status together is one after the other.
`UpdateUserStatus` stands for the profile's own edit of `status` as well.

As the module is registered, multer stores to disk and keeps no buffer, so
`saveFile` throws on every upload: `Fail` in step "deleted" is what happens, and
the steps after it are what the service would do with a buffer. multer's own
temporary files are not modelled. The routes that review a document parse its
cuid as a UUID and refuse it; the service is modelled as if they were reached.

### Fares and Earnings

`Fares` has one operator for each calculation: amounts in hundredths of a franc,
distances in metres, exact sums, and `Math.round` where the code rounds. The code
adds doubles, whose error is far below the half franc at which rounding turns,
except at exact halves.

| Variable of `Earnings` | Code |
|---|---|
| `ride`, `trip`, `fare`, `paid` | one driver's rides, their length and type, `totalFare` (0: NULL), whether a payment has SUCCEEDED |
| `rated`, `averaged` | rows of `ratings` for each ride, and those that the stored `rating` is the average of |
| `totalRides`, `totalEarnings` | columns of the driver's profile |
| `task[t]`, `night` | a completion or rating in progress; the nightly run between its query and its write |
| `own`, `overlap` | history: the driver has written his rating himself since the last average; two ratings were between reading and writing together |

`CompleteRead`, `CompleteCommit`; `NightlyRead`, `NightlyWrite`, `NightlyFail`;
`RateRead`, `RateAverage`, `RateCommit`: a handler is cut as above, rateRide inside
its transaction too, because its average does not see what others have not
committed. `CreateRide`, `ConvertedRide`, `CancelRide`, `PaymentSucceeds`,
`PaymentRefunded` and `PaymentFails` stand for what Rides, Reservations and Payments
tell in full: a ride may be canceled after it was completed, by a failed payment or
by a cancellation that read it before. Nobody replaces a ride's driver here, nor is
a ride that has ended accepted again. `UpdateDriverProfile` is the driver's edit of
his own `totalRides` and `rating`, which UpdateDriverProfileDto lets him write.
`GetDriverEarnings` is the report, which
counts completed rides whether or not they are paid.

### Tracking and Geography

| Variable of `Tracking` | Code |
|---|---|
| `driver`, `ride` | the driver's status, from his first approval on, and one ride, told in full in Rides |
| `been` | history: the statuses in which a handler may have read the ride before it writes; a ride is canceled in any of them, IN_PROGRESS too |
| `location` | the driver's row of `driver_locations`. Of a position only its age is kept: whether a later one had been stored before |
| `posts` | updateDriverLocation in progress, in the order in which they found their driver APPROVED |
| `asked` | what getRideTracking has read of the ride: its driver and where he is going |
| `overlapped`, `wentOffline`, `moved` | history |

`PostBegins`, `PostWrites`, `PostFails`; `MarkDriverOffline`; `AcceptRide`,
`StartRide`, `CompleteRide`, `CancelRide` and `PaymentFails`, which looks at no
status; `Nearby`, the rows
that findNearbyDrivers takes; `TrackingReads`, `TrackingAnswers`; `PingAges`, the
five minutes after which a row is no longer recent.

`Geography` has no state: its operators take rows in the order in which a query
returned them. Positions are points of a flat grid, where the code measures great
circles in doubles: what is used of the distance is that it is a metric no smaller
than the difference of either coordinate. The search box is the radius over 111
in both coordinates, as in the code.

### Listings and Access

In `Listings` a row is the set of figures that count it, and one `question` is
asked: a list, page by page with its total beside the page, after it or never, or
a statistic of several counts. `Change` is everybody else. `FindMany`, `Count` and
`NextPage` are the queries of a list, `CountFigure` those of a statistic; nothing
holds them together, as no transaction does. One operator names each list and
statistic of the code by its shape. The order of a list matters only in that rows
have one.

`Access` has no state either: each service's own test of who is listed, may open
or may change a row, as a function of the tables. `MCListings` compares them.

## 4. Runs

| Run | Instance | Shows |
|---|---|---|
| `rides_interleaved` (pass) | 1 ride, 2 drivers, 2 vehicles, 2 concurrent handlers; hand-written AVAILABLE, MAINTENANCE, SUSPENDED; auto-approval | However handlers interleave, a ride's vehicle exists and is its driver's (`AssignmentConsistent`); a completed ride with a fare was counted, and only trips that started are (`PaidForTrips`); a ride is never offered again nor loses its driver, except by deletion (`NeverOfferedAgain`) |
| `rides_serial` (pass) | 2 rides, 2 drivers, 2 vehicles, one handler at a time, no hand-written AVAILABLE or IN_USE | Two rides under way never share a vehicle and none is AVAILABLE meanwhile (`ExclusiveVehicle`); no vehicle stays IN_USE without a ride (`NoVehicleLeak`); a completed ride with a fare is counted once, for its driver (`PaidExactlyOnce`); the tables implement Dispatch (`ImplementsDispatch`) |
| `rides_takeover` (violation) | 1 ride, 2 handlers | acceptRide checks "que la course est toujours disponible" (`rides.service.ts:232`), yet writes a driver over a ride that is already another's, or canceled |
| `bookings_interleaved` (pass) | 2 rides, 2 reservations, 1 payment, 2 concurrent requests, crashes; no dispatch handlers | However conversions, confirmations, cancellations, webhooks and crashes interleave, a reservation's ride was made from that reservation, at its price; a FULFILLED reservation has a ride even when a crash lost the link; one that has a ride never looks PENDING again (`ConversionsMatch`) |
| `bookings_serial` (pass) | 2 rides, 1 reservation, 1 payment, one request at a time, beside one dispatch handler and the clean-up | A FULFILLED reservation is linked to its only ride (`FulfilledIsLinked`); only a payment that succeeded is refunded (`RefundsPaidPayments`); reservations and payments implement Booking (`ImplementsBooking`); no payment puts a ride back on offer (`NeverOfferedAgain`) |
| `carpool_interleaved` (pass) | 1 carpool with at most 1 seat, 2 requests, 2 passenger rows, 2 clients, 2 requests in progress, crashes | The count of passengers is behind their rows by exactly the acceptances between the two writes, further only after a crash, and never ahead (`SeatsCounted`); an ACCEPTED request has its passenger, or is about to (`AcceptedIsAboard`); a passenger pays for a trip of his own, or an acceptance under way will price him (`PricesSettle`), and it does (`SeatGetsFare`); the answers shown to driver and passengers agree outside of an acceptance (`ViewsAgree`) |
| `notifications` (pass) | 1 user, 2 rows, up to 2 channels, 2 requests in progress, maxAttempts 2, 1 cut | Overlapping retries exceed maxAttempts by less than the requests there are (`AttemptsBounded`); what reached the user is counted, about to be, or was cut off, SENT means it did, and a PENDING row is in the hands of the one request that made it, or was scheduled or cut off (`RowsAccounted`) and otherwise gets an outcome (`PendingSettles`); READ stays once nobody is sending the row (`ReadStays`) |
| `accounts` (pass) | 1 user, 4 codes, 2 requests in progress, rate limit 2, 3 tries | Overlapping requests exceed the rate limit by less than their number, and leave no more codes that work than there are requests (`CodesBounded`); the newest code works unless it was used, a request is replacing it or was cut off doing so (`NewestCodeUsable`); a used code changes no password again but for requests that had read it, and `attempts` never reaches its limit (`CodeUses`); an account deactivated for good ends without a session (`SessionsDie`) |
| `documents` (pass) | 2 drivers, 2 rows, 2 files, 2 requests in progress, failures; a behaviour is about the URLs of both, the URLs and cut uploads of one, or the reviews of one | Rows and files name each other but for uploads under way, cut off or overlapping and URLs written by hand; what another driver writes by hand takes no file of which it does not name the URL, and leaves none without its row (`FilesConsistent`); two documents of a type come of overlapping first uploads, the profile's route or a rejected one revived (`OneDocumentOfType`); an approval is of the file that was looked at, unless it was replaced meanwhile or its URL edited (`ApprovedFileWasReviewed`); an approved driver's documents are approved (`ApprovedWithDocuments`) |
| `earnings` (pass) | 2 rides, 2 requests, one length, two types, the nightly run; the driver's own claims of 0 and 5 rides; a behaviour is about totals or ratings | Totals that a race, a double completion, an unpaid or canceled ride or the driver himself put wrong become those of the paid rides by a later night, again and again while the paid rides stay the same (`TotalsHeal`); a ride is rated by no more than the requests that read it unrated, and the rating counts every row unless two ratings overlapped or the driver has written it himself since (`RatingsCounted`). At the start: the calculators over bounded inputs |
| `listings` (pass) | 17 questions, 3 places, 1 row on a page, 3 changes | A reader of every page misses no more of the rows that stayed than left the list, and one more for each that came between a total and its page; the parts of a statistic miss its whole by no more than the rows that changed between its counts (`AnswersExplained`). At the start: what Access lists may be opened, and services that count one profile's rows agree |
| `tracking` (pass) | 2 drivers, one of whom posts, 3 posts under way, 1 ride canceled at any time | A stored position is the newest unless posts overlapped; who went offline is not found again, however often he posts; tracking names another driver or the minutes to another place only if the ride changed meanwhile (`PositionsExplained`); who loses his approval for good is not found in the end (`PositionsFade`). At the start: the functions of Geography over bounded inputs |

**Bounds.** The ids are the bound: a row id is used once, so every behaviour
is finite. Two handlers suffice for each race in the code, since each race is
between one remembered read and one write in between; two drivers and two
vehicles let a ride change hands. One ride is enough for the interleaved
properties, which speak of one ride and its vehicle; the serial ones relate
two rides, so that instance has two. `bookings_interleaved` leaves the dispatch
handlers out (`Requests = {}`): they write no reservation and no payment, and
`ConversionsMatch` reads of a ride only that it exists and its fare, which they
never change. `bookings_serial` has one driver and one vehicle, since no
property there relates two. `OneTask` binds requests on reservations and
payments only; dispatch handlers and the clean-up interleave with them freely.
In `carpool_interleaved` one seat and two passengers make the
carpool full and overfull; two rows of one client, or of two, show whose fare a
share overwrites; and two requests in progress are an acceptance against
another, or against a recalculation. No symmetry is used there, because of the
liveness property. In `notifications` two rows are the two channels of one call,
or two rows of one retry; two requests are a first send against a retry, or two
retries of the same row. `MaxAttempts` and `Batch` of 2 let a row be exhausted and
a batch have a rest; `MaxLost`, the bound on cuts, is on each row's history, and
one cut is what leaves a row PENDING. One user is enough: rows of different
users share nothing.

In `accounts` two requests are every pair of forgotPassword, resetPassword, login
and registration; four codes and a limit of 2 let overlapping requests exceed the
limit and a fourth code be refused. A limit of 2 behaves as the code's 3: the
comparison is with a count. Users share no code, so one is enough, and `Life` of 1
is any lifetime, since only its end matters. In `documents` two rows and two files
are a document and its replacement, two first uploads, or the documents of two
drivers. Drivers meet only in the files that they name: so that TLC need not look at
every state of one matter with every state of another, a behaviour keeps to what
`about` says (`MCDocuments`), with two drivers where URLs are written by hand and
with one where uploads are cut off or documents reviewed. `earnings` does the same:
totals and rating meet only in the rides' statuses and in the requests. There, claims
of 0 and 5 are a number of rides too low and one too high, a converted ride has no
fare, the offered fares are the least that passes and the first that does not, and two
rides let a completion meet the night. In `listings` three places and pages of one row are
three pages, so that a row can move over both borders; three changes are one
between each two queries. In `tracking` two posts are enough for one to overtake
another and a third to be alone afterwards or late again, and two drivers for a ride
to change hands while it is asked for; posts of two drivers write rows of their own,
so one of them posts. The
proofs remove the bounds where there are any.

**Deadlock** is not checked: ids run out, all drivers may be deleted, and a
question of Listings ends with its answer.

**Fairness.** Of rides, reservations and payments none is assumed and no
liveness is claimed: nobody is obliged to finish a ride. `FairCarpoolSpec`
assumes weak fairness of `Continue(t)` for each request in progress: a query is
answered and Node then resumes the handler, so a request between two of its own
writes goes on unless it crashes. Nothing makes a client ask, a driver answer,
or a crash happen. `SeatGetsFare` needs no more. `FairNotificationsSpec`
assumes the same of the requests that send notifications: the query or the
outside service answers. Nothing makes a retry happen, since no cron task does,
so no property says that a FAILED row is ever sent.
`FairAccountsSpec` and `FairEarningsSpec` assume it of their requests, and
`FairTrackingSpec` of posts: each ends, if only by failing. Accounts adds that
tokens grow old and Tracking that pings do, which is time passing. Earnings adds
that the cron task is started every night (weak fairness of `NightlyRead`) and does
not fail every night (strong fairness of `NightlyWrite`: a failed run starts over
the next night); `TotalsHeal` adds, as its premise, that the paid rides stay the same
in the end. `FairMCEarningsSpec` is the same within `about`. No client, driver or
administrator is obliged to do anything: the liveness properties of these three say
what follows once something has stayed the same for good. Documents and Listings
assume nothing.

**Why the serial properties need their conditions.** With two handlers,
`rides_takeover` shows a ride changing hands, and its first driver's vehicle
leaks. The other serial conditions are needed for the like, each a behaviour of
the specification with one more request:

* cancelRide means to "libérer le véhicule si un chauffeur était assigné"
  (`rides.service.ts:519`), and a ride accepted between its read and its
  transaction keeps the vehicle IN_USE.
* convertToRide refuses what "a déjà été convertie en course"
  (`reservation.service.ts:274`), and two conversions that both read first make
  two rides (`SerialConvertedOnce` is proved for one request at a time).
* joinCarpool answers "Covoiturage complet" (`carpool.service.ts:253`), and two
  requests made while a seat was free are both accepted, one after the other.
* `updateStatus` can write AVAILABLE to a vehicle in use, IN_USE to one that is
  not, and `AutoApprovalService` AVAILABLE to any vehicle; `Disciplined` excludes
  these and `MCRides` asserts it of the serial instance.

One thing needs no second request: "Cannot cancel a completed or already canceled
ride" (`rides.service.ts:514`) is what cancelRide says, and a payment's failure
reported after the trip cancels the COMPLETED ride.

## 5. Proofs

The assumptions are the named ASSUMEs of the modules, which TLC evaluates on
every run: NULL is no id, bounds are numbers, hand-written statuses are statuses,
sets whose cardinality a property speaks of are finite, and a question of
Listings is a list or a statistic of finitely many figures. No theorem bounds
the number of rows or of requests. The type invariants of Payments, Carpool and
Notifications are proved and not run again.

* `RidesTypeOK`, with `Remembers`: a handler that is about to write knows the
  rows its write addresses. Every later proof needs it.
* `RidesAssignmentConsistent`: the property is not inductive, for an acceptance
  writes what it *remembers*. `AssignmentInv` adds `RemembersOwn`: the
  remembered vehicle was the remembered driver's, and owners never change.
* `RidesPaidForTrips`: `PaidInv` adds that a ride IN_PROGRESS, COMPLETED or
  about to be completed has started (`TripsStarted`), which survives a stale
  commit because `startedAt` is never cleared.
* `RidesNeverOfferedAgain`: an action property from type correctness.
* `SerialExclusiveVehicle`, `SerialNoVehicleLeak`, `SerialPaidExactlyOnce`,
  `SerialImplementsDispatch`: for
  `Serial /\ Disciplined`. `SerialInv` says that what the one handler remembers
  is still true (`Fresh`), that a ride without a driver has no vehicle
  (`Unassigned`), and the properties themselves. `SerialCases` reduces a step
  to its effect on the columns that matter, each conjunct has a lemma, and
  `DispatchStep` maps every step to a step of Dispatch or a stutter.

* `PaymentsTypeCorrect`: as for the core, `TaskRemembers` says that a request
  about to write knows its rows. `CoreCases` is the step lemma of every proof
  below: seen from the core's rows, a step of the whole is a step of a core
  handler, makes a ride, cancels one, or changes nothing.
* `PaymentsAssignmentConsistent`, `PaymentsPaidForTrips`,
  `PaymentsNeverOfferedAgain`: the core's inductive invariants again, with
  `CoreCases`; the two new cases need only that a made ride is new and that a
  cancellation leaves the other columns.
* `PaymentsConversionsMatch`: the property is not inductive, because
  `ConvertLink` writes what it remembers. `Linking` adds that the remembered
  ride was made from the remembered reservation, that its status has left
  PENDING, and that a reservation some ride came from has a row.
* `SerialConvertedOnce`, `SerialRefundsPaidPayments`,
  `SerialFulfilledIsLinked`, `SerialImplementsBooking`: under `OneTask`, the
  second last under `~Crashes` too. `BookingInv` says that what the one request
  has read is still true (`FreshTask`) and that a reservation shows whether a
  ride came from it (`Booked`). FULFILLED is never undone by a PENDING or
  CONFIRMED, which is why a crash before the link does no harm to Booking.

* `CarpoolTypeCorrect`: with `Remembers` and `Asked`, which say what a request
  in progress knows and that passengers and fares come from requests that
  exist. `CarpoolAssumption` adds that the tables of passengers and the
  requests in progress are finite, for cardinalities to mean anything.
* `CarpoolSeatsCounted`: inductive with the above; only `AcceptSeat`,
  `AcceptCount` and `Crash` move a side of it, by one element each.
* `CarpoolPricesSettle`: each passenger is `Paying` or `Waiting`. A waiting one
  is followed through the acceptance that is to price him: `count`, `price`,
  and `share` while he is among those left.

* `CarpoolAcceptedIsAboard`: inductive with the type and what a request
  remembers: the acceptance that wrote ACCEPTED holds the request until it
  writes the passenger.

* `CarpoolViewsAgree`: the views differ in what they count, rows or the column,
  and `SeatsCounted` says how far apart these are; `OneShare`, an invariant of its
  own, that the rows of one client on one carpool that are priced have one share.

* `NotificationsTypeCorrect`: with `Remembers` (what a request knows at each
  step; a row it retries has been tried before) and `Fresh` (what a row that
  was never made says).
* `NotificationsAttemptsBounded`: `NextSenders` says what a step does to the
  attempts of a row and to the requests sending it: one attempt is written by a
  request that lets go of the row, and a request takes it up only while
  attempts < maxAttempts. With that the property is inductive, since no more
  than `Tasks` can hold the row then; `Tasks` is assumed finite for that.
* `NotificationsReadStays`: an action property from the same lemma.
* `NotificationsRowsAccounted`: one delivery makes a request `Settling`, and that
  request writes the attempt or is cut off, so the two sides of the account move
  together. A PENDING row is held by its maker alone because retries read FAILED
  rows only.

* `AccountsTypeCorrect`: with it, that a request that resets knows its code.
* `AccountsCodesBounded`: both parts count rows together with the requests that
  are about to make one: `CountMoves` says how a step moves a request between its
  positions, `CreateAdds` that the row takes the place of the request that made it.
  Neither bound is inductive for the rows alone.
* `AccountsCodeUses`: uses and the requests that hold a code are counted together,
  since no request can read a code that was used.

* `CalculatorSplitsFare`, `EstimateIsAccepted`, `TypesAreApart`,
  `CarpoolSplitsCollected`, `CarpoolDiscountBounded`: arithmetic, for every
  distance, duration and number of passengers. `SplitWithinFranc` is the lemma about
  a sum whose parts are rounded apart.

* `AccountsNewestCodeUsable`: what invalidates a code is a reset, which counts as a
  use, or a request that is then about to make the next code or was cut off.

* `DocumentsTypeCorrect`: with what a request in progress remembers of its row and
  its file.
* `DocumentsApprovedFileWasReviewed`, `DocumentsApprovedWithDocuments`: each write of
  APPROVED or of a file keeps the agreement or leaves its excuse in the history.
* `DocumentsOneOfType`: where no excuse is noted, an upload that found no document makes
  the first (`OneStanding`), because it is the driver's only one and finds the rows as it
  read them (`UploadsAlone`).
* `DocumentsFilesConsistent`: a name of a file never comes back, so a file whose URL
  nobody wrote by hand (`named`) belongs to one upload until a row names it and to one
  row afterwards. Any file may be named by others too: then what matters is the row
  of the driver whose upload made it, which only he changes. His upload that did not
  meet another of his finds that row as it read it, and the file it replaces is gone
  by the time the row names the new one (`UploadsAlone`).

* Sums over finite sets: `MapThenSumSet` recurs on the subsets of its set. That there
  is such a function, that two of them agree, and how a sum grows with its weights are
  lemmas of `FiguresProofs`. Induction over data takes no operator there: a set of
  counterexamples among the subsets of a finite set would have a least member
  (`LeastSubset`), since strict subsets are well founded.
* `EarningsTypeCorrect`: the sums that the nightly run writes are numbers.
* `EarningsRatingsCounted`: a request that has taken the average has seen no more rows
  than there are, its own among them, and all of them while ratings come one at a time;
  its commit makes a rating that the driver wrote himself an average again.
* `ListingsTypeCorrect`: with the account of changes.
* `ListingsAnswersExplained`, of two halves. For a statistic, `FiguresInv` states
  the property of what every figure *will* be: what was read, or what would be read
  now. Before the first count it holds since parts that exclude each other add up
  (`CountsAddUp`); a count does not change it; and a change of one row moves each side
  by one at most (`FiguresMove`). For a list, `WalkInv` counts, of the rows before the
  end of the pages read, those missed (one more when a row leaves), and of the rows
  behind it those already seen, which will come again (one more when a row enters).
  The reason is `EntryMovesOne`: when a row enters, no row moves forward and at most
  one crosses that border. `HighBounded` and `ShortPageIsLast` say what may be behind
  the last page, by the three ways in which a list ends.

* `TrackingTypeCorrect`: with the fact that finitely many posts are under way, as they
  come one at a time; no assumption bounds the drivers.
* `TrackingPositionsExplained`: of its three parts, that a row which is not the newest
  comes of an overlap is inductive; that a driver who went offline is not found needs
  what his row says, and that it does not come back (`OfflineStays`); and that tracking
  answers for the ride as it is needs that what it has read is the ride until that
  moves (`RideReadStays`), be it by a cancellation in any status or a failed payment.

* `MinutesAgree`, `DetoursLengthen`, `DetoursScored`: arithmetic and the triangle
  inequality of the map, for all points. `RectanglesHoldTheirPoints`: for a rectangle of
  any place and size; edges along a parallel are never met, and those along a meridian
  from the west, so that a point inside meets one of them and a point outside none or two.
* `ListedRidesOpen`, `ProfilesMadeOnce` (beside them `ListedVehiclesOpen` and
  `ListedReservationsOpen`): the checks of Access, for all tables. That a user has one
  of the three roles is what the schema's enum says.

Model-checked only: the other assumptions about pure functions in the MC modules, over
bounded inputs (zones cut by a diagonal, and whatever is sorted: `SetToSortSeq` chooses
among permutations, which the provers do not find; counts beside a profile); `rides_takeover`, whose point is the counterexample; and every
liveness property (`SeatGetsFare`, `PendingSettles`, `SessionsDie`, `TotalsHeal`,
`PositionsFade`), since liveness under fairness is beyond the prover.

## 6. Not modelled

**Left out of the models.** Texts, tokens, hashes and the ids of rows; in Rides,
Payments and Carpool the amounts (only whether a fare or a fee exists), which are in
Fares and Earnings; notifications after a commit (they change no modelled row; a
failure there makes the handler answer an error for a change that stays). Profile
edits of columns that nothing decides by; those of `status`, documents, `totalRides`
and `rating` are in Rides, Documents and Earnings. `ReservationsService.update` writes only columns no
other operation reads, and is a function in Access: the price stays that of the
first distance, whatever distance it is given later. Reservations and payments
cancel rides without regard to vehicles: the promises of `Dispatch` are about the
dispatch handlers alone, and only the three properties of section 5 are claimed of
the composition.

**Never run.** `RatingsModule` is imported by no module (and its SQL names a table
that no schema creates); `NotificationTasks`, `NotificationEventHandler`,
`AdminCarpoolController` and `RidesGateway` are registered nowhere; no route uses
`AdminActionInterceptor`, `PaymentSecurityGuard` or the guards of vehicle owners and
documents. No caller: `findAvailableDrivers`, `changePassword`, `validateUser`,
`approveDocument`, `cleanupOldTrackingData`, `calculateEstimatedPrice`, and
`PaymentCalculator` but for its test (which expects earnings of 1912 where the code
gives 1913). Nobody listens to the events of tracking.

**Always refused.** The routes with a vehicle's or a document's id parse it as a
UUID and ids are cuids, so they answer 400; the services behind them are modelled as
if they were reached. The routes of `driver-locations.controller` that write read
`user.driverProfile`, which the token's user lacks. `ride_tracking_points` is read
and written with columns that no migration makes: the write's error is caught, the
history always throws.

**Outside the program.** The processors of payments and the channels of
notifications are what they answer. `PrismaService`, `main`, the DTOs and their
validation, Swagger and configuration are wiring. Writing a log, a report, a
configuration value, a zone or a place is one insert or upsert that nothing races.

**What the models show and no property forbids.** A ride never makes its driver
unavailable, and a driver who went offline is never available again. A user
without the profile of his role is listed the rides of all, and may open none.
Statistics of a period filter totals and completed rides by different dates. The
nearest drivers can be missed, as the limit is applied before distances are
measured. A detour above twenty minutes passes a filter of twenty once it is rounded.
The "minimum possible price" of a carpool lies above its estimate. The report of a
driver's earnings counts rides that nobody paid. A rating or a number of rides that
a driver writes of himself is shown until the next rating or night. A document's row
whose URL names the file of another row takes that file with it when it is replaced.
