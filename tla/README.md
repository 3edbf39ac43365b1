# Javi delivery notifications in TLA+

Javi is a Django service for small shops. A shop creates a delivery, starts it,
and the recipient gets a message with an arrival time and a link to a public
status page. Half an hour after the arrival time a task queue calls back and the
recipient is asked for a rating. Shops use a cabinet (HTML) or a REST API, and
hear of events through outgoing webhooks.

The service runs as one Cloud Run instance with two gunicorn processes of four
threads (`Dockerfile`), PostgreSQL in autocommit mode (no `ATOMIC_REQUESTS`),
Cloud Tasks (at-least-once callbacks) and Infobip (Viber, SMS, receipts by
webhook). What is hard about it follows from that: requests interleave at every
database statement, each works on a model instance loaded earlier and writes
single columns back, any of them may be killed (timeout, redeploy) between two
statements, and callbacks and receipts are repeated, late, reordered or lost.

## Inventory

| Component | State | Operations | Interacts with | What makes it correct |
|---|---|---|---|---|
| Delivery lifecycle (`deliveries/services.py`, `models.py`) | `Delivery` row, `TrackingToken`, on_the_way `Notification` | create, start, ready, delivered, delete, restore, resend; "received" on the public page | messaging, task queue, merchant events | a start acts once; the time told is the time stored; nothing is left half done; statuses do not go back; the merchant hears of it |
| On-the-way message (`services.py`, `integrations/chained.py`, `notifications/webhooks.py`) | `Notification.status`, `provider_message_id`, `NotificationAttempt` rows, planned escalations | send over the chain, record, resend, escalate, receipts | Infobip, task queue | status belongs to the current message and does not sink; one message per channel; the chain is used to its end |
| Rating request (`services.py`, `tracking/views.py`, `notifications/services.py`) | rating_request rows, `OptOut`, `Rating`, the queued task | callback, unsubscribe, STOP, correct number, rate | task queue, messaging, merchant events | asked once, never after an opt-out, not forgotten; rating reported once |
| Sending window (`common/timewindow.py`) | arrival time, time of the callback | format, clamp, plan; confirm in cabinet and API | task queue | the recipient is asked inside 08:00–22:00, after arrival plus half an hour |
| Idempotent creation (`deliveries/api.py`) | `Delivery`, `ApiIdempotencyKey` | POST /deliveries | geocoder | one key, one delivery |
| Cabinet (`deliveries/views.py`, templates) | the page in the browser, its signature | list, feed, reload | delivery lifecycle | the page catches up and does not flicker |
| Tracking limiter (`tracking/views.py`) | counter per address in each process's cache | read, write back | – | limit kept; nobody shut out for good |
| Merchant events (`notifications/outbound.py`) | tasks for webhooks | enqueue | task queue | every change reported, in an order that makes sense |
| Task queue adapter (`tasks/`) | – | create task; callbacks | Cloud Tasks | callbacks harmless when repeated |
| Geocode cache, metering, quota summary (`integrations/`) | `GeocodeCache`, `ProviderUsage`, a cached summary | geocode, route, record, summarise | Google Maps | every real call counted, cache hits not |
| API keys (`deliveries/auth.py`) | `ApiKey` | generate, revoke, authenticate, throttle | – | a revoked key opens nothing |
| Accounts (`accounts/`) | `User`, `Shop` | register, create_shop | – | one shop per user |
| Providers (`integrations/infobip.py`, `telegram.py`, `whatsapp.py`, `google_maps.py`) | – | HTTP calls | outside services | errors become refusals, not exceptions |

The hazards, each at its line and with the properties aimed at it, are listed in
`PROJECT.json`.

## Modules

| Module | Models | Actors |
|---|---|---|
| `DeliveryLifecycle` | one delivery; every operation of `services.py` that moves it, statement by statement | request threads |
| `Announcement` | the promise of a start to those outside: one claimed arrival time handed over, then at most one rating request and one report of it, in that order | abstract |
| `OnTheWayMessage` | the on_the_way notification: chain, attempts, escalation, receipts | workers, Infobip, task queue |
| `RatingRequest` | the rating callback, opt-out, corrected number, rating form | workers, task queue, recipient |
| `SendingWindow`, `RatingTime` | the arithmetic of the window; when the recipient is asked | clock, shop, task queue |
| `IdempotentCreate` | POST /deliveries with `Idempotency-Key` | workers, retrying clients |
| `KeyPromise` | the promise of an `Idempotency-Key`: it stands for one delivery for good, and only that is told | abstract |
| `ApiRequests` | `IdempotentCreate` behind the API keys: make, revoke, authenticate, note the use | shops, clients |
| `MerchantEvents` | `DeliveryLifecycle` composed with its outgoing events: build, queue, lose, post, post again | request threads, task queue, merchant |
| `UsageMetering` | usage counters around the calls, the cache of addresses around those, the cabinet's summary | threads, processes, clock |
| `CabinetFeed` | page, signature and polling | browser, changes |
| `TrackingLimiter` | the counter of the public page | threads of processes |

`ApiRequests` and `MerchantEvents` are compositions: their actions are those of the
module they extend, conjoined with what the added part does in the same step, and
a theorem of each says that the module below is implemented as it stands.
`MC...` modules give the constants their values for TLC; `...Proofs` modules hold
the theorems. Mutated definitions ("A slip for ...") stand before the definition
they replace; no specification uses them.

### How they correspond to the code

*State.* A variable such as `row` or `notif` is a database row; `mem[r]` is the
model instance a request loaded; `pc[r]` says before which statement it stands.
History variables are marked as such. A database statement or a call to a
provider is one action; Python code between two statements belongs to the action
before or after it. `save(update_fields=...)` changes exactly the columns named.
A `UniqueConstraint` makes the insert an action of its own when it fails
(`StartClash`, `KeyTaken`, `RateInsert`).

*DeliveryLifecycle.* `Begin` loads the row. A start goes `loaded` (guard and
arrival time) → `save` → `token` → `create` → `send` → `accepted`/`refused`
(record) → `schedule` → `report`. A resend joins at `send`. `Deliver` stands for
`mark_delivered` and for `mark_received`, which repeats its code. Deletion is not
asked about when an operation loads a delivery, as in the API's lookup; the
cabinet filters in some views, which allows fewer behaviours. The promise of
`Announcement` is read off what leaves the program: the owner's arrival time is
claimed by the insert (`StartCreate`), the first message is handed over by the
start's `Send` and repeated by a resend's, `StartSchedule` plans or fails and goes
on, `Report` reports.

*OnTheWayMessage.* Its `send`/`save`/`wipe`/`write` are `_send_and_record` and
`_record_attempts` in full; the start's guard and status are left to
`DeliveryLifecycle`, of which this module gives the detail between `create` and
`report`. `declared` is the set of channels whose provider class has the class
attribute `channel` that `chain_channel_paths` reads: with the shipped
`ViberProvider` and `SmsProvider` it is empty. Escalation is taken to be enabled
(`FALLBACK_ESCALATION_ENABLED`); without it there is nothing to plan.

*MerchantEvents.* `notify_merchant` builds the payload from the instance that the
request has saved and stamps it; a merchant goes by `sent_at`. `Emit` is joined to
the last step of a start and of a delivery mark, `Post` is the queue's call and
`PostUnanswered` one whose answer was lost. Events are followed only while
requests come one after the other and none is cut short (`followed`): after an
overlap their order need not be that of the saves, and the code promises none.

*ApiRequests.* `resolve_shop` reads the key once (`Authenticate`) and saves
`last_used_at` alone (`NoteUse`) before the view runs (`Accept`, `Handle`).

*UsageMetering.* `ProviderUsage.record` is `get_or_create` (`RecordRow`) and an
`F`-update (`RecordCount`); Maps is counted before the call, messages after they
were accepted (the provider's answer said so). A call may fail before or after it reached Maps, and without an API
key it is counted and never made, so the count may be too high and never too low.
`summary` is one process's memory cache. `quota_summary` takes the time once, after
the miss and before it reads a bucket, so `SummaryMiss` settles the month that
`ReadMaps` later sums, and a summary begun before midnight shows the old month. A
summary with a tick of the clock between its miss and its `Keep` (`slow`) is exempt
from the claim about its age. `past` keeps the counts of the last lifetime.

*RatingRequest.* The queue keeps a task until a callback returns, and may call
again after that; a worker that dies leaves the task there.

*RatingTime.* Times are minutes of Belgrade wall clock; `FormatEta` drops the
date as `strftime("%H:%M")` does, `Today` puts today's back. A start whose callback
the queue refuses goes on with nothing planned, and its recipient is never asked.

*CabinetFeed.* A signature is the list of ids and statuses itself: different
lists are taken to hash differently. The script has one poll under way at most.

*TrackingLimiter.* `settings.py` configures no cache, so Django's in-memory cache
of the process applies. Its cull at 300 entries is not modelled.

## Runs

| Run | Bounds | Shows |
|---|---|---|
| `lifecycle_all` | 2 requests of all 6 operations, 2 arrival times | typing, `StartActsOnce`, `EtaToldIsStored`, `NoLooseEnds`, `MerchantTold`, `ColumnOwners`, `KeepsPromise` (refinement of `Announcement`: no message, plan or report twice, out of order or for an unclaimed time), and `IInv`, from which the proofs start |
| `events_all` | 2 requests (start, ready, delivered, resend), 1 time, fair | `DeliveredIsKept`, `UnderWayIsKept`, `OnTheWayIsAnnounced`; `LatestEventIsTrue` and `MerchantCatchesUp` while requests come one after the other |
| `message_all` | 2 workers, Viber and SMS, 2 messages, 1 resend | `IInv` (with typing), from which the proofs start; `ArrivalIsReal`, `ArrivalIsReported`, `StartIsReported`; `StatusIsOfCurrentMessage`, `OncePerChannel` and `NeverLowered` where handlers did not overlap |
| `message_escalates` | 2 workers, 3 channels, 2 messages, both deployments, fair | `EscalatesToTheEnd` |
| `rating_all` | 2 workers, 2 numbers, 1 crash, fair | `AskedAtMostOnce` where callbacks did not overlap, `RatingToldOnce`, `OptOutIsFinal`, `AskedInTheEnd` |
| `time_all` | two days, the clock at every edge of day and window, computed and typed times | `PlannedInWindow`, `ComputedAskedInWindow` |
| `create_all` | 3 workers, 2 shops, 1 key text, 3 deliveries, 2 API keys | `SameKeySameDelivery`, `NoDuplicateLeft`, `KeepsPromise` (refinement of `KeyPromise`), all behind the API keys, and `RevokedIsFinal` |
| `feed_all` | 2 deliveries, 3 statuses, 3 changes, fair | typing, `ReloadsOnlyForChanges`, `PageCatchesUp` |
| `limiter_all` | 1 process, 2 threads, limit 2, window 3, 6 ticks | `RefusalFollowsService`; `LimitPerProcess` where requests did not overlap |
| `metering_all` | 1 process, 2 threads, 1 address, 1 counted channel, 3 calls, months of 3 ticks, a summary of 2, 4 ticks | `MapsNeverUndercounted` and `MessagesCountedOnce` up to any month, `MonthMissesFew` month by month, `KnownAddressIsFree`, `SummaryIsRecent` |

Why the bounds are enough: requests of one delivery meet in at most one unique
constraint and one row, so two requests show every pair of orders; a third could
only lose as the second does, and the proofs cover any number. Two arrival times
tell whose was told. Two messages let a receipt belong to a message before the
last. Two shops with one key text show that keys are the shop's own, three
requests a winner and a loser observed by a third. The clock values are the
edges, one minute on each side of them, and noon. Three changes let one fall
before, inside and after a rendering of the page. A window of three ticks and a
limit of two let a window slide over an expiry. Two threads show every order of
two counts, two misses of one address and a count inside a summary; four ticks let
a month turn and a summary expire in either order. Two processes share nothing but
the database, where their threads meet like those of one.

`CHECK_DEADLOCK FALSE` stands where a bound ends the behaviour (messages,
deliveries, the clock) or where the system is done.

### Where code and documentation disagree

Each of these runs checks one property that the repository states, and TLC finds
a behaviour of the code that violates it.

| Run | Statement | What happens |
|---|---|---|
| `message_undeclared` | a scheduler's failure does not break the start (`services.py:380`) | with escalation on, the default chain has no `channel` attributes; the start raises after sending |
| `time_midnight` | messages only inside the window (PRD, FR-16) | a time confirmed around midnight is taken for today, lies in the past, and the callback is due at once |

Further behaviours are in the models and no run is devoted to them; a proviso in
a passing property marks where each bites.

* A start that loses the race overwrites the arrival time before the constraint
  stops it, though a repeated start is a no-op (`services.py:336`). Hence the
  claimants named in `EtaToldIsStored`.
* `mark_ready` with an instance loaded before a start saved takes the delivery
  back to created, though `services.py:391` says another status is not touched.
  Hence the moment of rest in `UnderWayIsKept`.
* Two receipts at once lower read to delivered, against `webhooks.py:24`. Hence
  `~overlapped` in `NeverLowered`.
* Two rating callbacks at once both ask, against `services.py:454`. Hence
  `~overlapped` in `AskedAtMostOnce`.
* A worker that dies between a delivery and its key makes the retry create a
  second one, against `api.py:313`. Hence `~cut` in `NoDuplicateLeft`.
* A change between the list query and the signature leaves the page stale for
  good. Hence `torn` in `PageCatchesUp`.
* `models.py:54` of `integrations` speaks of a month in UTC; `usage_period` takes
  the month of `QUOTA_RESET_TZ`, and the model takes one kind of month.
* `metering.py:1` speaks of real calls, but a geocode that ends for want of an API
  key is counted too. Hence `MapsNeverUndercounted` is an inequality.
* Each process has a rate counter of its own, and overlapping requests write back
  the same count, so an address gets more than `TRACKING_RATE_LIMIT`; the
  lifetime is renewed by every request let through, so a steady client below the
  rate is refused in the end (`tracking/views.py:43`, `settings.py:216`). Hence
  `LimitPerProcess` is of one process without overlaps.

### Fairness

`WF` on a worker's own steps: a gunicorn thread that has begun a request goes on
with it until it returns or the worker is killed (`--timeout 60`); the kill is
the `Crash` action, which is never forced. Arrivals are not fair: nobody has to
press a button. Callbacks of the task queue are strongly fair for *some* worker:
Cloud Tasks repeats a call until it gets a 2xx answer, also when workers are busy
in between. The queue posts
an event until the merchant answers, and the merchant answers some time (`WF` on a
`Post` of some event). The browser's timer goes on (`WF` on `Browser`) while the page is
visible and nobody types. Receipts are never fair: the provider may not send them.

## Proofs

TLAPS checks the theorems for every value of the constants; TLC evaluates the
assumptions on each run, and checked the inductive invariants on small
instances before they were proved. All safety properties and both refinements that
the passing runs check are theorems; of most liveness properties the safety half is,
that is, that what has to happen is always still under way.

* `DeliveryLifecycleProofs`. The safety properties are not inductive. `IInv` adds:
  a request stands only at places of its operation (`PlacesOK`); without a
  notification nobody has announced, planned or told anything
  (`NothingBeforeNotif`); the notification has one owner, which still has its
  arrival time and sends, plans and reports in that order (`OneOwner`); before the
  notification a lone claimant's arrival time is the stored one, after it, with
  no loser about to fail, stored, loaded and told times agree (`EtaBeforeNotif`,
  `EtaAfterNotif`); what was not reported is about to be (`ReportsPending`).
  `InvStep` has one step per action and below it one per conjunct it disturbs.
  From it follow `StartIsOnce`, `LooseEndsNeedACut`, `ToldIsStored`,
  `MerchantIsTold`; `ColumnsAreOwned` needs the action alone; `Refinement` maps
  `StartCreate` to `Claim`, a start's `Send` to `HandOver`, a resend's to `Repeat`,
  `StartSchedule` to `Plan` or, if the queue fails, to a stutter, a start's `Report`
  to `Report`. That each happens only when the promise allows it is what `OneOwner`
  gives (`OwnerKnows`); that a resend only repeats a claimed announcement,
  `NothingBeforeNotif`. `DeliveredIsFinal` and `UnderWayIsFinal` use a lemma (`StatusStep`)
  that a state without a request that could take the status back stays so, and
  temporal steps on top.
* The second part of `DeliveryLifecycleProofs` is about `MerchantEvents`.
  `EventsAside`: the composition implements `DeliveryLifecycle`, so all its theorems
  hold of it. `LatestEvent` uses `EventsInv`: one request at a time works on a true
  instance (`OneByOne`), and the latest event tells the stored status or a request is
  about to send one that does. `LatestNotLost` is the safety half of
  `MerchantCatchesUp`: between requests the latest event stays in the queue until the
  merchant heard it, and then the merchant knows, whatever is posted late or again.
* `ApiRequestsProofs`. `IInv` adds to `SameKeySameDelivery`: unused ids have
  no delivery, each request holds its own delivery or its key's, and a delivery
  under creation is nobody else's and no key's. Hence the erased duplicate is
  never one that a client was told of. `NoDuplicates` adds that a delivery without
  a key is in the hands of a request (`NoOrphans`). `Refinement` maps the insert of a
  key to `Settle`, an answer to `Tell` and all else, the erased duplicate and a
  worker's death included, to a stutter of `KeyPromise`; what a key stands for is its
  row as long as its delivery exists, so erasing the wrong delivery would break it.
  `BehindTheKeys`: every step of the API with its keys is a step of
  `IdempotentCreate` or leaves it alone, so `SameKeyBehindTheKeys` carries these
  promises over. `RevocationIsFinal` rests on revoked keys staying in `revoked`,
  which `NoteUse` could have broken.
* `OnTheWayMessageProofs`, for any chain, any number of workers, messages and
  resends. `IInv` has five parts: typing; the places of each handler (`PlacesOK`);
  what reports, receipts under way and the row say did happen (`ReceiptsTrue`, by
  the lemma that what happened to a message is not taken back); without overlaps
  the acting handler knows the row as it is (`OneAtATime`); and every use of a
  channel is among the attempts or about to be (`UsesRecorded`). From it follow
  `NoArrivalInvented`, `CurrentMessage`, `NoChannelTwice` and, looking at one more
  step, `ArrivalStays`. `ArrivalsTold` and `StartsReported` are inductive on top of
  it; the latter says `StartIsReported` only where every class of the chain declares
  its channel, which is just what the disagreement below the runs is about.
  `ChainIsPursued` is the safety half of `EscalatesToTheEnd`: a callback is planned or
  a handler that will plan one is under way, until channels or reasons run out. It
  rests on the start being over with its attempts before anybody escalates, and on an
  escalation that nobody took having used every channel left.
* `RatingRequestProofs`. Three invariants beside typing: places, callbacks one at a
  time with one row (`OneCallback`), and an event that is told or about to be told
  by one worker (`OneEvent`). They give `AskedOnce` and `ToldOnce`.
  `OptedOutForGood` needs one lemma: a blocked number that nobody is about to ask
  stays so in every step. `PlannedIsKept` is the safety half of `AskedInTheEnd`: the
  queue still has the task unless the recipient was asked, somebody opted out, a
  callback is about to ask, or one died with the row in hand. It needs that a row in
  hand belongs to a callback between its insert and its record (`RowInHand`).
* `UsageMeteringProofs`. `PaidOnce`: how often an address was stored and how many
  workers are about to ask for it are together at most the workers; asking ends
  with the store that counts it, and nobody begins to ask for a stored address.
  The invariant of the sums (`CountInv`) says where jobs stand (`JobsPlaced`); that up
  to any month the calls that reached Maps and the workers about to call are together
  at most those counted (`MapsCovered`); that messages counted and workers about to
  count are at most, and without a death just, those accepted (`MessagesCovered`);
  and that what a worker has read, and what a live summary shows, is for one month
  between the counts of a lifetime ago and those of now (`PastBelow`, `JobsRecent`,
  `SummaryRecent`: a summary was kept at its expiry less its lifetime, and read in the
  same tick). A worker's one use or count moves a sum by one from its month on;
  that is shown by a first-order induction over months: a set of months that breaks
  it would have a least one. Hence `MapsCounted`, `MessagesCounted`, `SummaryFresh`.
  `MonthsNearlyRight` is about one month by itself: what the current month misses
  and the workers that may yet call without counting in it (`Owing`) are together at
  most the workers (`MonthCovered`); a count adds a worker and covers it, a call
  removes one, and when the month turns the new one misses nothing yet.
* `RatingTimeProofs`. The clamp lands in the window, moves a time forward by at
  most a night, leaves times inside alone and keeps their order; hence the
  planned callback of every start lies in the window (`PlansInWindow`), and with a
  computed arrival time it never lies in the past when it is planned, so the
  recipient is asked in the window (`ComputedAsksInWindow`). The latter depends on the
  promptness of the queue in the model: a callback runs in the minute it is due.
* `CabinetFeedProofs`. Each reload is paid for by a change of its own: a page that is
  about to reload, or will after its next poll, has a change in hand that no reload
  was spent on (`ChangeInHand`), hence `ReloadsAreEarned`. `SignatureIsOfPage` is the safety half of `PageCatchesUp`:
  unless torn, a page carries the signature of the list it shows.
* `TrackingLimiterProofs`. A counter expires a window after the last request let
  through (`ExpiresAfterLast`), so without overlaps it is never less than what was let
  through in the last window (`Counted`); hence `LimitKept`, for every limit and
  window. With overlaps a live counter still has a request let through behind it that
  is less than a window old, hence `RefusedAfterService`. The history `served` gives
  the requests let through up to each moment, so a window is a difference.

Only model-checked: the liveness properties (`MerchantCatchesUp`,
`OnTheWayIsAnnounced`, `EscalatesToTheEnd`, `AskedInTheEnd`, `PageCatchesUp`),
since the prover does not reason about fairness. The theorems say nothing of whether
the cases they speak of occur; the runs do, which between them take every action.

## Not modelled, and why

* Accounts and registration, forms, phone numbers, templates, admin, migrations:
  sequential and reached by unit tests, or decided by one constraint.
* What HTTP calls, routes and places contain; the SMS bucket, which is computed as
  Viber's; the limits the summary is compared with, which are only displayed.
* Texts of messages, the tracking token's randomness, signatures and secrets of
  webhooks; the throttle, which is a class of Django REST framework.
* The order of events after requests have overlapped.
* Days of 23 or 25 hours.
* `INFOBIP_CHANNEL`, Telegram and WhatsApp as such: each is a channel of the chain.
* The culling of Django's memory cache at 300 entries.

## Plan

Done: the lifecycle and its events, the message and its receipts, the rating
request and its time, creation behind the API keys, metering, the cabinet and the
limiter, with the theorems above. What is left:

1. An abstract specification of the rating request (asked at most once, never
   after an opt-out) with `RatingRequest` shown to implement it.
2. The safety half of `OnTheWayIsAnnounced`.
3. Composition of `IdempotentCreate` with the start of a duplicate before it is
   erased, and of `OnTheWayMessage` with `DeliveryLifecycle`'s notification.
