----------------------------- MODULE UsageMetering -----------------------------
(***************************************************************************)
(* What the service knows of the quotas it uses up (integrations/).  Calls *)
(* to Google Maps and messages are counted per month in ProviderUsage by   *)
(* wrappers around the providers, in database statements of their own:     *)
(* before a call to Maps, after an accepted message.  Around the metered   *)
(* geocoder lies the cache of addresses.  The cabinet shows what is used,  *)
(* from a summary that each server process keeps in its memory for a       *)
(* minute.                                                                 *)
(***************************************************************************)
EXTENDS Naturals, FiniteSets, FiniteSetsExt

CONSTANTS
  Processes,   \* server processes, each with a memory cache
  Threads,     \* threads of a process
  Addresses,   \* addresses, trimmed and in lower case
  Channels,    \* MESSAGING_METRICS: the channels that are counted
  Ttl,         \* lifetime of the summary, 60 seconds in the code
  MonthLength, \* length of a month of QUOTA_RESET_TZ
  LastTime,    \* bound: the clock stops there
  MaxCalls     \* bound: no new call once a metric has been used so often

ASSUME TimesAssumption ==
  Ttl \in Nat /\ MonthLength \in Nat \ {0} /\ LastTime \in Nat /\ MaxCalls \in Nat

ASSUME ChannelsAssumption ==
  "viber" \in Channels /\ Channels \cap {"maps_geocode", "maps_route", "maps"} = {}

Workers == Processes \X Threads
ASSUME WorkersAssumption == IsFiniteSet(Workers)

Times   == 0..LastTime

MapsMetrics == {"maps_geocode", "maps_route"}
Metrics     == MapsMetrics \cup Channels

(* usage_period: the month a moment belongs to. *)
Month(t) == t \div MonthLength
LastMonth == Month(LastTime)
Months    == 0..LastMonth

(* The SMS bucket is computed as Viber's is; other channels have none. *)
Buckets == {"viber", "maps"}

VARIABLES
  now,      \* the clock
  count,    \* ProviderUsage: the count of each metric and month
  geocodes, \* addresses in GeocodeCache
  summary,  \* each process's cached summary and the time it expires
  pc,       \* where each worker stands
  job,      \* what each worker is about
  used,     \* history: calls that reached Maps and accepted messages, by month
  found,    \* history: times an address was put in the cache
  lost,     \* history: a worker died before it had counted an accepted message
  past      \* history: the counts as they were Ttl ticks ago and since

dbVars      == <<count, geocodes>>
historyVars == <<used, found, lost, past>>
vars        == <<now, dbVars, summary, pc, job, historyVars>>

Places == {"idle", "row", "count", "call", "store", "viber", "maps", "keep"}

Used   == [Buckets -> Nat]
Counts == [Metrics \X Months -> Nat]
Job  == [metric : Metrics \cup {"none"}, address : SUBSET Addresses, month : Months,
         shown : Used, slow : BOOLEAN]

NothingUsed == [b \in Buckets |-> 0]
NoSummary == [shown |-> NothingUsed, expires |-> 0, slow |-> FALSE]
NoJob == [metric |-> "none", address |-> {}, month |-> 0, shown |-> NothingUsed, slow |-> FALSE]

TypeOK ==
  /\ now \in Times
  /\ count \in Counts
  /\ geocodes \subseteq Addresses
  /\ summary \in [Processes -> [shown : Used, expires : 0..(LastTime + Ttl), slow : BOOLEAN]]
  /\ pc \in [Workers -> Places]
  /\ job \in [Workers -> Job]
  /\ used \in Counts
  /\ found \in [Addresses -> Nat]
  /\ lost \in BOOLEAN
  /\ past \in [1..Ttl -> Counts]

Init ==
  /\ now = 0
  /\ count = [mm \in Metrics \X Months |-> 0]
  /\ geocodes = {}
  /\ summary = [p \in Processes |-> NoSummary]
  /\ pc = [w \in Workers |-> "idle"]
  /\ job = [w \in Workers |-> NoJob]
  /\ used = count
  /\ found = [a \in Addresses |-> 0]
  /\ lost = FALSE
  /\ past = [n \in 1..Ttl |-> count]

-----------------------------------------------------------------------------
Goto(w, place) == pc' = [pc EXCEPT ![w] = place]

End(w) == Goto(w, "idle") /\ job' = [job EXCEPT ![w] = NoJob]

Begin(w, place, j) ==
  /\ pc[w] = "idle"
  /\ Goto(w, place)
  /\ job' = [job EXCEPT ![w] = j]

(* The sum of a metric's numbers, from the first month up to month k. *)
Total(f, m, k) ==
  LET sum[j \in Months] == IF j = 0 THEN f[<<m, 0>>] ELSE sum[j - 1] + f[<<m, j>>]
  IN  sum[k]

(* The bound on calls: those counted or taken, and those about to be. *)
Calls(m) == Total(IF m \in MapsMetrics THEN count ELSE used, m, LastMonth)
MoreCalls ==
  MapThenSumSet(Calls, Metrics)
    + Cardinality({w \in Workers : pc[w] \in {"row", "count"} /\ job[w].metric \in MapsMetrics})
      < MaxCalls

(* One more use of a metric, in the month of the moment. *)
Use(m) == used' = [used EXCEPT ![<<m, Month(now)>>] = @ + 1]

(* A slip for GeocodeMiss: the meter is put around the cache. *)
GeocodeAlways(w, a) ==
  /\ MoreCalls
  /\ Begin(w, "row", [NoJob EXCEPT !.metric = "maps_geocode", !.address = {a}])
  /\ UNCHANGED <<now, dbVars, summary, historyVars>>

(* A delivery or a shop's origin is geocoded and the address is not known.  *)
(* A known one, and an empty one, end without a change.                     *)
GeocodeMiss(w, a) ==
  /\ MoreCalls
  /\ a \notin geocodes
  /\ Begin(w, "row", [NoJob EXCEPT !.metric = "maps_geocode", !.address = {a}])
  /\ UNCHANGED <<now, dbVars, summary, historyVars>>

(* compute_eta, when shop and recipient have coordinates. *)
Route(w) ==
  /\ MoreCalls
  /\ geocodes # {}
  /\ Begin(w, "row", [NoJob EXCEPT !.metric = "maps_route"])
  /\ UNCHANGED <<now, dbVars, summary, historyVars>>

(* A slip for Send: a message is counted although nobody took it. *)
SendAnyway(w, c) ==
  /\ MoreCalls
  /\ Begin(w, "row", [NoJob EXCEPT !.metric = c])
  /\ used' \in {used, [used EXCEPT ![<<c, Month(now)>>] = @ + 1]}
  /\ UNCHANGED <<now, dbVars, summary, found, lost, past>>

(* The chain delivers a message on a channel that is counted; a message it *)
(* does not deliver ends without a change.                                 *)
Send(w, c) ==
  /\ MoreCalls
  /\ Begin(w, "row", [NoJob EXCEPT !.metric = c])
  /\ Use(c)
  /\ UNCHANGED <<now, dbVars, summary, found, lost, past>>

(* A slip for RecordRow: the month is that of the server's start. *)
RecordFirstMonth(w) ==
  /\ pc[w] = "row"
  /\ job' = [job EXCEPT ![w].month = 0]
  /\ Goto(w, "count")
  /\ UNCHANGED <<now, dbVars, summary, historyVars>>

(* ProviderUsage.record: the month is taken, its row is made with count 0 *)
(* unless it is there ...                                                 *)
RecordRow(w) ==
  /\ pc[w] = "row"
  /\ job' = [job EXCEPT ![w].month = Month(now)]
  /\ Goto(w, "count")
  /\ UNCHANGED <<now, dbVars, summary, historyVars>>

AfterCount(w) ==
  IF job[w].metric \in MapsMetrics THEN Goto(w, "call") /\ job' = [job EXCEPT ![w].month = 0] ELSE End(w)

(* A slip for RecordCount: the instance's count plus one is saved. *)
SaveOwnCount(w) ==
  /\ pc[w] = "count"
  /\ LET mm   == <<job[w].metric, job[w].month>>
         same == \E q \in Workers \ {w} :
                   pc[q] = "count" /\ <<job[q].metric, job[q].month>> = mm
     IN  count' = IF same THEN count ELSE [count EXCEPT ![mm] = @ + 1]
  /\ AfterCount(w)
  /\ UNCHANGED <<now, geocodes, summary, historyVars>>

(* ... and its count goes up by one, in one statement. *)
RecordCount(w) ==
  /\ pc[w] = "count"
  /\ count' = [count EXCEPT ![<<job[w].metric, job[w].month>>] = @ + 1]
  /\ AfterCount(w)
  /\ UNCHANGED <<now, geocodes, summary, historyVars>>

(* Maps is asked.  An error may come before or after the request reached   *)
(* it, and without an API key nothing is sent; a result goes to the cache. *)
Geocode(w) ==
  /\ pc[w] = "call" /\ job[w].metric = "maps_geocode"
  /\ \/ Use("maps_geocode") /\ Goto(w, "store") /\ UNCHANGED job
     \/ (Use("maps_geocode") \/ UNCHANGED used) /\ End(w)
  /\ UNCHANGED <<now, dbVars, summary, found, lost, past>>

ComputeRoute(w) ==
  /\ pc[w] = "call" /\ job[w].metric = "maps_route"
  /\ Use("maps_route") \/ UNCHANGED used
  /\ End(w)
  /\ UNCHANGED <<now, dbVars, summary, found, lost, past>>

(* update_or_create *)
Store(w) ==
  /\ pc[w] = "store"
  /\ geocodes' = geocodes \cup job[w].address
  /\ found' = [a \in Addresses |-> IF a \in job[w].address THEN found[a] + 1 ELSE found[a]]
  /\ End(w)
  /\ UNCHANGED <<now, count, summary, used, lost, past>>

-----------------------------------------------------------------------------
(* _used: of a metric's counts f, Viber's bucket has those of all months, *)
(* the bucket of Maps those of month k.                                   *)
InBucket(f, b, k) ==
  IF b = "viber" THEN Total(f, "viber", LastMonth)
  ELSE f[<<"maps_geocode", k>>] + f[<<"maps_route", k>>]

Live(p) == now < summary[p].expires

(* A page of the cabinet finds no summary.  A live one is shown as it is.   *)
(* The month is settled here, before any bucket is read.                    *)
SummaryMiss(w) ==
  /\ ~Live(w[1])
  /\ Begin(w, "viber", [NoJob EXCEPT !.month = Month(now)])
  /\ UNCHANGED <<now, dbVars, summary, historyVars>>

(* The buckets are summed one after the other. *)
ReadBucket(w, b, place) ==
  /\ pc[w] = b
  /\ job' = [job EXCEPT ![w].shown = [@ EXCEPT ![b] = InBucket(count, b, job[w].month)]]
  /\ Goto(w, place)
  /\ UNCHANGED <<now, dbVars, summary, historyVars>>

ReadViber(w) == ReadBucket(w, "viber", "maps")
ReadMaps(w)  == ReadBucket(w, "maps", "keep")

(* A slip for Keep: the entry is set without a lifetime. *)
KeepForever(w) ==
  /\ pc[w] = "keep"
  /\ summary' = [summary EXCEPT ![w[1]] =
                   [shown |-> job[w].shown, expires |-> LastTime + Ttl, slow |-> job[w].slow]]
  /\ End(w)
  /\ UNCHANGED <<now, dbVars, historyVars>>

Keep(w) ==
  /\ pc[w] = "keep"
  /\ summary' = [summary EXCEPT ![w[1]] =
                   [shown |-> job[w].shown, expires |-> now + Ttl, slow |-> job[w].slow]]
  /\ End(w)
  /\ UNCHANGED <<now, dbVars, historyVars>>

(* An exception ends the request, or the process is killed and starts anew. *)
Uncounted(w) == pc[w] \in {"row", "count"} /\ job[w].metric \in Channels

Crash(w) ==
  /\ pc[w] # "idle"
  /\ lost' = (lost \/ Uncounted(w))
  /\ End(w)
  /\ UNCHANGED <<now, dbVars, summary, used, found, past>>

Restart(p) ==
  /\ lost' = (lost \/ \E t \in Threads : Uncounted(<<p, t>>))
  /\ summary' = [summary EXCEPT ![p] = NoSummary]
  /\ pc' = [w \in Workers |-> IF w[1] = p THEN "idle" ELSE pc[w]]
  /\ job' = [w \in Workers |-> IF w[1] = p THEN NoJob ELSE job[w]]
  /\ UNCHANGED <<now, dbVars, used, found, past>>

(* An expired summary is as good as none.  A summary is slow when the tick *)
(* comes between its miss and its Keep.                                    *)
Tick ==
  /\ now < LastTime
  /\ now' = now + 1
  /\ past' = [n \in 1..Ttl |-> IF n = 1 THEN count ELSE past[n - 1]]
  /\ job' = [w \in Workers |-> [job[w] EXCEPT !.slow = @ \/ pc[w] \in {"viber", "maps", "keep"}]]
  /\ summary' = [p \in Processes |-> IF now + 1 < summary[p].expires THEN summary[p] ELSE NoSummary]
  /\ UNCHANGED <<dbVars, pc, used, found, lost>>

Work(w) ==
  \/ \E a \in Addresses : GeocodeMiss(w, a)
  \/ \E c \in Channels : Send(w, c)
  \/ Route(w) \/ RecordRow(w) \/ RecordCount(w)
  \/ Geocode(w) \/ ComputeRoute(w) \/ Store(w)
  \/ SummaryMiss(w) \/ ReadViber(w) \/ ReadMaps(w) \/ Keep(w)

Next ==
  \/ \E w \in Workers : Work(w) \/ Crash(w)
  \/ \E p \in Processes : Restart(p)
  \/ Tick

Spec == Init /\ [][Next]_vars

-----------------------------------------------------------------------------
(***************************************************************************)
(* No call to Maps escapes the count, whatever dies and whenever the month *)
(* turns: up to the end of any month no more calls reached Maps than were  *)
(* counted (the meter writes before it calls).                             *)
(***************************************************************************)
MapsNeverUndercounted ==
  \A m \in MapsMetrics, k \in Months :
    Total(used, m, k) <= Total(count, m, k)

(***************************************************************************)
(* The quota of Maps is a month's, and each month's count is nearly right  *)
(* by itself: a call counted before midnight may be made after it, and so  *)
(* be missing from the month it is billed in, but no month misses more     *)
(* than one call per worker, however often the others call                 *)
(* (ProviderUsage.record takes the month anew for each call).              *)
(***************************************************************************)
MonthMissesFew ==
  \A k \in Months :
    InBucket(used, "maps", k) <= InBucket(count, "maps", k) + Cardinality(Workers)

(***************************************************************************)
(* A message is counted after it was taken, never without: up to the end   *)
(* of any month no more were counted than taken; and if no worker died in  *)
(* between, all are counted once nobody is about to (concurrent            *)
(* increments do not swallow each other).                                  *)
(***************************************************************************)
MessagesCountedOnce ==
  \A c \in Channels :
    /\ \A k \in Months : Total(count, c, k) <= Total(used, c, k)
    /\ ~lost /\ ~(\E w \in Workers : Uncounted(w)) =>
         Total(count, c, LastMonth) = Total(used, c, LastMonth)

(* The workers that are about to geocode an address. *)
Asking(a) == {w \in Workers : a \in job[w].address}

(***************************************************************************)
(* An address is paid for once, or by workers that overlap: after it has   *)
(* been stored, the times it was stored and the workers still asking for   *)
(* it are together no more than there are workers (CachingMapsProvider     *)
(* lies around the meter and the provider).                                *)
(***************************************************************************)
KnownAddressIsFree ==
  \A a \in Addresses :
    found[a] > 0 => found[a] + Cardinality(Asking(a)) <= Cardinality(Workers)

(***************************************************************************)
(* The cabinet's summary is less than a lifetime old, unless the clock     *)
(* moved while it was computed: there is a moment less than a lifetime ago *)
(* such that each bucket shown, that of Maps for the month of this moment, *)
(* has every use counted a lifetime ago and none that is not counted yet   *)
(* (quota_summary, _used).  So for a lifetime after midnight the last      *)
(* month may still be shown, and never for longer.                         *)
(***************************************************************************)
SummaryIsRecent ==
  \A p \in Processes : Live(p) /\ ~summary[p].slow =>
    \E s \in Times :
      /\ s <= now /\ now < s + Ttl
      /\ \A b \in Buckets :
           summary[p].shown[b] \in InBucket(past[Ttl], b, Month(s))..InBucket(count, b, Month(s))

=============================================================================
