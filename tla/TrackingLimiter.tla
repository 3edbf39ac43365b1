--------------------------- MODULE TrackingLimiter ---------------------------
(***************************************************************************)
(* The limit on requests for the public tracking page, for one client      *)
(* address (_rate_limited of tracking/views.py): a counter in Django's     *)
(* cache, read and written back in two calls, whose lifetime starts anew   *)
(* with every request let through.  The settings name no cache, so the     *)
(* counter lives in the memory of each server process (Dockerfile: two of  *)
(* them, with threads).                                                    *)
(***************************************************************************)
EXTENDS Naturals

CONSTANTS
  Processes, \* server processes, each with a cache of its own
  Threads,   \* threads of a process
  Limit,     \* TRACKING_RATE_LIMIT
  Window,    \* lifetime of the counter, 60 seconds in the code
  LastTime   \* bound: the clock stops there

ASSUME LimitAssumption == Limit \in Nat \ {0} /\ Window \in Nat \ {0} /\ LastTime \in Nat

Workers == Processes \X Threads
Times   == 0..LastTime

VARIABLES
  now,     \* the clock
  cache,   \* each process's counter and the time it expires
  read,    \* the count a worker has read and not yet written back, Idle without
  served,  \* history: requests each process let through up to a time
  refused, \* history: times at which a process refused
  overlapped \* history: processes whose requests have overlapped

vars == <<now, cache, read, served, refused, overlapped>>

Idle == Limit

TypeOK ==
  /\ now \in Times
  /\ cache \in [Processes -> [count : 0..Limit, expires : 0..(LastTime + Window)]]
  /\ read \in [Workers -> 0..Limit]
  /\ served \in [Processes -> [Times -> Nat]]
  /\ refused \in [Processes -> SUBSET Times]
  /\ overlapped \in SUBSET Processes

Init ==
  /\ now = 0
  /\ cache = [p \in Processes |-> [count |-> 0, expires |-> 0]]
  /\ read = [w \in Workers |-> Idle]
  /\ served = [p \in Processes |-> [t \in Times |-> 0]]
  /\ refused = [p \in Processes |-> {}]
  /\ overlapped = {}

(* cache.get(key, 0): an expired entry is as good as none. *)
Count(p) == IF now < cache[p].expires THEN cache[p].count ELSE 0

(* Below the limit: the request goes on with the count it has read. *)
Admit(p, t) ==
  /\ read[<<p, t>>] = Idle
  /\ Count(p) < Limit
  /\ read' = [read EXCEPT ![<<p, t>>] = Count(p)]
  /\ overlapped' = overlapped \cup {q \in {p} : \E u \in Threads : read[<<p, u>>] # Idle}
  /\ UNCHANGED <<now, cache, served, refused>>

(* A slip for Refuse: the refused request counts as a request. *)
RefuseAndRenew(p, t) ==
  /\ read[<<p, t>>] = Idle
  /\ Count(p) >= Limit
  /\ refused' = [refused EXCEPT ![p] = @ \cup {now}]
  /\ cache' = [cache EXCEPT ![p].expires = now + Window]
  /\ UNCHANGED <<now, read, served, overlapped>>

(* At the limit: 429, and the counter is left alone. *)
Refuse(p, t) ==
  /\ read[<<p, t>>] = Idle
  /\ Count(p) >= Limit
  /\ refused' = [refused EXCEPT ![p] = @ \cup {now}]
  /\ UNCHANGED <<now, cache, read, served, overlapped>>

(* One more request let through, up to now and up to any later time. *)
Serve(p) ==
  served' = [served EXCEPT ![p] = [t \in Times |-> IF now <= t THEN @[t] + 1 ELSE @[t]]]

(* A slip for WriteBack: the lifetime of the counter is not renewed. *)
KeepLifetime(p, t) ==
  /\ read[<<p, t>>] # Idle
  /\ cache' = [cache EXCEPT ![p] =
                 [count |-> read[<<p, t>>] + 1,
                  expires |-> IF now < @.expires THEN @.expires ELSE now + Window]]
  /\ read' = [read EXCEPT ![<<p, t>>] = Idle]
  /\ Serve(p)
  /\ UNCHANGED <<now, refused, overlapped>>

(* cache.set(key, count + 1, timeout=60), and the page is served. *)
WriteBack(p, t) ==
  /\ read[<<p, t>>] # Idle
  /\ cache' = [cache EXCEPT ![p] = [count |-> read[<<p, t>>] + 1, expires |-> now + Window]]
  /\ read' = [read EXCEPT ![<<p, t>>] = Idle]
  /\ Serve(p)
  /\ UNCHANGED <<now, refused, overlapped>>

Tick ==
  /\ now < LastTime
  /\ now' = now + 1
  /\ UNCHANGED <<cache, read, served, refused, overlapped>>

Next ==
  \/ \E p \in Processes, t \in Threads : Admit(p, t) \/ Refuse(p, t) \/ WriteBack(p, t)
  \/ Tick

Spec == Init /\ [][Next]_vars

-----------------------------------------------------------------------------
(* The requests let through in the window of which t is the last moment. *)
InWindowUpTo(p, t) == served[p][t] - (IF t < Window THEN 0 ELSE served[p][t - Window])

(***************************************************************************)
(* A process whose requests do not overlap lets at most the limit through  *)
(* in any window, whatever it has refused and forgotten before: the        *)
(* renewed lifetime never loses a count too early (_rate_limited).         *)
(***************************************************************************)
LimitPerProcess ==
  \A p \in Processes \ overlapped, t \in Times : InWindowUpTo(p, t) <= Limit

(***************************************************************************)
(* A client that keeps asking is not shut out for good: a refusal follows  *)
(* a request let through less than a window before, since refusals do not  *)
(* renew the counter (_rate_limited, also with overlapping requests).      *)
(***************************************************************************)
RefusalFollowsService ==
  \A p \in Processes : \A t \in refused[p] : InWindowUpTo(p, t) > 0

=============================================================================
